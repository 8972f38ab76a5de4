---------------------------- MODULE CommandProofs ----------------------------
(* The commands of main.rs that run without the REPL: what the tools of a    *)
(* headless turn do, whatever hooks, permissions and other processes add;    *)
(* the table of an evaluation; the configuration's files; the session that   *)
(* a few typed digits name.                                                  *)
EXTENDS Headless, EvalGrid, ConfigFiles, SessionPick, BasicLemmas, FiniteSetTheorems

HSpec == HInit /\ [][HNext]_<<tvars, hvars>>

-----------------------------------------------------------------------------
(* Salvaging the arguments *)

LEMMA ScansSteps ==
    ASSUME NEW s
    PROVE  /\ Scans(s)[0] = Scan0
           /\ \A n \in Nat : Scans(s)[n].end \in Nat
           /\ \A n \in Nat : Scans(s)[n + 1] = ScanStep(Scans(s)[n], s[n + 1])
<1> DEFINE S == [depth : Int, inStr : BOOLEAN, escaped : BOOLEAN, end : Nat, at : Nat]
           F == [n \in Nat |-> [st \in S |-> ScanStep(st, s[n + 1])]]
           Def(f) == [n \in Nat |-> IF n = 0 THEN Scan0 ELSE ScanStep(f[n - 1], s[n])]
<1>1. Scan0 \in S
  BY DEF Scan0
<1>2. ASSUME NEW st \in S, NEW c PROVE ScanStep(st, c) \in S
  <2>1. /\ st.depth \in Int /\ st.inStr \in BOOLEAN /\ st.escaped \in BOOLEAN /\ st.end \in Nat /\ st.at \in Nat
        /\ st.at + 1 \in Nat /\ st.depth + 1 \in Int /\ st.depth - 1 \in Int
    BY <1>2
  <2> DEFINE next == [st EXCEPT !.at = st.at + 1]
  <2>2. next \in S
    BY <2>1
  <2> HIDE DEF next
  <2>3. ASSUME NEW a \in BOOLEAN, NEW b \in BOOLEAN PROVE [next EXCEPT !.escaped = a, !.inStr = b] \in S
    BY <2>2
  <2>4. ASSUME NEW d \in Int, NEW e \in Nat PROVE [next EXCEPT !.depth = d] \in S /\ [next EXCEPT !.depth = d, !.end = e] \in S
    BY <2>2
  <2>5. [next EXCEPT !.inStr = TRUE] \in S
    BY <2>2
  <2>6. ScanStep(st, c) =
          IF st.end # 0 THEN st
          ELSE IF st.inStr
          THEN [next EXCEPT !.escaped = ~st.escaped /\ c = "b", !.inStr = ~(~st.escaped /\ c = "q")]
          ELSE CASE c = "q" -> [next EXCEPT !.inStr = TRUE]
                 [] c = "{" -> [next EXCEPT !.depth = st.depth + 1]
                 [] c = "}" -> [next EXCEPT !.depth = st.depth - 1, !.end = IF st.depth = 1 THEN st.at + 1 ELSE 0]
                 [] OTHER -> next
    BY DEF ScanStep, next
  <2>7. [next EXCEPT !.escaped = ~st.escaped /\ c = "b", !.inStr = ~(~st.escaped /\ c = "q")] \in S
    BY <2>3
  <2>8. [next EXCEPT !.depth = st.depth - 1, !.end = IF st.depth = 1 THEN st.at + 1 ELSE 0] \in S
    BY <2>1, <2>4
  <2>9. [next EXCEPT !.depth = st.depth + 1] \in S
    BY <2>1, <2>4
  <2> HIDE DEF S
  <2> QED
    BY <1>2, <2>2, <2>5, <2>6, <2>7, <2>8, <2>9
<1> HIDE DEF S
<1>3. F \in [Nat -> [S -> S]]
  BY <1>2
<1> HIDE DEF F
<1>4. PICK f : Iterated(f, S, Scan0, F)
  BY <1>1, <1>3, Iterates
<1>5. \A n \in Nat : f[n + 1] = ScanStep(f[n], s[n + 1])
  <2>1. \A n \in Nat : f[n] \in S /\ f[n + 1] = F[n][f[n]]
    BY <1>4 DEF Iterated
  <2> QED
    BY <2>1 DEF F
<1>6. f = Def(f)
  <2>1. ASSUME NEW n \in Nat PROVE f[n] = IF n = 0 THEN Scan0 ELSE ScanStep(f[n - 1], s[n])
    <3>1. CASE n = 0
      BY <1>4, <3>1 DEF Iterated
    <3>2. CASE n # 0
      <4>1. n - 1 \in Nat /\ (n - 1) + 1 = n
        BY <3>2
      <4>2. f[(n - 1) + 1] = ScanStep(f[n - 1], s[(n - 1) + 1])
        BY <4>1, <1>5
      <4> QED
        BY <3>2, <4>1, <4>2
    <3> QED
      BY <3>1, <3>2
  <2> QED
    BY <1>4, <2>1 DEF Iterated
<1>7. Scans(s) = CHOOSE g : g = Def(g)
  BY DEF Scans
<1>8. Scans(s) = Def(Scans(s))
  <2> HIDE DEF Def
  <2> QED
    BY <1>6, <1>7
<1>9. Scans(s)[0] = Scan0
  BY <1>8
<1>10. ASSUME NEW n \in Nat PROVE Scans(s)[n + 1] = ScanStep(Scans(s)[n], s[n + 1])
  <2>1. n + 1 \in Nat /\ n + 1 # 0 /\ (n + 1) - 1 = n
    OBVIOUS
  <2>2. Scans(s)[n + 1] = IF n + 1 = 0 THEN Scan0 ELSE ScanStep(Scans(s)[(n + 1) - 1], s[n + 1])
    BY <1>8, <2>1
  <2> QED
    BY <2>1, <2>2
<1>11. ASSUME NEW n \in Nat PROVE Scans(s)[n].end \in Nat
  <2> DEFINE T == {k \in Nat : Scans(s)[k] \notin S}
  <2>1. CASE T = {}
    <3>1. Scans(s)[n] \in S
      BY <2>1
    <3> QED
      BY <3>1 DEF S
  <2>2. CASE T # {}
    <3>1. PICK k \in T : \A l \in T : k <= l
      BY <2>2, LeastNumber
    <3>2. k # 0
      BY <1>1, <1>9, <3>1
    <3>3. k - 1 \in Nat /\ (k - 1) + 1 = k /\ k - 1 \notin T
      BY <3>1, <3>2
    <3>4. Scans(s)[k - 1] \in S /\ Scans(s)[(k - 1) + 1] = ScanStep(Scans(s)[k - 1], s[(k - 1) + 1])
      BY <1>10, <3>3
    <3>5. Scans(s)[k] \in S
      BY <1>2, <3>3, <3>4
    <3> QED
      BY <3>1, <3>5
  <2> QED
    BY <2>1, <2>2
<1> QED
  BY <1>9, <1>10, <1>11

LEMMA ScansPrefix ==
    ASSUME NEW s, NEW t, NEW m \in Nat, \A k \in 1 .. m : s[k] = t[k]
    PROVE  Scans(s)[m] = Scans(t)[m]
<1> DEFINE T == {n \in Nat : n <= m /\ Scans(s)[n] # Scans(t)[n]}
<1>1. CASE T = {}
  BY <1>1
<1>2. CASE T # {}
  <2>1. PICK n \in T : \A k \in T : n <= k
    BY <1>2, LeastNumber
  <2>2. n # 0
    BY <2>1, ScansSteps
  <2>3. n - 1 \in Nat /\ (n - 1) + 1 = n /\ n - 1 <= m /\ n \in 1 .. m
    BY <2>1, <2>2
  <2>4. Scans(s)[n - 1] = Scans(t)[n - 1]
    <3>1. n - 1 \notin T
      BY <2>1, <2>3
    <3> QED
      BY <2>3, <3>1
  <2>5. /\ Scans(s)[(n - 1) + 1] = ScanStep(Scans(s)[n - 1], s[(n - 1) + 1])
        /\ Scans(t)[(n - 1) + 1] = ScanStep(Scans(t)[n - 1], t[(n - 1) + 1])
    BY <2>3, ScansSteps
  <2> QED
    BY <2>1, <2>3, <2>4, <2>5
<1> QED
  BY <1>1, <1>2

\* The scan stops where the object ends.
LEMMA ScansKeepEnd ==
    ASSUME NEW s, NEW m \in Nat, Scans(s)[m].end # 0, NEW n \in Nat, m <= n
    PROVE  Scans(s)[n] = Scans(s)[m]
<1> DEFINE T == {k \in Nat : m <= k /\ k <= n /\ Scans(s)[k] # Scans(s)[m]}
<1>1. CASE T = {}
  BY <1>1
<1>2. CASE T # {}
  <2>1. PICK k \in T : \A l \in T : k <= l
    BY <1>2, LeastNumber
  <2>2. k \in Nat /\ k # m /\ m <= k /\ k <= n
    BY <2>1
  <2>3. k - 1 \in Nat /\ (k - 1) + 1 = k /\ m <= k - 1 /\ k - 1 <= n
    BY <2>2
  <2>4. Scans(s)[k - 1] = Scans(s)[m]
    <3>1. k - 1 \notin T
      BY <2>1, <2>3
    <3> QED
      BY <2>3, <3>1
  <2>5. Scans(s)[(k - 1) + 1] = ScanStep(Scans(s)[k - 1], s[(k - 1) + 1])
    BY <2>3, ScansSteps
  <2>6. ScanStep(Scans(s)[m], s[k]) = Scans(s)[m]
    BY DEF ScanStep
  <2> QED
    BY <2>1, <2>3, <2>4, <2>5, <2>6
<1> QED
  BY <1>1, <1>2

LEMMA TheLeast ==
    ASSUME NEW T \in SUBSET Int, NEW i \in T, \A k \in T : i <= k
    PROVE  (CHOOSE j \in T : \A k \in T : j <= k) = i
<1> DEFINE start == CHOOSE j \in T : \A k \in T : j <= k
<1>1. start \in T /\ \A k \in T : start <= k
  OBVIOUS
<1> HIDE DEF start
<1>2. start \in Int /\ i \in Int /\ start <= i /\ i <= start
  BY <1>1
<1>3. start = i
  BY <1>2
<1> QED
  BY <1>3 DEF start

LEMMA FirstObject ==
    ASSUME NEW raw, DOMAIN raw \subseteq Int, NEW i \in DOMAIN raw, raw[i] = "{",
           \A k \in DOMAIN raw : raw[k] = "{" => i <= k
    PROVE  LET tail == SubSeq(raw, i, Len(raw))
           IN FirstJsonObject(raw) = SubSeq(tail, 1, Scans(tail)[Len(tail)].end)
<1> DEFINE opens == {j \in DOMAIN raw : raw[j] = "{"}
           start == CHOOSE j \in opens : \A k \in opens : j <= k
<1>1. i \in opens /\ (\A k \in opens : i <= k) /\ opens \subseteq Int
  OBVIOUS
<1>2. start = i
  <2> HIDE DEF opens
  <2> QED
    BY <1>1, TheLeast
<1>3. opens # {}
  BY <1>1
<1> QED
  BY <1>2, <1>3 DEF FirstJsonObject

\* An object that the text holds from its first brace on is what is salvaged.
LEMMA SalvageFindsObject ==
    ASSUME NEW raw \in RawArgs, HoldsObject(raw, ValidArgs)
    PROVE  ParseToolArguments(raw, ValidArgs) # <<>>
<1>1. CASE raw = <<>> \/ raw \in ValidArgs
  BY <1>1 DEF ParseToolArguments
<1>2. ASSUME raw # <<>>, raw \notin ValidArgs,
             NEW i \in DOMAIN raw, NEW j \in DOMAIN raw,
             SubSeq(raw, i, j) \in ValidArgs, IsObject(SubSeq(raw, i, j)),
             \A k \in 1 .. i - 1 : raw[k] # "{"
      PROVE  FirstJsonObject(raw) \in ValidArgs
  <2> DEFINE v == SubSeq(raw, i, j)
             tail == SubSeq(raw, i, Len(raw))
             m == j - i + 1
  <2>1. raw \in Seq(STRING) /\ DOMAIN raw = 1 .. Len(raw) /\ Len(raw) \in Nat /\ i \in 1 .. Len(raw) /\ j \in 1 .. Len(raw)
    BY ArgsAssumption
  <2>2. i <= j
    <3>1. CASE j < i
      <4>1. SubSeq(raw, i, j) = <<>>
        BY <2>1, <3>1
      <4> QED
        BY <1>2, <4>1 DEF IsObject
    <3> QED
      BY <2>1, <3>1
  <2>3. m \in Nat \ {0} /\ v \in Seq(STRING) /\ Len(v) = m /\ DOMAIN v = 1 .. m /\ \A k \in 1 .. m : v[k] = raw[i + k - 1]
    BY <2>1, <2>2
  <2>4. /\ tail \in Seq(STRING) /\ Len(tail) = Len(raw) - i + 1 /\ DOMAIN tail = 1 .. Len(tail)
        /\ \A k \in 1 .. Len(tail) : tail[k] = raw[i + k - 1]
        /\ m <= Len(tail) /\ Len(tail) \in Nat
    <3>1. Len(raw) \in Nat /\ Len(raw) - i + 1 \in Nat /\ m <= Len(raw) - i + 1
      BY <2>1
    <3>2. tail \in Seq(STRING) /\ Len(tail) = Len(raw) - i + 1 /\ DOMAIN tail = 1 .. Len(tail)
      BY <2>1
    <3>3. \A k \in 1 .. Len(raw) - i + 1 : tail[k] = raw[i + k - 1]
      BY <2>1
    <3> QED
      BY <3>1, <3>2, <3>3
  <2>7. \A k \in 1 .. m : k \in 1 .. Len(tail) /\ tail[k] = v[k]
    <3> HIDE DEF tail, v
    <3> QED
      BY <2>1, <2>3, <2>4
  <2>5. v[1] = "{" /\ Scans(v)[Len(v)].end = Len(v)
    BY <1>2, ArgsAssumption DEF IsObject
  <2>6. raw[i] = "{"
    <3>1. 1 \in 1 .. m /\ v[1] = raw[i + 1 - 1] /\ i + 1 - 1 = i
      BY <2>1, <2>3
    <3> HIDE DEF v
    <3> QED
      BY <2>5, <3>1
  <2>8. Scans(v)[m].end = m
    <3> HIDE DEF v, m
    <3> QED
      BY <2>3, <2>5
  <2>9. Scans(tail)[m] = Scans(v)[m]
    <3>1. \A k \in 1 .. m : tail[k] = v[k]
      BY <2>7
    <3> HIDE DEF tail, v, m
    <3> QED
      BY <2>3, <3>1, ScansPrefix
  <2>10. Scans(tail)[Len(tail)] = Scans(tail)[m]
    <3> HIDE DEF tail, v, m
    <3> QED
      BY <2>3, <2>4, <2>8, <2>9, ScansKeepEnd, m # 0, m <= Len(tail)
  <2>14. \A k \in DOMAIN raw : raw[k] = "{" => i <= k
    <3>1. \A k \in DOMAIN raw : k \in 1 .. i - 1 \/ i <= k
      BY <2>1
    <3> QED
      BY <1>2, <3>1
  <2>11. FirstJsonObject(raw) = SubSeq(tail, 1, m)
    <3>1. FirstJsonObject(raw) = SubSeq(tail, 1, Scans(tail)[Len(tail)].end)
      <4>1. DOMAIN raw \subseteq Int /\ i \in DOMAIN raw
        BY <2>1
      <4> HIDE DEF v, m
      <4> QED
        BY <2>6, <2>14, <4>1, FirstObject
    <3> HIDE DEF v, m
    <3> QED
      BY <3>1, <2>8, <2>9, <2>10
  <2>12. SubSeq(tail, 1, m) = v
    <3>1. \A k \in 1 .. m : tail[k] = v[k]
      BY <2>7
    <3> HIDE DEF tail, v, m
    <3> QED
      BY <2>3, <2>4, <3>1
  <2> QED
    BY <1>2, <2>11, <2>12
<1> QED
  BY <1>1, <1>2 DEF HoldsObject, ParseToolArguments

-----------------------------------------------------------------------------
(* One call, as the properties see it *)

Notes == {None, "hook error"}
Seen(w) == [readable : BOOLEAN, ran : BOOLEAN, ok : BOOLEAN, exit2 : BOOLEAN, denied : BOOLEAN,
            asked : BOOLEAN, alike : BOOLEAN, was : {w}, foreign : BOOLEAN, torn : BOOLEAN]
IsSeen(s) == \E w : s \in Seen(w)

Shaped ==
    /\ note \in Notes /\ IsSeen(seen)
    /\ outer # <<>> => outer[1].note \in Notes /\ IsSeen(outer[1].seen)

Keeps(r, s) ==
    /\ s.ran = r.ran /\ s.ok = r.ok /\ s.exit2 = r.exit2 /\ s.denied = r.denied /\ s.readable = r.readable
    /\ s.asked = r.asked /\ s.alike = r.alike
Words == {"ERROR", "output", "context", None, "hook error", "unknown tool", "could not parse",
          "blocked by PreToolUse hook", "permission denied", "io error", "failed", "no-op",
          "file not found", "too large", "not unique", "subagent failed"}
IsErrorText(parts) == parts \in Seq(Words) /\ parts # <<>> /\ parts[1] = "ERROR"

Started ==
    /\ stage = "idle" /\ ~seen'.ran /\ ~seen'.ok /\ ~seen'.exit2 /\ ~seen'.denied
    /\ \/ stage' = "pre" /\ call'.tool \in registry
       \/ stage' = "done" /\ IsErrorText(result') /\ (call'.tool \notin registry \/ ~seen'.readable)
Stays == stage' = stage /\ result' = result /\ Keeps(seen, seen')
Blocked ==
    /\ stage = "pre" /\ stage' = "done" /\ IsErrorText(result')
    /\ seen'.exit2 /\ seen'.ran = seen.ran /\ seen'.ok = seen.ok
Permitted ==
    /\ stage = "pre" /\ stage' = "run" /\ seen'.ran = seen.ran /\ seen'.ok = seen.ok /\ seen'.exit2 = seen.exit2
    /\ seen'.asked => policy.all \/ call.tool \in policy.allowed
Refused ==
    /\ stage = "pre" /\ stage' = "done" /\ IsErrorText(result')
    /\ seen'.denied /\ seen'.ran = seen.ran /\ seen'.ok = seen.ok /\ seen'.exit2 = seen.exit2
Succeeded ==
    /\ stage \in {"run", "edit"} /\ stage' = "post"
    /\ seen'.ran /\ seen'.ok /\ seen'.exit2 = seen.exit2 /\ seen'.asked = seen.asked
    /\ result' = <<"output">> \/ (seen'.alike /\ result' = <<"ERROR">>)
Failed ==
    /\ stage \in {"run", "edit"} /\ stage' = "late" /\ IsErrorText(result')
    /\ (stage = "run" => seen'.ran) /\ (seen.ran => seen'.ran) /\ (seen'.ok => seen.ok) /\ seen'.exit2 = seen.exit2
    /\ seen'.asked = seen.asked
Opened ==
    /\ stage = "run" /\ stage' = "edit" /\ seen'.ran /\ seen'.ok = seen.ok /\ seen'.exit2 = seen.exit2
    /\ seen'.asked = seen.asked
Commented == stage = "post" /\ stage' = "post" /\ seen' = seen /\ \E a, b \in Seq(Words) : result' = result \o a \o b
Finished == stage \in {"post", "late"} /\ stage' = "done" /\ seen' = seen /\ result' \in {result, Append(result, note)}

CallMoves ==
    /\ registry' = registry /\ policy' = policy /\ note' \in Notes /\ IsSeen(seen')
    /\ \/ Started
       \/ call' = call /\ (Stays \/ Blocked \/ Permitted \/ Refused \/ Succeeded \/ Failed \/ Opened \/ Commented \/ Finished)

LEMMA ErrorTexts ==
    ASSUME NEW why \in Words
    PROVE  IsErrorText(Error(why))
<1>1. "ERROR" \in Words
  BY DEF Words
<1>2. ASSUME NEW S, NEW v \in S, NEW u \in S PROVE <<v, u>> \in Seq(S) /\ <<v, u>>[1] = v /\ <<v, u>> # <<>>
  OBVIOUS
<1> QED
  BY <1>1, <1>2 DEF IsErrorText, Error

LEMMA SeenAtStart ==
    /\ IsSeen(Nothing) /\ ~Nothing.ran /\ ~Nothing.ok /\ ~Nothing.exit2 /\ ~Nothing.denied
    /\ \A w : \A r \in BOOLEAN :
          LET t == [Nothing EXCEPT !.was = w, !.readable = r]
          IN IsSeen(t) /\ ~t.ran /\ ~t.ok /\ ~t.exit2 /\ ~t.denied /\ t.readable = r
<1>1. Nothing \in Seen(<<>>)
  BY DEF Nothing, Seen
<1>2. ASSUME NEW w, NEW r \in BOOLEAN
      PROVE  LET t == [Nothing EXCEPT !.was = w, !.readable = r]
             IN t \in Seen(w) /\ ~t.ran /\ ~t.ok /\ ~t.exit2 /\ ~t.denied /\ t.readable = r
  BY DEF Nothing, Seen
<1> QED
  BY <1>1, <1>2 DEF IsSeen, Nothing
LEMMA StartMoves ==
    ASSUME NEW tool, NEW path, NEW old, NEW new, NEW raw \in RawArgs, note \in Notes,
           Start(tool, path, old, new, raw)
    PROVE  CallMoves
<1>1. HoldsObject(raw, ValidArgs) \in BOOLEAN
  BY DEF HoldsObject
<1>2. IsSeen(seen') /\ ~seen'.ran /\ ~seen'.ok /\ ~seen'.exit2 /\ ~seen'.denied /\ seen'.readable = HoldsObject(raw, ValidArgs)
  BY <1>1, SeenAtStart DEF Start
<1>3. call'.tool = tool
  BY DEF Start
<1>5. \/ stage' = "pre" /\ tool \in registry
      \/ stage' = "done" /\ IsErrorText(result') /\ (tool \notin registry \/ ~HoldsObject(raw, ValidArgs))
  <2>1. CASE tool \notin registry
    <3>1. stage' = "done" /\ result' = Error("unknown tool")
      BY <2>1 DEF Start, Ends
    <3> QED
      BY <2>1, <3>1, ErrorTexts DEF Words
  <2>2. CASE tool \in registry /\ ParseToolArguments(raw, ValidArgs) = <<>>
    <3>1. stage' = "done" /\ result' = Error("could not parse")
      BY <2>2 DEF Start, Ends
    <3>2. ~HoldsObject(raw, ValidArgs)
      BY <2>2, SalvageFindsObject
    <3> QED
      BY <3>1, <3>2, ErrorTexts DEF Words
  <2>3. CASE tool \in registry /\ ParseToolArguments(raw, ValidArgs) # <<>>
    BY <2>3 DEF Start
  <2> QED
    BY <2>1, <2>2, <2>3
<1>6. stage = "idle" /\ registry' = registry /\ policy' = policy /\ note' = note
  BY DEF Start
<1> QED
  BY <1>2, <1>3, <1>5, <1>6 DEF CallMoves, Started

LEMMA PreHookMoves ==
    ASSUME note \in Notes, NEW w, seen \in Seen(w), NEW run \in Runs, PreHook(run)
    PROVE  CallMoves
<1> DEFINE out == run.way = "exit" /\ run.code = 2
           now == seen.exit2 \/ out
<1>1. PreVerdict(run) = "block" <=> out
  <2>1. run.code \in {0, 1, 2}
    BY DEF Runs
  <2> QED
    BY <2>1 DEF PreVerdict
<1>2. now \in BOOLEAN /\ (out => now) /\ (~out => now = seen.exit2)
  BY DEF Seen
<1>3. seen' = [seen EXCEPT !.exit2 = now]
  BY DEF PreHook
<1>4. note' \in Notes /\ registry' = registry /\ policy' = policy /\ call' = call /\ stage = "pre"
  BY DEF PreHook, Notes
<1>5. out => stage' = "done" /\ result' = Error("blocked by PreToolUse hook")
  BY <1>1 DEF PreHook, Ends
<1>6. ~out => stage' = stage /\ result' = result
  BY <1>1 DEF PreHook
<1> HIDE DEF now, out
<1>7. /\ seen' \in Seen(w) /\ seen'.exit2 = now
      /\ seen'.ran = seen.ran /\ seen'.ok = seen.ok /\ seen'.denied = seen.denied /\ seen'.readable = seen.readable
      /\ seen'.asked = seen.asked /\ seen'.alike = seen.alike
  BY <1>2, <1>3 DEF Seen
<1>8. CASE out
  <2>1. Blocked
    BY <1>2, <1>4, <1>5, <1>7, <1>8, ErrorTexts DEF Words, Blocked
  <2> QED
    BY <1>4, <1>7, <2>1 DEF CallMoves, IsSeen
<1>9. CASE ~out
  <2>1. Stays
    BY <1>2, <1>6, <1>7, <1>9 DEF Stays, Keeps
  <2> QED
    BY <1>4, <1>7, <2>1 DEF CallMoves, IsSeen
<1> QED
  BY <1>8, <1>9

LEMMA PermissionMoves ==
    ASSUME note \in Notes, NEW w, seen \in Seen(w), NEW verdict, Permission(verdict)
    PROVE  CallMoves
<1> DEFINE allowed == verdict = "allow" \/ (verdict = "ask" /\ (policy.all \/ call.tool \in policy.allowed))
           asked == verdict = "ask"
<1>1. registry' = registry /\ policy' = policy /\ call' = call /\ note' = note /\ stage = "pre"
  BY DEF Permission
<1>0. asked \in BOOLEAN /\ (allowed /\ asked => policy.all \/ call.tool \in policy.allowed)
  OBVIOUS
<1>4. allowed \in BOOLEAN /\ seen' = [seen EXCEPT !.denied = ~allowed, !.asked = asked]
  BY DEF Permission
<1>5. IF allowed THEN stage' = "run" ELSE stage' = "done" /\ result' = Error("permission denied")
  BY DEF Permission, Ends
<1> HIDE DEF allowed, asked
<1>6. /\ seen' \in Seen(w) /\ seen'.denied = ~allowed /\ seen'.asked = asked
      /\ seen'.ran = seen.ran /\ seen'.ok = seen.ok /\ seen'.exit2 = seen.exit2
  BY <1>0, <1>4 DEF Seen
<1>2. CASE allowed
  <2>2. seen' \in Seen(w) /\ Permitted
    BY <1>0, <1>1, <1>2, <1>5, <1>6 DEF Permitted
  <2> QED
    BY <1>1, <2>2 DEF CallMoves, IsSeen
<1>3. CASE ~allowed
  <2>2. seen' \in Seen(w) /\ Refused
    BY <1>1, <1>3, <1>5, <1>6, ErrorTexts DEF Words, Refused
  <2> QED
    BY <1>1, <2>2 DEF CallMoves, IsSeen
<1> QED
  BY <1>2, <1>3

LEMMA PostHookMoves ==
    ASSUME note \in Notes, NEW w, seen \in Seen(w), NEW run, PostHook(run)
    PROVE  CallMoves
<1> DEFINE a == IF run.said THEN <<"context">> ELSE <<>>
           b == IF run.way = "exit" /\ run.code = 0 THEN <<>> ELSE <<"hook error">>
<1>1. <<"context">> \in Seq(Words) /\ <<"hook error">> \in Seq(Words) /\ <<>> \in Seq(Words)
  <2>1. ASSUME NEW S, NEW v \in S PROVE <<v>> \in Seq(S) /\ <<>> \in Seq(S)
    OBVIOUS
  <2>2. "context" \in Words /\ "hook error" \in Words
    BY DEF Words
  <2> QED
    BY <2>1, <2>2
<1>2. a \in Seq(Words) /\ b \in Seq(Words)
  BY <1>1
<1>3. /\ result' = result \o a \o b /\ stage = "post" /\ stage' = "post" /\ seen' = seen
      /\ registry' = registry /\ policy' = policy /\ call' = call /\ note' = note
  BY DEF PostHook
<1> HIDE DEF a, b
<1> QED
  BY <1>2, <1>3 DEF CallMoves, IsSeen, Commented

LEMMA QuietMoves ==
    ASSUME note \in Notes, NEW w, seen \in Seen(w), NEW hooks
    PROVE  (Skips(hooks) => CallMoves) /\ (Finish => CallMoves)
<1>1. ASSUME Skips(hooks) PROVE CallMoves
  BY <1>1 DEF Skips, CallMoves, IsSeen, Stays, Keeps
<1>2. ASSUME Finish PROVE CallMoves
  BY <1>2 DEF Finish, CallMoves, IsSeen, Finished, WithNote
<1> QED
  BY <1>1, <1>2

LEMMA ToolsMove ==
    ASSUME note \in Notes, NEW w, seen \in Seen(w), NEW outcome \in Outcomes, NEW tool, NEW content
    PROVE  /\ Looks(tool, outcome) => CallMoves
           /\ ReadFile(outcome) => CallMoves
           /\ McpTool(outcome) => CallMoves
           /\ WriteFile => CallMoves
           /\ Bash => CallMoves
           /\ EditRead => CallMoves
           /\ EditWrite => CallMoves
           /\ OtherProcess(content) => CallMoves
<1>1. ASSUME Comes(outcome), stage = "run", UNCHANGED <<registry, policy, call, note>> PROVE CallMoves
  <2> DEFINE ok == outcome # "failed"
             alike == outcome = "ERROR"
  <2>1. ok \in BOOLEAN /\ alike \in BOOLEAN
    OBVIOUS
  <2>2. seen' = [seen EXCEPT !.ran = TRUE, !.ok = ok, !.alike = alike]
    BY <1>1 DEF Comes
  <2>3. IF ok THEN stage' = "post" /\ (result' = <<"output">> \/ (alike /\ result' = <<"ERROR">>))
        ELSE stage' = "late" /\ result' = Error("failed")
    BY <1>1 DEF Comes, Succeeds, Outcomes
  <2> HIDE DEF ok, alike
  <2>4. /\ seen' \in Seen(w) /\ seen'.ran /\ seen'.ok = ok /\ seen'.alike = alike
        /\ seen'.exit2 = seen.exit2 /\ seen'.asked = seen.asked
    BY <2>1, <2>2 DEF Seen
  <2>5. Succeeded \/ Failed
    BY <1>1, <2>3, <2>4, ErrorTexts DEF Words, Succeeded, Failed
  <2> QED
    BY <1>1, <2>4, <2>5 DEF CallMoves, IsSeen
<1>2. (Looks(tool, outcome) \/ ReadFile(outcome) \/ McpTool(outcome)) => CallMoves
  BY <1>1 DEF Looks, ReadFile, McpTool, Executes
<1>3. ASSUME NEW path, NEW text, Writes(path, text), stage \in {"run", "edit"},
             IF seen'.ok THEN Succeeds(<<"output">>) ELSE stage' = "late" /\ result' = Error("io error")
      PROVE  seen' \in Seen(w) /\ (Succeeded \/ Failed)
  <2>1. seen' = [seen EXCEPT !.ran = TRUE, !.ok = TRUE] \/ seen' = [seen EXCEPT !.ran = TRUE, !.torn = TRUE]
    BY <1>3 DEF Writes
  <2>2. CASE seen' = [seen EXCEPT !.ran = TRUE, !.ok = TRUE]
    BY <1>3, <2>2 DEF Succeeds, Succeeded, Seen
  <2>3. CASE seen' = [seen EXCEPT !.ran = TRUE, !.torn = TRUE]
    <3>1. seen' \in Seen(w) /\ seen'.ran /\ seen'.ok = seen.ok /\ seen'.exit2 = seen.exit2 /\ seen'.asked = seen.asked
      BY <2>3 DEF Seen
    <3>2. CASE seen'.ok
      BY <1>3, <3>1, <3>2 DEF Succeeds, Succeeded
    <3>3. CASE ~seen'.ok
      <4>1. IsErrorText(result') /\ stage' = "late"
        BY <1>3, <3>3, ErrorTexts DEF Words
      <4>2. seen'.ran = TRUE
        BY <2>3 DEF Seen
      <4> QED
        BY <1>3, <3>1, <3>3, <4>1, <4>2 DEF Failed
    <3> QED
      BY <3>1, <3>2, <3>3
  <2> QED
    BY <2>1, <2>2, <2>3
<1>4. ASSUME WriteFile PROVE CallMoves
  BY <1>3, <1>4 DEF WriteFile, Executes, CallMoves, IsSeen
<1>5. ASSUME Bash PROVE CallMoves
  <2>1. /\ seen' = [seen EXCEPT !.ran = TRUE, !.ok = TRUE] /\ stage = "run"
        /\ registry' = registry /\ policy' = policy /\ call' = call /\ note' = note /\ stage' = "post" /\ result' = <<"output">>
    BY <1>5 DEF Bash, Executes, Succeeds
  <2>2. seen' \in Seen(w) /\ Succeeded
    BY <2>1 DEF Succeeded, Seen
  <2> QED
    BY <2>1, <2>2 DEF CallMoves, IsSeen
<1>6. ASSUME EditRead PROVE CallMoves
  <2>1. /\ seen' = [seen EXCEPT !.ran = TRUE] /\ stage = "run"
        /\ registry' = registry /\ policy' = policy /\ call' = call /\ note' = note
    BY <1>6 DEF EditRead, Executes
  <2>2. seen' \in Seen(w) /\ seen'.ran /\ seen'.ok = seen.ok /\ seen'.exit2 = seen.exit2
        /\ seen'.asked = seen.asked
    BY <2>1 DEF Seen
  <2>3. \/ \E why \in {"no-op", "file not found", "io error", "too large"} : stage' = "late" /\ result' = Error(why)
        \/ stage' = "edit"
    <3>1. CASE call.old = call.new \/ call.old = <<>>
      BY <1>6, <3>1 DEF EditRead, EditFails
    <3>2. CASE ~(call.old = call.new \/ call.old = <<>>) /\ Content(call.path) = <<>>
      BY <1>6, <3>2 DEF EditRead, EditFails
    <3>3. CASE ~(call.old = call.new \/ call.old = <<>>) /\ Content(call.path) # <<>> /\ Len(files[call.path]) > MaxEditLen
      BY <1>6, <3>3 DEF EditRead, EditFails
    <3>4. CASE ~(call.old = call.new \/ call.old = <<>>) /\ Content(call.path) # <<>> /\ ~(Len(files[call.path]) > MaxEditLen)
      BY <1>6, <3>4 DEF EditRead, EditFails
    <3> QED
      BY <3>1, <3>2, <3>3, <3>4
  <2>4. Failed \/ Opened
    BY <2>1, <2>2, <2>3, ErrorTexts DEF Words, Failed, Opened
  <2> QED
    BY <2>1, <2>2, <2>4 DEF CallMoves, IsSeen
<1>7. ASSUME EditWrite PROVE CallMoves
  <2> DEFINE old == NormalizeEol(call.old, HasCrlf(got))
             new == NormalizeEol(call.new, HasCrlf(got))
  <2>1. stage = "edit" /\ registry' = registry /\ policy' = policy /\ call' = call /\ note' = note
    BY <1>7 DEF EditWrite
  <2>2. CASE IsUnique(got, old)
    <3>1. /\ Writes(call.path, ReplaceFirst(got, old, new))
          /\ IF seen'.ok THEN Succeeds(<<"output">>) ELSE stage' = "late" /\ result' = Error("io error")
      BY <1>7, <2>2 DEF EditWrite
    <3> HIDE DEF old, new
    <3> QED
      BY <1>3, <2>1, <3>1 DEF CallMoves, IsSeen
  <2>3. CASE ~IsUnique(got, old)
    <3>1. stage' = "late" /\ result' = Error("not unique") /\ seen' = seen
      BY <1>7, <2>3 DEF EditWrite, EditFails
    <3>2. seen.ran \in BOOLEAN
      BY DEF Seen
    <3> QED
      BY <2>1, <3>1, <3>2, ErrorTexts DEF Words, CallMoves, IsSeen, Failed
  <2> QED
    BY <2>2, <2>3
<1>8. ASSUME OtherProcess(content) PROVE CallMoves
  <2>1. seen' = [seen EXCEPT !.foreign = TRUE] /\ UNCHANGED <<registry, policy, cvars>>
    BY <1>8 DEF OtherProcess
  <2>2. seen' \in Seen(w) /\ Keeps(seen, seen')
    BY <2>1 DEF Seen, Keeps
  <2> QED
    BY <2>1, <2>2 DEF CallMoves, IsSeen, Stays, cvars
<1> QED
  BY <1>2, <1>4, <1>5, <1>6, <1>7, <1>8

LEMMA EveryCallMoves ==
    ASSUME note \in Notes, IsSeen(seen), CallNext
    PROVE  CallMoves
<1>0. PICK w : seen \in Seen(w)
  BY DEF IsSeen
<1>1. CASE \E tool \in ToolNames, path \in Paths, raw \in RawArgs :
              \/ tool = "edit" /\ \E old, new \in Snippets : Start(tool, path, old, new, raw)
              \/ tool = "write_file" /\ \E new \in Contents : Start(tool, path, <<>>, new, raw)
              \/ tool \notin {"edit", "write_file"} /\ Start(tool, path, <<>>, <<>>, raw)
  BY <1>1, StartMoves
<1>2. CASE Skips(PreHooks) \/ Skips(PostHooks)
  BY <1>2, QuietMoves, <1>0
<1>3. CASE \E run \in Runs : PreHook(run) \/ PostHook(run)
  BY <1>3, PreHookMoves, PostHookMoves, <1>0
<1>4. CASE \E verdict \in {"allow", "deny", "ask"} : Permission(verdict)
  BY <1>4, PermissionMoves, <1>0
<1>5. CASE \E outcome \in Outcomes :
              ReadFile(outcome) \/ Search(outcome) \/ ListDir(outcome) \/ Skill(outcome) \/ McpTool(outcome)
  BY <1>5, ToolsMove, <1>0 DEF Search, ListDir, Skill
<1>6. CASE WriteFile \/ Bash \/ EditRead \/ EditWrite
  <2>1. "failed" \in Outcomes
    BY DEF Outcomes
  <2> QED
    BY <1>6, <2>1, ToolsMove, <1>0
<1>7. CASE Finish
  BY <1>7, QuietMoves, <1>0
<1>8. CASE \E content \in Contents : OtherProcess(content)
  <2>1. "failed" \in Outcomes
    BY DEF Outcomes
  <2> QED
    BY <1>8, <2>1, ToolsMove, <1>0
<1> QED
  BY <1>1, <1>2, <1>3, <1>4, <1>5, <1>6, <1>7, <1>8 DEF CallNext
-----------------------------------------------------------------------------
(* The invariant *)

\* Who makes the call: the model, or a subagent whose own call waits in outer.
Own == BuildRegistry(tools) \cup {"task", "skill"} \cup (IF kind = "issue" THEN {} ELSE McpTools)
Granted ==
    /\ outer = <<>> => registry \subseteq Own
    /\ outer # <<>> => /\ registry \subseteq BuildRegistry(tools)
                       /\ outer[1].registry \subseteq Own
                       /\ outer[1].call.tool \in outer[1].registry
    /\ stage \in {"pre", "run", "edit"} \/ seen.ran => call.tool \in registry
    /\ kind = "issue" => tools = <<FileTools>> \/ (phase = "over" /\ ~seen.ran)
    /\ phase = "start" => stage = "idle" /\ outer = <<>> /\ ~seen.ran /\ registry = {}

\* Both policies are the command line's, and what it had to answer it granted.
Vetted ==
    /\ policy = PolicyOf(grants)
    /\ (stage \in {"run", "edit"} \/ seen.ran) /\ seen.asked => GrantedByLine(call.tool)
    /\ outer # <<>> => /\ outer[1].policy = PolicyOf(grants)
                       /\ outer[1].seen.asked => GrantedByLine(outer[1].call.tool)

Texts == result \in Seq(Words) /\ result # <<>>

Told ==
    /\ stage \in {"pre", "run", "edit"} => ~seen.ok
    /\ stage \in {"post", "late", "done"} =>
          /\ Texts
          /\ ~seen.ok => result[1] = "ERROR"
          /\ seen.ok /\ result[1] = "ERROR" => seen.alike

Stopped ==
    /\ stage = "pre" => ~seen.exit2 /\ ~seen.ran
    /\ stage = "run" => ~seen.exit2
    /\ stage \in {"edit", "post", "late"} => ~seen.exit2 /\ seen.ran
    /\ stage = "done" =>
          /\ seen.exit2 => ~seen.ran
          /\ seen.exit2 \/ seen.denied \/ ~seen.readable \/ call.tool \notin registry \/ seen.ran
    /\ outer # <<>> => ~outer[1].seen.exit2 /\ outer[1].seen.ran

IInv == Shaped /\ Granted /\ Vetted /\ Told /\ Stopped

LEMMA InitEstablishes == HInit => IInv
<1> SUFFICES ASSUME HInit PROVE IInv
  OBVIOUS
<1>1. stage = "idle" /\ outer = <<>> /\ registry = {} /\ seen = Nothing /\ kind = None /\ note = None
  BY DEF HInit, CallInit
<1>3. policy = PolicyOf(grants)
  BY DEF HInit, PolicyOf
<1>2. kind # "issue"
  BY <1>1 DEF None
<1> QED
  BY <1>1, <1>2, <1>3, SeenAtStart DEF IInv, Shaped, Granted, Vetted, Told, Stopped, Notes

\* A result keeps its first part, whatever the hooks add behind it.
LEMMA AddedBehind ==
    ASSUME NEW r \in Seq(Words), r # <<>>, NEW a \in Seq(Words), NEW b \in Seq(Words), NEW n \in Notes
    PROVE  /\ r \o a \o b \in Seq(Words) /\ r \o a \o b # <<>> /\ (r \o a \o b)[1] = r[1]
           /\ Append(r, n) \in Seq(Words) /\ Append(r, n) # <<>> /\ Append(r, n)[1] = r[1]
<1>1. n \in Words
  BY DEF Notes, Words
<1>2. Len(r) \in Nat /\ Len(r) >= 1
  OBVIOUS
<1>3. Append(r, n) \in Seq(Words) /\ Append(r, n) # <<>> /\ Append(r, n)[1] = r[1]
  BY <1>1, <1>2
<1>4. ASSUME NEW q \in Seq(Words), Len(q) >= 1, NEW c \in Seq(Words)
      PROVE  q \o c \in Seq(Words) /\ Len(q \o c) >= 1 /\ q \o c # <<>> /\ (q \o c)[1] = q[1]
  <2>1. q \o c \in Seq(Words) /\ Len(q \o c) = Len(q) + Len(c) /\ Len(q) \in Nat /\ Len(c) \in Nat
    OBVIOUS
  <2>2. Len(q \o c) >= 1
    BY <1>4, <2>1
  <2>3. (q \o c)[1] = q[1]
    BY <1>4, <2>1
  <2> QED
    BY <2>1, <2>2, <2>3
<1>5. r \o a \in Seq(Words) /\ Len(r \o a) >= 1 /\ (r \o a)[1] = r[1]
  BY <1>2, <1>4
<1>6. (r \o a) \o b \in Seq(Words) /\ (r \o a) \o b # <<>> /\ ((r \o a) \o b)[1] = (r \o a)[1]
  BY <1>4, <1>5
<1> QED
  BY <1>3, <1>5, <1>6

LEMMA CallKeeps ==
    ASSUME IInv, CallMoves, phase = "turn", UNCHANGED <<kind, tools, grants, outer, phase>>
    PROVE  IInv'
<1>1. Shaped'
  BY DEF IInv, Shaped, CallMoves
<1>2. /\ seen.ran \in BOOLEAN /\ seen.ok \in BOOLEAN /\ seen.exit2 \in BOOLEAN
      /\ seen'.ran \in BOOLEAN /\ seen'.ok \in BOOLEAN /\ seen'.exit2 \in BOOLEAN
  BY <1>1 DEF IInv, Shaped, IsSeen, Seen
<1>3. registry' = registry /\ note \in Notes /\ Own' = Own /\ policy' = policy
  BY DEF CallMoves, IInv, Shaped, Own
<1>6. ASSUME NEW tool PROVE /\ GrantedByLine(tool)' = GrantedByLine(tool)
                            /\ (policy.all \/ tool \in policy.allowed) => GrantedByLine(tool)
  <2>1. policy = PolicyOf(grants)
    BY DEF IInv, Vetted
  <2> QED
    BY <2>1 DEF GrantedByLine, PolicyOf, AllowAll, FromAllowed
<1>4. CASE Started
  <2>1. Granted' /\ Vetted'
    BY <1>3, <1>4, <1>6 DEF IInv, Granted, Vetted, Started
  <2>2. Told'
    BY <1>4 DEF Told, Texts, Started, IsErrorText
  <2>3. Stopped'
    BY <1>3, <1>4 DEF IInv, Stopped, Started
  <2> QED
    BY <1>1, <2>1, <2>2, <2>3 DEF IInv
<1>5. ASSUME call' = call, Stays \/ Blocked \/ Permitted \/ Refused \/ Succeeded \/ Failed \/ Opened \/ Commented \/ Finished
      PROVE  IInv'
  <2>1. Granted'
    <3>1. stage' \in {"pre", "run", "edit"} \/ seen'.ran => call.tool \in registry
      BY <1>5 DEF IInv, Granted, Stays, Keeps, Blocked, Permitted, Refused, Succeeded, Failed, Opened, Commented, Finished
    <3> QED
      BY <1>3, <1>5, <3>1 DEF IInv, Granted
  <2>4. Vetted'
    <3>1. (stage' \in {"run", "edit"} \/ seen'.ran) /\ seen'.asked => GrantedByLine(call.tool)
      <4>1. CASE Permitted
        BY <1>6, <4>1 DEF Permitted
      <4>2. CASE Blocked \/ Refused
        BY <4>2 DEF IInv, Stopped, Blocked, Refused
      <4>3. CASE Stays \/ Succeeded \/ Failed \/ Opened \/ Commented \/ Finished
        BY <4>3 DEF IInv, Vetted, Stopped, Stays, Keeps, Succeeded, Failed, Opened, Commented, Finished
      <4> QED
        BY <1>5, <4>1, <4>2, <4>3
    <3> QED
      BY <1>3, <1>5, <1>6, <3>1 DEF IInv, Vetted
  <2>2. Told'
    <3>1. CASE Stays \/ Permitted \/ Opened
      BY <1>5, <3>1 DEF IInv, Told, Texts, Stays, Keeps, Permitted, Opened
    <3>2. CASE Blocked \/ Refused \/ Failed
      BY <1>5, <3>2 DEF IInv, Told, Texts, Blocked, Refused, Failed, IsErrorText
    <3>3. CASE Succeeded
      <4>1. ASSUME NEW v \in Words PROVE <<v>> \in Seq(Words) /\ <<v>> # <<>> /\ <<v>>[1] = v
        OBVIOUS
      <4>2. "output" \in Words /\ "ERROR" \in Words
        BY DEF Words
      <4>3. Texts' /\ (result'[1] = "ERROR" => seen'.alike)
        BY <3>3, <4>1, <4>2 DEF Succeeded, Texts
      <4> QED
        BY <1>5, <3>3, <4>3 DEF Told, Succeeded
    <3>4. CASE Commented
      <4>1. Texts
        BY <3>4 DEF IInv, Told, Commented
      <4>2. Texts' /\ result'[1] = result[1]
        BY <1>3, <3>4, <4>1, AddedBehind DEF Commented, Texts
      <4> QED
        BY <1>5, <3>4, <4>2 DEF IInv, Told, Commented
    <3>5. CASE Finished
      <4>1. Texts
        BY <3>5 DEF IInv, Told, Finished
      <4>2. Texts' /\ result'[1] = result[1]
        BY <1>3, <3>5, <4>1, AddedBehind DEF Finished, Texts
      <4> QED
        BY <1>5, <3>5, <4>2 DEF IInv, Told, Finished
    <3> QED
      BY <1>5, <3>1, <3>2, <3>3, <3>4, <3>5
  <2>3. Stopped'
    <3>1. CASE Stays
      BY <1>3, <1>5, <3>1 DEF IInv, Stopped, Stays, Keeps
    <3>2. CASE Blocked \/ Refused
      BY <1>2, <1>3, <1>5, <3>2 DEF IInv, Stopped, Blocked, Refused
    <3>3. CASE Permitted \/ Opened \/ Succeeded
      BY <1>2, <1>3, <1>5, <3>3 DEF IInv, Stopped, Permitted, Opened, Succeeded
    <3>4. CASE Failed
      BY <1>2, <1>3, <1>5, <3>4 DEF IInv, Stopped, Failed
    <3>5. CASE Commented \/ Finished
      BY <1>2, <1>3, <1>5, <3>5 DEF IInv, Stopped, Commented, Finished
    <3> QED
      BY <1>5, <3>1, <3>2, <3>3, <3>4, <3>5
  <2> QED
    BY <1>1, <2>1, <2>2, <2>3, <2>4 DEF IInv
<1> QED
  BY <1>4, <1>5 DEF CallMoves
LEMMA StepKeeps == IInv /\ [HNext]_<<tvars, hvars>> => IInv'
<1> SUFFICES ASSUME IInv, [HNext]_<<tvars, hvars>> PROVE IInv'
  OBVIOUS
<1>0. note \in Notes /\ IsSeen(seen)
  BY DEF IInv, Shaped
<1>1. ASSUME NEW list, NEW no, NEW allow, NEW connected, RunOnce(list, no, allow, connected) PROVE IInv'
  <2>1. phase = "start" /\ stage = "idle" /\ outer = <<>> /\ ~seen.ran /\ registry = {} /\ policy = PolicyOf(grants)
    BY <1>1 DEF RunOnce, IInv, Granted, Vetted
  <2>2. CASE Fails("run")
    <3>1. UNCHANGED <<registry, policy, stage, call, note, result, seen, tools, grants, outer>> /\ kind' = "run" /\ phase' = "over"
      BY <2>2 DEF Fails, Exit, tvars, cvars
    <3> QED
      BY <2>1, <3>1 DEF IInv, Shaped, Granted, Vetted, Own, GrantedByLine, Told, Texts, Stopped
  <2>3. ASSUME NEW grant, connected \subseteq McpTools, TurnBegins("run", list, grant, {"task", "skill"} \cup connected) PROVE IInv'
    <3>1. UNCHANGED <<stage, call, note, result, seen, outer>> /\ kind' = "run" /\ phase' = "turn"
          /\ tools' = list /\ registry' = BuildRegistry(list) \cup ({"task", "skill"} \cup connected)
          /\ policy' = PolicyOf(grant) /\ grants' = grant
      BY <2>3 DEF TurnBegins, cvars
    <3>2. registry' \subseteq Own'
      BY <2>3, <3>1 DEF Own, BuildRegistry
    <3>3. Granted' /\ Vetted'
      BY <2>1, <3>1, <3>2 DEF Granted, Vetted
    <3> QED
      BY <2>1, <3>1, <3>3 DEF IInv, Shaped, Told, Texts, Stopped
  <2> QED
    BY <1>1, <2>2, <2>3 DEF RunOnce
<1>2. ASSUME NEW remote, NEW status, RunIssue(remote, status) PROVE IInv'
  <2>1. phase = "start" /\ stage = "idle" /\ outer = <<>> /\ ~seen.ran /\ registry = {} /\ policy = PolicyOf(grants)
    BY <1>2 DEF RunIssue, IInv, Granted, Vetted
  <2>2. CASE Fails("issue")
    <3>1. UNCHANGED <<registry, policy, stage, call, note, result, seen, tools, grants, outer>> /\ kind' = "issue" /\ phase' = "over"
      BY <2>2 DEF Fails, Exit, tvars, cvars
    <3> QED
      BY <2>1, <3>1 DEF IInv, Shaped, Granted, Vetted, Own, GrantedByLine, Told, Texts, Stopped
  <2>3. ASSUME NEW grant, TurnBegins("issue", <<FileTools>>, grant, {"task", "skill"}) PROVE IInv'
    <3>1. UNCHANGED <<stage, call, note, result, seen, outer>> /\ kind' = "issue" /\ phase' = "turn"
          /\ tools' = <<FileTools>> /\ registry' = BuildRegistry(<<FileTools>>) \cup {"task", "skill"}
          /\ policy' = PolicyOf(grant) /\ grants' = grant
      BY <2>3 DEF TurnBegins, cvars
    <3>2. registry' \subseteq Own'
      BY <3>1 DEF Own, BuildRegistry
    <3>3. Granted' /\ Vetted'
      BY <2>1, <3>1, <3>2 DEF Granted, Vetted
    <3> QED
      BY <2>1, <3>1, <3>3 DEF IInv, Shaped, Told, Texts, Stopped
  <2> QED
    BY <1>2, <2>2, <2>3 DEF RunIssue
<1>3. ASSUME Calls PROVE IInv'
  <2>1. CallNext /\ phase = "turn" /\ UNCHANGED <<kind, tools, grants, outer, phase>>
    BY <1>3 DEF Calls
  <2> QED
    BY <1>0, <2>1, EveryCallMoves, CallKeeps
<1>4. ASSUME Answered PROVE IInv'
  <2>1. /\ stage' = "idle" /\ note' = None /\ seen' = Nothing /\ phase = "turn"
        /\ UNCHANGED <<registry, policy, kind, tools, grants, outer, phase>>
    BY <1>4 DEF Answered, NextCall, hvars
  <2>2. Granted' /\ Vetted'
    BY <2>1, SeenAtStart DEF IInv, Granted, Vetted, Own, GrantedByLine
  <2> QED
    BY <2>1, <2>2, SeenAtStart DEF IInv, Shaped, Notes, Told, Stopped
<1>5. ASSUME Task PROVE IInv'
  <2> DEFINE caller == [call |-> call, note |-> note, seen |-> [seen EXCEPT !.ran = TRUE], registry |-> registry, policy |-> policy]
  <2>1. /\ outer' = <<caller>> /\ registry' = BuildRegistry(tools) /\ stage' = "idle"
        /\ note' = None /\ seen' = Nothing /\ UNCHANGED <<kind, tools, grants, phase>>
        /\ policy' = PolicyOf(grants) /\ phase = "turn" /\ stage = "run"
    BY <1>5 DEF Task, ChildRegistry, ChildPolicy, Executes
  <2>2. caller.call = call /\ caller.note = note /\ caller.seen = [seen EXCEPT !.ran = TRUE] /\ caller.registry = registry
        /\ caller.policy = policy
    OBVIOUS
  <2>3. PICK w : seen \in Seen(w)
    BY <1>0 DEF IsSeen
  <2>4. [seen EXCEPT !.ran = TRUE] \in Seen(w) /\ [seen EXCEPT !.ran = TRUE].ran /\ [seen EXCEPT !.ran = TRUE].exit2 = seen.exit2
        /\ [seen EXCEPT !.ran = TRUE].asked = seen.asked
    BY <2>3 DEF Seen
  <2>5. IsSeen(caller.seen) /\ caller.seen.ran /\ ~caller.seen.exit2 /\ caller.seen.asked = seen.asked
    <3>1. ~seen.exit2
      BY <2>1 DEF IInv, Stopped
    <3> QED
      BY <2>2, <2>4, <3>1 DEF IsSeen
  <2>6. registry \subseteq Own /\ call.tool \in registry /\ policy = PolicyOf(grants)
        /\ (seen.asked => GrantedByLine(call.tool)) /\ Own' = Own
    BY <2>1 DEF IInv, Granted, Vetted, Own, BuildRegistry
  <2> HIDE DEF caller
  <2>7. outer'[1] = caller /\ outer' # <<>>
    BY <2>1
  <2>8. Shaped'
    BY <1>0, <2>1, <2>2, <2>5, <2>7, SeenAtStart DEF Shaped, Notes
  <2>9. Granted'
    BY <2>1, <2>2, <2>6, <2>7, SeenAtStart DEF IInv, Granted
  <2>11. Vetted'
    BY <2>1, <2>2, <2>5, <2>6, <2>7, SeenAtStart DEF Vetted, GrantedByLine
  <2>10. Told' /\ Stopped'
    BY <2>1, <2>5, <2>7 DEF Told, Stopped
  <2> QED
    BY <2>8, <2>9, <2>10, <2>11 DEF IInv
<1>6. ASSUME NEW outcome \in Outcomes, TaskReturns(outcome) PROVE IInv'
  <2>1. /\ phase = "turn" /\ outer # <<>> /\ stage = "idle" /\ stage' = "post"
        /\ call' = outer[1].call /\ note' = outer[1].note /\ registry' = outer[1].registry /\ outer' = <<>>
        /\ policy' = outer[1].policy /\ UNCHANGED <<kind, tools, grants, phase>>
    BY <1>6 DEF TaskReturns, Succeeds
  <2>2. PICK w : outer[1].seen \in Seen(w)
    BY <2>1 DEF IInv, Shaped, IsSeen
  <2> DEFINE was == outer[1].seen
             ok == outcome # "failed"
             alike == outcome = "ERROR"
  <2>3. seen' = [was EXCEPT !.ok = ok, !.alike = alike] /\ ok \in BOOLEAN /\ alike \in BOOLEAN
    BY <1>6 DEF TaskReturns
  <2>4. was.ran /\ ~was.exit2
    BY <2>1 DEF IInv, Stopped
  <2>5. was \in Seen(w)
    BY <2>2
  <2>6. outer[1].note \in Notes
    BY <2>1 DEF IInv, Shaped
  <2>7. IF ok THEN result' = <<"output">> \/ (alike /\ result' = <<"ERROR">>) ELSE result' = Error("subagent failed")
    BY <1>6 DEF TaskReturns, Succeeds, Outcomes
  <2>14. (was.asked => GrantedByLine(outer[1].call.tool)) /\ outer[1].policy = PolicyOf(grants)
    BY <2>1 DEF IInv, Vetted
  <2> HIDE DEF was, ok, alike
  <2>8. seen' \in Seen(w) /\ seen'.ok = ok /\ seen'.alike = alike /\ seen'.ran /\ ~seen'.exit2 /\ seen'.asked = was.asked
    BY <2>3, <2>4, <2>5 DEF Seen
  <2>9. Shaped'
    BY <2>1, <2>6, <2>8 DEF Shaped, IsSeen
  <2>10. Granted'
    BY <2>1 DEF IInv, Granted, Own, BuildRegistry
  <2>15. Vetted'
    BY <2>1, <2>8, <2>14 DEF Vetted, GrantedByLine
  <2>11. Texts' /\ (~ok => result'[1] = "ERROR") /\ (ok /\ result'[1] = "ERROR" => alike)
    <3>1. CASE ok
      <4>1. ASSUME NEW v \in Words PROVE <<v>> \in Seq(Words) /\ <<v>> # <<>> /\ <<v>>[1] = v
        OBVIOUS
      <4>2. "output" \in Words /\ "ERROR" \in Words /\ "output" # "ERROR"
        BY DEF Words
      <4> QED
        BY <2>7, <3>1, <4>1, <4>2 DEF Texts
    <3>2. CASE ~ok
      <4>1. IsErrorText(Error("subagent failed"))
        BY ErrorTexts DEF Words
      <4> QED
        BY <2>7, <3>2, <4>1 DEF Texts, IsErrorText
    <3> QED
      BY <3>1, <3>2
  <2>12. Told'
    BY <2>1, <2>8, <2>11 DEF Told, Texts
  <2>13. Stopped'
    BY <2>1, <2>8 DEF Stopped
  <2> QED
    BY <2>9, <2>10, <2>12, <2>13, <2>15 DEF IInv
<1>7. ASSUME NEW outcome, RunAnswers(outcome) \/ IssueAnswers(outcome) PROVE IInv'
  <2>1. /\ UNCHANGED <<registry, policy, stage, call, note, result, seen, kind, tools, grants, outer>> /\ phase = "turn"
        /\ phase' \in {"over", "answered"}
    BY <1>7 DEF RunAnswers, IssueAnswers, TurnEnds, Exit, tvars, cvars
  <2> QED
    BY <2>1 DEF IInv, Shaped, Granted, Vetted, Own, GrantedByLine, Told, Texts, Stopped
<1>8. ASSUME NEW tests, IssueShows(tests) PROVE IInv'
  <2>1. /\ UNCHANGED <<registry, policy, stage, call, note, result, seen, kind, tools, grants, outer>> /\ phase = "answered"
        /\ phase' = "over"
    BY <1>8 DEF IssueShows, Exit, tvars, cvars
  <2> QED
    BY <2>1 DEF IInv, Shaped, Granted, Vetted, Own, GrantedByLine, Told, Texts, Stopped
<1>9. ASSUME UNCHANGED <<tvars, hvars>> PROVE IInv'
  <2>1. UNCHANGED <<registry, policy, stage, call, note, result, seen, kind, tools, grants, outer, phase>>
    BY <1>9 DEF tvars, cvars, hvars
  <2> QED
    BY <2>1 DEF IInv, Shaped, Granted, Vetted, Own, GrantedByLine, Told, Texts, Stopped
<1> QED
  BY <1>1, <1>2, <1>3, <1>4, <1>5, <1>6, <1>7, <1>8, <1>9 DEF HNext

LEMMA Invariance == HSpec => []IInv
  BY InitEstablishes, StepKeeps, PTL DEF HSpec

-----------------------------------------------------------------------------
(* The theorems *)

\* For every command line, every set of MCP servers and all rules: an issue gets no
\* shell and no server's tool, a run with a list uses that list and its servers, a
\* subagent only built-in tools, and what the rules leave open runs only when the
\* command line granted it (main.rs run_once, run_issue_inner; subagent.rs).
THEOREM OnlyListedToolsRun == HSpec => []PostureHolds
<1>1. ASSUME IInv PROVE PostureHolds
  <2> SUFFICES ASSUME seen.ran
               PROVE  /\ kind = "issue" => call.tool \in FileTools \cup {"task", "skill"}
                      /\ tools # <<>> => call.tool \in tools[1] \cup {"task", "skill"} \cup McpTools
                      /\ outer # <<>> => call.tool \in KnownTools
                      /\ seen.asked => GrantedByLine(call.tool)
    BY DEF PostureHolds
  <2>1. call.tool \in registry /\ (kind = "issue" => tools = <<FileTools>>)
    BY <1>1 DEF IInv, Granted
  <2>3. BuildRegistry(tools) \subseteq KnownTools /\ (tools # <<>> => BuildRegistry(tools) \subseteq tools[1])
    BY DEF BuildRegistry
  <2>2. /\ call.tool \in BuildRegistry(tools) \cup {"task", "skill"} \cup (IF kind = "issue" THEN {} ELSE McpTools)
        /\ outer # <<>> => call.tool \in BuildRegistry(tools)
    BY <1>1, <2>1 DEF IInv, Granted, Own
  <2>4. tools # <<>> => call.tool \in tools[1] \cup {"task", "skill"} \cup McpTools
    BY <2>2, <2>3
  <2>5. kind = "issue" => call.tool \in FileTools \cup {"task", "skill"}
    <3>1. ASSUME kind = "issue" PROVE call.tool \in FileTools \cup {"task", "skill"}
      <4>1. tools # <<>> /\ tools[1] = FileTools
        BY <2>1, <3>1
      <4> QED
        BY <2>2, <2>3, <3>1, <4>1
    <3> QED
      BY <3>1
  <2>6. seen.asked => GrantedByLine(call.tool)
    BY <1>1 DEF IInv, Vetted
  <2> QED
    BY <2>2, <2>3, <2>4, <2>5, <2>6
<1> QED
  BY <1>1, Invariance, PTL

\* Exit 2 of a hook keeps the tool from running; nothing else about the hooks,
\* and no prose around the arguments, does (hook.rs run_pre, repair.rs).
THEOREM HooksBlockByExitTwo == HSpec => []OnlyExitTwoBlocks
<1>1. IInv => OnlyExitTwoBlocks
  BY DEF IInv, Stopped, OnlyExitTwoBlocks
<1> QED
  BY <1>1, Invariance, PTL

\* A failure is told as one and a success as one, whatever the hooks add
\* (agent.rs run_tool, dispatch).
THEOREM FailuresAreTold == HSpec => []ErrorsAreSeen
<1>1. IInv => ErrorsAreSeen
  BY DEF IInv, Told, ErrorsAreSeen, IsError
<1> QED
  BY <1>1, Invariance, PTL
-----------------------------------------------------------------------------
(* An edit replaces the one place it means *)

Lex == STRING \cup {"LF", "CRLF"}

LEMMA MatchingSteps ==
    ASSUME NEW s, NEW sub, Len(sub) \in Nat
    PROVE  /\ Matching(s, sub)[0] = [next |-> 1, count |-> 0]
           /\ \A n \in Nat : Matching(s, sub)[n + 1] =
                 IF n + 1 >= Matching(s, sub)[n].next /\ At(s, sub, n + 1)
                 THEN [next |-> n + 1 + Len(sub), count |-> Matching(s, sub)[n].count + 1]
                 ELSE Matching(s, sub)[n]
<1> DEFINE S == [next : Int, count : Int]
           Step(was, n) == IF n >= was.next /\ At(s, sub, n)
                           THEN [next |-> n + Len(sub), count |-> was.count + 1] ELSE was
           F == [n \in Nat |-> [was \in S |-> Step(was, n + 1)]]
           zero == [next |-> 1, count |-> 0]
           Def(f) == [n \in Nat |-> IF n = 0 THEN zero ELSE Step(f[n - 1], n)]
<1>1. zero \in S
  OBVIOUS
<1>2. ASSUME NEW was \in S, NEW n \in Nat PROVE Step(was, n) \in S
  BY <1>2
<1> HIDE DEF S
<1>3. F \in [Nat -> [S -> S]]
  <2>1. ASSUME NEW n \in Nat, NEW was \in S PROVE Step(was, n + 1) \in S
    <3>1. n + 1 \in Nat
      OBVIOUS
    <3> HIDE DEF Step
    <3> QED
      BY <1>2, <3>1
  <2> HIDE DEF Step
  <2> QED
    BY <2>1
<1> HIDE DEF F, zero
<1>4. PICK f : Iterated(f, S, zero, F)
  BY <1>1, <1>3, Iterates
<1> HIDE DEF Step
<1>5. \A n \in Nat : f[n + 1] = Step(f[n], n + 1)
  <2>1. \A n \in Nat : f[n] \in S /\ f[n + 1] = F[n][f[n]]
    BY <1>4 DEF Iterated
  <2> QED
    BY <2>1 DEF F
<1>6. f = Def(f)
  <2>1. ASSUME NEW n \in Nat PROVE f[n] = IF n = 0 THEN zero ELSE Step(f[n - 1], n)
    <3>1. CASE n = 0
      BY <1>4, <3>1 DEF Iterated
    <3>2. CASE n # 0
      <4>1. n - 1 \in Nat /\ (n - 1) + 1 = n
        BY <3>2
      <4>2. f[(n - 1) + 1] = Step(f[n - 1], (n - 1) + 1)
        BY <4>1, <1>5
      <4> QED
        BY <3>2, <4>1, <4>2
    <3> QED
      BY <3>1, <3>2
  <2> QED
    BY <1>4, <2>1 DEF Iterated
<1>7. Matching(s, sub) = CHOOSE g : g = Def(g)
  BY DEF Matching, Step, zero
<1>8. Matching(s, sub) = Def(Matching(s, sub))
  <2> HIDE DEF Def
  <2> QED
    BY <1>6, <1>7
<1>9. Matching(s, sub)[0] = zero
  BY <1>8
<1>10. ASSUME NEW n \in Nat PROVE Matching(s, sub)[n + 1] = Step(Matching(s, sub)[n], n + 1)
  <2>1. n + 1 \in Nat /\ n + 1 # 0 /\ (n + 1) - 1 = n
    OBVIOUS
  <2>2. Matching(s, sub)[n + 1] = IF n + 1 = 0 THEN zero ELSE Step(Matching(s, sub)[(n + 1) - 1], n + 1)
    BY <1>8, <2>1
  <2> QED
    BY <2>1, <2>2
<1> QED
  BY <1>9, <1>10 DEF zero, Step

LEMMA SameTerms ==
    ASSUME NEW S, NEW a \in Seq(S), NEW b \in Seq(S), Len(a) = Len(b), \A j \in 1 .. Len(a) : a[j] = b[j]
    PROVE  a = b
  OBVIOUS

\* Two places closer than the snippet is long: it overlaps itself.
LEMMA CloseMeansOverlap ==
    ASSUME NEW s \in Seq(Lex), NEW sub \in Seq(Lex), NEW i \in Nat, NEW k \in Nat,
           At(s, sub, i), At(s, sub, k), i < k, k < i + Len(sub)
    PROVE  OverlapsItself(sub)
<1> DEFINE l == Len(sub)
           q == i + l - k
<1>1. l \in Nat /\ Len(s) \in Nat /\ q \in 1 .. l - 1 /\ i >= 1 /\ k >= 1 /\ i + l - 1 <= Len(s) /\ k + l - 1 <= Len(s)
  BY DEF At
<1>2. SubSeq(s, i, i + l - 1) = sub /\ SubSeq(s, k, k + l - 1) = sub
  BY DEF At
<1>3. ASSUME NEW j \in 1 .. l PROVE sub[j] = s[i + j - 1] /\ sub[j] = s[k + j - 1]
  <2>1. SubSeq(s, i, i + l - 1)[j] = s[i + j - 1] /\ SubSeq(s, k, k + l - 1)[j] = s[k + j - 1]
    BY <1>1
  <2> QED
    BY <1>2, <2>1
<1>4. ASSUME NEW j \in 1 .. q PROVE sub[j] = sub[l - q + j]
  <2>1. j \in 1 .. l /\ l - q + j \in 1 .. l /\ i + (l - q + j) - 1 = k + j - 1
    BY <1>1
  <2>2. sub[j] = s[k + j - 1] /\ sub[l - q + j] = s[i + (l - q + j) - 1]
    BY <1>3, <2>1
  <2> QED
    BY <2>1, <2>2
<1> HIDE DEF q, l
<1>5. SubSeq(sub, 1, q) = SubSeq(sub, l - q + 1, l)
  <2>1. /\ SubSeq(sub, 1, q) \in Seq(Lex) /\ SubSeq(sub, l - q + 1, l) \in Seq(Lex)
        /\ Len(SubSeq(sub, 1, q)) = q /\ Len(SubSeq(sub, l - q + 1, l)) = q
    BY <1>1 DEF l
  <2>2. ASSUME NEW j \in 1 .. q PROVE SubSeq(sub, 1, q)[j] = SubSeq(sub, l - q + 1, l)[j]
    <3>1. SubSeq(sub, 1, q)[j] = sub[j]
      BY <1>1 DEF l
    <3>2. SubSeq(sub, l - q + 1, l)[j] = sub[l - q + j]
      BY <1>1 DEF l
    <3> QED
      BY <1>4, <3>1, <3>2
  <2> DEFINE a == SubSeq(sub, 1, q)
             b == SubSeq(sub, l - q + 1, l)
  <2>3. a \in Seq(Lex) /\ b \in Seq(Lex) /\ Len(a) = Len(b) /\ \A j \in 1 .. Len(a) : a[j] = b[j]
    BY <2>1, <2>2
  <2> HIDE DEF a, b
  <2>4. a = b
    BY <2>3, SameTerms
  <2> QED
    BY <2>4 DEF a, b
<1> QED
  BY <1>1, <1>5 DEF OverlapsItself, l

LEMMA CountOneIsUnique ==
    ASSUME NEW s \in Seq(Lex), NEW sub \in Seq(Lex), sub # <<>>, Count(s, sub) = 1
    PROVE  \E i \in DOMAIN s : i \in Occurrences(s, sub) /\ (OverlapsItself(sub) \/ Occurrences(s, sub) = {i})
<1> DEFINE m == Matching(s, sub)
           Good(n) == /\ m[n].count \in Nat
                      /\ m[n].count = 0 => m[n].next = 1 /\ \A k \in 1 .. n : ~At(s, sub, k)
                      /\ m[n].count = 1 => \E i \in 1 .. n : /\ At(s, sub, i) /\ m[n].next = i + Len(sub)
                                                             /\ OverlapsItself(sub) \/ \A k \in 1 .. n : At(s, sub, k) => k = i
<1>1. Len(sub) \in Nat /\ Len(sub) >= 1 /\ Len(s) \in Nat /\ DOMAIN s = 1 .. Len(s)
  OBVIOUS
<1>2. /\ m[0] = [next |-> 1, count |-> 0]
      /\ \A n \in Nat : m[n + 1] = IF n + 1 >= m[n].next /\ At(s, sub, n + 1)
                                   THEN [next |-> n + 1 + Len(sub), count |-> m[n].count + 1] ELSE m[n]
  BY <1>1, MatchingSteps
<1> HIDE DEF m
<1>3. Good(0)
  BY <1>2
<1>4. ASSUME NEW n \in Nat, Good(n) PROVE Good(n + 1)
  <2>1. CASE n + 1 >= m[n].next /\ At(s, sub, n + 1)
    <3>1. m[n + 1] = [next |-> n + 1 + Len(sub), count |-> m[n].count + 1]
      BY <1>2, <2>1
    <3>2. m[n + 1].next = n + 1 + Len(sub) /\ m[n + 1].count = m[n].count + 1 /\ m[n + 1].count \in Nat /\ m[n + 1].count # 0
      BY <1>4, <3>1
    <3>3. ASSUME m[n + 1].count = 1
          PROVE  \E i \in 1 .. n + 1 : /\ At(s, sub, i) /\ m[n + 1].next = i + Len(sub)
                                       /\ OverlapsItself(sub) \/ \A k \in 1 .. n + 1 : At(s, sub, k) => k = i
      <4>1. m[n].count = 0
        BY <1>4, <3>2, <3>3
      <4>2. \A k \in 1 .. n : ~At(s, sub, k)
        BY <1>4, <4>1
      <4>3. \A k \in 1 .. n + 1 : At(s, sub, k) => k = n + 1
        <5>1. \A k \in 1 .. n + 1 : k \in 1 .. n \/ k = n + 1
          OBVIOUS
        <5> QED
          BY <4>2, <5>1
      <4>4. n + 1 \in 1 .. n + 1
        OBVIOUS
      <4> QED
        BY <2>1, <3>2, <4>3, <4>4
    <3> QED
      BY <3>2, <3>3
  <2>2. CASE ~(n + 1 >= m[n].next /\ At(s, sub, n + 1))
    <3>1. m[n + 1] = m[n]
      BY <1>2, <2>2
    <3>2. ASSUME m[n].count = 0 PROVE \A k \in 1 .. n + 1 : ~At(s, sub, k)
      <4>1. m[n].next = 1 /\ \A k \in 1 .. n : ~At(s, sub, k)
        BY <1>4, <3>2
      <4>2. ~At(s, sub, n + 1)
        BY <2>2, <4>1
      <4>3. \A k \in 1 .. n + 1 : k \in 1 .. n \/ k = n + 1
        OBVIOUS
      <4> QED
        BY <4>1, <4>2, <4>3
    <3>3. ASSUME m[n].count = 1
          PROVE  \E i \in 1 .. n + 1 : /\ At(s, sub, i) /\ m[n].next = i + Len(sub)
                                       /\ OverlapsItself(sub) \/ \A k \in 1 .. n + 1 : At(s, sub, k) => k = i
      <4>1. PICK i \in 1 .. n : /\ At(s, sub, i) /\ m[n].next = i + Len(sub)
                                /\ OverlapsItself(sub) \/ \A k \in 1 .. n : At(s, sub, k) => k = i
        BY <1>4, <3>3
      <4>2. OverlapsItself(sub) \/ ~At(s, sub, n + 1)
        <5>1. ASSUME At(s, sub, n + 1) PROVE OverlapsItself(sub)
          <6>1. n + 1 < i + Len(sub) /\ i < n + 1 /\ i \in Nat /\ n + 1 \in Nat
            BY <1>1, <2>2, <4>1, <5>1
          <6> QED
            BY <4>1, <5>1, <6>1, CloseMeansOverlap
        <5> QED
          BY <5>1
      <4>3. \A k \in 1 .. n + 1 : k \in 1 .. n \/ k = n + 1
        OBVIOUS
      <4>4. i \in 1 .. n + 1
        OBVIOUS
      <4> QED
        BY <4>1, <4>2, <4>3, <4>4
    <3> QED
      BY <1>4, <3>1, <3>2, <3>3
  <2> QED
    BY <2>1, <2>2
<1>5. \A n \in Nat : Good(n)
  <2> DEFINE T == {n \in Nat : ~Good(n)}
  <2> HIDE DEF Good
  <2>1. CASE T = {}
    BY <2>1
  <2>2. CASE T # {}
    <3>1. PICK n \in T : \A k \in T : n <= k
      BY <2>2, LeastNumber
    <3>2. n # 0
      BY <1>3, <3>1
    <3>3. n - 1 \in Nat /\ (n - 1) + 1 = n /\ n - 1 \notin T
      BY <3>1, <3>2
    <3>4. Good((n - 1) + 1)
      BY <1>4, <3>3
    <3> QED
      BY <3>1, <3>3, <3>4
  <2> QED
    BY <2>1, <2>2
<1>6. m[Len(s)].count = 1
  BY DEF Count, m
<1>7. PICK i \in 1 .. Len(s) : At(s, sub, i) /\ (OverlapsItself(sub) \/ \A k \in 1 .. Len(s) : At(s, sub, k) => k = i)
  BY <1>1, <1>5, <1>6
<1>8. i \in Occurrences(s, sub) /\ (OverlapsItself(sub) \/ Occurrences(s, sub) = {i})
  BY <1>1, <1>7 DEF Occurrences
<1> QED
  BY <1>1, <1>8
LEMMA NormalizeTyped ==
    ASSUME NEW s \in Seq(Lex), NEW crlf
    PROVE  NormalizeEol(s, crlf) \in Seq(Lex) /\ Len(NormalizeEol(s, crlf)) = Len(s)
<1> DEFINE e(i) == IF s[i] \in {"LF", "CRLF"} THEN IF crlf THEN "CRLF" ELSE "LF" ELSE s[i]
<1>1. Len(s) \in Nat /\ DOMAIN s = 1 .. Len(s)
  OBVIOUS
<1>2. \A i \in 1 .. Len(s) : e(i) \in Lex
  <2>1. "LF" \in Lex /\ "CRLF" \in Lex
    BY DEF Lex
  <2>2. \A i \in 1 .. Len(s) : s[i] \in Lex
    OBVIOUS
  <2> QED
    BY <2>1, <2>2
<1> HIDE DEF e
<1>3. ASSUME NEW n \in Nat, NEW S, \A i \in 1 .. n : e(i) \in S
      PROVE  [i \in 1 .. n |-> e(i)] \in Seq(S) /\ Len([i \in 1 .. n |-> e(i)]) = n
  BY <1>3
<1>4. NormalizeEol(s, crlf) = [i \in 1 .. Len(s) |-> e(i)]
  BY <1>1 DEF NormalizeEol, e
<1> QED
  BY <1>1, <1>2, <1>3, <1>4

\* What the property says of an edit whose file nobody else changed.
OneReplaced ==
    IF ~seen.ok THEN Content(call.path) = seen.was
    ELSE LET was == seen.was[1]
             old == NormalizeEol(call.old, HasCrlf(was))
             new == NormalizeEol(call.new, HasCrlf(was))
             places == Occurrences(was, old)
         IN OverlapsItself(old) \/
            \E i \in places : /\ places = {i}
                              /\ files[call.path] = SubSeq(was, 1, i - 1) \o new
                                                      \o SubSeq(was, i + Len(old), Len(was))

FilesText == \A path \in DOMAIN files : files[path] \in Seq(Lex)

EditInv ==
    /\ FilesText
    /\ call.tool \in {"edit", "write_file"} => call.old \in Seq(Lex) /\ call.new \in Seq(Lex)
    /\ outer # <<>> => outer[1].call.tool = "task"
    /\ stage = "edit" => call.tool = "edit" /\ got \in Seq(Lex) /\ call.old # <<>>
    /\ call.tool = "edit" /\ ~seen.foreign =>
          /\ stage \in {"pre", "run", "edit"} => Content(call.path) = seen.was
          /\ stage = "edit" => seen.was = <<got>>
          /\ stage \in {"post", "late", "done"} /\ ~seen.torn => OneReplaced

\* A step that leaves the call, the files and what is noted of them alone.
Passes ==
    /\ UNCHANGED <<files, call, got, outer>>
    /\ seen'.was = seen.was /\ seen'.ok = seen.ok /\ seen'.foreign = seen.foreign /\ seen'.torn = seen.torn
    /\ \/ stage' = stage
       \/ stage = "pre" /\ stage' \in {"run", "done"}
       \/ stage \in {"post", "late"} /\ stage' = "done"

LEMMA PassesKeeps == EditInv /\ Told /\ Passes => EditInv'
<1> SUFFICES ASSUME EditInv, Told, Passes PROVE EditInv'
  OBVIOUS
<1>1. OneReplaced' <=> OneReplaced
  BY DEF Passes, OneReplaced, Content
<1>2. stage = "pre" /\ Content(call.path) = seen.was => OneReplaced
  BY DEF Told, OneReplaced
<1>3. Content(call.path)' = Content(call.path) /\ FilesText'
  BY DEF Passes, Content, EditInv, FilesText
<1> HIDE DEF OneReplaced
<1>4. UNCHANGED <<call, got, outer>> /\ seen'.was = seen.was /\ seen'.foreign = seen.foreign /\ seen'.torn = seen.torn
  BY DEF Passes
<1>5. CASE stage' = stage
  BY <1>1, <1>3, <1>4, <1>5 DEF EditInv
<1>6. CASE stage = "pre" /\ stage' \in {"run", "done"}
  BY <1>1, <1>2, <1>3, <1>4, <1>6 DEF EditInv
<1>7. CASE stage \in {"post", "late"} /\ stage' = "done"
  BY <1>1, <1>3, <1>4, <1>7 DEF EditInv
<1> QED
  BY <1>5, <1>6, <1>7 DEF Passes

LEMMA QuietPasses ==
    ASSUME NEW w, seen \in Seen(w), UNCHANGED outer
    PROVE  /\ \A run : PreHook(run) \/ PostHook(run) => Passes
           /\ \A verdict : Permission(verdict) => Passes
           /\ \A hooks : Skips(hooks) => Passes
           /\ Finish => Passes
<1>1. ASSUME NEW run, PreHook(run) PROVE Passes
  <2> DEFINE now == seen.exit2 \/ (run.way = "exit" /\ run.code = 2)
  <2>1. seen' = [seen EXCEPT !.exit2 = now]
    BY <1>1 DEF PreHook
  <2> HIDE DEF now
  <2>2. seen'.was = seen.was /\ seen'.ok = seen.ok /\ seen'.foreign = seen.foreign /\ seen'.torn = seen.torn
    BY <2>1 DEF Seen
  <2>3. UNCHANGED <<files, call, got, outer>> /\ stage = "pre" /\ stage' \in {"pre", "done"}
    BY <1>1 DEF PreHook, Ends
  <2> QED
    BY <2>2, <2>3 DEF Passes
<1>2. ASSUME NEW run, PostHook(run) PROVE Passes
  BY <1>2 DEF PostHook, Passes
<1>3. ASSUME NEW verdict, Permission(verdict) PROVE Passes
  <2> DEFINE allowed == verdict = "allow" \/ (verdict = "ask" /\ (policy.all \/ call.tool \in policy.allowed))
             asked == verdict = "ask"
  <2>1. seen' = [seen EXCEPT !.denied = ~allowed, !.asked = asked]
    BY <1>3 DEF Permission
  <2>2. UNCHANGED <<files, call, got, outer>> /\ stage = "pre" /\ stage' \in {"run", "done"}
    BY <1>3 DEF Permission, Ends
  <2> HIDE DEF allowed, asked
  <2>3. seen'.was = seen.was /\ seen'.ok = seen.ok /\ seen'.foreign = seen.foreign /\ seen'.torn = seen.torn
    BY <2>1 DEF Seen
  <2> QED
    BY <2>2, <2>3 DEF Passes
<1>4. ASSUME NEW hooks, Skips(hooks) PROVE Passes
  BY <1>4 DEF Skips, Passes
<1>5. ASSUME Finish PROVE Passes
  BY <1>5 DEF Finish, Passes
<1> QED
  BY <1>1, <1>2, <1>3, <1>4, <1>5
\* A tool that is no edit leaves every file a text.
LEMMA OtherToolsKeep ==
    ASSUME EditInv, FilesText', call' = call, UNCHANGED outer, call.tool # "edit", stage' # "edit"
    PROVE  EditInv'
<1>1. UNCHANGED <<call, outer>>
  OBVIOUS
<1> QED
  BY <1>1 DEF EditInv

LEMMA WritesText ==
    ASSUME FilesText, NEW path, NEW text \in Seq(Lex), Writes(path, text)
    PROVE  FilesText'
<1>1. <<>> \in Seq(Lex)
  OBVIOUS
<1>2. ASSUME NEW t \in Seq(Lex), files' = [p \in DOMAIN files \cup {path} |-> IF p = path THEN t ELSE files[p]]
      PROVE  FilesText'
  BY <1>2 DEF FilesText
<1>3. CASE files' = files
  BY <1>3 DEF FilesText
<1> QED
  BY <1>1, <1>2, <1>3 DEF Writes

LEMMA DisturbsText == FilesText /\ Disturbs => FilesText'
<1> SUFFICES ASSUME FilesText, Disturbs PROVE FilesText'
  OBVIOUS
<1>1. Contents \subseteq Seq(Lex)
  <2>1. Seq(STRING) \subseteq Seq(Lex)
    BY DEF Lex
  <2> QED
    BY <2>1, TextAssumption
<1>2. PICK p \in Paths, c \in Contents : files' = [q \in DOMAIN files \cup {p} |-> IF q = p THEN c ELSE files[q]]
  BY DEF Disturbs
<1> QED
  BY <1>1, <1>2 DEF FilesText

LEMMA ToolsKeepText ==
    ASSUME EditInv, UNCHANGED outer
    PROVE  /\ \A outcome : Search(outcome) \/ ListDir(outcome) \/ Skill(outcome) => EditInv'
           /\ \A outcome : ReadFile(outcome) \/ McpTool(outcome) => EditInv'
           /\ WriteFile \/ Bash => EditInv'
<1>1. ASSUME NEW outcome, NEW tool \in {"search", "list_dir", "skill"}, Looks(tool, outcome) PROVE EditInv'
  <2>1. call.tool = tool /\ UNCHANGED <<files, call>> /\ stage' \in {"post", "late"}
    BY <1>1 DEF Looks, Comes, Executes, Succeeds
  <2>2. FilesText' /\ call.tool # "edit" /\ stage' # "edit"
    BY <2>1 DEF EditInv, FilesText
  <2> QED
    BY <2>1, <2>2, OtherToolsKeep
<1>2. ASSUME NEW outcome, ReadFile(outcome) PROVE EditInv'
  <2>1. call.tool = "read_file" /\ UNCHANGED <<files, call>> /\ stage' \in {"post", "late"}
    BY <1>2 DEF ReadFile, Comes, Executes, Succeeds
  <2>2. FilesText' /\ call.tool # "edit" /\ stage' # "edit"
    BY <2>1 DEF EditInv, FilesText
  <2> QED
    BY <2>1, <2>2, OtherToolsKeep
<1>5. ASSUME NEW outcome, McpTool(outcome) PROVE EditInv'
  <2>1. /\ call.tool \in McpTools /\ UNCHANGED call /\ stage' \in {"post", "late"}
        /\ Disturbs \/ UNCHANGED files
    BY <1>5 DEF McpTool, Comes, Executes, Succeeds
  <2>2. FilesText'
    <3>1. FilesText
      BY DEF EditInv
    <3>2. CASE UNCHANGED files
      BY <3>1, <3>2 DEF FilesText
    <3> QED
      BY <2>1, <3>1, <3>2, DisturbsText
  <2>3. call.tool # "edit" /\ stage' # "edit"
    BY <2>1, McpAssumption DEF KnownTools, FileTools
  <2> QED
    BY <2>1, <2>2, <2>3, OtherToolsKeep
<1>3. ASSUME WriteFile PROVE EditInv'
  <2>1. /\ call.tool = "write_file" /\ call' = call /\ stage' \in {"post", "late"}
        /\ Writes(call.path, call.new)
    BY <1>3 DEF WriteFile, Executes, Succeeds
  <2>2. call.new \in Seq(Lex) /\ FilesText
    BY <2>1 DEF EditInv
  <2>3. FilesText' /\ call.tool # "edit" /\ stage' # "edit"
    BY <2>1, <2>2, WritesText
  <2> QED
    BY <2>1, <2>3, OtherToolsKeep
<1>4. ASSUME Bash PROVE EditInv'
  <2>1. call.tool = "bash" /\ call' = call /\ stage' = "post"
    BY <1>4 DEF Bash, Executes, Succeeds
  <2>2. FilesText'
    BY <1>4, DisturbsText DEF Bash, EditInv
  <2>3. call.tool # "edit" /\ stage' # "edit"
    BY <2>1
  <2> QED
    BY <2>1, <2>2, <2>3, OtherToolsKeep
<1> QED
  BY <1>1, <1>2, <1>3, <1>4, <1>5 DEF Search, ListDir, Skill

LEMMA StartKeepsText ==
    ASSUME EditInv, UNCHANGED outer, NEW tool, NEW path, NEW old \in Seq(Lex), NEW new \in Seq(Lex), NEW raw,
           Start(tool, path, old, new, raw)
    PROVE  EditInv'
<1>1. /\ call' = [tool |-> tool, path |-> path, old |-> old, new |-> new]
      /\ UNCHANGED <<files, got>> /\ stage' \in {"pre", "done"}
  BY DEF Start, Ends
<1>2. seen' = [Nothing EXCEPT !.was = Content(path), !.readable = HoldsObject(raw, ValidArgs)]
  BY DEF Start
<1>3. seen'.was = Content(path) /\ seen'.ok = FALSE
  BY <1>2 DEF Nothing
<1>4. call'.tool = tool /\ call'.path = path /\ call'.old = old /\ call'.new = new
  BY <1>1
<1>5. Content(call.path)' = Content(path) /\ FilesText'
  BY <1>1, <1>4 DEF Content, EditInv, FilesText
<1>6. OneReplaced'
  BY <1>3, <1>4, <1>5 DEF OneReplaced
<1> HIDE DEF OneReplaced
<1> QED
  BY <1>1, <1>3, <1>4, <1>5, <1>6 DEF EditInv

LEMMA EditReadKeeps ==
    ASSUME EditInv, Told, UNCHANGED outer, NEW w, seen \in Seen(w), EditRead
    PROVE  EditInv'
<1>1. /\ seen' = [seen EXCEPT !.ran = TRUE] /\ UNCHANGED <<call, files>> /\ stage = "run" /\ call.tool = "edit"
  BY DEF EditRead, Executes, EditFails
<1>2. seen'.was = seen.was /\ seen'.ok = seen.ok /\ seen'.foreign = seen.foreign /\ seen'.torn = seen.torn
  BY <1>1 DEF Seen
<1>3. ~seen.ok /\ FilesText'
  BY <1>1 DEF Told, EditInv, FilesText
<1>4. ~seen.foreign => Content(call.path) = seen.was
  BY <1>1 DEF EditInv
<1>5. CASE stage' = "late"
  <2>1. ~seen.foreign => OneReplaced'
    BY <1>1, <1>2, <1>3, <1>4 DEF OneReplaced, Content
  <2> HIDE DEF OneReplaced
  <2> QED
    BY <1>1, <1>2, <1>3, <1>5, <2>1 DEF EditInv
<1>6. CASE stage' # "late"
  <2>1. /\ stage' = "edit" /\ got' = files[call.path] /\ call.old # <<>> /\ Content(call.path) # <<>>
    BY <1>6 DEF EditRead, EditFails
  <2>2. call.path \in DOMAIN files /\ Content(call.path) = <<got'>> /\ got' \in Seq(Lex)
    BY <2>1 DEF Content, EditInv, FilesText
  <2>3. Content(call.path)' = Content(call.path)
    BY <1>1 DEF Content
  <2>4. /\ ~seen.foreign => Content(call.path)' = seen'.was /\ seen'.was = <<got'>>
    BY <1>2, <1>4, <2>2, <2>3
  <2>5. call'.old # <<>> /\ UNCHANGED <<call, outer>>
    BY <1>1, <2>1
  <2> QED
    BY <1>1, <1>2, <1>3, <2>1, <2>2, <2>4, <2>5 DEF EditInv
<1> QED
  BY <1>5, <1>6

\* What is written back: a text, and the one that the property asks for.
LEMMA ReplacedText ==
    ASSUME NEW s \in Seq(Lex), NEW old \in Seq(Lex), old # <<>>, NEW new \in Seq(Lex), IsUnique(s, old)
    PROVE  /\ ReplaceFirst(s, old, new) \in Seq(Lex)
           /\ OverlapsItself(old) \/
              \E i \in Occurrences(s, old) :
                 /\ Occurrences(s, old) = {i}
                 /\ ReplaceFirst(s, old, new) = SubSeq(s, 1, i - 1) \o new \o SubSeq(s, i + Len(old), Len(s))
<1>1. PICK k \in DOMAIN s : k \in Occurrences(s, old) /\ (OverlapsItself(old) \/ Occurrences(s, old) = {k})
  BY CountOneIsUnique DEF IsUnique
<1> DEFINE T == Occurrences(s, old)
           i == CHOOSE i \in T : \A j \in T : i <= j
<1>2. Len(s) \in Nat /\ Len(old) \in Nat /\ DOMAIN s = 1 .. Len(s)
  OBVIOUS
<1>3. T \subseteq Nat /\ T # {} /\ T \subseteq 1 .. Len(s)
  BY <1>1, <1>2 DEF Occurrences
<1>4. i \in T
  <2> HIDE DEF T
  <2>1. \E x \in T : \A y \in T : x <= y
    BY <1>3, LeastNumber
  <2> QED
    BY <2>1
<1>5. ReplaceFirst(s, old, new) = SubSeq(s, 1, i - 1) \o new \o SubSeq(s, i + Len(old), Len(s))
  BY DEF ReplaceFirst
<1> HIDE DEF i
<1>6. i \in 1 .. Len(s)
  <2> HIDE DEF T
  <2> QED
    BY <1>3, <1>4
<1>7. SubSeq(s, 1, i - 1) \in Seq(Lex) /\ SubSeq(s, i + Len(old), Len(s)) \in Seq(Lex)
  <2>1. ASSUME NEW a \in Nat, NEW b \in Nat, a >= 1, b <= Len(s) PROVE SubSeq(s, a, b) \in Seq(Lex)
    BY <1>2, <2>1
  <2>2. i - 1 \in Nat /\ i - 1 <= Len(s) /\ i + Len(old) \in Nat /\ i + Len(old) >= 1
    BY <1>2, <1>6
  <2> QED
    BY <1>2, <2>1, <2>2
<1>8. ReplaceFirst(s, old, new) \in Seq(Lex)
  BY <1>5, <1>7
<1> QED
  BY <1>1, <1>4, <1>5, <1>8

LEMMA EditWriteKeeps ==
    ASSUME EditInv, Told, UNCHANGED outer, NEW w, seen \in Seen(w), EditWrite
    PROVE  EditInv'
<1> DEFINE old == NormalizeEol(call.old, HasCrlf(got))
           new == NormalizeEol(call.new, HasCrlf(got))
<1>1. /\ call' = call /\ stage = "edit" /\ call.tool = "edit" /\ stage' \in {"post", "late"}
      /\ got \in Seq(Lex) /\ call.old # <<>> /\ call.old \in Seq(Lex) /\ call.new \in Seq(Lex)
  BY DEF EditWrite, EditFails, Succeeds, EditInv
<1>2. old \in Seq(Lex) /\ new \in Seq(Lex) /\ old # <<>>
  <2>1. Len(call.old) \in Nat /\ Len(call.old) # 0
    BY <1>1
  <2>2. old \in Seq(Lex) /\ new \in Seq(Lex) /\ Len(old) = Len(call.old)
    BY <1>1, NormalizeTyped
  <2> HIDE DEF old, new
  <2> QED
    BY <2>1, <2>2
<1>3. ~seen.ok /\ FilesText /\ (~seen.foreign => Content(call.path) = seen.was /\ seen.was = <<got>>)
  BY <1>1 DEF Told, EditInv
<1>4. CASE ~IsUnique(got, old)
  <2>1. UNCHANGED <<files, seen>> /\ stage' = "late"
    BY <1>4 DEF EditWrite, EditFails
  <2>2. FilesText' /\ (~seen.foreign => OneReplaced')
    BY <1>1, <1>3, <2>1 DEF OneReplaced, Content, FilesText
  <2> HIDE DEF OneReplaced, old, new
  <2> QED
    BY <1>1, <2>1, <2>2 DEF EditInv
<1>5. CASE IsUnique(got, old)
  <2> DEFINE text == ReplaceFirst(got, old, new)
  <2>1. Writes(call.path, text)
    BY <1>5 DEF EditWrite
  <2>2. /\ text \in Seq(Lex)
        /\ OverlapsItself(old) \/
           \E i \in Occurrences(got, old) :
              /\ Occurrences(got, old) = {i}
              /\ text = SubSeq(got, 1, i - 1) \o new \o SubSeq(got, i + Len(old), Len(got))
    <3> HIDE DEF old, new
    <3> QED
      BY <1>1, <1>2, <1>5, ReplacedText
  <2>3. FilesText'
    <3> HIDE DEF text
    <3> QED
      BY <1>3, <2>1, <2>2, WritesText
  <2> HIDE DEF text, old, new
  <2>4. CASE seen' = [seen EXCEPT !.ran = TRUE, !.torn = TRUE]
    <3>1. seen'.torn = TRUE
      BY <2>4 DEF Seen
    <3> QED
      BY <1>1, <2>3, <3>1 DEF EditInv
  <2>5. CASE /\ files' = [p \in DOMAIN files \cup {call.path} |-> IF p = call.path THEN text ELSE files[p]]
             /\ seen' = [seen EXCEPT !.ran = TRUE, !.ok = TRUE]
    <3>1. seen'.ok = TRUE /\ seen'.was = seen.was /\ seen'.foreign = seen.foreign
      BY <2>5 DEF Seen
    <3>2. files'[call.path] = text
      BY <2>5
    <3>3. ASSUME ~seen.foreign PROVE OneReplaced'
      <4>1. seen'.was[1] = got
        BY <1>3, <3>1, <3>3
      <4> QED
        BY <1>1, <2>2, <3>1, <3>2, <4>1 DEF OneReplaced, old, new
    <3> HIDE DEF OneReplaced
    <3> QED
      BY <1>1, <2>3, <3>1, <3>3 DEF EditInv
  <2> QED
    BY <2>1, <2>4, <2>5 DEF Writes
<1> QED
  BY <1>4, <1>5
LEMMA OthersKeep ==
    ASSUME EditInv, UNCHANGED outer, NEW w, seen \in Seen(w), NEW content \in Contents, OtherProcess(content)
    PROVE  EditInv'
<1>1. /\ files' = [files EXCEPT ![call.path] = content] /\ UNCHANGED <<call, got, stage>>
      /\ seen' = [seen EXCEPT !.foreign = TRUE]
  BY DEF OtherProcess, cvars
<1>2. seen'.foreign = TRUE
  BY <1>1 DEF Seen
<1>3. content \in Seq(Lex)
  <2>1. Seq(STRING) \subseteq Seq(Lex)
    BY DEF Lex
  <2> QED
    BY <2>1, TextAssumption
<1>4. FilesText'
  BY <1>1, <1>3 DEF EditInv, FilesText
<1> QED
  BY <1>1, <1>2, <1>4 DEF EditInv

LEMMA CallKeepsText ==
    ASSUME EditInv, Told, UNCHANGED outer, NEW w, seen \in Seen(w), CallNext
    PROVE  EditInv'
<1>0. Contents \subseteq Seq(Lex) /\ Snippets \subseteq Seq(Lex) /\ <<>> \in Seq(Lex)
  <2>1. Seq(STRING) \subseteq Seq(Lex)
    BY DEF Lex
  <2> QED
    BY <2>1, TextAssumption
<1>1. CASE \E tool \in ToolNames, path \in Paths, raw \in RawArgs :
              \/ tool = "edit" /\ \E old, new \in Snippets : Start(tool, path, old, new, raw)
              \/ tool = "write_file" /\ \E new \in Contents : Start(tool, path, <<>>, new, raw)
              \/ tool \notin {"edit", "write_file"} /\ Start(tool, path, <<>>, <<>>, raw)
  <2>1. PICK tool \in ToolNames, path \in Paths, raw \in RawArgs :
              \/ tool = "edit" /\ \E old, new \in Snippets : Start(tool, path, old, new, raw)
              \/ tool = "write_file" /\ \E new \in Contents : Start(tool, path, <<>>, new, raw)
              \/ tool \notin {"edit", "write_file"} /\ Start(tool, path, <<>>, <<>>, raw)
    BY <1>1
  <2>2. ASSUME NEW old \in Seq(Lex), NEW new \in Seq(Lex), Start(tool, path, old, new, raw)
        PROVE  EditInv'
    BY <2>2, StartKeepsText
  <2>3. CASE \E old, new \in Snippets : Start(tool, path, old, new, raw)
    <3>1. PICK old \in Snippets, new \in Snippets : Start(tool, path, old, new, raw)
      BY <2>3
    <3>2. old \in Seq(Lex) /\ new \in Seq(Lex)
      BY <1>0
    <3> QED
      BY <2>2, <3>1, <3>2
  <2>4. CASE \E new \in Contents : Start(tool, path, <<>>, new, raw)
    <3>1. PICK new \in Contents : Start(tool, path, <<>>, new, raw)
      BY <2>4
    <3>2. new \in Seq(Lex)
      BY <1>0
    <3> QED
      BY <1>0, <2>2, <3>1, <3>2
  <2>5. CASE Start(tool, path, <<>>, <<>>, raw)
    BY <1>0, <2>2, <2>5
  <2> QED
    BY <2>1, <2>3, <2>4, <2>5
<1>2. CASE Skips(PreHooks) \/ Skips(PostHooks) \/ Finish
           \/ (\E run \in Runs : PreHook(run) \/ PostHook(run))
           \/ \E verdict \in {"allow", "deny", "ask"} : Permission(verdict)
  <2>1. Passes
    BY <1>2, QuietPasses
  <2> QED
    BY <2>1, PassesKeeps
<1>3. CASE WriteFile \/ Bash \/ \E outcome \in Outcomes :
              ReadFile(outcome) \/ Search(outcome) \/ ListDir(outcome) \/ Skill(outcome) \/ McpTool(outcome)
  BY <1>3, ToolsKeepText
<1>4. CASE EditRead
  BY <1>4, EditReadKeeps
<1>5. CASE EditWrite
  BY <1>5, EditWriteKeeps
<1>6. CASE \E content \in Contents : OtherProcess(content)
  BY <1>6, OthersKeep
<1> QED
  BY <1>1, <1>2, <1>3, <1>4, <1>5, <1>6 DEF CallNext

LEMMA StepKeepsText == IInv /\ EditInv /\ [HNext]_<<tvars, hvars>> => EditInv'
<1> SUFFICES ASSUME IInv, EditInv, [HNext]_<<tvars, hvars>> PROVE EditInv'
  OBVIOUS
<1>0. PICK w : seen \in Seen(w)
  BY DEF IInv, Shaped, IsSeen
<1>a. ASSUME UNCHANGED <<files, call, got, outer, seen, stage>> PROVE EditInv'
  <2>1. Passes
    BY <1>a DEF Passes
  <2> QED
    BY <2>1, PassesKeeps DEF IInv
<1>1. ASSUME NEW list, NEW no, NEW allow, NEW connected, RunOnce(list, no, allow, connected) PROVE EditInv'
  <2>1. UNCHANGED <<files, call, got, outer, seen, stage>>
    BY <1>1 DEF RunOnce, Fails, TurnBegins, tvars, cvars
  <2> QED
    BY <1>a, <2>1
<1>2. ASSUME NEW remote, NEW status, RunIssue(remote, status) PROVE EditInv'
  <2>1. UNCHANGED <<files, call, got, outer, seen, stage>>
    BY <1>2 DEF RunIssue, Fails, TurnBegins, tvars, cvars
  <2> QED
    BY <1>a, <2>1
<1>3. ASSUME Calls PROVE EditInv'
  <2>1. CallNext /\ UNCHANGED outer
    BY <1>3 DEF Calls
  <2> QED
    BY <1>0, <2>1, CallKeepsText DEF IInv
<1>4. ASSUME Answered PROVE EditInv'
  <2>1. stage' = "idle" /\ call' = NoCall /\ UNCHANGED <<files, outer>>
    BY <1>4 DEF Answered, NextCall, hvars
  <2>2. call'.tool \notin {"edit", "write_file"} /\ FilesText'
    BY <2>1 DEF NoCall, None, EditInv, FilesText
  <2> QED
    BY <2>1, <2>2 DEF EditInv
<1>5. ASSUME Task PROVE EditInv'
  <2> DEFINE caller == [call |-> call, note |-> note, seen |-> [seen EXCEPT !.ran = TRUE], registry |-> registry, policy |-> policy]
  <2>1. stage' = "idle" /\ call' = NoCall /\ UNCHANGED files /\ outer' = <<caller>> /\ call.tool = "task"
    BY <1>5 DEF Task, Executes
  <2>2. caller.call = call
    OBVIOUS
  <2> HIDE DEF caller
  <2>3. outer'[1].call.tool = "task"
    BY <2>1, <2>2
  <2>4. call'.tool \notin {"edit", "write_file"} /\ FilesText'
    BY <2>1 DEF NoCall, None, EditInv, FilesText
  <2> QED
    BY <2>1, <2>3, <2>4 DEF EditInv
<1>6. ASSUME NEW outcome, TaskReturns(outcome) PROVE EditInv'
  <2>1. stage' = "post" /\ call' = outer[1].call /\ outer # <<>> /\ outer' = <<>> /\ UNCHANGED files
    BY <1>6 DEF TaskReturns, Succeeds
  <2>2. call'.tool = "task" /\ FilesText'
    BY <2>1 DEF EditInv, FilesText
  <2> QED
    BY <2>1, <2>2 DEF EditInv
<1>7. ASSUME NEW outcome, RunAnswers(outcome) \/ IssueAnswers(outcome) PROVE EditInv'
  <2>1. UNCHANGED <<files, call, got, outer, seen, stage>>
    BY <1>7 DEF RunAnswers, IssueAnswers, tvars, cvars
  <2> QED
    BY <1>a, <2>1
<1>8. ASSUME NEW tests, IssueShows(tests) PROVE EditInv'
  <2>1. UNCHANGED <<files, call, got, outer, seen, stage>>
    BY <1>8 DEF IssueShows, tvars, cvars
  <2> QED
    BY <1>a, <2>1
<1>9. ASSUME UNCHANGED <<tvars, hvars>> PROVE EditInv'
  <2>1. UNCHANGED <<files, call, got, outer, seen, stage>>
    BY <1>9 DEF tvars, cvars, hvars
  <2> QED
    BY <1>a, <2>1
<1> QED
  BY <1>1, <1>2, <1>3, <1>4, <1>5, <1>6, <1>7, <1>8, <1>9 DEF HNext

\* An edit that reports success changed the one place its snippet stands at and
\* nothing else, an edit that reports failure nothing, unless somebody else
\* wrote the file meanwhile or the write itself failed (edit.rs).
THEOREM EditsAreExact == HSpec => []EditReplacesTheOne
<1>1. HInit => EditInv
  <2> SUFFICES ASSUME HInit PROVE EditInv
    OBVIOUS
  <2>1. files \in Trees /\ stage = "idle" /\ outer = <<>> /\ call = NoCall
    BY DEF HInit, CallInit
  <2>2. Seq(STRING) \subseteq Seq(Lex)
    BY DEF Lex
  <2>3. FilesText /\ call.tool \notin {"edit", "write_file"}
    BY <2>1, <2>2, TreesAssumption DEF FilesText, NoCall, None
  <2> QED
    BY <2>1, <2>3 DEF EditInv
<1>2. EditInv => EditReplacesTheOne
  BY DEF EditInv, EditReplacesTheOne, OneReplaced
<1> QED
  BY <1>1, <1>2, StepKeepsText, Invariance, PTL DEF HSpec

-----------------------------------------------------------------------------
(* The configuration's files *)

FSpec == FInit /\ [][FNext]_fvars

FileStates == {"absent", "empty", "toml", "garbage", "closed"}
Jobs(W) == [at : {"idle", "asking", "loaded", "emptied"}, file : {"none", "config", "secrets"}, new : W, tries : Nat]

FilesShaped ==
    /\ config = File(config.is, config.has)
    /\ config.is \in FileStates /\ secrets.is \in FileStates \ {"closed"}
    /\ config.is \in {"absent", "empty"} => config.has = NoConfig
    /\ secrets.is \in {"absent", "empty"} => secrets.has = NoKeys

\* A process that is not saving holds no file.
JobsShaped ==
    \E W : /\ proc \in [Procs -> Jobs(W)]
           /\ \A p \in Procs : proc[p].file = "none" <=> proc[p].at \in {"idle", "asking"}

\* Stored keys, and those a process is about to store.
IsKeys(keys) == keys = [p \in Providers |-> keys[p]]
GivenKeys(keys) == \A p \in Providers : keys[p] \in {Unset, Blank} \/ <<p, keys[p]>> \in given
KeysGiven == 
    /\ IsKeys(secrets.has) /\ GivenKeys(secrets.has)
    /\ \A p \in Procs : proc[p].file = "secrets" => IsKeys(proc[p].new) /\ GivenKeys(proc[p].new)

\* While all is calm a file has at most one writer, and is as wanted or will
\* be once its writer is done.
Alone(file) == \A p, q \in Procs : proc[p].file = file /\ proc[q].file = file => p = q
Settled(file, has, wanted) ==
    /\ Alone(file)
    /\ \A p \in Procs : proc[p].file = file => wanted = File("toml", proc[p].new)
    /\ (\A p \in Procs : proc[p].file # file) => has.is = wanted.is /\ has.has = wanted.has
InOrder == calm => Settled("config", config, want.config) /\ Settled("secrets", secrets, want.secrets)
WantShaped == want = [config |-> want.config, secrets |-> want.secrets]

FInv == FilesShaped /\ JobsShaped /\ KeysGiven /\ InOrder /\ WantShaped

LEMMA FilesStart == FInit => FInv
<1> SUFFICES ASSUME FInit PROVE FInv
  OBVIOUS
<1>1. FilesShaped
  BY StartsAssumption DEF FInit, FilesShaped, FileStates, File
<1>2. JobsShaped
  <2>1. Idle \in Jobs({NoConfig}) /\ Idle.file = "none" /\ Idle.at = "idle"
    BY DEF Idle, Jobs
  <2>2. proc \in [Procs -> Jobs({NoConfig})] /\ \A p \in Procs : proc[p].file = "none" /\ proc[p].at = "idle"
    BY <2>1 DEF FInit
  <2> QED
    BY <2>2 DEF JobsShaped
<1>3. \A p \in Procs : proc[p].file = "none"
  BY DEF FInit, Idle
<1>4. KeysGiven
  <2>1. secrets.has = NoKeys \/ secrets.has = [NoKeys EXCEPT !["openai"] = Blank]
    BY DEF FInit, File
  <2>2. IsKeys(secrets.has)
    BY <2>1 DEF NoKeys, IsKeys
  <2>3. \A p \in Providers : secrets.has[p] \in {Unset, Blank}
    BY <2>1 DEF NoKeys
  <2> QED
    BY <1>3, <2>2, <2>3 DEF KeysGiven, GivenKeys
<1>5. InOrder /\ WantShaped
  BY <1>3 DEF FInit, InOrder, Settled, Alone, WantShaped
<1> QED
  BY <1>1, <1>2, <1>4, <1>5 DEF FInv

LEMMA JobChanges ==
    ASSUME FInv, NEW p \in Procs, NEW at \in {"idle", "asking", "loaded", "emptied"}, NEW file \in {"none", "config", "secrets"},
           NEW new, NEW tries \in Nat, file = "none" <=> at \in {"idle", "asking"},
           proc' = [proc EXCEPT ![p] = [at |-> at, file |-> file, new |-> new, tries |-> tries]]
    PROVE  /\ JobsShaped'
           /\ proc'[p].at = at /\ proc'[p].file = file /\ proc'[p].new = new
           /\ \A q \in Procs \ {p} : proc'[q] = proc[q]
<1>1. PICK W : proc \in [Procs -> Jobs(W)]
  BY DEF FInv, JobsShaped
<1> DEFINE job == [at |-> at, file |-> file, new |-> new, tries |-> tries]
<1>2. job.at = at /\ job.file = file /\ job.new = new /\ job \in Jobs(W \cup {new})
  BY DEF Jobs
<1>3. \A q \in Procs : proc[q] \in Jobs(W \cup {new})
  BY <1>1 DEF Jobs
<1>4. proc' = [proc EXCEPT ![p] = job]
  OBVIOUS
<1> HIDE DEF job
<1>5. proc' \in [Procs -> Jobs(W \cup {new})] /\ proc'[p] = job /\ \A q \in Procs \ {p} : proc'[q] = proc[q]
  BY <1>1, <1>2, <1>3, <1>4
<1>6. \A q \in Procs : proc'[q].file = "none" <=> proc'[q].at \in {"idle", "asking"}
  BY <1>2, <1>5 DEF FInv, JobsShaped
<1> QED
  BY <1>2, <1>5, <1>6 DEF JobsShaped

\* What a command that begins to save keeps, given what it wants to save.
LEMMA BeginsKeeps ==
    ASSUME FInv, NEW p \in Procs, proc[p].file = "none", NEW file \in {"config", "secrets"}, NEW new, Begins(p, file, new),
           UNCHANGED <<config, secrets>>, given \subseteq given',
           file = "secrets" => IsKeys(new) /\ (GivenKeys(new))',
           WantShaped',
           file = "config" => want'.secrets = want.secrets,
           file = "secrets" => want'.config = want.config,
           (calm /\ ~Others(p, file)) => want'[file] = File("toml", new)
    PROVE  FInv'
<1>1. /\ JobsShaped' /\ proc'[p].file = file /\ proc'[p].new = new
      /\ \A q \in Procs \ {p} : proc'[q] = proc[q]
  <2>1. /\ proc' = [proc EXCEPT ![p] = [at |-> "loaded", file |-> file, new |-> new, tries |-> 0]]
        /\ 0 \in Nat /\ "loaded" \in {"idle", "asking", "loaded", "emptied"} /\ file \in {"none", "config", "secrets"}
        /\ file # "none"
    BY DEF Begins
  <2> QED
    BY <2>1, JobChanges
<1>2. calm' = (calm /\ ~Others(p, file))
  BY DEF Begins
<1>3. KeysGiven'
  <2>1. IsKeys(secrets.has)' /\ GivenKeys(secrets.has)'
    BY DEF FInv, KeysGiven, GivenKeys, IsKeys
  <2>2. ASSUME NEW q \in Procs, proc'[q].file = "secrets" PROVE IsKeys(proc[q].new)' /\ GivenKeys(proc[q].new)'
    <3>1. CASE q = p
      BY <1>1, <2>2, <3>1 DEF GivenKeys, IsKeys
    <3>2. CASE q # p
      BY <1>1, <2>2, <3>2 DEF FInv, KeysGiven, GivenKeys, IsKeys
    <3> QED
      BY <3>1, <3>2
  <2> QED
    BY <2>1, <2>2 DEF KeysGiven
<1>4. InOrder'
  <2> SUFFICES ASSUME calm' PROVE Settled("config", config, want.config)' /\ Settled("secrets", secrets, want.secrets)'
    BY DEF InOrder
  <2>1. calm /\ ~Others(p, file) /\ \A q \in Procs \ {p} : proc[q].file # file
    BY <1>2 DEF Others, Busy, FInv, JobsShaped
  <2>2. Settled("config", config, want.config) /\ Settled("secrets", secrets, want.secrets)
    BY <2>1 DEF FInv, InOrder
  <2>3. CASE file = "config"
    <3>1. want'.config = File("toml", new) /\ want'.secrets = want.secrets
      BY <2>1, <2>3
    <3> QED
      BY <1>1, <2>1, <2>2, <2>3, <3>1 DEF Settled, Alone
  <2>4. CASE file = "secrets"
    <3>1. want'.secrets = File("toml", new) /\ want'.config = want.config
      BY <2>1, <2>4
    <3> QED
      BY <1>1, <2>1, <2>2, <2>4, <3>1 DEF Settled, Alone
  <2> QED
    BY <2>3, <2>4
<1> QED
  BY <1>1, <1>3, <1>4 DEF FInv, FilesShaped

\* A process that gives up, or asks again.
LEMMA RestsKeeps ==
    ASSUME FInv, NEW p \in Procs, NEW at \in {"idle", "asking"}, NEW tries \in Nat,
           NEW new, proc' = [proc EXCEPT ![p] = [at |-> at, file |-> "none", new |-> new, tries |-> tries]],
           UNCHANGED <<config, secrets, want, given>>,
           calm' => calm /\ proc[p].file = "none"
    PROVE  FInv'
<1>1. JobsShaped' /\ proc'[p].file = "none" /\ \A q \in Procs \ {p} : proc'[q] = proc[q]
  BY JobChanges
<1>2. KeysGiven'
  BY <1>1 DEF FInv, KeysGiven, IsKeys, GivenKeys
<1>3. InOrder'
  BY <1>1 DEF FInv, InOrder, Settled, Alone
<1> QED
  BY <1>1, <1>2, <1>3 DEF FInv, FilesShaped, WantShaped


LEMMA SaveKeyKeeps ==
    ASSUME FInv, NEW p \in Procs, proc[p].file = "none", NEW provider \in Providers, NEW key, SaveKey(p, provider, key),
           UNCHANGED <<config, secrets>>, given' = given \cup {<<provider, key>>}
    PROVE  FInv'
<1>1. PICK keys : keys = secrets.has
  OBVIOUS
<1>2. IsKeys(keys) /\ GivenKeys(keys) /\ keys = Loaded(secrets, NoKeys)
  BY <1>1 DEF FInv, KeysGiven, FilesShaped, IsKeys, GivenKeys, NoKeys, Loaded, Loads, SaveKey, SecretsLoad
<1>3. PICK new : new = [keys EXCEPT ![provider] = key]
  OBVIOUS
<1>4. IsKeys(new) /\ \A q \in Providers : new[q] = IF q = provider THEN key ELSE keys[q]
  BY <1>2, <1>3 DEF IsKeys
<1>5. (GivenKeys(new))'
  BY <1>2, <1>4 DEF GivenKeys
<1>6. /\ Begins(p, "secrets", new)
      /\ want' = [want EXCEPT !.secrets = IF @.is = "garbage" THEN @ ELSE File("toml", [@.has EXCEPT ![provider] = key])]
  BY <1>2, <1>3 DEF SaveKey
<1>7. WantShaped' /\ want'.config = want.config
  BY <1>6 DEF FInv, WantShaped
<1>8. (calm /\ ~Others(p, "secrets")) => want'.secrets = File("toml", new)
  <2> SUFFICES ASSUME calm, ~Others(p, "secrets") PROVE want'.secrets = File("toml", new)
    OBVIOUS
  <2>1. \A q \in Procs : proc[q].file # "secrets"
    BY DEF Others, Busy, FInv, JobsShaped
  <2>2. want.secrets.is = secrets.is /\ want.secrets.has = secrets.has
    BY <2>1 DEF FInv, InOrder, Settled
  <2>3. secrets.is # "garbage"
    BY DEF SaveKey, SecretsLoad, Loads
  <2> QED
    BY <1>1, <1>3, <1>6, <2>2, <2>3 DEF FInv, WantShaped
<1> QED
  BY <1>4, <1>5, <1>6, <1>7, <1>8, BeginsKeeps

\* A command that saves the configuration, with what it makes of it.
LEMMA ConfigChangeKeeps ==
    ASSUME FInv, NEW p \in Procs, proc[p].file = "none", NEW old, NEW new, old = config.has,
           Begins(p, "config", new), ConfigLoads, UNCHANGED <<config, secrets, given>>,
           WantShaped', want'.secrets = want.secrets,
           (want.config.is # "garbage" /\ want.config.has = old) => want'.config = File("toml", new)
    PROVE  FInv'
<1>1. (calm /\ ~Others(p, "config")) => want'.config = File("toml", new)
  <2> SUFFICES ASSUME calm, ~Others(p, "config") PROVE want'.config = File("toml", new)
    OBVIOUS
  <2>1. \A q \in Procs : proc[q].file # "config"
    BY DEF Others, Busy, FInv, JobsShaped
  <2>2. want.config.is = config.is /\ want.config.has = config.has
    BY <2>1 DEF FInv, InOrder, Settled
  <2>3. config.is # "garbage"
    BY DEF ConfigLoads, Loads
  <2> QED
    BY <2>2, <2>3
<1> QED
  BY <1>1, BeginsKeeps

LEMMA ConfigSays == FInv /\ ConfigLoads => Loaded(config, NoConfig) = config.has
  BY DEF FInv, FilesShaped, ConfigLoads, Loads, Loaded

LEMMA ConfigSetKeeps ==
    ASSUME FInv, NEW p \in Procs, NEW key, NEW value, ConfigSet(p, key, value)
    PROVE  FInv'
<1>1. PICK old : old = config.has
  OBVIOUS
<1>2. PICK new : new = SetKey(old, key, value)
  OBVIOUS
<1>3. /\ Begins(p, "config", new) /\ ConfigLoads /\ UNCHANGED <<config, secrets, given>>
      /\ want' = [want EXCEPT !.config = IF @.is = "garbage" THEN @ ELSE File("toml", SetKey(@.has, key, value))]
  BY <1>1, <1>2, ConfigSays DEF ConfigSet
<1>4. WantShaped' /\ want'.secrets = want.secrets
  BY <1>3 DEF FInv, WantShaped
<1>5. (want.config.is # "garbage" /\ want.config.has = old) => want'.config = File("toml", new)
  BY <1>2, <1>3 DEF FInv, WantShaped
<1>6. proc[p].file = "none"
  BY DEF ConfigSet, Busy, FInv, JobsShaped
<1> QED
  BY <1>1, <1>3, <1>4, <1>5, <1>6, ConfigChangeKeeps

LEMMA PersistBashRuleKeeps ==
    ASSUME FInv, NEW p \in Procs, NEW command, PersistBashRule(p, command)
    PROVE  FInv'
<1>1. PICK old : old = config.has
  OBVIOUS
<1>2. PICK new : new = AddRule(old, command)
  OBVIOUS
<1>3. /\ Begins(p, "config", new) /\ ConfigLoads /\ UNCHANGED <<config, secrets, given>>
      /\ want' = [want EXCEPT !.config = IF @.is = "garbage" THEN @ ELSE File("toml", AddRule(@.has, command))]
  BY <1>1, <1>2, ConfigSays DEF PersistBashRule, MayPersist
<1>4. WantShaped' /\ want'.secrets = want.secrets
  BY <1>3 DEF FInv, WantShaped
<1>5. (want.config.is # "garbage" /\ want.config.has = old) => want'.config = File("toml", new)
  BY <1>2, <1>3 DEF FInv, WantShaped
<1>6. proc[p].file = "none"
  BY DEF PersistBashRule, Busy, FInv, JobsShaped
<1> QED
  BY <1>1, <1>3, <1>4, <1>5, <1>6, ConfigChangeKeeps

LEMMA LoginsKeep ==
    ASSUME FInv, NEW p \in Procs, NEW key, NEW answer \in Answers,
           \/ \E provider \in Providers, verify \in BOOLEAN : RunLogin(p, provider, key, verify, answer)
           \/ \E provider \in Providers, stdin, stdout \in BOOLEAN : FirstRunLogin(p, provider, key, stdin, stdout, answer)
    PROVE  FInv'
<1>0. ClassifyVerify(answer) = "Rejected" <=> answer \in {401, 403}
  BY DEF ClassifyVerify, Answers
<1>1. ASSUME NEW provider \in Providers, NEW verify \in BOOLEAN, RunLogin(p, provider, key, verify, answer) PROVE FInv'
  <2>1. /\ SaveKey(p, provider, key) /\ given' = given \cup {<<provider, key>>} /\ UNCHANGED <<config, secrets>>
    BY <1>0, <1>1 DEF RunLogin
  <2>2. proc[p].file = "none"
    BY <1>1 DEF RunLogin, Busy, FInv, JobsShaped
  <2> QED
    BY <2>1, <2>2, SaveKeyKeeps
<1>2. ASSUME NEW provider \in Providers, NEW stdin \in BOOLEAN, NEW stdout \in BOOLEAN,
             FirstRunLogin(p, provider, key, stdin, stdout, answer)
      PROVE  FInv'
  <2>1. proc[p].file = "none"
    BY <1>2 DEF FirstRunLogin, Busy, FInv, JobsShaped
  <2>3. stdin
    BY <1>2 DEF FirstRunLogin, FirstRunDecision, Interactive
  <2>4. CASE ClassifyVerify(answer) = "Rejected"
    <3>1. PICK tries : tries = proc[p].tries
      OBVIOUS
    <3>2. tries \in Nat
      BY <3>1 DEF FInv, JobsShaped, Jobs
    <3>3. \E at \in {"idle", "asking"}, tries2 \in Nat : \E new :
             proc' = [proc EXCEPT ![p] = [at |-> at, file |-> "none", new |-> new, tries |-> tries2]]
      <4>1. CASE tries + 1 = Attempts
        <5>1. proc' = [proc EXCEPT ![p] = [at |-> "idle", file |-> "none", new |-> NoConfig, tries |-> 0]]
          BY <1>2, <2>4, <3>1, <4>1 DEF FirstRunLogin, Idle
        <5> QED
          BY <5>1
      <4>2. CASE tries + 1 # Attempts
        <5>1. proc' = [proc EXCEPT ![p] = [at |-> "asking", file |-> "none", new |-> provider, tries |-> tries + 1]]
          BY <1>2, <2>4, <3>1, <4>2 DEF FirstRunLogin
        <5>2. tries + 1 \in Nat
          BY <3>2
        <5> QED
          BY <5>1, <5>2
      <4> QED
        BY <4>1, <4>2
    <3>4. UNCHANGED <<config, secrets, want, given, calm>>
      BY <1>2, <2>4 DEF FirstRunLogin
    <3> QED
      BY <2>1, <3>3, <3>4, RestsKeeps
  <2>5. CASE ClassifyVerify(answer) # "Rejected"
    <3>1. SaveKey(p, provider, key) /\ given' = given \cup {<<provider, key>>} /\ UNCHANGED <<config, secrets>>
      BY <1>0, <1>2, <2>3, <2>5 DEF FirstRunLogin
    <3> QED
      BY <2>1, <3>1, SaveKeyKeeps
  <2> QED
    BY <2>4, <2>5
<1> QED
  BY <1>1, <1>2


LEMMA TruncateKeeps == ASSUME FInv, NEW p \in Procs, Truncate(p) PROVE FInv'
<1>1. PICK file, new, tries : file = proc[p].file /\ new = proc[p].new /\ tries = proc[p].tries
  OBVIOUS
<1>2. file \in {"config", "secrets"} /\ tries \in Nat
  BY <1>1 DEF Truncate, FInv, JobsShaped, Jobs
<1>3. proc' = [proc EXCEPT ![p] = [at |-> "emptied", file |-> file, new |-> new, tries |-> tries]]
  <2>1. PICK W : proc \in [Procs -> Jobs(W)]
    BY DEF FInv, JobsShaped
  <2>2. [proc[p] EXCEPT !.at = "emptied"] = [at |-> "emptied", file |-> file, new |-> new, tries |-> tries]
    BY <1>1, <2>1 DEF Jobs
  <2> QED
    BY <2>1, <2>2 DEF Truncate
<1>4. /\ JobsShaped' /\ proc'[p].file = file /\ proc'[p].new = new
      /\ \A q \in Procs \ {p} : proc'[q] = proc[q]
  <2>1. "emptied" \in {"idle", "asking", "loaded", "emptied"} /\ file \in {"none", "config", "secrets"} /\ file # "none"
    BY <1>2
  <2> QED
    BY <1>2, <1>3, <2>1, JobChanges
<1>5. /\ file = "config" => config' = File("empty", NoConfig) /\ UNCHANGED secrets
      /\ file = "secrets" => secrets' = File("empty", NoKeys) /\ UNCHANGED config
      /\ UNCHANGED <<want, calm, given>>
  BY <1>1, <1>2 DEF Truncate
<1>6. FilesShaped'
  BY <1>2, <1>5 DEF FInv, FilesShaped, FileStates, File
<1>7. KeysGiven'
  <2>1. IsKeys(NoKeys) /\ \A q \in Providers : NoKeys[q] = Unset
    BY DEF IsKeys, NoKeys
  <2>2. IsKeys(secrets.has)' /\ GivenKeys(secrets.has)'
    BY <1>2, <1>5, <2>1 DEF FInv, KeysGiven, IsKeys, GivenKeys, File
  <2>3. \A q \in Procs : proc'[q].file = proc[q].file /\ proc'[q].new = proc[q].new
    BY <1>1, <1>4
  <2> QED
    BY <1>5, <2>2, <2>3 DEF FInv, KeysGiven, IsKeys, GivenKeys
<1>8. InOrder'
  <2>1. \A q \in Procs : proc'[q].file = proc[q].file /\ proc'[q].new = proc[q].new
    BY <1>1, <1>4
  <2> QED
    BY <1>1, <1>2, <1>5, <2>1 DEF FInv, InOrder, Settled, Alone
<1> QED
  BY <1>4, <1>5, <1>6, <1>7, <1>8 DEF FInv, WantShaped

LEMMA FillKeeps == ASSUME FInv, NEW p \in Procs, Fill(p) PROVE FInv'
<1>1. PICK file, new : file = proc[p].file /\ new = proc[p].new
  OBVIOUS
<1>2. file \in {"config", "secrets"}
  BY <1>1 DEF Fill, FInv, JobsShaped, Jobs
<1>3. /\ JobsShaped' /\ proc'[p].file = "none"
      /\ \A q \in Procs \ {p} : proc'[q] = proc[q]
  <2>1. proc' = [proc EXCEPT ![p] = [at |-> "idle", file |-> "none", new |-> NoConfig, tries |-> 0]]
    BY DEF Fill, Idle
  <2>2. "idle" \in {"idle", "asking", "loaded", "emptied"} /\ "none" \in {"none", "config", "secrets"} /\ 0 \in Nat
    OBVIOUS
  <2> QED
    BY <2>1, <2>2, JobChanges
<1>4. /\ file = "config" => config' = File("toml", new) /\ UNCHANGED secrets
      /\ file = "secrets" => secrets' = File("toml", new) /\ UNCHANGED config
      /\ UNCHANGED <<want, calm, given>>
  BY <1>1, <1>2 DEF Fill
<1>5. FilesShaped'
  BY <1>2, <1>4 DEF FInv, FilesShaped, FileStates, File
<1>6. KeysGiven'
  <2>1. IsKeys(secrets.has)' /\ GivenKeys(secrets.has)'
    BY <1>1, <1>2, <1>4 DEF FInv, KeysGiven, IsKeys, GivenKeys, File
  <2>2. ASSUME NEW q \in Procs, proc'[q].file = "secrets" PROVE IsKeys(proc[q].new)' /\ GivenKeys(proc[q].new)'
    BY <1>3, <1>4, <2>2 DEF FInv, KeysGiven, IsKeys, GivenKeys
  <2> QED
    BY <2>1, <2>2 DEF KeysGiven
<1>7. InOrder'
  <2> SUFFICES ASSUME calm' PROVE Settled("config", config, want.config)' /\ Settled("secrets", secrets, want.secrets)'
    BY DEF InOrder
  <2>1. Settled("config", config, want.config) /\ Settled("secrets", secrets, want.secrets)
    BY <1>4 DEF FInv, InOrder
  <2>2. CASE file = "config"
    BY <1>1, <1>3, <1>4, <2>1, <2>2 DEF Settled, Alone, File
  <2>3. CASE file = "secrets"
    BY <1>1, <1>3, <1>4, <2>1, <2>3 DEF Settled, Alone, File
  <2> QED
    BY <1>2, <2>2, <2>3
<1> QED
  BY <1>3, <1>4, <1>5, <1>6, <1>7 DEF FInv, WantShaped

LEMMA StopKeeps == ASSUME FInv, NEW p \in Procs, Stop(p) PROVE FInv'
<1>1. /\ proc' = [proc EXCEPT ![p] = [at |-> "idle", file |-> "none", new |-> NoConfig, tries |-> 0]]
      /\ UNCHANGED <<config, secrets, want, given>> /\ "idle" \in {"idle", "asking"} /\ 0 \in Nat
  BY DEF Stop, Idle
<1>2. calm' => calm /\ proc[p].file = "none"
  BY DEF Stop, FInv, JobsShaped
<1> QED
  BY <1>1, <1>2, RestsKeeps

LEMMA EditByHandKeeps == ASSUME FInv, EditByHand PROVE FInv'
<1>1. /\ config' = [config EXCEPT !.is = "garbage"] /\ want' = [want EXCEPT !.config = config']
      /\ UNCHANGED <<secrets, proc, calm, given>> /\ \A p \in Procs : proc[p].file = "none"
  BY DEF EditByHand, Busy, FInv, JobsShaped
<1>2. FilesShaped'
  BY <1>1 DEF FInv, FilesShaped, FileStates, File
<1>3. want'.config = config' /\ want'.secrets = want.secrets /\ WantShaped'
  BY <1>1 DEF FInv, WantShaped
<1>4. KeysGiven' /\ JobsShaped'
  BY <1>1 DEF FInv, KeysGiven, IsKeys, GivenKeys, JobsShaped
<1>5. InOrder'
  BY <1>1, <1>3 DEF FInv, InOrder, Settled, Alone
<1> QED
  BY <1>2, <1>3, <1>4, <1>5 DEF FInv

LEMMA FilesStep == FInv /\ [FNext]_fvars => FInv'
<1> SUFFICES ASSUME FInv, [FNext]_fvars PROVE FInv'
  OBVIOUS
<1>1. CASE EditByHand
  BY <1>1, EditByHandKeeps
<1>2. CASE UNCHANGED fvars
  BY <1>2 DEF fvars, FInv, FilesShaped, JobsShaped, KeysGiven, IsKeys, GivenKeys, InOrder, Settled, Alone, WantShaped
<1>3. ASSUME NEW p \in Procs, NEW s \in Settings, ConfigSet(p, s[1], s[2]) PROVE FInv'
  BY <1>3, ConfigSetKeeps
<1>4. ASSUME NEW p \in Procs, NEW command \in Commands, PersistBashRule(p, command) PROVE FInv'
  BY <1>4, PersistBashRuleKeeps
<1>5. ASSUME NEW p \in Procs, NEW provider \in Providers, NEW key \in KeyTexts, NEW verify \in BOOLEAN, NEW answer \in Answers,
             RunLogin(p, provider, key, verify, answer)
      PROVE  FInv'
  BY <1>5, LoginsKeep
<1>6. ASSUME NEW p \in Procs, NEW provider \in Providers, NEW key \in KeyTexts, NEW stdin \in BOOLEAN, NEW stdout \in BOOLEAN,
             NEW answer \in Answers, FirstRunLogin(p, provider, key, stdin, stdout, answer)
      PROVE  FInv'
  BY <1>6, LoginsKeep
<1>7. ASSUME NEW p \in Procs, Truncate(p) \/ Fill(p) \/ Stop(p) PROVE FInv'
  BY <1>7, TruncateKeeps, FillKeeps, StopKeeps
<1> QED
  BY <1>1, <1>2, <1>3, <1>4, <1>5, <1>6, <1>7 DEF FNext

LEMMA FilesInvariance == FSpec => []FInv
  BY FilesStart, FilesStep, PTL DEF FSpec

\* As long as no two commands overlap and none is stopped while it saves, the
\* files say what the commands make of them one after the other (save_to,
\* persist_bash_rule), for any number of processes and settings.
THEOREM SavesKeepTheRest == FSpec => []NothingElseLost
<1>1. FInv => NothingElseLost
  BY DEF FInv, InOrder, Settled, JobsShaped, Busy, NothingElseLost
<1> QED
  BY <1>1, FilesInvariance, PTL

\* A stored key was there from the start, or came from the user and was not
\* refused (interactive, classify_verify, save_key).
THEOREM OnlyGivenKeysAreStored == FSpec => []StoredKeysWereGiven
<1>1. FInv => StoredKeysWereGiven
  BY DEF FInv, KeysGiven, GivenKeys, StoredKeysWereGiven
<1> QED
  BY <1>1, FilesInvariance, PTL

\* Whatever the directory of the sessions, the mode of secrets.toml, the tool list
\* and the prompt file are, doctor complains of the two files, the provider and the
\* key just when the code that starts a headless run cannot resolve them
\* (run_doctor, resolve_settings, build_provider).
THEOREM DoctorTellsTheTruth == FSpec => []DoctorAgrees
<1>1. FInv => DoctorAgrees
  <2> SUFFICES ASSUME FInv, machine.located, config.is # "closed", NEW around \in Surroundings
               PROVE  /\ WorstStatus(around) = "PASS" => (Resolves(around) <=> ~around.unread)
                      /\ WorstStatus(around) = "FAIL" => (~Resolves(around) \/ DataDirCheck(around.data) = "FAIL")
                      /\ ApiKeyCheck = "WARN" => ~Resolves(around)
    BY DEF DoctorAgrees
  <2>1. ConfigLoads <=> config.is # "garbage"
    BY DEF ConfigLoads, Loads, FInv, FilesShaped, FileStates
  <2>2. SecretsLoad <=> secrets.is # "garbage"
    BY DEF SecretsLoad, Loads, FInv, FilesShaped, FileStates
  <2>3. ConfigLoads => DoctorProvider = ResolveProvider(Loaded(config, NoConfig))
    BY DEF DoctorProvider, ResolveProvider
  <2>4. FileCheck(config) = (IF ConfigLoads THEN "PASS" ELSE "FAIL") /\ FileCheck(secrets) = (IF SecretsLoad THEN "PASS" ELSE "FAIL")
    BY <2>1, <2>2 DEF FileCheck, Exists, Loads, ConfigLoads, SecretsLoad
  <2>5. ProviderCheck \in {"PASS", "FAIL"} /\ ApiKeyCheck \in {"PASS", "WARN"}
    BY DEF ProviderCheck, ApiKeyCheck
  <2>6. SecretsCheck(around.loose) = "FAIL" <=> ~SecretsLoad
    BY <2>4 DEF SecretsCheck
  <2>7. ToolsCheck(around.bare) # "FAIL"
    BY DEF ToolsCheck
  <2>8. WorstStatus(around) = "FAIL" => "FAIL" \in Checks(around)
    BY DEF WorstStatus
  <2>9. WorstStatus(around) = "PASS" => Checks(around) = {"PASS"}
    BY DEF WorstStatus
  <2>10. ASSUME WorstStatus(around) = "PASS" PROVE Resolves(around) <=> ~around.unread
    <3>1. FileCheck(config) = "PASS" /\ SecretsCheck(around.loose) = "PASS" /\ ProviderCheck = "PASS" /\ ApiKeyCheck = "PASS"
      BY <2>9, <2>10 DEF Checks
    <3>2. ConfigLoads /\ SecretsLoad /\ DoctorProvider \in Providers
      BY <2>4, <2>6, <3>1 DEF ProviderCheck
    <3>3. NonBlank(machine.key) \/ Loaded(secrets, NoKeys)[DoctorProvider] # Unset
      BY <3>1, <3>2 DEF ApiKeyCheck
    <3>4. EffectiveKey(DoctorProvider) # Unset
      BY <3>3 DEF EffectiveKey, NonBlank
    <3> QED
      BY <2>3, <3>2, <3>4 DEF Resolves
  <2>11. ASSUME WorstStatus(around) = "FAIL", DataDirCheck(around.data) # "FAIL" PROVE ~Resolves(around)
    <3>1. FileCheck(config) = "FAIL" \/ SecretsCheck(around.loose) = "FAIL" \/ ProviderCheck = "FAIL"
      BY <2>5, <2>7, <2>8, <2>11 DEF Checks
    <3>2. CASE ProviderCheck = "FAIL"
      BY <2>3, <3>2 DEF ProviderCheck, Resolves
    <3> QED
      BY <2>4, <2>6, <3>1, <3>2 DEF Resolves
  <2>12. ASSUME ApiKeyCheck = "WARN" PROVE ~Resolves(around)
    <3>1. ~NonBlank(machine.key) /\ (SecretsLoad => Loaded(secrets, NoKeys)[DoctorProvider] = Unset)
      BY <2>12 DEF ApiKeyCheck
    <3>2. SecretsLoad => EffectiveKey(DoctorProvider) = Unset
      BY <3>1 DEF EffectiveKey
    <3> QED
      BY <2>3, <3>2 DEF Resolves
  <2> QED
    BY <2>10, <2>11, <2>12
<1> QED
  BY <1>1, FilesInvariance, PTL

-----------------------------------------------------------------------------
(* The session named *)

SSpec == SInit /\ [][SNext]_svars

\* What a needle finds among the ids: itself, or the only one it begins.
LEMMA ResolvedIsNamed ==
    ASSUME NEW needle, NEW ids \in SUBSET Ids, ResolveIdPrefix(needle, ids) # <<>>
    PROVE  \E id \in ids : /\ ResolveIdPrefix(needle, ids) = <<id>>
                           /\ id = needle \/ (IsPrefix(needle, id) /\ \A x \in ids : IsPrefix(needle, x) => x = id)
<1> DEFINE hits == {id \in ids : IsPrefix(needle, id)}
<1>1. CASE needle \in ids
  BY <1>1 DEF ResolveIdPrefix
<1>2. CASE needle \notin ids
  <2>1. Cardinality(hits) = 1 /\ ResolveIdPrefix(needle, ids) = <<CHOOSE id \in hits : TRUE>>
    BY <1>2 DEF ResolveIdPrefix
  <2>2. IsFiniteSet(hits)
    BY IdsAssumption, FS_Subset
  <2>3. PICK id : hits = {id}
    BY <2>1, <2>2, FS_Singleton
  <2>4. id \in ids /\ IsPrefix(needle, id) /\ \A x \in ids : IsPrefix(needle, x) => x = id
    BY <2>3
  <2>5. (CHOOSE x \in hits : TRUE) = id
    BY <2>3
  <2> QED
    BY <2>1, <2>4, <2>5
<1> QED
  BY <1>1, <1>2

LEMMA PrefixOfSameLength ==
    ASSUME NEW a \in Ids, NEW b \in Ids, IsPrefix(a, b)
    PROVE  a = b
<1>1. a \in Seq(Nat) /\ b \in Seq(Nat) /\ Len(a) = Len(b)
  BY IdsAssumption
<1>2. SubSeq(a, 1, Len(a)) = SubSeq(b, 1, Len(b))
  BY <1>1 DEF IsPrefix
<1>3. \A k \in 1 .. Len(a) : a[k] = b[k]
  BY <1>1, <1>2
<1> QED
  BY <1>1, <1>3

Names(id) ==
    \/ typed = id
    \/ \E n \in DOMAIN listed : typed = <<n>> /\ id = listed[n]
    \/ IsPrefix(typed, id) /\ \A x \in Range(listed) : IsPrefix(typed, x) => x = id

PickInv ==
    /\ Range(listed) \subseteq Ids
    /\ cmd \in {"none", "menu"} => target = <<>> /\ acted = <<>>
    /\ target # <<>> => Names(target[1])
    /\ acted # <<>> => acted = target

LEMMA ListsAreListed == \A q \in Lists : Range(q) \subseteq Listed /\ Listed \subseteq Ids
  BY DEF Lists, Listed, Range

LEMMA PickStep == PickInv /\ [SNext]_svars => PickInv'
<1> SUFFICES ASSUME PickInv, [SNext]_svars PROVE PickInv'
  OBVIOUS
<1>1. CASE PickSession
  <2>1. Range(listed') \subseteq Ids /\ cmd = "none" /\ UNCHANGED <<target, acted>>
    BY <1>1, ListsAreListed DEF PickSession
  <2> QED
    BY <2>1 DEF PickInv, Range
<1>2. ASSUME NEW n \in 0 .. Cardinality(Ids) + 1, Choose(n) PROVE PickInv'
  <2>1. cmd = "menu" /\ typed' = <<n>> /\ UNCHANGED <<listed, acted>> /\ acted = <<>> /\ target = <<>> /\ cmd' \in {"over", "resume"}
    BY <1>2 DEF Choose, PickInv
  <2>2. ASSUME target' # <<>> PROVE \E k \in DOMAIN listed : typed' = <<k>> /\ target'[1] = listed[k]
    <3>1. n \in DOMAIN listed /\ target' = ResolveIdPrefix(listed[n], Listed)
      BY <1>2, <2>1, <2>2 DEF Choose, ResolvePick
    <3>2. Listed \in SUBSET Ids /\ listed[n] \in Ids
      BY <3>1 DEF Listed, PickInv, Range
    <3>3. PICK id \in Listed : target' = <<id>> /\ (id = listed[n] \/ IsPrefix(listed[n], id))
      BY <2>2, <3>1, <3>2, ResolvedIsNamed
    <3>4. id = listed[n]
      BY <3>2, <3>3, PrefixOfSameLength
    <3> QED
      BY <2>1, <3>1, <3>3, <3>4
  <2> QED
    BY <2>1, <2>2 DEF PickInv, Names, Range
<1>3. ASSUME NEW needle \in Needles, Resume(needle) \/ Delete(needle) PROVE PickInv'
  <2>1. cmd = "none" /\ typed' = needle /\ listed' \in Lists /\ acted' = acted /\ acted = <<>> /\ cmd' \in {"over", "resume", "delete"}
    BY <1>3 DEF Resume, Delete, PickInv
  <2>2. Range(listed') \subseteq Listed /\ Listed \in SUBSET Ids
    BY <2>1, ListsAreListed DEF Listed
  <2>3. ASSUME target' # <<>> PROVE Names(target[1])'
    <3>1. target' = ResolveIdPrefix(needle, Listed) \/ target' = <<needle>>
      BY <1>3, <2>3 DEF Resume, Delete
    <3>2. CASE target' = <<needle>>
      BY <2>1, <3>2 DEF Names
    <3>3. CASE target' = ResolveIdPrefix(needle, Listed)
      <4>1. PICK id \in Listed : /\ target' = <<id>>
                                 /\ id = needle \/ (IsPrefix(needle, id) /\ \A x \in Listed : IsPrefix(needle, x) => x = id)
        BY <2>2, <2>3, <3>3, ResolvedIsNamed
      <4> QED
        BY <2>1, <2>2, <4>1 DEF Names
    <3> QED
      BY <3>1, <3>2, <3>3
  <2> QED
    BY <2>1, <2>2, <2>3 DEF PickInv, Range
<1>4. CASE Load \/ RemoveFile
  <2>1. UNCHANGED <<listed, typed, target>> /\ cmd' = "over" /\ acted' \in {target, <<>>}
    BY <1>4 DEF Load, RemoveFile
  <2> QED
    BY <2>1 DEF PickInv, Names, Range
<1>5. CASE UNCHANGED <<listed, typed, cmd, target, acted>>
  BY <1>5 DEF PickInv, Names, Range
<1> QED
  BY <1>1, <1>2, <1>3, <1>4, <1>5 DEF SNext, Elsewhere, svars

\* Whatever other processes save and delete meanwhile, the session resumed or
\* deleted is the one the number or the digits named (resolve_pick,
\* resolve_id_prefix, decide_delete).
THEOREM OnlyTheNamedIsActedOn == SSpec => []ActsOnTheNamed
<1>1. SInit => PickInv
  BY DEF SInit, PickInv, Range
<1>2. PickInv => ActsOnTheNamed
  BY DEF PickInv, Names, ActsOnTheNamed
<1> QED
  BY <1>1, <1>2, PickStep, PTL DEF SSpec

-----------------------------------------------------------------------------
(* The table of an evaluation *)

ESpec == EInit /\ [][ENext]_evars

\* How many cells come before one.
Place(c, g, r, width, repeat) == ((c - 1) * width + (g - 1)) * repeat + (r - 1)

LEMMA OneMore == ASSUME NEW a \in Int, NEW b \in Int PROVE (a + 1) * b = a * b + b /\ a * b \in Int /\ 1 * b = b /\ 0 * b = 0
  OBVIOUS

LEMMA Monotone == ASSUME NEW a \in Int, NEW b \in Int, a <= b, NEW m \in Nat PROVE a * m <= b * m
  OBVIOUS

LEMMA Places ==
    ASSUME NEW c \in Nat, NEW g \in Nat, NEW r \in Nat, NEW w \in Nat, NEW m \in Nat
    PROVE  /\ Place(c, g, r, w, m) \in Int
           /\ Place(1, 1, 1, w, m) = 0
           /\ Place(c + 1, 1, 1, w, m) = Place(c, w + 1, 1, w, m)
           /\ Place(c, g + 1, 1, w, m) = Place(c, g, m + 1, w, m)
           /\ Place(c, g, r + 1, w, m) = Place(c, g, r, w, m) + 1
<1>1. PICK x \in Int : x = (c - 1) * w /\ c * w = x + w
  <2>1. c - 1 \in Int /\ c = (c - 1) + 1
    OBVIOUS
  <2> QED
    BY <2>1, OneMore
<1>2. Place(c + 1, 1, 1, w, m) = (c * w) * m
  BY <1>1 DEF Place
<1>3. Place(c, w + 1, 1, w, m) = (x + w) * m
  BY <1>1 DEF Place
<1>4. PICK y \in Int : y = x + (g - 1) /\ y + 1 = x + g
  BY <1>1
<1>5. Place(c, g, m + 1, w, m) = y * m + m /\ Place(c, g + 1, 1, w, m) = (y + 1) * m
  <2>1. y * m \in Int /\ (y + 1) * m \in Int
    BY <1>4, OneMore
  <2> QED
    BY <1>1, <1>4, <2>1 DEF Place
<1>6. (y + 1) * m = y * m + m /\ y * m \in Int
  BY <1>4, OneMore
<1>7. Place(c, g, r, w, m) = y * m + (r - 1) /\ Place(c, g, r + 1, w, m) = y * m + r
  BY <1>1, <1>4, <1>6 DEF Place
<1>8. Place(1, 1, 1, w, m) = 0
  BY OneMore DEF Place
<1> QED
  BY <1>1, <1>2, <1>3, <1>5, <1>6, <1>7, <1>8

LEMMA PlacesEnd ==
    ASSUME NEW n \in Nat, NEW w \in Nat, NEW m \in Nat
    PROVE  /\ n * w * m \in Int /\ Place(n + 1, 1, 1, w, m) = n * w * m
           /\ \A c \in 1 .. n, g \in 1 .. w, r \in 1 .. m : Place(c, g, r, w, m) < n * w * m
<1>1. n * w \in Int /\ n * w * m \in Int /\ Place(n + 1, 1, 1, w, m) = n * w * m
  BY OneMore DEF Place
<1>2. ASSUME NEW c \in 1 .. n, NEW g \in 1 .. w, NEW r \in 1 .. m PROVE Place(c, g, r, w, m) < n * w * m
  <2>1. (c - 1) * w + w = c * w /\ c * w <= n * w /\ (c - 1) * w \in Int /\ c * w \in Int
    <3>1. c - 1 \in Int /\ c \in Int /\ n \in Int /\ c <= n /\ (c - 1) + 1 = c
      OBVIOUS
    <3>2. (c - 1) * w + w = ((c - 1) + 1) * w /\ (c - 1) * w \in Int
      BY <3>1, OneMore
    <3>3. c * w <= n * w
      BY <3>1, Monotone
    <3>4. c * w \in Int
      BY <3>1, OneMore
    <3> QED
      BY <3>1, <3>2, <3>3, <3>4
  <2>2. PICK y \in Int : y = (c - 1) * w + (g - 1)
    BY <2>1
  <2>3. y + 1 <= n * w
    BY <1>1, <2>1, <2>2
  <2>4. (y + 1) * m <= n * w * m /\ (y + 1) * m = y * m + m /\ y * m \in Int
    <3>1. y + 1 \in Int
      BY <2>2
    <3> QED
      BY <1>1, <2>3, <3>1, OneMore, Monotone
  <2>5. Place(c, g, r, w, m) = y * m + (r - 1)
    BY <2>2 DEF Place
  <2> QED
    BY <1>1, <2>4, <2>5
<1> QED
  BY <1>1, <1>2

CaseNames == {Cases[i] : i \in DOMAIN Cases}
ConfigNames == {args.configs[i] : i \in DOMAIN args.configs}
Rows == [name : CaseNames \X ConfigNames \X Nat, steps : Nat]
InCell == eval \in {"turn", "graded"}

GridTyped ==
    /\ args = [configs |-> args.configs, repeat |-> args.repeat, cap |-> args.cap]
    /\ args.configs \in Seq(ConfigNames) /\ args.repeat \in Nat /\ args.cap \in Nat
    /\ cell \in Nat \X Nat \X Nat /\ cells \in Nat
    /\ rows \in Seq(Rows) /\ dirs \in Seq(Nat)

\* Where the loops stand.
GridPlace ==
    /\ Case \in 1 .. Len(Cases) + 1 /\ Config \in 1 .. Len(args.configs) + 1 /\ Repeat \in 1 .. args.repeat + 1
    /\ AtEnd => Config = 1 /\ Repeat = 1
    /\ Config = Len(args.configs) + 1 => Repeat = 1
    /\ cells = Place(Case, Config, Repeat, Len(args.configs), args.repeat)
    /\ args.cap # 0 => cells <= args.cap
    /\ InCell => InRow /\ Repeat <= args.repeat /\ (args.cap # 0 => cells < args.cap)
    /\ eval = "ready" => cell = <<1, 1, 1>> /\ rows = <<>> /\ traces = {}

\* What the cells left behind.
GridRows ==
    /\ cells = Len(rows)
    /\ Len(dirs) = Len(rows) + (IF InCell THEN 1 ELSE 0)
    /\ \A k \in 1 .. Len(rows) : rows[k].steps = dirs[k]
    /\ \A k \in 1 .. Len(rows) : \E c \in 1 .. Len(Cases), g \in 1 .. Len(args.configs), r \in 1 .. args.repeat :
          /\ Place(c, g, r, Len(args.configs), args.repeat) = k - 1
          /\ rows[k].name = <<Cases[c], args.configs[g], r>>
    /\ cwd = IF eval = "turn" THEN Len(dirs) ELSE 0
    /\ eval = "graded" => rec = <<dirs[Len(dirs)]>>

Twice == \E i, j \in DOMAIN args.configs : i # j /\ args.configs[i] = args.configs[j]
TraceOf(row) == [name |-> row.name, in |-> 0, steps |-> row.steps]

GridTraces ==
    ~Twice => /\ traces = {TraceOf(rows[k]) : k \in 1 .. Len(rows)}
              /\ IsFiniteSet(traces) /\ Cardinality(traces) = Len(rows)

GridInv ==
    /\ csv # <<>> => eval = "done"
    /\ eval # "failed" => GridTyped /\ GridPlace /\ GridRows /\ GridTraces
    /\ eval = "done" => Len(rows) = IF args.cap # 0 /\ args.cap < SizeOf(args.configs) THEN args.cap ELSE SizeOf(args.configs)

LEMMA GridStart == EInit => GridInv
<1> SUFFICES ASSUME EInit PROVE GridInv
  OBVIOUS
<1>1. /\ args = [configs |-> <<>>, repeat |-> 0, cap |-> 0] /\ cell = <<1, 1, 1>> /\ cells = 0 /\ cwd = 0
      /\ dirs = <<>> /\ traces = {} /\ rows = <<>> /\ csv = <<>> /\ eval = "ready"
  BY DEF EInit
<1>2. GridTyped
  BY <1>1 DEF GridTyped
<1>3. Len(Cases) \in Nat
  BY SuiteAssumption
<1>4. GridPlace
  <2>1. Place(1, 1, 1, 0, 0) = 0
    BY Places
  <2>2. args.configs = <<>> /\ args.repeat = 0 /\ args.cap = 0 /\ Case = 1 /\ Config = 1 /\ Repeat = 1 /\ Len(args.configs) = 0
    BY <1>1 DEF Case, Config, Repeat
  <2> QED
    BY <1>1, <1>3, <2>1, <2>2 DEF GridPlace, AtEnd, InRow, InCell
<1>5. GridRows
  BY <1>1 DEF GridRows, InCell
<1>6. GridTraces
  BY <1>1, FS_EmptySet DEF GridTraces
<1> QED
  BY <1>1, <1>2, <1>4, <1>5, <1>6 DEF GridInv

LEMMA LaunchKeeps ==
    ASSUME GridInv, NEW configs \in ConfigLists, NEW repeat \in Repeats, NEW cap \in Caps, Launch(configs, repeat, cap)
    PROVE  GridInv'
<1>1. /\ args' = [configs |-> configs, repeat |-> repeat, cap |-> cap] /\ eval = "ready" /\ eval' = "cell"
      /\ UNCHANGED <<cell, cells, cwd, dirs, rec, traces, rows, csv>>
  BY DEF Launch
<1>2. args'.configs = configs /\ args'.repeat = repeat /\ args'.cap = cap /\ repeat \in Nat /\ cap \in Nat
      /\ configs \in Seq({configs[i] : i \in DOMAIN configs}) /\ Len(configs) \in Nat /\ Len(Cases) \in Nat
  BY <1>1, ArgumentsAssumption, SuiteAssumption
<1>3. cell = <<1, 1, 1>> /\ rows = <<>> /\ traces = {} /\ cells = 0 /\ Len(dirs) = 0 /\ dirs \in Seq(Nat) /\ cwd = 0
  BY <1>1 DEF GridInv, GridPlace, GridRows, InCell
<1>4. GridTyped'
  BY <1>1, <1>2, <1>3 DEF GridTyped, ConfigNames, Rows
<1>5. GridPlace'
  <2>1. Place(1, 1, 1, Len(configs), repeat) = 0
    BY <1>2, Places
  <2>2. Case' = 1 /\ Config' = 1 /\ Repeat' = 1
    BY <1>1, <1>3 DEF Case, Config, Repeat
  <2> QED
    BY <1>1, <1>2, <1>3, <2>1, <2>2 DEF GridPlace, AtEnd, InRow, InCell
<1>6. GridRows'
  BY <1>1, <1>3 DEF GridRows, InCell
<1>7. GridTraces'
  BY <1>1, <1>3, FS_EmptySet DEF GridTraces
<1> QED
  BY <1>1, <1>4, <1>5, <1>6, <1>7 DEF GridInv

LEMMA Sizes == GridTyped => Len(args.configs) \in Nat /\ args.repeat \in Nat /\ Len(Cases) \in Nat
<1>1. Len(Cases) \in Nat
  BY SuiteAssumption
<1>2. \A S, q : q \in Seq(S) => Len(q) \in Nat
  OBVIOUS
<1> QED
  BY <1>1, <1>2 DEF GridTyped

\* The loops' own steps change the cell and nothing else.
LEMMA NextRowKeeps == ASSUME GridInv, NextRow PROVE GridInv'
<1>1. /\ eval = "cell" /\ UNCHANGED <<args, cells, cwd, dirs, rec, traces, rows, csv, eval>>
      /\ GridTyped /\ GridPlace /\ GridRows /\ GridTraces /\ csv = <<>>
  BY DEF NextRow, GridInv
<1>2. PICK c \in Nat, g \in Nat, r \in Nat : cell = <<c, g, r>> /\ Case = c /\ Config = g /\ Repeat = r
  BY <1>1 DEF GridTyped, Case, Config, Repeat
<1>3. PICK w \in Nat, m \in Nat, n \in Nat : w = Len(args.configs) /\ m = args.repeat /\ n = Len(Cases)
  BY <1>1, Sizes
<1>4. c \in 1 .. n + 1 /\ g \in 1 .. w + 1 /\ r \in 1 .. m + 1 /\ (g = w + 1 => r = 1) /\ cells = Place(c, g, r, w, m)
  BY <1>1, <1>2, <1>3 DEF GridPlace
<1>5. PICK c2 \in 1 .. n + 1, g2 \in 1 .. w + 1 :
         /\ cell' = <<c2, g2, 1>> /\ Place(c2, g2, 1, w, m) = cells
         /\ c2 = n + 1 => g2 = 1
  <2>1. CASE c <= n /\ g > w /\ cell' = <<c + 1, 1, 1>>
    <3>1. g = w + 1 /\ r = 1 /\ c + 1 \in 1 .. n + 1 /\ 1 \in 1 .. w + 1
      BY <1>4, <2>1
    <3>2. Place(c + 1, 1, 1, w, m) = cells
      BY <1>4, <3>1, Places
    <3> QED
      BY <2>1, <3>1, <3>2
  <2>2. CASE c <= n /\ g <= w /\ r > m /\ cell' = <<c, g + 1, 1>>
    <3>1. r = m + 1 /\ g + 1 \in 1 .. w + 1 /\ c # n + 1
      BY <1>4, <2>2
    <3>2. Place(c, g + 1, 1, w, m) = cells
      BY <1>4, <3>1, Places
    <3> QED
      BY <1>4, <2>2, <3>1, <3>2
  <2> QED
    BY <1>2, <1>3, <2>1, <2>2 DEF NextRow, AtEnd, InRow
<1>6. Case' = c2 /\ Config' = g2 /\ Repeat' = 1 /\ cell' \in Nat \X Nat \X Nat
  BY <1>5 DEF Case, Config, Repeat
<1>7. GridTyped'
  BY <1>1, <1>6 DEF GridTyped, ConfigNames, Rows
<1>8. GridPlace'
  <2>1. /\ (Case \in 1 .. Len(Cases) + 1 /\ Config \in 1 .. Len(args.configs) + 1 /\ Repeat \in 1 .. args.repeat + 1)'
        /\ AtEnd' => c2 = n + 1
    BY <1>1, <1>3, <1>5, <1>6 DEF AtEnd
  <2>2. (cells = Place(Case, Config, Repeat, Len(args.configs), args.repeat))'
    BY <1>1, <1>3, <1>5, <1>6
  <2>3. ~InCell' /\ (args.cap # 0 => cells <= args.cap)' /\ eval' # "ready"
    BY <1>1 DEF GridPlace, InCell
  <2> QED
    BY <1>5, <1>6, <2>1, <2>2, <2>3 DEF GridPlace
<1>9. GridRows' /\ GridTraces'
  BY <1>1 DEF GridRows, GridTraces, InCell, TraceOf, Twice
<1> QED
  BY <1>1, <1>7, <1>8, <1>9 DEF GridInv

LEMMA EnterCellKeeps == ASSUME GridInv, EnterCell(TRUE) PROVE GridInv'
<1>1. /\ eval = "cell" /\ eval' = "turn" /\ InRow /\ Repeat <= args.repeat /\ ~Capped
      /\ UNCHANGED <<args, cell, cells, rec, traces, rows, csv>> /\ dirs' = Append(dirs, 0) /\ cwd' = Len(dirs')
      /\ GridTyped /\ GridPlace /\ GridRows /\ GridTraces /\ csv = <<>>
  BY DEF EnterCell, GridInv
<1>2. dirs \in Seq(Nat) /\ Len(dirs) = Len(rows) /\ Len(rows) \in Nat
  BY <1>1 DEF GridTyped, GridRows, InCell
<1>3. dirs' \in Seq(Nat) /\ Len(dirs') = Len(rows) + 1 /\ \A k \in 1 .. Len(rows) : dirs'[k] = dirs[k]
  BY <1>1, <1>2
<1>4. GridTyped'
  BY <1>1, <1>3 DEF GridTyped, ConfigNames, Rows
<1>5. GridPlace'
  <2>1. args.cap # 0 => cells < args.cap
    BY <1>1 DEF Capped, GridTyped
  <2> QED
    BY <1>1, <2>1 DEF GridPlace, AtEnd, InRow, InCell, Case, Config, Repeat
<1>6. GridRows'
  BY <1>1, <1>3 DEF GridRows, InCell
<1>7. GridTraces'
  BY <1>1 DEF GridTraces, TraceOf, Twice
<1> QED
  BY <1>1, <1>4, <1>5, <1>6, <1>7 DEF GridInv

LEMMA CellToolKeeps == ASSUME GridInv, CellTool PROVE GridInv'
<1>1. /\ eval = "turn" /\ dirs' = [dirs EXCEPT ![cwd] = @ + 1]
      /\ UNCHANGED <<args, cell, cells, cwd, rec, traces, rows, csv, eval>>
      /\ GridTyped /\ GridPlace /\ GridRows /\ GridTraces /\ csv = <<>>
  BY DEF CellTool, GridInv
<1>2. dirs \in Seq(Nat) /\ Len(dirs) = Len(rows) + 1 /\ cwd = Len(dirs) /\ Len(rows) \in Nat
  BY <1>1 DEF GridTyped, GridRows, InCell
<1>3. dirs' \in Seq(Nat) /\ Len(dirs') = Len(dirs) /\ \A k \in 1 .. Len(rows) : dirs'[k] = dirs[k]
  BY <1>1, <1>2
<1>4. GridTyped'
  BY <1>1, <1>3 DEF GridTyped, ConfigNames, Rows
<1>5. GridPlace'
  BY <1>1 DEF GridPlace, AtEnd, InRow, InCell, Case, Config, Repeat
<1>6. GridRows'
  BY <1>1, <1>3 DEF GridRows, InCell
<1>7. GridTraces'
  BY <1>1 DEF GridTraces, TraceOf, Twice
<1> QED
  BY <1>1, <1>4, <1>5, <1>6, <1>7 DEF GridInv

\* What ends the program leaves no table.
LEMMA AbortsKeeps == ASSUME GridInv, eval # "done", Aborts PROVE GridInv'
  BY DEF GridInv, Aborts

LEMMA LeaveCellKeeps == ASSUME GridInv, NEW ok \in BOOLEAN, LeaveCell(ok) PROVE GridInv'
<1>1. CASE ~ok
  BY <1>1, AbortsKeeps DEF LeaveCell
<1>2. CASE ok
  <2>1. /\ eval = "turn" /\ eval' = "graded" /\ cwd' = 0 /\ rec' = <<dirs[Len(dirs)]>>
        /\ UNCHANGED <<args, cell, cells, dirs, traces, rows, csv>>
        /\ GridTyped /\ GridPlace /\ GridRows /\ GridTraces /\ csv = <<>>
    BY <1>2 DEF LeaveCell, Restored, GridInv
  <2>2. GridTyped'
    BY <2>1 DEF GridTyped, ConfigNames, Rows
  <2>3. GridPlace'
    BY <2>1 DEF GridPlace, AtEnd, InRow, InCell, Case, Config, Repeat
  <2>4. GridRows'
    BY <2>1 DEF GridRows, InCell
  <2>5. GridTraces'
    BY <2>1 DEF GridTraces, TraceOf, Twice
  <2> QED
    BY <2>1, <2>2, <2>3, <2>4, <2>5 DEF GridInv
<1> QED
  BY <1>1, <1>2

LEMMA ReportKeeps == ASSUME GridInv, NEW written \in BOOLEAN, Report(written) PROVE GridInv'
<1>1. CASE ~written
  BY <1>1, AbortsKeeps DEF Report
<1>2. CASE written
  <2>1. /\ eval = "cell" /\ eval' = "done" /\ UNCHANGED <<args, cell, cells, rows, cwd, dirs, rec, traces>>
        /\ AtEnd \/ (InRow /\ Repeat <= args.repeat /\ Capped)
        /\ GridTyped /\ GridPlace /\ GridRows /\ GridTraces
    BY <1>2 DEF Report, GridInv
  <2>2. GridTyped' /\ GridPlace' /\ GridRows' /\ GridTraces'
    <3>1. GridTyped'
      BY <2>1 DEF GridTyped, ConfigNames, Rows
    <3>2. GridPlace'
      BY <2>1 DEF GridPlace, AtEnd, InCell, Case, Config, Repeat
    <3>3. GridRows' /\ GridTraces'
      BY <2>1 DEF GridRows, GridTraces, InCell, TraceOf, Twice
    <3> QED
      BY <3>1, <3>2, <3>3
  <2>3. PICK c \in Nat, g \in Nat, r \in Nat : Case = c /\ Config = g /\ Repeat = r
    BY <2>1 DEF GridTyped, Case, Config, Repeat
  <2>4. PICK w \in Nat, m \in Nat, n \in Nat : w = Len(args.configs) /\ m = args.repeat /\ n = Len(Cases)
    BY <2>1, Sizes
  <2>5. /\ c \in 1 .. n + 1 /\ g \in 1 .. w + 1 /\ r \in 1 .. m + 1 /\ (c > n => g = 1 /\ r = 1)
        /\ cells = Place(c, g, r, w, m) /\ cells = Len(rows)
    BY <2>1, <2>3, <2>4 DEF GridPlace, GridRows, AtEnd
  <2>6. PICK all \in Int : all = n * w * m /\ all = SizeOf(args.configs)
    BY <2>4, PlacesEnd DEF SizeOf
  <2>7. args.cap \in Nat /\ cells \in Nat /\ (args.cap # 0 => cells <= args.cap)
    BY <2>1 DEF GridTyped, GridPlace
  <2>8. CASE AtEnd
    <3>1. c = n + 1 /\ g = 1 /\ r = 1
      BY <2>3, <2>4, <2>5, <2>8 DEF AtEnd
    <3>2. cells = all
      BY <2>5, <2>6, <3>1, PlacesEnd
    <3> QED
      BY <2>1, <2>2, <2>5, <2>6, <2>7, <3>2 DEF GridInv, SizeOf
  <2>9. CASE InRow /\ Repeat <= args.repeat /\ Capped
    <3>1. c \in 1 .. n /\ g \in 1 .. w /\ r \in 1 .. m
      BY <2>3, <2>4, <2>5, <2>9 DEF InRow, AtEnd
    <3>2. cells < all
      <4>1. \A x \in 1 .. n, y \in 1 .. w, z \in 1 .. m : Place(x, y, z, w, m) < n * w * m
        BY PlacesEnd
      <4> QED
        BY <2>5, <2>6, <3>1, <4>1
    <3>3. args.cap # 0 /\ cells = args.cap
      BY <2>7, <2>9 DEF Capped
    <3> QED
      BY <2>1, <2>2, <2>5, <2>6, <3>2, <3>3 DEF GridInv, SizeOf
  <2> QED
    BY <2>1, <2>8, <2>9
<1> QED
  BY <1>1, <1>2

\* A row and its trace, of a cell no row has had.
LEMMA RecordKeeps == ASSUME GridInv, NEW written \in BOOLEAN, Record(written) PROVE GridInv'
<1>1. CASE ~written
  BY <1>1, AbortsKeeps DEF Record
<1>2. CASE written
  <2> DEFINE row == [name |-> TraceName, steps |-> rec[1]]
  <2>1. /\ eval = "graded" /\ eval' = "cell" /\ UNCHANGED <<args, csv, cwd, dirs>> /\ cells' = cells + 1
        /\ cell' = <<Case, Config, Repeat + 1>> /\ rows' = Append(rows, row)
        /\ GridTyped /\ GridPlace /\ GridRows /\ GridTraces /\ csv = <<>> /\ cwd = 0
    BY <1>2 DEF Record, GridInv, GridRows
  <2>2. PICK c \in Nat, g \in Nat, r \in Nat : cell = <<c, g, r>> /\ Case = c /\ Config = g /\ Repeat = r
    BY <2>1 DEF GridTyped, Case, Config, Repeat
  <2>3. PICK w \in Nat, m \in Nat, n \in Nat : w = Len(args.configs) /\ m = args.repeat /\ n = Len(Cases)
    BY <2>1, Sizes
  <2>a. w = Len(args'.configs) /\ m = args'.repeat /\ n = Len(Cases) /\ DOMAIN args.configs = 1 .. w
    <3>1. \A S, q : q \in Seq(S) => DOMAIN q = 1 .. Len(q)
      OBVIOUS
    <3> QED
      BY <2>1, <2>3, <3>1 DEF GridTyped
  <2>4. c \in 1 .. n /\ g \in 1 .. w /\ r \in 1 .. m /\ cells = Place(c, g, r, w, m) /\ (args.cap # 0 => cells < args.cap)
    BY <2>1, <2>2, <2>3 DEF GridPlace, InCell, InRow, AtEnd
  <2>5. rows \in Seq(Rows) /\ dirs \in Seq(Nat) /\ Len(rows) \in Nat /\ Len(dirs) = Len(rows) + 1 /\ cells = Len(rows)
        /\ rec = <<dirs[Len(dirs)]>>
    BY <2>1 DEF GridTyped, GridRows, InCell
  <2>6. TraceName = <<Cases[c], args.configs[g], r>> /\ row.name = TraceName /\ row.steps = dirs[Len(rows) + 1]
    BY <2>2, <2>5 DEF TraceName
  <2>7. row \in Rows
    <3>1. Cases[c] \in CaseNames /\ args.configs[g] \in ConfigNames /\ dirs[Len(rows) + 1] \in Nat
      <4>1. c \in DOMAIN Cases
        BY <2>3, <2>4, SuiteAssumption
      <4>2. g \in DOMAIN args.configs
        BY <2>1, <2>3, <2>4 DEF GridTyped
      <4> QED
        BY <2>5, <4>1, <4>2 DEF CaseNames, ConfigNames
    <3> QED
      BY <2>6, <3>1 DEF Rows
  <2> HIDE DEF row
  <2>8. /\ rows' \in Seq(Rows) /\ Len(rows') = Len(rows) + 1 /\ rows'[Len(rows) + 1] = row
        /\ \A k \in 1 .. Len(rows) : rows'[k] = rows[k]
    BY <2>1, <2>5, <2>7
  <2>9. Case' = c /\ Config' = g /\ Repeat' = r + 1 /\ cell' \in Nat \X Nat \X Nat
    BY <2>1, <2>2 DEF Case, Config, Repeat
  <2>10. GridTyped'
    BY <2>1, <2>5, <2>8, <2>9 DEF GridTyped, ConfigNames, Rows
  <2>11. GridPlace'
    <3>1. /\ (Case \in 1 .. Len(Cases) + 1 /\ Config \in 1 .. Len(args.configs) + 1 /\ Repeat \in 1 .. args.repeat + 1)'
          /\ ~AtEnd' /\ Config' # Len(args'.configs) + 1
      <4>1. c \in 1 .. n + 1 /\ ~(c > n) /\ g \in 1 .. w + 1 /\ g # w + 1 /\ r + 1 \in 1 .. m + 1
        BY <2>4
      <4> QED
        BY <2>a, <2>9, <4>1 DEF AtEnd
    <3>2. (cells = Place(Case, Config, Repeat, Len(args.configs), args.repeat))'
      <4>1. Place(c, g, r + 1, w, m) = cells + 1
        BY <2>4, Places
      <4> QED
        BY <2>1, <2>a, <2>9, <4>1
    <3>3. ~InCell' /\ (args.cap # 0 => cells <= args.cap)' /\ eval' # "ready"
      BY <2>1, <2>4 DEF GridTyped, InCell
    <3> QED
      BY <3>1, <3>2, <3>3 DEF GridPlace
  <2>12. GridRows'
    <3>1. (\A k \in 1 .. Len(rows) : rows[k].steps = dirs[k])'
      <4>1. \A k \in 1 .. Len(rows) : rows[k].steps = dirs[k]
        BY <2>1 DEF GridRows
      <4>2. dirs' = dirs
        BY <2>1
      <4>3. ASSUME NEW k \in 1 .. Len(rows') PROVE rows'[k].steps = dirs[k]
        <5>1. k = Len(rows) + 1 \/ k \in 1 .. Len(rows)
          BY <2>5, <2>8
        <5>2. CASE k = Len(rows) + 1
          BY <2>6, <2>8, <5>2
        <5>3. CASE k \in 1 .. Len(rows)
          BY <2>8, <4>1, <5>3
        <5> QED
          BY <5>1, <5>2, <5>3
      <4> QED
        BY <4>2, <4>3
    <3>2. ASSUME NEW k \in 1 .. Len(rows')
          PROVE  \E x \in 1 .. n, y \in 1 .. w, z \in 1 .. m :
                    Place(x, y, z, w, m) = k - 1 /\ rows'[k].name = <<Cases[x], args.configs[y], z>>
      <4>1. CASE k = Len(rows) + 1
        <5>1. Place(c, g, r, w, m) = k - 1
          BY <2>4, <2>5, <4>1
        <5> QED
          BY <2>4, <2>6, <2>8, <4>1, <5>1
      <4>2. CASE k # Len(rows) + 1
        <5>1. k \in 1 .. Len(rows)
          BY <2>5, <2>8, <4>2
        <5> QED
          BY <2>1, <2>3, <2>8, <5>1 DEF GridRows
      <4> QED
        BY <4>1, <4>2
    <3>3. (cells = Len(rows) /\ Len(dirs) = Len(rows) + 0)' /\ ~InCell' /\ cwd' = 0
      BY <2>1, <2>5, <2>8 DEF InCell
    <3> QED
      <4>1. (\A k \in 1 .. Len(rows) : \E x \in 1 .. Len(Cases), y \in 1 .. Len(args.configs), z \in 1 .. args.repeat :
                /\ Place(x, y, z, Len(args.configs), args.repeat) = k - 1
                /\ rows[k].name = <<Cases[x], args.configs[y], z>>)'
        <5> SUFFICES ASSUME NEW k \in 1 .. Len(rows')
                     PROVE  \E x \in 1 .. Len(Cases), y \in 1 .. Len(args'.configs), z \in 1 .. args'.repeat :
                               /\ Place(x, y, z, Len(args'.configs), args'.repeat) = k - 1
                               /\ rows'[k].name = <<Cases[x], args'.configs[y], z>>
          OBVIOUS
        <5>1. PICK x \in 1 .. n, y \in 1 .. w, z \in 1 .. m :
                 Place(x, y, z, w, m) = k - 1 /\ rows'[k].name = <<Cases[x], args.configs[y], z>>
          BY <3>2
        <5>2. args' = args
          BY <2>1
        <5>3. x \in 1 .. Len(Cases) /\ y \in 1 .. Len(args'.configs) /\ z \in 1 .. args'.repeat
          BY <2>a
        <5>4. Place(x, y, z, Len(args'.configs), args'.repeat) = k - 1
          BY <2>a, <5>1
        <5> QED
          BY <5>1, <5>2, <5>3, <5>4
      <4>2. (Len(dirs) = Len(rows) + (IF InCell THEN 1 ELSE 0))' /\ (cwd = IF eval = "turn" THEN Len(dirs) ELSE 0)' /\ eval' # "graded"
        BY <2>1, <3>3
      <4> QED
        BY <3>1, <3>3, <4>1, <4>2 DEF GridRows
  <2>13. GridTraces'
    <3> SUFFICES ASSUME ~Twice
                 PROVE  (/\ traces = {TraceOf(rows[k]) : k \in 1 .. Len(rows)}
                         /\ IsFiniteSet(traces) /\ Cardinality(traces) = Len(rows))'
      BY <2>1 DEF GridTraces, Twice
    <3>1. traces = {TraceOf(rows[k]) : k \in 1 .. Len(rows)} /\ IsFiniteSet(traces) /\ Cardinality(traces) = Len(rows)
      BY <2>1 DEF GridTraces
    <3>2. \A k \in 1 .. Len(rows) : rows[k].name # TraceName
      <4> SUFFICES ASSUME NEW k \in 1 .. Len(rows), rows[k].name = TraceName PROVE FALSE
        OBVIOUS
      <4>1. PICK x \in 1 .. n, y \in 1 .. w, z \in 1 .. m :
               Place(x, y, z, w, m) = k - 1 /\ rows[k].name = <<Cases[x], args.configs[y], z>>
        BY <2>1, <2>3 DEF GridRows
      <4>2. Cases[x] = Cases[c] /\ args.configs[y] = args.configs[g] /\ z = r
        BY <2>6, <4>1
      <4>3. x = c /\ y = g
        <5>1. x \in DOMAIN Cases /\ c \in DOMAIN Cases
          BY <2>3, <2>4, SuiteAssumption
        <5>2. y \in DOMAIN args.configs /\ g \in DOMAIN args.configs
          BY <2>a, <2>4
        <5> QED
          BY <4>2, <5>1, <5>2, SuiteAssumption DEF Twice
      <4>4. cells = k - 1
        BY <2>4, <4>1, <4>2, <4>3
      <4> QED
        BY <2>5, <4>4
    <3>3. \A t \in traces : t.name # TraceName
      BY <3>1, <3>2 DEF TraceOf
    <3>4. TraceOf(row) = [name |-> TraceName, in |-> cwd, steps |-> rec[1]]
      BY <2>1, <2>5, <2>6 DEF TraceOf, row
    <3>5. traces' = traces \cup {TraceOf(row)}
      BY <1>2, <3>3, <3>4 DEF Record
    <3>6. TraceOf(row) \notin traces
      BY <2>6, <3>3 DEF TraceOf
    <3>7. IsFiniteSet(traces') /\ Cardinality(traces') = Len(rows')
      <4>1. IsFiniteSet(traces \cup {TraceOf(row)}) /\ Cardinality(traces \cup {TraceOf(row)}) = Cardinality(traces) + 1
        BY <3>1, <3>6, FS_AddElement
      <4> QED
        BY <2>8, <3>1, <3>5, <4>1
    <3>8. traces' = {TraceOf(rows'[k]) : k \in 1 .. Len(rows')}
      <4>1. 1 .. Len(rows') = (1 .. Len(rows)) \cup {Len(rows) + 1}
        BY <2>5, <2>8
      <4>2. {TraceOf(rows'[k]) : k \in 1 .. Len(rows')} = {TraceOf(rows'[k]) : k \in 1 .. Len(rows)} \cup {TraceOf(row)}
        BY <2>8, <4>1
      <4>3. {TraceOf(rows'[k]) : k \in 1 .. Len(rows)} = traces
        BY <2>8, <3>1
      <4> QED
        BY <3>5, <4>2, <4>3
    <3> QED
      BY <3>7, <3>8 DEF TraceOf
  <2> QED
    BY <2>1, <2>10, <2>11, <2>12, <2>13 DEF GridInv
<1> QED
  BY <1>1, <1>2

LEMMA GridStep == GridInv /\ [ENext]_evars => GridInv'
<1> SUFFICES ASSUME GridInv, [ENext]_evars PROVE GridInv'
  OBVIOUS
<1>1. ASSUME NEW configs \in ConfigLists, NEW repeat \in Repeats, NEW cap \in Caps, Launch(configs, repeat, cap) PROVE GridInv'
  BY <1>1, LaunchKeeps
<1>2. CASE NextRow \/ CellTool
  BY <1>2, NextRowKeeps, CellToolKeeps
<1>3. CASE UnknownConfig
  BY <1>3, AbortsKeeps DEF UnknownConfig
<1>6. ASSUME NEW ok \in BOOLEAN, EnterCell(ok) PROVE GridInv'
  <2>1. CASE ok
    BY <1>6, <2>1, EnterCellKeeps DEF EnterCell
  <2>2. CASE ~ok
    BY <1>6, <2>2, AbortsKeeps DEF EnterCell
  <2> QED
    BY <2>1, <2>2
<1>4. ASSUME NEW ok \in BOOLEAN, LeaveCell(ok) \/ Record(ok) \/ Report(ok) PROVE GridInv'
  BY <1>4, LeaveCellKeeps, RecordKeeps, ReportKeeps
<1>5. CASE UNCHANGED evars
  <2>1. UNCHANGED <<args, cell, cells, cwd, dirs, rec, traces, rows, csv, eval>>
    BY <1>5 DEF evars
  <2>2. GridTyped => GridTyped'
    BY <2>1 DEF GridTyped, ConfigNames, Rows
  <2>3. GridPlace => GridPlace'
    BY <2>1 DEF GridPlace, AtEnd, InRow, InCell, Case, Config, Repeat
  <2>4. (GridRows => GridRows') /\ (GridTraces => GridTraces')
    BY <2>1 DEF GridRows, GridTraces, InCell, TraceOf, Twice
  <2> QED
    BY <2>1, <2>2, <2>3, <2>4 DEF GridInv, SizeOf
<1> QED
  BY <1>1, <1>2, <1>3, <1>4, <1>5, <1>6 DEF ENext

\* The table is the whole grid or its first cells up to the budget, each row
\* what was done in its own directory, and the traces are those runs' (eval.rs,
\* runner.rs), for every suite, list of configurations, repeat and budget.
THEOREM TableCoversTheGrid == ESpec => []TableIsTheGrid
<1>1. GridInv => TableIsTheGrid
  <2> SUFFICES ASSUME GridInv, csv # <<>> PROVE TableIsTheGrid
    BY DEF TableIsTheGrid
  <2>1. /\ GridTyped /\ GridRows /\ GridTraces
        /\ Len(rows) = IF args.cap # 0 /\ args.cap < SizeOf(args.configs) THEN args.cap ELSE SizeOf(args.configs)
    BY DEF GridInv
  <2>2. DOMAIN rows = 1 .. Len(rows)
    BY <2>1 DEF GridTyped
  <2>3. \A k \in DOMAIN rows : rows[k].steps = dirs[k]
    BY <2>1, <2>2 DEF GridRows
  <2>4. {[name |-> x.name, in |-> 0, steps |-> x.steps] : x \in {rows[k] : k \in DOMAIN rows}} = {TraceOf(rows[k]) : k \in 1 .. Len(rows)}
    BY <2>2 DEF TraceOf
  <2>5. Twice \/ (traces = {[name |-> x.name, in |-> 0, steps |-> x.steps] : x \in {rows[k] : k \in DOMAIN rows}}
                  /\ Cardinality(traces) = Len(rows))
    BY <2>1, <2>4 DEF GridTraces
  <2> QED
    BY <2>1, <2>3, <2>5 DEF TableIsTheGrid, Twice
<1> QED
  BY <1>1, GridStart, GridStep, PTL DEF ESpec
=============================================================================
