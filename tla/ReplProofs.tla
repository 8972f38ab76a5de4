----------------------------- MODULE ReplProofs -----------------------------
(***************************************************************************)
(* The REPL around the agent loop, for any number of session files, turns, *)
(* rounds and failing saves: its files hold the sessions they are named    *)
(* for, the recorded spend and the plan block are never lost, and the live *)
(* transcript can be sent.                                                 *)
(* Then what it shows: the pages of the Markdown renderer, for any         *)
(* document and width.  What each function of the renderer writes is       *)
(* proved of the function alone, down to its folds over characters;        *)
(* PageInv carries that from event to event for the widths, KeptInv for    *)
(* how often each character is shown.                                      *)
(***************************************************************************)
EXTENDS Repl, Markdown, BasicLemmas, SequenceTheorems, FiniteSetTheorems

-----------------------------------------------------------------------------
(* Messages and rounds *)

LEMMA MessageTypes ==
  /\ SystemMsg \in Message /\ UserMsg \in Message
  /\ \A ids \in Seq(CallIds) : AssistantMsg(ids) \in Message
  /\ AssistantMsg(<<>>) \in Message
  /\ \A i \in CallIds : ToolMsg(i, FALSE) \in Message
BY DEF Message, Roles, SystemMsg, UserMsg, AssistantMsg, ToolMsg

LEMMA RoundsType == Rounds \subseteq Seq(Message)
<1>1. ASSUME NEW calls \in Batches PROVE CallRound(calls) \in Seq(Message)
  <2>1. calls \in Seq(CallIds) /\ Len(calls) \in Nat
    BY ReplAssumption
  <2>2. \A k \in 1..Len(calls) : calls[k] \in CallIds
    BY <2>1
  <2> DEFINE results == [k \in 1..Len(calls) |-> ToolMsg(calls[k], FALSE)]
  <2>3. results \in Seq(Message)
    <3>1. \A k \in 1..Len(calls) : ToolMsg(calls[k], FALSE) \in Message
      BY <2>2, MessageTypes
    <3>2. results \in [1..Len(calls) -> Message]
      BY <3>1
    <3>3. \E n \in Nat : results \in [1..n -> Message]
      BY <2>1, <3>2
    <3> HIDE DEF results
    <3> QED
      BY <3>3
  <2>4. <<AssistantMsg(calls)>> \in Seq(Message)
    BY <2>1, MessageTypes
  <2>5. CallRound(calls) = <<AssistantMsg(calls)>> \o results
    BY DEF CallRound
  <2> HIDE DEF results
  <2> QED
    BY <2>3, <2>4, <2>5
<1>2. RejectedRound \in Seq(Message)
  <2>1. AssistantMsg(<<>>) \in Message /\ UserMsg \in Message
    BY MessageTypes
  <2> QED
    BY <2>1 DEF RejectedRound
<1> QED
  BY <1>1, <1>2 DEF Rounds

\* What n + 1 rounds append is what n rounds append, or a round after that.
LEMMA PlayedSteps ==
  /\ Played \in [Nat -> SUBSET Seq(Message)]
  /\ Played[0] = {<<>>}
  /\ \A n \in Nat : \A p \in Played[n + 1] :
        p \in Played[n] \/ \E q \in Played[n], r \in Rounds : p = q \o r
<1> DEFINE S == SUBSET Seq(Message)
           More(P) == P \cup {p \o r : p \in P, r \in Rounds}
           F == [n \in Nat |-> [P \in S |-> More(P)]]
           Def(f) == [n \in Nat |-> IF n = 0 THEN {<<>>} ELSE More(f[n - 1])]
<1>1. ASSUME NEW P \in S PROVE More(P) \in S
  <2>1. ASSUME NEW p \in P, NEW r \in Rounds PROVE p \o r \in Seq(Message)
    <3>1. p \in Seq(Message) /\ r \in Seq(Message)
      BY RoundsType
    <3> QED
      BY <3>1
  <2>2. ASSUME NEW x \in More(P) PROVE x \in Seq(Message)
    <3>1. CASE x \in P
      BY <3>1
    <3>2. CASE \E p \in P, r \in Rounds : x = p \o r
      BY <2>1, <3>2
    <3> QED
      BY <3>1, <3>2
  <2> HIDE DEF More
  <2> QED
    BY <2>2
<1> HIDE DEF More
<1>3. {<<>>} \in S
  OBVIOUS
<1> HIDE DEF S
<1>2. F \in [Nat -> [S -> S]]
  BY <1>1
<1> HIDE DEF F
<1>4. PICK f : Iterated(f, S, {<<>>}, F)
  BY <1>2, <1>3, Iterates
<1>5. \A n \in Nat : f[n + 1] = More(f[n])
  <2>1. \A n \in Nat : f[n] \in S /\ f[n + 1] = F[n][f[n]]
    BY <1>4 DEF Iterated
  <2> QED
    BY <2>1 DEF F
<1>6. f = Def(f)
  <2>1. ASSUME NEW n \in Nat PROVE f[n] = IF n = 0 THEN {<<>>} ELSE More(f[n - 1])
    <3>1. CASE n = 0
      BY <1>4, <3>1 DEF Iterated
    <3>2. CASE n # 0
      <4>1. n - 1 \in Nat /\ (n - 1) + 1 = n
        BY <3>2
      <4>2. f[(n - 1) + 1] = More(f[n - 1])
        BY <4>1, <1>5
      <4> QED
        BY <3>2, <4>1, <4>2
    <3> QED
      BY <3>1, <3>2
  <2> QED
    BY <1>4, <2>1 DEF Iterated
<1>7. Played = CHOOSE g : g = Def(g)
  BY DEF Played, More
<1>8. Played = Def(Played)
  <2> HIDE DEF Def
  <2> QED
    BY <1>6, <1>7
<1>9. Played[0] = {<<>>}
  BY <1>8
<1>10. ASSUME NEW n \in Nat PROVE Played[n + 1] = More(Played[n])
  <2>1. n + 1 \in Nat /\ n + 1 # 0 /\ (n + 1) - 1 = n
    OBVIOUS
  <2>2. Played[n + 1] = IF n + 1 = 0 THEN {<<>>} ELSE More(Played[(n + 1) - 1])
    BY <1>8, <2>1
  <2> QED
    BY <2>1, <2>2
<1>11. Played \in [Nat -> S]
  <2> DEFINE T == {n \in Nat : Played[n] \notin S}
  <2>1. CASE T = {}
    BY <1>8, <2>1
  <2>2. CASE T # {}
    <3>1. PICK n \in T : \A m \in T : n <= m
      BY <2>2, LeastNumber
    <3>2. n # 0
      BY <1>3, <1>9, <3>1
    <3>3. n - 1 \in Nat /\ ~(n <= n - 1) /\ (n - 1) + 1 = n
      BY <3>1, <3>2
    <3>4. Played[n - 1] \in S
      BY <3>1, <3>3
    <3>5. Played[n] = More(Played[n - 1])
      BY <1>10, <3>3
    <3>6. More(Played[n - 1]) \in S
      BY <1>1, <3>4
    <3> QED
      BY <3>1, <3>5, <3>6
  <2> QED
    BY <2>1, <2>2
<1>12. ASSUME NEW n \in Nat, NEW p \in Played[n + 1]
       PROVE  p \in Played[n] \/ \E q \in Played[n], r \in Rounds : p = q \o r
  <2>1. p \in More(Played[n])
    BY <1>10
  <2> QED
    BY <2>1 DEF More
<1>13. Played \in [Nat -> SUBSET Seq(Message)]
  BY <1>11 DEF S
<1> QED
  BY <1>9, <1>12, <1>13

LEMMA PlayedType ==
  /\ Successes \subseteq Seq(Message)
  /\ Failures \subseteq Seq(Message)
<1>1. Played[MaxRounds] \subseteq Seq(Message)
  BY PlayedSteps, ReplAssumption
<1>2. <<AssistantMsg(<<>>)>> \in Seq(Message)
  <2>1. AssistantMsg(<<>>) \in Message
    BY MessageTypes
  <2> QED
    BY <2>1
<1>3. \A p \in Played[MaxRounds] : p \o <<AssistantMsg(<<>>)>> \in Seq(Message)
  BY <1>1, <1>2
<1>4. <<>> \in Seq(Message)
  OBVIOUS
<1>5. Successes \subseteq Seq(Message)
  BY <1>1, <1>3 DEF Successes
<1> QED
  BY <1>1, <1>4, <1>5 DEF Failures

-----------------------------------------------------------------------------
(* The cut of a compaction *)

\* One user message more is counted, or none, when one position more is.
LEMMA UsersFromNext ==
  ASSUME NEW log \in Seq(Message), NEW b \in 1..Len(log)
  PROVE  /\ IsFiniteSet(UsersFrom(log, b)) /\ IsFiniteSet(UsersFrom(log, b + 1))
         /\ Cardinality(UsersFrom(log, b)) =
              Cardinality(UsersFrom(log, b + 1)) + IF b \in UserIndices(log) THEN 1 ELSE 0
<1>0. Len(log) \in Nat
  OBVIOUS
<1>1. IsFiniteSet(1..Len(log))
  BY <1>0, FS_Interval
<1>2. UsersFrom(log, b) \subseteq 1..Len(log) /\ UsersFrom(log, b + 1) \subseteq 1..Len(log)
  BY DEF UsersFrom, UserIndices
<1>3. IsFiniteSet(UsersFrom(log, b)) /\ IsFiniteSet(UsersFrom(log, b + 1))
  BY <1>1, <1>2, FS_Subset
<1>4. CASE b \in UserIndices(log)
  <2>1. UsersFrom(log, b) = UsersFrom(log, b + 1) \cup {b} /\ b \notin UsersFrom(log, b + 1)
    BY <1>4 DEF UsersFrom, UserIndices
  <2> QED
    BY <1>3, <1>4, <2>1, FS_AddElement
<1>5. CASE b \notin UserIndices(log)
  <2>1. UsersFrom(log, b) = UsersFrom(log, b + 1)
    BY <1>5 DEF UsersFrom, UserIndices
  <2>2. Cardinality(UsersFrom(log, b + 1)) \in Nat
    BY <1>3, FS_CardinalityType
  <2> QED
    BY <1>3, <1>5, <2>1, <2>2
<1> QED
  BY <1>4, <1>5

\* Where there are more user messages than are kept, the cut exists, at a user
\* message.
LEMMA BoundaryExists ==
  ASSUME NEW log \in Seq(Message), NEW keep \in Nat \ {0}, CanCompact(log, keep)
  PROVE  CompactionBoundary(log, keep) \in UserIndices(log)
<1>0. Len(log) \in Nat
  OBVIOUS
<1> DEFINE Count(b) == Cardinality(UsersFrom(log, b))
<1>1. \A b \in 1..(Len(log) + 1) : Count(b) \in Nat
  <2>1. IsFiniteSet(1..Len(log))
    BY <1>0, FS_Interval
  <2>2. \A b : UsersFrom(log, b) \subseteq 1..Len(log)
    BY DEF UsersFrom, UserIndices
  <2>3. \A b : IsFiniteSet(UsersFrom(log, b))
    BY <2>1, <2>2, FS_Subset
  <2> QED
    BY <2>3, FS_CardinalityType
<1>2. Count(Len(log) + 1) = 0
  <2>1. UsersFrom(log, Len(log) + 1) = {}
    BY <1>0 DEF UsersFrom, UserIndices
  <2> QED
    BY <2>1, FS_EmptySet
<1>3. Count(1) > keep
  <2>1. UsersFrom(log, 1) = UserIndices(log)
    BY DEF UsersFrom, UserIndices
  <2> QED
    BY <2>1 DEF CanCompact
<1> HIDE DEF Count
<1> DEFINE T == {d \in Nat : d <= Len(log) /\ Count((Len(log) + 1) - d) >= keep}
<1>4. T # {}
  <2>1. (Len(log) + 1) - Len(log) = 1
    BY <1>0
  <2>2. Count(1) >= keep
    BY <1>0, <1>1, <1>3
  <2> QED
    BY <1>0, <2>1, <2>2
<1>5. PICK d \in T : \A c \in T : d <= c
  BY <1>4, LeastNumber
<1>6. d \in Nat /\ d <= Len(log) /\ Count((Len(log) + 1) - d) >= keep
  BY <1>5
<1>7. d # 0
  <2>1. CASE d = 0
    <3>1. (Len(log) + 1) - d = Len(log) + 1
      BY <1>0, <2>1
    <3> QED
      BY <1>2, <1>6, <3>1
  <2> QED
    BY <2>1
<1> DEFINE b == (Len(log) + 1) - d
<1>8. b \in 1..Len(log) /\ b + 1 \in 1..(Len(log) + 1) /\ b \in 1..(Len(log) + 1) /\ b + 1 = (Len(log) + 1) - (d - 1)
  BY <1>0, <1>6, <1>7
<1>9. Count(b) >= keep
  BY <1>6
<1>10. d - 1 \in Nat /\ d - 1 <= Len(log) /\ ~(d <= d - 1)
  BY <1>0, <1>6, <1>7
<1>11. ~(Count(b + 1) >= keep)
  <2>1. d - 1 \notin T
    <3> HIDE DEF T
    <3> QED
      BY <1>5, <1>10
  <2> QED
    BY <1>8, <1>10, <2>1
<1>12. Count(b) = Count(b + 1) + IF b \in UserIndices(log) THEN 1 ELSE 0
  BY <1>8, UsersFromNext DEF Count
<1> HIDE DEF b
<1>13. b \in UserIndices(log) /\ Count(b) = keep
  <2>1. Count(b) \in Nat /\ Count(b + 1) \in Nat /\ keep \in Nat
    BY <1>1, <1>8
  <2>2. CASE b \in UserIndices(log)
    <3>1. Count(b) = Count(b + 1) + 1
      BY <1>12, <2>2
    <3> QED
      BY <1>9, <1>11, <2>1, <2>2, <3>1
  <2>3. CASE b \notin UserIndices(log)
    <3>1. Count(b) = Count(b + 1) + 0
      BY <1>12, <2>3
    <3> QED
      BY <1>9, <1>11, <2>1, <3>1
  <2> QED
    BY <2>2, <2>3
<1>14. \E c \in UserIndices(log) : Cardinality(UsersFrom(log, c)) = keep
  BY <1>13 DEF Count
<1> QED
  BY <1>14 DEF CompactionBoundary

LEMMA CompactType ==
  ASSUME NEW log \in Seq(Message), NEW keep \in Nat \ {0}, CanCompact(log, keep)
  PROVE  CompactAt(log, CompactionBoundary(log, keep)) \in Seq(Message)
<1>1. PICK b : b = CompactionBoundary(log, keep)
  OBVIOUS
<1>2. b \in 1..Len(log) /\ Len(log) \in Nat
  BY <1>1, BoundaryExists DEF UserIndices
<1>3. SubSeq(log, b, Len(log)) \in Seq(Message)
  BY <1>2
<1>4. log[1] \in Message
  BY <1>2
<1>5. <<log[1], UserMsg>> \in Seq(Message)
  BY <1>4, MessageTypes
<1> QED
  BY <1>1, <1>3, <1>5 DEF CompactAt

LEMMA PopLastType ==
  ASSUME NEW log \in Seq(Message)
  PROVE  PopLast(log) \in Seq(Message)
<1>1. CASE Len(log) <= 1
  BY <1>1 DEF PopLast
<1>2. CASE ~(Len(log) <= 1)
  <2>1. Len(log) \in Nat
    OBVIOUS
  <2>2. \A k \in 1..(Len(log) - 1) : log[k] \in Message
    BY <2>1
  <2> QED
    BY <1>2, <2>1, <2>2 DEF PopLast
<1> QED
  BY <1>1, <1>2

-----------------------------------------------------------------------------
(* Sessions and their files *)

TypeOK ==
  /\ session \in Sessions \cup {None}
  /\ sessionId \in Ids \cup {None}
  /\ plan \in BOOLEAN
  /\ disk \in [Ids -> Sessions \cup {None, Corrupt}]
  /\ missed \in SUBSET Ids
  /\ session = None <=> sessionId = None

\* A crash ends the process, so that the live session's file is never torn.
LiveFile == Running => disk[sessionId] # Corrupt

FilesInv == TypeOK /\ LiveFile /\ TurnsAreSaved

\* What the handlers make of a session.
LEMMA NewSessionType ==
  ASSUME NEW id \in Ids, NEW p \in BOOLEAN
  PROVE  /\ NewSession(id, p) \in Sessions
         /\ NewSession(id, p).origin = id /\ NewSession(id, p).usage = 0
         /\ NewSession(id, p).block = p
BY MessageTypes DEF NewSession, Sessions

LEMMA WithBlockType ==
  ASSUME NEW s \in Sessions, NEW p \in BOOLEAN
  PROVE  /\ WithBlock(s, p) \in Sessions
         /\ WithBlock(s, p).origin = s.origin /\ WithBlock(s, p).usage = s.usage
         /\ WithBlock(s, p).log = s.log /\ WithBlock(s, p).block = p
BY DEF WithBlock, Sessions

Recorded(s, log) == [s EXCEPT !.log = log, !.usage = @ + 1]

LEMMA RecordedType ==
  ASSUME NEW s \in Sessions, NEW log \in Seq(Message)
  PROVE  LET t == Recorded(s, log)
         IN  /\ t \in Sessions
             /\ t.origin = s.origin /\ t.usage = s.usage + 1 /\ t.log = log /\ t.block = s.block
<1>1. s.usage + 1 \in Nat
  BY DEF Sessions
<1>2. ASSUME NEW n \in Nat
      PROVE  LET t == [s EXCEPT !.log = log, !.usage = n]
             IN  /\ t \in Sessions
                 /\ t.origin = s.origin /\ t.usage = n /\ t.log = log /\ t.block = s.block
  BY DEF Sessions
<1> QED
  BY <1>1, <1>2 DEF Recorded

LEMMA RewrittenType ==
  ASSUME NEW s \in Sessions, NEW log \in Seq(Message), NEW t, t = [s EXCEPT !.log = log]
  PROVE  /\ t \in Sessions
         /\ t.origin = s.origin /\ t.usage = s.usage /\ t.log = log /\ t.block = s.block
BY DEF Sessions

LEMMA SessionNotNone == \A s \in Sessions : s # None /\ s # Corrupt
BY ReplAssumption

\* A save writes one file whole, or is recorded as missed.
LEMMA SaveOutcome ==
  ASSUME TypeOK, NEW id \in Ids, NEW s \in Sessions, SavedAs(id, s)
  PROVE  /\ disk' \in [Ids -> Sessions \cup {None, Corrupt}]
         /\ missed' \in SUBSET Ids
         /\ \A j \in Ids : j # id => disk'[j] = disk[j] /\ (j \in missed' <=> j \in missed)
         /\ disk'[id] = s \/ disk'[id] = disk[id]
         /\ id \notin missed' => disk'[id] = s
BY DEF SavedAs, TypeOK

LEMMA InitFilesInv == Init => FilesInv
<1> SUFFICES ASSUME Init PROVE FilesInv
  OBVIOUS
<1>1. TypeOK
  BY DEF Init, TypeOK
<1>2. ~Running /\ \A id \in Ids : disk[id] = None
  BY DEF Init, Running
<1> QED
  BY <1>1, <1>2 DEF FilesInv, LiveFile, TurnsAreSaved

\* A session that goes on and is saved under its own id.
LEMMA SavedKeepsFiles ==
  ASSUME FilesInv, Running, NEW s \in Sessions, SavedAs(sessionId, s), session' = s,
         s.origin = sessionId, sessionId' = sessionId, plan' \in BOOLEAN
  PROVE  FilesInv'
<1>1. sessionId \in Ids
  BY DEF FilesInv, TypeOK, Running
<1>2. /\ disk' \in [Ids -> Sessions \cup {None, Corrupt}]
      /\ missed' \in SUBSET Ids
      /\ \A j \in Ids : j # sessionId => disk'[j] = disk[j]
      /\ disk'[sessionId] = s \/ disk'[sessionId] = disk[sessionId]
      /\ sessionId \notin missed' => disk'[sessionId] = s
  BY <1>1, SaveOutcome DEF FilesInv
<1>3. s # None /\ s # Corrupt
  BY SessionNotNone
<1>4. TypeOK'
  BY <1>1, <1>2, <1>3, ReplAssumption DEF TypeOK
<1>5. LiveFile'
  BY <1>1, <1>2, <1>3 DEF FilesInv, LiveFile, Running
<1>6. TurnsAreSaved'
  BY <1>1, <1>2, <1>3 DEF FilesInv, TurnsAreSaved, Running
<1> QED
  BY <1>4, <1>5, <1>6 DEF FilesInv

\* A session that goes on with its spend, unsaved.
LEMMA UnsavedKeepsFiles ==
  ASSUME FilesInv, Running, NEW s \in Sessions, session' = s,
         s.origin = session.origin, s.usage = session.usage,
         sessionId' = sessionId, plan' \in BOOLEAN, disk' = disk, missed' = missed
  PROVE  FilesInv'
<1>1. s # None
  BY SessionNotNone
<1> QED
  BY <1>1 DEF FilesInv, TypeOK, LiveFile, TurnsAreSaved, Running

LEMMA StepFilesInv == FilesInv /\ [Next]_vars => FilesInv'
<1> SUFFICES ASSUME FilesInv, [Next]_vars PROVE FilesInv'
  OBVIOUS
<1>0. Running => session \in Sessions /\ sessionId \in Ids /\ session.origin = sessionId
                 /\ session.log \in Seq(Message)
  BY DEF FilesInv, TypeOK, TurnsAreSaved, Running, Sessions
<1>p. plan \in BOOLEAN
  BY DEF FilesInv, TypeOK
<1>1. CASE TurnSucceeds
  <2>1. Running /\ sessionId' = sessionId /\ plan' = plan
    BY <1>1 DEF TurnSucceeds
  <2>2. PICK played \in Successes :
          LET s == [session EXCEPT !.log = Asked \o played, !.usage = @ + 1]
          IN  session' = s /\ SavedAs(sessionId, s)
    BY <1>1 DEF TurnSucceeds
  <2>3. played \in Seq(Message) /\ Asked \in Seq(Message)
    BY <1>0, <2>1, PlayedType, MessageTypes DEF Asked
  <2>4. Asked \o played \in Seq(Message)
    BY <2>3
  <2> DEFINE s == Recorded(session, Asked \o played)
  <2>5. s \in Sessions /\ s.origin = session.origin
    BY <1>0, <2>1, <2>4, RecordedType
  <2>6. session' = s /\ SavedAs(sessionId, s)
    BY <2>2 DEF Recorded
  <2> HIDE DEF s
  <2> QED
    BY <1>0, <1>p, <2>1, <2>5, <2>6, SavedKeepsFiles
<1>2. CASE TurnFails
  <2>1. Running /\ UNCHANGED <<sessionId, plan, disk, missed>>
    BY <1>2 DEF TurnFails
  <2>2. PICK played \in Failures : session' = [session EXCEPT !.log = PopLast(Asked \o played)]
    BY <1>2 DEF TurnFails
  <2>3. played \in Seq(Message) /\ Asked \in Seq(Message)
    BY <1>0, <2>1, PlayedType, MessageTypes DEF Asked
  <2>4. Asked \o played \in Seq(Message)
    BY <2>3
  <2>5. PopLast(Asked \o played) \in Seq(Message)
    BY <2>4, PopLastType
  <2>6. session' \in Sessions /\ session'.origin = session.origin /\ session'.usage = session.usage
    BY <1>0, <2>1, <2>2, <2>5, RewrittenType
  <2> QED
    BY <1>p, <2>1, <2>6, UnsavedKeepsFiles
<1>3. CASE Clear
  <2>1. Running /\ UNCHANGED <<sessionId, plan, disk, missed>>
    BY <1>3 DEF Clear
  <2> DEFINE c == [session EXCEPT !.log = Cleared, !.block = session.seat]
  <2>2. Cleared \in Seq(Message)
    BY MessageTypes DEF Cleared
  <2>3. c \in Sessions /\ c.origin = session.origin /\ c.usage = session.usage
    BY <1>0, <2>1, <2>2 DEF Sessions
  <2>4. session' = WithBlock(c, plan)
    BY <1>3 DEF Clear
  <2> HIDE DEF c
  <2>5. session' \in Sessions /\ session'.origin = session.origin /\ session'.usage = session.usage
    BY <1>p, <2>3, <2>4, WithBlockType
  <2> QED
    BY <1>p, <2>1, <2>5, UnsavedKeepsFiles
<1>4. CASE Compact
  <2>1. Running /\ sessionId' = sessionId /\ plan' = plan /\ CanCompact(session.log, Keep)
    BY <1>4 DEF Compact
  <2> DEFINE log == CompactAt(session.log, CompactionBoundary(session.log, Keep))
             s == Recorded(session, log)
  <2>2. log \in Seq(Message)
    BY <1>0, <2>1, CompactType, ReplAssumption
  <2>3. session' = s /\ SavedAs(sessionId, s)
    BY <1>4 DEF Compact, Recorded
  <2>4. s \in Sessions /\ s.origin = session.origin
    <3> HIDE DEF log
    <3> QED
      BY <1>0, <2>1, <2>2, RecordedType
  <2> HIDE DEF s
  <2> QED
    BY <1>0, <1>p, <2>1, <2>3, <2>4, SavedKeepsFiles
<1>5. ASSUME NEW p \in BOOLEAN, SwitchMode(p) PROVE FilesInv'
  <2>1. Running /\ UNCHANGED <<sessionId, disk, missed>> /\ plan' = p /\ session' = WithBlock(session, p)
    BY <1>5 DEF SwitchMode
  <2>2. session' \in Sessions /\ session'.origin = session.origin /\ session'.usage = session.usage
    BY <1>0, <2>1, WithBlockType
  <2> QED
    BY <2>1, <2>2, UnsavedKeepsFiles
<1>6. CASE Save
  <2>1. Running /\ SavedAs(sessionId, session) /\ UNCHANGED <<session, sessionId, plan>>
    BY <1>6 DEF Save
  <2> QED
    BY <1>0, <1>p, <2>1, SavedKeepsFiles
<1>7. ASSUME NEW id \in Ids, Resume(id) PROVE FilesInv'
  <2>1. /\ Running /\ SavedAs(sessionId, session) /\ disk'[id] \notin {None, Corrupt}
        /\ session' = WithBlock(disk'[id], plan) /\ sessionId' = id /\ plan' = plan
    BY <1>7 DEF Resume
  <2>2. /\ disk' \in [Ids -> Sessions \cup {None, Corrupt}]
        /\ missed' \in SUBSET Ids
        /\ \A j \in Ids : j # sessionId => disk'[j] = disk[j]
        /\ disk'[sessionId] = session \/ disk'[sessionId] = disk[sessionId]
    BY <1>0, <2>1, SaveOutcome DEF FilesInv
  <2>3. \A j \in Ids : disk'[j] \notin {None, Corrupt} => disk'[j].origin = j
    BY <1>0, <2>1, <2>2 DEF FilesInv, TurnsAreSaved
  <2>4. disk'[id] \in Sessions /\ disk'[id].origin = id
    BY <2>1, <2>2, <2>3
  <2>5. session' \in Sessions /\ session'.origin = id /\ session'.usage = disk'[id].usage
    BY <1>p, <2>1, <2>4, WithBlockType
  <2>6. session' # None
    BY <2>5, SessionNotNone
  <2>7. TypeOK'
    BY <1>p, <2>1, <2>2, <2>5, <2>6, ReplAssumption DEF TypeOK
  <2>8. LiveFile' /\ TurnsAreSaved'
    BY <2>1, <2>3, <2>5 DEF LiveFile, TurnsAreSaved, Running
  <2> QED
    BY <2>7, <2>8 DEF FilesInv
<1>8. ASSUME NEW id \in Ids, New(id) PROVE FilesInv'
  <2>1. /\ Running /\ SavedAs(sessionId, session) /\ disk[id] = None /\ id # sessionId
        /\ session' = NewSession(id, plan) /\ sessionId' = id /\ plan' = plan
    BY <1>8 DEF New, FreshIds
  <2>2. /\ disk' \in [Ids -> Sessions \cup {None, Corrupt}]
        /\ missed' \in SUBSET Ids
        /\ \A j \in Ids : j # sessionId => disk'[j] = disk[j]
        /\ disk'[sessionId] = session \/ disk'[sessionId] = disk[sessionId]
    BY <1>0, <2>1, SaveOutcome DEF FilesInv
  <2>3. \A j \in Ids : disk'[j] \notin {None, Corrupt} => disk'[j].origin = j
    BY <1>0, <2>1, <2>2 DEF FilesInv, TurnsAreSaved
  <2>4. session' \in Sessions /\ session'.origin = id /\ session'.usage = 0
    BY <1>p, <2>1, NewSessionType
  <2>5. session' # None
    BY <2>4, SessionNotNone
  <2>6. TypeOK'
    BY <1>p, <2>1, <2>2, <2>4, <2>5, ReplAssumption DEF TypeOK
  <2>7. disk'[id] = None
    BY <2>1, <2>2
  <2>8. LiveFile' /\ TurnsAreSaved'
    BY <2>1, <2>3, <2>4, <2>7, ReplAssumption DEF LiveFile, TurnsAreSaved, Running
  <2> QED
    BY <2>6, <2>8 DEF FilesInv
<1>9. CASE Stop
  BY <1>9 DEF Stop, FilesInv, TypeOK, LiveFile, TurnsAreSaved, Running
<1>10. CASE CrashInSave
  <2>1. disk' \in [Ids -> Sessions \cup {None, Corrupt}]
    BY <1>10 DEF CrashInSave, FilesInv, TypeOK
  <2>2. \A j \in Ids : disk'[j] = disk[j] \/ disk'[j] = Corrupt
    BY <1>10 DEF CrashInSave, FilesInv, TypeOK
  <2> QED
    BY <1>10, <2>1, <2>2 DEF CrashInSave, FilesInv, TypeOK, LiveFile, TurnsAreSaved, Running
<1>11. ASSUME NEW id \in Ids, NEW p \in BOOLEAN, StartFresh(id, p) PROVE FilesInv'
  <2>1. /\ disk[id] = None /\ session' = NewSession(id, p) /\ sessionId' = id /\ plan' = p
        /\ missed' = missed \ {id} /\ disk' = disk
    BY <1>11 DEF StartFresh, FreshIds
  <2>2. session' \in Sessions /\ session'.origin = id /\ session'.usage = 0
    BY <2>1, NewSessionType
  <2>3. session' # None
    BY <2>2, SessionNotNone
  <2> QED
    BY <2>1, <2>2, <2>3, ReplAssumption DEF FilesInv, TypeOK, LiveFile, TurnsAreSaved, Running
<1>12. ASSUME NEW id \in Ids, NEW p \in BOOLEAN, StartResumed(id, p) PROVE FilesInv'
  <2>1. /\ disk[id] \notin {None, Corrupt} /\ session' = disk[id] /\ sessionId' = id /\ plan' = p
        /\ missed' = missed /\ disk' = disk
    BY <1>12 DEF StartResumed
  <2>2. session' \in Sessions /\ session'.origin = id
    BY <2>1 DEF FilesInv, TypeOK, TurnsAreSaved
  <2> QED
    BY <2>1, <2>2, ReplAssumption DEF FilesInv, TypeOK, LiveFile, TurnsAreSaved, Running
<1>13. ASSUME NEW id \in Ids, Delete(id) PROVE FilesInv'
  <2>1. disk' \in [Ids -> Sessions \cup {None, Corrupt}]
    BY <1>13 DEF Delete, FilesInv, TypeOK
  <2>2. \A j \in Ids : disk'[j] = disk[j] \/ disk'[j] = None
    BY <1>13 DEF Delete, FilesInv, TypeOK
  <2> QED
    BY <1>13, <2>1, <2>2 DEF Delete, FilesInv, TypeOK, LiveFile, TurnsAreSaved, Running
<1>14. CASE UNCHANGED vars
  BY <1>14 DEF vars, FilesInv, TypeOK, LiveFile, TurnsAreSaved, Running
<1> QED
  BY <1>1, <1>2, <1>3, <1>4, <1>5, <1>6, <1>7, <1>8, <1>9, <1>10, <1>11, <1>12, <1>13, <1>14
     DEF Next

LEMMA FilesInvHolds == Spec => []FilesInv
BY InitFilesInv, StepFilesInv, PTL DEF Spec

\* A crash between turns loses no turn that was saved, no session is written
\* over another's file, and the file on disk records what the live session
\* spent unless its last save failed (main.rs: "Auto-save after a successful
\* turn").
THEOREM TurnsReachTheirFile == Spec => []TurnsAreSaved
<1>1. FilesInv => TurnsAreSaved
  BY DEF FilesInv
<1> QED
  BY <1>1, FilesInvHolds, PTL

-----------------------------------------------------------------------------
(* The plan block and the spend *)

\* What one step makes of a session that stays the live one, or of the block.
BlockStep ==
  Running /\ Running' /\ (session.block = plan \/ <<sessionId, plan>>' # <<sessionId, plan>>) =>
    session'.block = plan'

SpendStep ==
  Running /\ sessionId' = sessionId /\ sessionId \notin missed' =>
    session'.usage >= session.usage

LEMMA StepKeepsBlockAndSpend == FilesInv /\ [Next]_vars => BlockStep /\ SpendStep
<1> SUFFICES ASSUME FilesInv, [Next]_vars PROVE BlockStep /\ SpendStep
  OBVIOUS
<1>0. Running => session \in Sessions /\ sessionId \in Ids /\ session.usage \in Nat
                 /\ session.log \in Seq(Message)
  BY DEF FilesInv, TypeOK, Running, Sessions
<1>p. plan \in BOOLEAN
  BY DEF FilesInv, TypeOK
<1>1. CASE TurnSucceeds
  <2>1. Running /\ sessionId' = sessionId /\ plan' = plan
    BY <1>1 DEF TurnSucceeds
  <2>2. PICK played \in Successes :
          LET s == [session EXCEPT !.log = Asked \o played, !.usage = @ + 1]
          IN  session' = s
    BY <1>1 DEF TurnSucceeds
  <2>3. played \in Seq(Message) /\ Asked \in Seq(Message)
    BY <1>0, <2>1, PlayedType, MessageTypes DEF Asked
  <2>4. Asked \o played \in Seq(Message)
    BY <2>3
  <2>5. session' = Recorded(session, Asked \o played)
    BY <2>2 DEF Recorded
  <2>6. session'.block = session.block /\ session'.usage = session.usage + 1
    BY <1>0, <2>1, <2>4, <2>5, RecordedType
  <2> QED
    BY <1>0, <2>1, <2>6 DEF BlockStep, SpendStep
<1>2. CASE TurnFails
  <2>1. Running /\ UNCHANGED <<sessionId, plan, disk, missed>>
    BY <1>2 DEF TurnFails
  <2>2. PICK played \in Failures : session' = [session EXCEPT !.log = PopLast(Asked \o played)]
    BY <1>2 DEF TurnFails
  <2>3. session'.block = session.block /\ session'.usage = session.usage
    BY <1>0, <2>1, <2>2 DEF Sessions
  <2> QED
    BY <1>0, <2>1, <2>3 DEF BlockStep, SpendStep
<1>3. CASE Clear
  <2>1. Running /\ UNCHANGED <<sessionId, plan, disk, missed>>
        /\ session' = WithBlock([session EXCEPT !.log = Cleared, !.block = session.seat], plan)
    BY <1>3 DEF Clear
  <2>2. session'.block = plan /\ session'.usage = session.usage
    BY <1>0, <2>1 DEF WithBlock, Sessions
  <2> QED
    BY <1>0, <2>1, <2>2 DEF BlockStep, SpendStep
<1>4. CASE Compact
  <2>1. Running /\ sessionId' = sessionId /\ plan' = plan /\ CanCompact(session.log, Keep)
    BY <1>4 DEF Compact
  <2> DEFINE log == CompactAt(session.log, CompactionBoundary(session.log, Keep))
  <2>2. log \in Seq(Message)
    BY <1>0, <2>1, CompactType, ReplAssumption
  <2>3. session' = Recorded(session, log)
    BY <1>4 DEF Compact, Recorded
  <2> HIDE DEF log
  <2>4. session'.block = session.block /\ session'.usage = session.usage + 1
    BY <1>0, <2>1, <2>2, <2>3, RecordedType
  <2> QED
    BY <1>0, <2>1, <2>4 DEF BlockStep, SpendStep
<1>5. ASSUME NEW p \in BOOLEAN, SwitchMode(p) PROVE BlockStep /\ SpendStep
  <2>1. Running /\ UNCHANGED <<sessionId, disk, missed>> /\ plan' = p /\ session' = WithBlock(session, p)
    BY <1>5 DEF SwitchMode
  <2>2. session'.block = p /\ session'.usage = session.usage
    BY <1>0, <2>1, WithBlockType
  <2> QED
    BY <1>0, <2>1, <2>2 DEF BlockStep, SpendStep
<1>6. CASE Save
  <2>1. Running /\ UNCHANGED <<session, sessionId, plan>>
    BY <1>6 DEF Save
  <2> QED
    BY <1>0, <2>1 DEF BlockStep, SpendStep
<1>7. ASSUME NEW id \in Ids, Resume(id) PROVE BlockStep /\ SpendStep
  <2>1. /\ Running /\ SavedAs(sessionId, session) /\ disk'[id] \notin {None, Corrupt}
        /\ session' = WithBlock(disk'[id], plan) /\ sessionId' = id /\ plan' = plan
    BY <1>7 DEF Resume
  <2>2. /\ disk' \in [Ids -> Sessions \cup {None, Corrupt}]
        /\ sessionId \notin missed' => disk'[sessionId] = session
    BY <1>0, <2>1, SaveOutcome DEF FilesInv
  <2>3. disk'[id] \in Sessions
    BY <2>1, <2>2
  <2>4. session'.block = plan /\ session'.usage = disk'[id].usage
    BY <1>p, <2>1, <2>3, WithBlockType
  <2> QED
    BY <1>0, <2>1, <2>2, <2>4 DEF BlockStep, SpendStep
<1>8. ASSUME NEW id \in Ids, New(id) PROVE BlockStep /\ SpendStep
  <2>1. /\ id # sessionId /\ session' = NewSession(id, plan) /\ sessionId' = id /\ plan' = plan
    BY <1>8 DEF New, FreshIds
  <2>2. session'.block = plan
    BY <2>1 DEF NewSession
  <2> QED
    BY <2>1, <2>2 DEF BlockStep, SpendStep
<1>9. CASE Stop \/ CrashInSave
  <2>1. Running /\ sessionId' = None /\ session' = None
    BY <1>9 DEF Stop, CrashInSave
  <2> QED
    BY <1>0, <2>1, ReplAssumption DEF BlockStep, SpendStep, Running
<1>10. ASSUME ~Running PROVE BlockStep /\ SpendStep
  BY <1>10 DEF BlockStep, SpendStep
<1>11. CASE \/ \E id \in Ids, p \in BOOLEAN : StartFresh(id, p)
            \/ \E id \in Ids, p \in BOOLEAN : StartResumed(id, p)
            \/ \E id \in Ids : Delete(id)
  BY <1>10, <1>11 DEF StartFresh, StartResumed, Delete
<1>12. CASE UNCHANGED vars
  BY <1>0, <1>12 DEF vars, BlockStep, SpendStep, Running
<1> QED
  BY <1>1, <1>2, <1>3, <1>4, <1>5, <1>6, <1>7, <1>8, <1>9, <1>11, <1>12 DEF Next

\* No turn, command, compaction, clear or resume takes the plan block out of
\* the prompt of a session in plan mode, or leaves it in one that is not
\* (main.rs: "Reapply the live mode block").
THEOREM BlockIsNeverLost == Spec => BlockFollowsMode
<1>1. FilesInv /\ [Next]_vars =>
        [Running /\ Running' /\ (session.block = plan \/ <<sessionId, plan>>' # <<sessionId, plan>>) =>
           session'.block = plan']_vars
  BY StepKeepsBlockAndSpend DEF BlockStep
<1> QED
  BY <1>1, FilesInvHolds, PTL DEF Spec, BlockFollowsMode

\* While a session is the live one, its recorded spend never goes down, unless
\* its last save failed (session.rs: "Cumulative usage is preserved across
\* clears").
THEOREM SpendIsKept == Spec => SpendNeverForgotten
<1>1. FilesInv /\ [Next]_vars =>
        [Running /\ sessionId' = sessionId /\ sessionId \notin missed' =>
           session'.usage >= session.usage]_vars
  BY StepKeepsBlockAndSpend DEF SpendStep
<1> QED
  BY <1>1, FilesInvHolds, PTL DEF Spec, SpendNeverForgotten

-----------------------------------------------------------------------------
(* Transcripts *)

\* Two transcripts that can be sent make one.
LEMMA WellFormedConcat ==
  ASSUME NEW a \in Seq(Message), NEW b \in Seq(Message), WellFormed(a), WellFormed(b)
  PROVE  WellFormed(a \o b)
<1> DEFINE c == a \o b
<1>0. /\ Len(a) \in Nat /\ Len(b) \in Nat /\ Len(c) = Len(a) + Len(b)
      /\ \A i \in 1..Len(a) : c[i] = a[i]
      /\ \A i \in (Len(a) + 1)..Len(c) : c[i] = b[i - Len(a)] /\ i - Len(a) \in 1..Len(b)
  OBVIOUS
<1>l. /\ \A i \in 1..Len(a) : Len(a[i].calls) \in Nat
      /\ \A i \in 1..Len(b) : Len(b[i].calls) \in Nat
  <2>1. ASSUME NEW i \in 1..Len(a) PROVE Len(a[i].calls) \in Nat
    <3>1. a[i] \in Message
      OBVIOUS
    <3> QED
      BY <3>1 DEF Message
  <2>2. ASSUME NEW i \in 1..Len(b) PROVE Len(b[i].calls) \in Nat
    <3>1. b[i] \in Message
      OBVIOUS
    <3> QED
      BY <3>1 DEF Message
  <2> QED
    BY <2>1, <2>2
<1> HIDE DEF c
<1>1. ASSUME NEW i \in 1..Len(c), NEW k \in 1..Len(c[i].calls)
      PROVE  i + k <= Len(c) /\ c[i + k].role = "tool" /\ c[i + k].id = c[i].calls[k]
  <2>1. CASE i \in 1..Len(a)
    <3>1. c[i] = a[i] /\ k \in 1..Len(a[i].calls) /\ k \in Nat
      BY <1>0, <1>l, <2>1
    <3>2. i + k <= Len(a) /\ a[i + k].role = "tool" /\ a[i + k].id = a[i].calls[k]
      BY <2>1, <3>1 DEF WellFormed, AnsweredUpTo
    <3>3. i + k \in 1..Len(a) /\ i + k <= Len(c)
      BY <1>0, <2>1, <3>1, <3>2
    <3> QED
      BY <1>0, <3>1, <3>2, <3>3
  <2>2. CASE i \in (Len(a) + 1)..Len(c)
    <3>1. c[i] = b[i - Len(a)] /\ i - Len(a) \in 1..Len(b) /\ k \in 1..Len(b[i - Len(a)].calls) /\ k \in Nat
      BY <1>0, <1>l, <2>2
    <3>2. /\ (i - Len(a)) + k <= Len(b) /\ b[(i - Len(a)) + k].role = "tool"
          /\ b[(i - Len(a)) + k].id = b[i - Len(a)].calls[k]
      BY <3>1 DEF WellFormed, AnsweredUpTo
    <3>3. i + k \in (Len(a) + 1)..Len(c) /\ (i + k) - Len(a) = (i - Len(a)) + k /\ i + k <= Len(c)
      BY <1>0, <2>2, <3>1, <3>2
    <3>4. c[i + k] = b[(i - Len(a)) + k]
      BY <1>0, <3>3
    <3> QED
      BY <3>1, <3>2, <3>3, <3>4
  <2> QED
    BY <1>0, <2>1, <2>2
<1>2. ASSUME NEW i \in 1..Len(c), c[i].role = "tool"
      PROVE  \E k \in 1..(i - 1) : k <= Len(c[i - k].calls)
  <2>1. CASE i \in 1..Len(a)
    <3>1. PICK k \in 1..(i - 1) : k <= Len(a[i - k].calls)
      BY <1>0, <1>2, <2>1 DEF WellFormed, NoOrphanUpTo
    <3>2. i - k \in 1..Len(a)
      BY <1>0, <2>1
    <3> QED
      BY <1>0, <3>1, <3>2
  <2>2. CASE i \in (Len(a) + 1)..Len(c)
    <3>1. i - Len(a) \in 1..Len(b) /\ b[i - Len(a)].role = "tool"
      BY <1>0, <1>2, <2>2
    <3>2. PICK k \in 1..((i - Len(a)) - 1) : k <= Len(b[(i - Len(a)) - k].calls)
      BY <3>1 DEF WellFormed, NoOrphanUpTo
    <3>3. k \in 1..(i - 1) /\ i - k \in (Len(a) + 1)..Len(c) /\ (i - k) - Len(a) = (i - Len(a)) - k
      BY <1>0, <2>2
    <3>4. c[i - k] = b[(i - Len(a)) - k]
      BY <1>0, <3>3
    <3> QED
      BY <3>2, <3>3, <3>4
  <2> QED
    BY <1>0, <2>1, <2>2
<1> QED
  BY <1>1, <1>2 DEF WellFormed, AnsweredUpTo, NoOrphanUpTo, c

\* One message that calls nothing and answers nothing.
LEMMA WellFormedAlone ==
  ASSUME NEW m \in Message, m.calls = <<>>, m.role # "tool"
  PROVE  <<m>> \in Seq(Message) /\ WellFormed(<<m>>)
<1>1. Len(<<m>>) = 1 /\ <<m>>[1] = m /\ 1..1 = {1}
  OBVIOUS
<1>2. Len(m.calls) = 0
  OBVIOUS
<1>3. 1..0 = {}
  OBVIOUS
<1> QED
  BY <1>1, <1>2, <1>3 DEF WellFormed, AnsweredUpTo, NoOrphanUpTo

LEMMA PlainMessages ==
  /\ SystemMsg.calls = <<>> /\ SystemMsg.role # "tool"
  /\ UserMsg.calls = <<>> /\ UserMsg.role # "tool"
  /\ AssistantMsg(<<>>).calls = <<>> /\ AssistantMsg(<<>>).role # "tool"
BY DEF SystemMsg, UserMsg, AssistantMsg

\* A reply with calls and their results.
LEMMA CallRoundWellFormed ==
  ASSUME NEW calls \in Seq(CallIds)
  PROVE  CallRound(calls) \in Seq(Message) /\ WellFormed(CallRound(calls))
<1> DEFINE results == [k \in 1..Len(calls) |-> ToolMsg(calls[k], FALSE)]
           round == CallRound(calls)
<1>0. Len(calls) \in Nat /\ \A k \in 1..Len(calls) : calls[k] \in CallIds
  OBVIOUS
<1>1. \A k \in 1..Len(calls) : ToolMsg(calls[k], FALSE) \in Message
  BY <1>0, MessageTypes
<1>2. results \in [1..Len(calls) -> Message]
  BY <1>1
<1>3. results \in Seq(Message) /\ Len(results) = Len(calls)
  <2>1. \E n \in Nat : n = Len(calls) /\ results \in [1..n -> Message]
    BY <1>0, <1>2
  <2> HIDE DEF results
  <2> QED
    BY <2>1
<1>4. \A k \in 1..Len(calls) : results[k] = ToolMsg(calls[k], FALSE)
  OBVIOUS
<1>5. round = <<AssistantMsg(calls)>> \o results
  BY DEF CallRound
<1>6. AssistantMsg(calls) \in Message
  BY MessageTypes
<1> HIDE DEF results, round
<1>7. /\ round \in Seq(Message) /\ Len(round) = 1 + Len(calls)
      /\ round[1] = AssistantMsg(calls)
      /\ \A i \in 2..(1 + Len(calls)) : round[i] = results[i - 1]
  BY <1>0, <1>3, <1>5, <1>6
<1>8. \A i \in 2..(1 + Len(calls)) : round[i] = ToolMsg(calls[i - 1], FALSE)
  <2>1. \A i \in 2..(1 + Len(calls)) : i - 1 \in 1..Len(calls)
    BY <1>0
  <2> QED
    BY <1>4, <1>7, <2>1
<1>9. round[1].calls = calls /\ round[1].role = "assistant"
  BY <1>7 DEF AssistantMsg
<1>10. ASSUME NEW i \in 2..(1 + Len(calls))
       PROVE  round[i].calls = <<>> /\ round[i].role = "tool" /\ round[i].id = calls[i - 1]
  <2>1. round[i] = ToolMsg(calls[i - 1], FALSE)
    BY <1>8
  <2> QED
    BY <2>1 DEF ToolMsg
<1>11. ASSUME NEW i \in 1..Len(round), NEW k \in 1..Len(round[i].calls)
       PROVE  i + k <= Len(round) /\ round[i + k].role = "tool" /\ round[i + k].id = round[i].calls[k]
  <2>1. i = 1
    <3>1. CASE i \in 2..(1 + Len(calls))
      <4>1. Len(<<>>) = 0
        OBVIOUS
      <4> QED
        BY <1>10, <3>1, <4>1
    <3> QED
      BY <1>0, <1>7, <3>1
  <2>2. k \in 1..Len(calls)
    BY <1>9, <2>1
  <2>3. i + k \in 2..(1 + Len(calls)) /\ (i + k) - 1 = k
    BY <1>0, <2>1, <2>2
  <2> QED
    BY <1>0, <1>7, <1>9, <1>10, <2>1, <2>2, <2>3
<1>12. ASSUME NEW i \in 1..Len(round), round[i].role = "tool"
       PROVE  \E k \in 1..(i - 1) : k <= Len(round[i - k].calls)
  <2>1. i # 1
    BY <1>9, <1>12
  <2>2. i - 1 \in 1..(i - 1) /\ i - (i - 1) = 1 /\ i - 1 <= Len(calls)
    BY <1>0, <1>7, <2>1
  <2> QED
    BY <1>9, <2>2
<1> QED
  BY <1>7, <1>11, <1>12 DEF WellFormed, AnsweredUpTo, NoOrphanUpTo, round

LEMMA RoundsWellFormed ==
  ASSUME NEW r \in Rounds
  PROVE  r \in Seq(Message) /\ WellFormed(r)
<1>1. CASE \E calls \in Batches : r = CallRound(calls)
  BY <1>1, CallRoundWellFormed, ReplAssumption
<1>2. CASE r = RejectedRound
  <2>1. /\ <<AssistantMsg(<<>>)>> \in Seq(Message) /\ WellFormed(<<AssistantMsg(<<>>)>>)
        /\ <<UserMsg>> \in Seq(Message) /\ WellFormed(<<UserMsg>>)
    BY MessageTypes, PlainMessages, WellFormedAlone
  <2>2. r = <<AssistantMsg(<<>>)>> \o <<UserMsg>>
    BY <1>2, <2>1 DEF RejectedRound
  <2> QED
    BY <2>1, <2>2, WellFormedConcat, RoundsType
<1> QED
  BY <1>1, <1>2 DEF Rounds

\* Whatever a turn of any number of rounds appends can be sent.
LEMMA PlayedWellFormed ==
  ASSUME NEW n \in Nat, NEW p \in Played[n]
  PROVE  p \in Seq(Message) /\ WellFormed(p)
<1> DEFINE T == {m \in Nat : \E q \in Played[m] : ~WellFormed(q)}
<1>0. \A m \in Nat : \A q \in Played[m] : q \in Seq(Message)
  BY PlayedSteps
<1>1. CASE T = {}
  BY <1>0, <1>1
<1>2. CASE T # {}
  <2>1. PICK m \in T : \A l \in T : m <= l
    BY <1>2, LeastNumber
  <2>2. m \in Nat /\ \E q \in Played[m] : ~WellFormed(q)
    BY <2>1
  <2>3. PICK q \in Played[m] : ~WellFormed(q)
    BY <2>2
  <2>4. m # 0
    <3>1. WellFormed(<<>>)
      <4>1. Len(<<>>) = 0 /\ 1..0 = {}
        OBVIOUS
      <4> QED
        BY <4>1 DEF WellFormed, AnsweredUpTo, NoOrphanUpTo
    <3> QED
      BY <2>3, <3>1, PlayedSteps
  <2>5. m - 1 \in Nat /\ (m - 1) + 1 = m /\ ~(m <= m - 1)
    BY <2>2, <2>4
  <2>6. m - 1 \notin T
    <3> HIDE DEF T
    <3> QED
      BY <2>1, <2>5
  <2>7. \A s \in Played[m - 1] : WellFormed(s)
    BY <2>5, <2>6
  <2>8. q \in Played[m - 1] \/ \E s \in Played[m - 1], r \in Rounds : q = s \o r
    <3>1. \A z \in Played[(m - 1) + 1] :
             z \in Played[m - 1] \/ \E s \in Played[m - 1], r \in Rounds : z = s \o r
      BY <2>5, PlayedSteps
    <3> QED
      BY <2>3, <2>5, <3>1
  <2>9. CASE q \in Played[m - 1]
    BY <2>3, <2>7, <2>9
  <2>10. CASE \E s \in Played[m - 1], r \in Rounds : q = s \o r
    <3>1. PICK s \in Played[m - 1], r \in Rounds : q = s \o r
      BY <2>10
    <3>2. s \in Seq(Message) /\ WellFormed(s)
      BY <1>0, <2>5, <2>7
    <3>3. r \in Seq(Message) /\ WellFormed(r)
      BY RoundsWellFormed
    <3> QED
      BY <2>3, <3>1, <3>2, <3>3, WellFormedConcat
  <2> QED
    BY <2>8, <2>9, <2>10
<1> QED
  BY <1>1, <1>2

\* From a user message on, a transcript that can be sent can be sent: no answer
\* is cut off its call, for a user message stands between no two of them.
LEMMA WellFormedFromUser ==
  ASSUME NEW log \in Seq(Message), WellFormed(log), NEW b \in UserIndices(log)
  PROVE  SubSeq(log, b, Len(log)) \in Seq(Message) /\ WellFormed(SubSeq(log, b, Len(log)))
<1> DEFINE c == SubSeq(log, b, Len(log))
<1>0. b \in 1..Len(log) /\ log[b].role = "user" /\ Len(log) \in Nat
  BY DEF UserIndices
<1>1. /\ c \in Seq(Message) /\ Len(c) = (Len(log) - b) + 1
      /\ \A i \in 1..Len(c) : c[i] = log[i + (b - 1)]
  BY <1>0
<1>l. \A i \in 1..Len(log) : Len(log[i].calls) \in Nat
  <2>1. ASSUME NEW i \in 1..Len(log) PROVE Len(log[i].calls) \in Nat
    <3>1. log[i] \in Message
      OBVIOUS
    <3> QED
      BY <3>1 DEF Message
  <2> QED
    BY <2>1
<1> HIDE DEF c
<1>2. ASSUME NEW i \in 1..Len(c), NEW k \in 1..Len(c[i].calls)
      PROVE  i + k <= Len(c) /\ c[i + k].role = "tool" /\ c[i + k].id = c[i].calls[k]
  <2>1. i + (b - 1) \in 1..Len(log) /\ c[i] = log[i + (b - 1)]
    <3>1. PICK n \in Nat, m \in Nat : n = Len(log) /\ m = b
      BY <1>0
    <3>2. m \in 1..n /\ Len(c) = (n - m) + 1
      BY <1>0, <1>1, <3>1
    <3>3. i \in 1..((n - m) + 1)
      BY <3>2
    <3>4. i + (m - 1) \in 1..n
      BY <3>2, <3>3
    <3> QED
      BY <1>1, <3>1, <3>4
  <2>2. k \in Nat /\ k >= 1 /\ k \in 1..Len(log[i + (b - 1)].calls)
    BY <1>l, <2>1
  <2>3. /\ (i + (b - 1)) + k <= Len(log) /\ log[(i + (b - 1)) + k].role = "tool"
        /\ log[(i + (b - 1)) + k].id = log[i + (b - 1)].calls[k]
    BY <2>1, <2>2 DEF WellFormed, AnsweredUpTo
  <2>4. i + k \in 1..Len(c) /\ (i + k) + (b - 1) = (i + (b - 1)) + k
    BY <1>0, <1>1, <2>2, <2>3
  <2>5. c[i + k] = log[(i + (b - 1)) + k]
    BY <1>1, <2>4
  <2> QED
    BY <2>1, <2>3, <2>4, <2>5
<1>3. ASSUME NEW i \in 1..Len(c), c[i].role = "tool"
      PROVE  \E k \in 1..(i - 1) : k <= Len(c[i - k].calls)
  <2>1. i + (b - 1) \in 1..Len(log) /\ c[i] = log[i + (b - 1)]
    <3>1. PICK n \in Nat, m \in Nat : n = Len(log) /\ m = b
      BY <1>0
    <3>2. m \in 1..n /\ Len(c) = (n - m) + 1
      BY <1>0, <1>1, <3>1
    <3>3. i \in 1..((n - m) + 1)
      BY <3>2
    <3>4. i + (m - 1) \in 1..n
      BY <3>2, <3>3
    <3> QED
      BY <1>1, <3>1, <3>4
  <2>2. PICK k \in 1..((i + (b - 1)) - 1) : k <= Len(log[(i + (b - 1)) - k].calls)
    BY <1>3, <2>1 DEF WellFormed, NoOrphanUpTo
  <2>3. i # 1
    <3>1. CASE i = 1
      <4>1. i + (b - 1) = b
        BY <1>0, <3>1
      <4> QED
        BY <1>0, <1>3, <2>1, <4>1
    <3> QED
      BY <3>1
  <2>4. CASE k <= i - 1
    <3>1. k \in 1..(i - 1) /\ i - k \in 1..Len(c) /\ (i - k) + (b - 1) = (i + (b - 1)) - k
      BY <1>0, <1>1, <2>4
    <3>2. c[i - k] = log[(i + (b - 1)) - k]
      BY <1>1, <3>1
    <3> QED
      BY <2>2, <3>1, <3>2
  <2>5. CASE ~(k <= i - 1)
    <3> DEFINE j == (i + (b - 1)) - k
               d == b - j
    <3>1. j \in 1..Len(log) /\ d \in Nat /\ d >= 1 /\ d <= k /\ j + d = b
      BY <1>0, <2>1, <2>3, <2>5
    <3>2. k <= Len(log[j].calls)
      BY <2>2
    <3> HIDE DEF j, d
    <3>3. Len(log[j].calls) \in Nat
      BY <1>l, <3>1
    <3>4. d \in 1..Len(log[j].calls)
      BY <3>1, <3>2, <3>3
    <3>5. log[j + d].role = "tool"
      BY <3>1, <3>4 DEF WellFormed, AnsweredUpTo
    <3> QED
      BY <1>0, <3>1, <3>5
  <2> QED
    BY <2>4, <2>5
<1> QED
  BY <1>1, <1>2, <1>3 DEF WellFormed, AnsweredUpTo, NoOrphanUpTo, c

-----------------------------------------------------------------------------
(* The live transcript *)

Transcript(log) ==
  /\ log \in Seq(Message)
  /\ Len(log) >= 1 /\ log[1] = SystemMsg
  /\ WellFormed(log)

\* The live session and every file hold a transcript that begins with the
\* system prompt and can be sent.
SendInv ==
  /\ Running => Transcript(session.log)
  /\ \A id \in Ids : disk[id] \notin {None, Corrupt} => Transcript(disk[id].log)

LEMMA PromptAlone ==
  Transcript(<<SystemMsg>>)
<1>1. <<SystemMsg>> \in Seq(Message) /\ WellFormed(<<SystemMsg>>)
  BY MessageTypes, PlainMessages, WellFormedAlone
<1> QED
  BY <1>1 DEF Transcript

LEMMA TranscriptGrows ==
  ASSUME NEW log, Transcript(log), NEW more \in Seq(Message), WellFormed(more)
  PROVE  Transcript(log \o more)
<1>1. log \in Seq(Message) /\ Len(log) \in Nat /\ Len(log) >= 1 /\ log[1] = SystemMsg /\ WellFormed(log)
  BY DEF Transcript
<1>2. WellFormed(log \o more)
  BY <1>1, WellFormedConcat
<1>3. log \o more \in Seq(Message) /\ Len(log \o more) >= 1 /\ (log \o more)[1] = log[1]
  BY <1>1
<1> QED
  BY <1>1, <1>2, <1>3 DEF Transcript

LEMMA TranscriptAsked ==
  ASSUME NEW log, Transcript(log)
  PROVE  Transcript(Append(log, UserMsg))
<1>1. <<UserMsg>> \in Seq(Message) /\ WellFormed(<<UserMsg>>)
  BY MessageTypes, PlainMessages, WellFormedAlone
<1>2. Append(log, UserMsg) = log \o <<UserMsg>>
  BY MessageTypes DEF Transcript
<1> QED
  BY <1>1, <1>2, TranscriptGrows

LEMMA SuccessesWellFormed ==
  ASSUME NEW p \in Successes
  PROVE  p \in Seq(Message) /\ WellFormed(p)
<1>0. MaxRounds \in Nat
  BY ReplAssumption
<1>1. CASE p \in Played[MaxRounds]
  BY <1>0, <1>1, PlayedWellFormed
<1>2. CASE \E q \in Played[MaxRounds] : p = q \o <<AssistantMsg(<<>>)>>
  <2>1. PICK q \in Played[MaxRounds] : p = q \o <<AssistantMsg(<<>>)>>
    BY <1>2
  <2>2. q \in Seq(Message) /\ WellFormed(q)
    BY <1>0, PlayedWellFormed
  <2>3. <<AssistantMsg(<<>>)>> \in Seq(Message) /\ WellFormed(<<AssistantMsg(<<>>)>>)
    BY MessageTypes, PlainMessages, WellFormedAlone
  <2> QED
    BY <2>1, <2>2, <2>3, WellFormedConcat, PlayedType
<1> QED
  BY <1>1, <1>2 DEF Successes

\* Without a round, a failed turn takes back what it had appended.
LEMMA FailureTakesBack ==
  ASSUME NEW log, Transcript(log), NEW m \in Message
  PROVE  PopLast(Append(log, m) \o <<>>) = log
<1>1. log \in Seq(Message) /\ Len(log) \in Nat /\ Len(log) >= 1
  BY DEF Transcript
<1>2. Append(log, m) \in Seq(Message) /\ Len(Append(log, m)) = Len(log) + 1
  BY <1>1
<1>3. Append(log, m) \o <<>> = Append(log, m)
  BY <1>2
<1>4. PopLast(Append(log, m)) = SubSeq(Append(log, m), 1, Len(log))
  BY <1>1, <1>2 DEF PopLast
<1>5. SubSeq(Append(log, m), 1, Len(log)) = log
  BY <1>1
<1> QED
  BY <1>3, <1>4, <1>5

LEMMA CompactedTranscript ==
  ASSUME NEW log, Transcript(log), NEW keep \in Nat \ {0}, CanCompact(log, keep)
  PROVE  Transcript(CompactAt(log, CompactionBoundary(log, keep)))
<1>1. log \in Seq(Message) /\ log[1] = SystemMsg /\ WellFormed(log)
  BY DEF Transcript
<1>2. PICK b : b = CompactionBoundary(log, keep)
  OBVIOUS
<1>3. b \in UserIndices(log)
  BY <1>1, <1>2, BoundaryExists
<1>4. SubSeq(log, b, Len(log)) \in Seq(Message) /\ WellFormed(SubSeq(log, b, Len(log)))
  BY <1>1, <1>3, WellFormedFromUser
<1>0. /\ <<SystemMsg>> \in Seq(Message)
      /\ <<UserMsg>> \in Seq(Message) /\ WellFormed(<<UserMsg>>)
  BY MessageTypes, PlainMessages, WellFormedAlone
<1>5. Transcript(<<SystemMsg>> \o <<UserMsg>>)
  BY <1>0, PromptAlone, TranscriptGrows
<1>6. <<SystemMsg>> \o <<UserMsg>> = <<SystemMsg, UserMsg>>
  <2> DEFINE two == <<SystemMsg>> \o <<UserMsg>>
             head == <<SystemMsg, UserMsg>>
  <2>1. two \in Seq(Message) /\ Len(two) = 2 /\ two[1] = SystemMsg /\ two[2] = UserMsg
    BY <1>0
  <2>2. head \in Seq(Message) /\ Len(head) = 2 /\ head[1] = SystemMsg /\ head[2] = UserMsg
    BY MessageTypes
  <2> HIDE DEF two, head
  <2>3. two = head
    BY <2>1, <2>2
  <2> QED
    BY <2>3 DEF two, head
<1>7. CompactAt(log, b) = <<SystemMsg, UserMsg>> \o SubSeq(log, b, Len(log))
  BY <1>1 DEF CompactAt
<1> QED
  BY <1>2, <1>4, <1>5, <1>6, <1>7, TranscriptGrows

\* A save puts into a file nothing but the live transcript.
LEMMA SavedTranscripts ==
  ASSUME FilesInv, SendInv, Running, NEW s \in Sessions, SavedAs(sessionId, s), Transcript(s.log)
  PROVE  \A id \in Ids : disk'[id] \notin {None, Corrupt} => Transcript(disk'[id].log)
<1>1. sessionId \in Ids
  BY DEF FilesInv, TypeOK, Running
<1>2. /\ \A j \in Ids : j # sessionId => disk'[j] = disk[j]
      /\ disk'[sessionId] = s \/ disk'[sessionId] = disk[sessionId]
  BY <1>1, SaveOutcome DEF FilesInv
<1> QED
  BY <1>1, <1>2 DEF SendInv

LEMMA InitSendInv == Init => SendInv
BY DEF Init, SendInv, Running

LEMMA StepSendInv ==
  ~LateFailures /\ FilesInv /\ SendInv /\ [Next]_vars => SendInv'
<1> SUFFICES ASSUME ~LateFailures, FilesInv, SendInv, [Next]_vars PROVE SendInv'
  OBVIOUS
<1>0. Running => session \in Sessions /\ sessionId \in Ids /\ Transcript(session.log)
                 /\ session.log \in Seq(Message)
  BY DEF FilesInv, TypeOK, Running, SendInv, Sessions
<1>p. plan \in BOOLEAN
  BY DEF FilesInv, TypeOK
<1>1. CASE TurnSucceeds
  <2>1. Running
    BY <1>1 DEF TurnSucceeds
  <2>2. PICK played \in Successes :
          LET s == [session EXCEPT !.log = Asked \o played, !.usage = @ + 1]
          IN  session' = s /\ SavedAs(sessionId, s)
    BY <1>1 DEF TurnSucceeds
  <2>3. Transcript(Asked) /\ played \in Seq(Message) /\ WellFormed(played)
    BY <1>0, <2>1, TranscriptAsked, SuccessesWellFormed DEF Asked
  <2>4. Transcript(Asked \o played)
    BY <2>3, TranscriptGrows
  <2>5. Asked \o played \in Seq(Message)
    BY <2>4 DEF Transcript
  <2> DEFINE s == Recorded(session, Asked \o played)
  <2>6. s \in Sessions /\ s.log = Asked \o played
    BY <1>0, <2>1, <2>5, RecordedType
  <2>7. session' = s /\ SavedAs(sessionId, s)
    BY <2>2 DEF Recorded
  <2> HIDE DEF s
  <2>8. \A id \in Ids : disk'[id] \notin {None, Corrupt} => Transcript(disk'[id].log)
    BY <2>1, <2>4, <2>6, <2>7, SavedTranscripts
  <2> QED
    BY <2>4, <2>6, <2>7, <2>8 DEF SendInv
<1>2. CASE TurnFails
  <2>1. Running /\ disk' = disk
    BY <1>2 DEF TurnFails
  <2>2. session' = [session EXCEPT !.log = PopLast(Asked \o <<>>)]
    BY <1>2 DEF TurnFails, Failures
  <2>3. PopLast(Asked \o <<>>) = session.log
    BY <1>0, <2>1, FailureTakesBack, MessageTypes DEF Asked
  <2>4. session'.log = session.log
    BY <1>0, <2>1, <2>2, <2>3 DEF Sessions
  <2> QED
    BY <1>0, <2>1, <2>4 DEF SendInv
<1>3. CASE Clear
  <2>1. Running /\ disk' = disk
        /\ session' = WithBlock([session EXCEPT !.log = Cleared, !.block = session.seat], plan)
    BY <1>3 DEF Clear
  <2>2. session'.log = <<SystemMsg>>
    BY <1>0, <2>1 DEF WithBlock, Cleared, Sessions
  <2> QED
    BY <2>1, <2>2, PromptAlone DEF SendInv
<1>4. CASE Compact
  <2>1. Running /\ CanCompact(session.log, Keep)
    BY <1>4 DEF Compact
  <2> DEFINE log == CompactAt(session.log, CompactionBoundary(session.log, Keep))
             s == Recorded(session, log)
  <2>2. Transcript(log)
    BY <1>0, <2>1, CompactedTranscript, ReplAssumption
  <2>3. session' = s /\ SavedAs(sessionId, s)
    BY <1>4 DEF Compact, Recorded
  <2> HIDE DEF log
  <2>4. s \in Sessions /\ s.log = log
    BY <1>0, <2>1, <2>2, RecordedType DEF Transcript
  <2> HIDE DEF s
  <2>5. \A id \in Ids : disk'[id] \notin {None, Corrupt} => Transcript(disk'[id].log)
    BY <2>1, <2>2, <2>3, <2>4, SavedTranscripts
  <2> QED
    BY <2>2, <2>3, <2>4, <2>5 DEF SendInv
<1>5. ASSUME NEW p \in BOOLEAN, SwitchMode(p) PROVE SendInv'
  <2>1. Running /\ disk' = disk /\ session' = WithBlock(session, p)
    BY <1>5 DEF SwitchMode
  <2>2. session'.log = session.log
    BY <1>0, <2>1, WithBlockType
  <2> QED
    BY <1>0, <2>1, <2>2 DEF SendInv
<1>6. CASE Save
  <2>1. Running /\ SavedAs(sessionId, session) /\ session' = session
    BY <1>6 DEF Save
  <2>2. \A id \in Ids : disk'[id] \notin {None, Corrupt} => Transcript(disk'[id].log)
    BY <1>0, <2>1, SavedTranscripts
  <2> QED
    BY <1>0, <2>1, <2>2 DEF SendInv
<1>7. ASSUME NEW id \in Ids, Resume(id) PROVE SendInv'
  <2>1. /\ Running /\ SavedAs(sessionId, session) /\ disk'[id] \notin {None, Corrupt}
        /\ session' = WithBlock(disk'[id], plan)
    BY <1>7 DEF Resume
  <2>2. \A j \in Ids : disk'[j] \notin {None, Corrupt} => Transcript(disk'[j].log)
    BY <1>0, <2>1, SavedTranscripts
  <2>3. disk'[id] \in Sessions
    <3>1. disk' \in [Ids -> Sessions \cup {None, Corrupt}]
      BY <1>0, <2>1, SaveOutcome DEF FilesInv
    <3> QED
      BY <2>1, <3>1
  <2>4. session'.log = disk'[id].log
    BY <1>p, <2>1, <2>3, WithBlockType
  <2> QED
    BY <2>1, <2>2, <2>4 DEF SendInv
<1>8. ASSUME NEW id \in Ids, New(id) PROVE SendInv'
  <2>1. Running /\ SavedAs(sessionId, session) /\ session' = NewSession(id, plan)
    BY <1>8 DEF New
  <2>2. \A j \in Ids : disk'[j] \notin {None, Corrupt} => Transcript(disk'[j].log)
    BY <1>0, <2>1, SavedTranscripts
  <2>3. session'.log = <<SystemMsg>>
    BY <2>1 DEF NewSession
  <2> QED
    BY <2>2, <2>3, PromptAlone DEF SendInv
<1>9. CASE Stop
  BY <1>9 DEF Stop, SendInv, Running
<1>10. CASE CrashInSave
  <2>1. \A j \in Ids : disk'[j] = disk[j] \/ disk'[j] = Corrupt
    BY <1>10 DEF CrashInSave, FilesInv, TypeOK
  <2> QED
    BY <1>10, <2>1 DEF CrashInSave, SendInv, Running
<1>11. ASSUME NEW id \in Ids, NEW p \in BOOLEAN, StartFresh(id, p) PROVE SendInv'
  <2>1. disk' = disk /\ session'.log = <<SystemMsg>>
    BY <1>11 DEF StartFresh, NewSession
  <2> QED
    BY <2>1, PromptAlone DEF SendInv
<1>12. ASSUME NEW id \in Ids, NEW p \in BOOLEAN, StartResumed(id, p) PROVE SendInv'
  BY <1>12 DEF StartResumed, SendInv
<1>13. ASSUME NEW id \in Ids, Delete(id) PROVE SendInv'
  <2>1. \A j \in Ids : disk'[j] = disk[j] \/ disk'[j] = None
    BY <1>13 DEF Delete, FilesInv, TypeOK
  <2> QED
    BY <1>13, <2>1 DEF Delete, SendInv, Running
<1>14. CASE UNCHANGED vars
  BY <1>14 DEF vars, SendInv, Running
<1> QED
  BY <1>1, <1>2, <1>3, <1>4, <1>5, <1>6, <1>7, <1>8, <1>9, <1>10, <1>11, <1>12, <1>13, <1>14
     DEF Next

\* As long as no turn fails after the model has answered in it, the live
\* transcript can be sent, whatever is compacted, cleared, saved, resumed and
\* left by a crash (compact.rs: "the cut never orphans a tool result").
THEOREM TranscriptCanBeSent ==
  ASSUME ~LateFailures
  PROVE  Spec => []Sendable
<1>1. Init => FilesInv /\ SendInv
  BY InitFilesInv, InitSendInv
<1>2. FilesInv /\ SendInv /\ [Next]_vars => (FilesInv /\ SendInv)'
  BY StepFilesInv, StepSendInv
<1>3. FilesInv /\ SendInv => Sendable
  BY DEF SendInv, Transcript, Sendable
<1> QED
  BY <1>1, <1>2, <1>3, PTL DEF Spec

-----------------------------------------------------------------------------
(* The pages of the Markdown renderer *)

\* A fold over n terms whose steps stay in S.
Folded(f, S, n, base, G) ==
  f \in [0 .. n -> S] /\ f[0] = base /\ \A i \in 1 .. n : f[i] = G[i][f[i - 1]]

LEMMA FoldStays ==
  ASSUME NEW S, NEW base \in S, NEW n \in Nat, NEW G \in [1 .. n -> [S -> S]]
  PROVE  \E f : Folded(f, S, n, base, G)
<1> DEFINE F == [k \in Nat |-> IF k < n THEN G[k + 1] ELSE [x \in S |-> x]]
<1>1. F \in [Nat -> [S -> S]]
  <2>1. ASSUME NEW k \in Nat PROVE (IF k < n THEN G[k + 1] ELSE [x \in S |-> x]) \in [S -> S]
    <3>1. CASE k < n
      <4>1. k + 1 \in 1 .. n
        BY <3>1
      <4> QED
        BY <3>1, <4>1
    <3>2. CASE ~(k < n)
      BY <3>2
    <3> QED
      BY <3>1, <3>2
  <2> QED
    BY <2>1
<1>2. \A k \in Nat : k < n => F[k] = G[k + 1]
  OBVIOUS
<1> HIDE DEF F
<1>3. PICK h : Iterated(h, S, base, F)
  BY <1>1, Iterates
<1>4. h \in [Nat -> S] /\ h[0] = base /\ \A k \in Nat : h[k + 1] = F[k][h[k]]
  BY <1>3 DEF Iterated
<1> DEFINE f == [i \in 0 .. n |-> h[i]]
<1>5. f \in [0 .. n -> S] /\ f[0] = base
  BY <1>4
<1>6. ASSUME NEW i \in 1 .. n PROVE f[i] = G[i][f[i - 1]]
  <2>1. PICK k \in Nat : k = i - 1
    OBVIOUS
  <2>2. k < n /\ k + 1 = i /\ i \in 0 .. n /\ k \in 0 .. n
    BY <2>1
  <2>3. h[k + 1] = F[k][h[k]] /\ F[k] = G[k + 1]
    BY <1>2, <1>4, <2>2
  <2> QED
    BY <2>1, <2>2, <2>3
<1> HIDE DEF f
<1> QED
  BY <1>5, <1>6 DEF Folded

\* Characters, the two that the code writes among them.
Character == STRING \cup {" ", Dots}
Txt == Seq(Character)

\* One term more.
Longer(s, c, t) ==
  Len(t) = Len(s) + 1 /\ t[Len(s) + 1] = c /\ \A j \in 1 .. Len(s) : t[j] = s[j]

LEMMA AppendIs ==
  ASSUME NEW S, NEW s \in Seq(S), NEW c \in S
  PROVE  Append(s, c) \in Seq(S) /\ Longer(s, c, Append(s, c))
<1>1. Append(s, c) \in Seq(S)
  OBVIOUS
<1>2. Len(Append(s, c)) = Len(s) + 1 /\ Append(s, c)[Len(s) + 1] = c
  OBVIOUS
<1>3. \A j \in 1 .. Len(s) : Append(s, c)[j] = s[j]
  OBVIOUS
<1> QED
  BY <1>1, <1>2, <1>3 DEF Longer

LEMMA AppendTxt ==
  ASSUME NEW s \in Txt, NEW c \in Character
  PROVE  Append(s, c) \in Txt /\ Longer(s, c, Append(s, c))
  BY AppendIs DEF Txt

LEMMA CharWidths == ASSUME NEW c PROVE CharW(c) \in {1, 2} /\ (CharW(c) = 2 <=> c \in Wide)
  BY DEF CharW

\* The columns of a text, character by character.
WidthsTo(s, f) ==
  /\ f \in [0 .. Len(s) -> Nat] /\ f[0] = 0
  /\ \A i \in 1 .. Len(s) : f[i] = f[i - 1] + CharW(s[i])

LEMMA DispIs ==
  ASSUME NEW s \in Txt
  PROVE  \E f : WidthsTo(s, f) /\ DispWidth(s) = f[Len(s)]
<1>1. PICK m \in Nat : m = Len(s)
  BY DEF Txt
<1> DEFINE G == [i \in 1 .. m |-> [w \in Nat |-> w + CharW(s[i])]]
<1>2. \A c : CharW(c) \in Nat
  BY CharWidths
<1>3. G \in [1 .. m -> [Nat -> Nat]]
  BY <1>2
<1>4. \A i \in 1 .. m, w \in Nat : G[i][w] = w + CharW(s[i])
  OBVIOUS
<1> HIDE DEF G
<1>5. PICK h : Folded(h, Nat, m, 0, G)
  BY <1>3, FoldStays
<1> DEFINE g == [i \in 0 .. m |-> h[i]]
<1>6. ASSUME NEW i \in 0 .. m PROVE h[i] = IF i = 0 THEN 0 ELSE g[i - 1] + CharW(s[i])
  <2>1. CASE i = 0
    BY <1>5, <2>1 DEF Folded
  <2>2. CASE i # 0
    <3>1. i \in 1 .. m /\ i - 1 \in 0 .. m
      BY <2>2
    <3>2. h[i] = G[i][h[i - 1]] /\ h[i - 1] \in Nat /\ g[i - 1] = h[i - 1]
      BY <1>5, <3>1 DEF Folded
    <3> QED
      BY <1>4, <2>2, <3>1, <3>2
  <2> QED
    BY <2>1, <2>2
<1>7. g = [i \in 0 .. m |-> IF i = 0 THEN 0 ELSE g[i - 1] + CharW(s[i])]
  BY <1>6
<1> HIDE DEF g
<1>8. PICK f : f = CHOOSE e : e = [i \in 0 .. Len(s) |-> IF i = 0 THEN 0 ELSE e[i - 1] + CharW(s[i])]
  OBVIOUS
<1>9. f = [i \in 0 .. m |-> IF i = 0 THEN 0 ELSE f[i - 1] + CharW(s[i])]
  BY <1>1, <1>7, <1>8
<1>10. DispWidth(s) = f[Len(s)]
  BY <1>8 DEF DispWidth, Over
<1>11. f[0] = 0 /\ \A i \in 1 .. m : f[i] = f[i - 1] + CharW(s[i])
  BY <1>9
<1> DEFINE T == {k \in Nat : k <= m /\ f[k] \in Nat}
<1>12. 0 .. m \subseteq T
  <2>1. 0 \in T
    BY <1>11
  <2>2. ASSUME NEW k \in Nat, k < m, k \in T PROVE k + 1 \in T
    <3>1. k + 1 \in 1 .. m /\ k + 1 - 1 = k
      BY <2>2
    <3>2. f[k + 1] = f[k] + CharW(s[k + 1])
      BY <1>11, <3>1
    <3>3. f[k + 1] \in Nat
      BY <1>2, <2>2, <3>2
    <3> QED
      BY <3>1, <3>3
  <2> HIDE DEF T
  <2> QED
    BY <2>1, <2>2, Reaches
<1>13. \A i \in 0 .. m : f[i] \in Nat
  BY <1>12
<1>14. f \in [0 .. m -> Nat]
  BY <1>9, <1>13
<1> QED
  BY <1>1, <1>10, <1>11, <1>14 DEF WidthsTo

LEMMA DispType == ASSUME NEW s \in Txt PROVE DispWidth(s) \in Nat
<1>1. PICK f : WidthsTo(s, f) /\ DispWidth(s) = f[Len(s)]
  BY DispIs
<1>2. Len(s) \in 0 .. Len(s)
  BY DEF Txt
<1> QED
  BY <1>1, <1>2 DEF WidthsTo

Shifted(f, from, g, at, m) ==
  /\ f[from] \in Nat /\ f[from + m] \in Nat /\ g[at] \in Nat /\ g[at + m] \in Nat
  /\ f[from + m] + g[at] = g[at + m] + f[from]

\* The same characters take the same columns wherever they stand.
LEMMA WidthsShift ==
  ASSUME NEW s \in Txt, NEW t \in Txt, NEW f, NEW g, WidthsTo(s, f), WidthsTo(t, g),
         NEW from \in Nat, NEW at \in Nat, NEW m \in Nat, from + m <= Len(s), at + m <= Len(t),
         \A j \in 1 .. m : s[from + j] = t[at + j]
  PROVE  Shifted(f, from, g, at, m)
<1>1. PICK a \in Nat : a = Len(s)
  BY DEF Txt
<1>2. PICK b \in Nat : b = Len(t)
  BY DEF Txt
<1>3. from + m <= a /\ at + m <= b
  BY <1>2, <1>1
<1>4. /\ \A i \in 0 .. a : f[i] \in Nat
      /\ \A i \in 1 .. a : f[i] = f[i - 1] + CharW(s[i])
      /\ \A i \in 0 .. b : g[i] \in Nat
      /\ \A i \in 1 .. b : g[i] = g[i - 1] + CharW(t[i])
  BY <1>2, <1>1 DEF WidthsTo
<1> DEFINE T == {k \in Nat : k <= m /\ f[from + k] + g[at] = g[at + k] + f[from]}
<1>5. 0 \in T
  <2>1. from \in 0 .. a /\ at \in 0 .. b /\ from + 0 = from /\ at + 0 = at
    BY <1>3
  <2>2. f[from] \in Nat /\ g[at] \in Nat
    BY <1>4, <2>1
  <2> QED
    BY <2>1, <2>2
<1>6. ASSUME NEW k \in Nat, k < m, k \in T PROVE k + 1 \in T
  <2>1. PICK p \in Nat, q \in Nat : p = from + k /\ q = at + k
    OBVIOUS
  <2>2. /\ p \in 0 .. a /\ p + 1 \in 1 .. a /\ p + 1 - 1 = p /\ p + 1 = from + (k + 1)
        /\ q \in 0 .. b /\ q + 1 \in 1 .. b /\ q + 1 - 1 = q /\ q + 1 = at + (k + 1)
        /\ from \in 0 .. a /\ at \in 0 .. b
    BY <1>3, <1>6, <2>1
  <2>3. f[p + 1] = f[p] + CharW(s[p + 1]) /\ g[q + 1] = g[q] + CharW(t[q + 1])
    BY <1>4, <2>2
  <2>4. s[p + 1] = t[q + 1]
    <3>1. PICK j \in 1 .. m : j = k + 1
      BY <1>6
    <3>2. s[from + j] = t[at + j] /\ from + j = p + 1 /\ at + j = q + 1
      BY <2>1, <3>1
    <3> QED
      BY <3>2
  <2>5. f[p] + g[at] = g[q] + f[from]
    BY <1>6, <2>1
  <2>6. f[p] \in Nat /\ g[q] \in Nat /\ f[from] \in Nat /\ g[at] \in Nat
    BY <1>4, <2>2
  <2>7. PICK w \in Nat : w = CharW(s[p + 1]) /\ w = CharW(t[q + 1])
    BY <2>4, CharWidths
  <2>8. f[p + 1] + g[at] = g[q + 1] + f[from]
    <3>1. PICK x \in Nat, y \in Nat, u \in Nat, v \in Nat : x = f[p] /\ y = g[q] /\ u = f[from] /\ v = g[at]
      BY <2>6
    <3>2. PICK a1, b1 : a1 = f[p + 1] /\ b1 = g[q + 1]
      OBVIOUS
    <3>3. a1 = x + w /\ b1 = y + w /\ x + v = y + u
      BY <2>3, <2>5, <2>7, <3>1, <3>2
    <3>4. a1 + v = b1 + u
      BY <3>3
    <3> QED
      BY <3>1, <3>2, <3>4
  <2> QED
    BY <1>6, <2>2, <2>8
<1>7. m \in T
  <2>1. 0 .. m \subseteq T
    <3> HIDE DEF T
    <3> QED
      BY <1>5, <1>6, Reaches
  <2> QED
    BY <2>1
<1>8. from \in 0 .. a /\ from + m \in 0 .. a /\ at \in 0 .. b /\ at + m \in 0 .. b
  BY <1>3
<1> QED
  BY <1>4, <1>7, <1>8 DEF Shifted

\* A character more; a text cut in two.
LEMMA DispAppend ==
  ASSUME NEW s \in Txt, NEW c \in Character
  PROVE  Append(s, c) \in Txt /\ DispWidth(Append(s, c)) = DispWidth(s) + CharW(c)
<1>1. PICK n \in Nat : n = Len(s)
  BY DEF Txt
<1>2. PICK t : t = Append(s, c)
  OBVIOUS
<1>3. t \in Txt /\ Len(t) = n + 1 /\ t[n + 1] = c /\ \A j \in 1 .. n : t[j] = s[j]
  <2>1. t \in Txt /\ Longer(s, c, t)
    BY <1>2, AppendTxt
  <2> QED
    BY <1>1, <2>1 DEF Longer
<1>4. PICK f : WidthsTo(s, f) /\ DispWidth(s) = f[Len(s)]
  BY DispIs
<1>5. PICK g : WidthsTo(t, g) /\ DispWidth(t) = g[Len(t)]
  BY <1>3, DispIs
<1>6. Shifted(f, 0, g, 0, n)
  <2>1. 0 + n <= Len(s) /\ 0 + n <= Len(t) /\ \A j \in 1 .. n : s[0 + j] = t[0 + j]
    BY <1>1, <1>3
  <2> QED
    BY <1>3, <1>4, <1>5, <2>1, WidthsShift
<1>7. f[0] = 0 /\ g[0] = 0 /\ g[n + 1] = g[n + 1 - 1] + CharW(c)
  <2>1. n + 1 \in 1 .. Len(t)
    BY <1>1, <1>3
  <2>2. g[n + 1] = g[n + 1 - 1] + CharW(t[n + 1])
    BY <1>5, <2>1 DEF WidthsTo
  <2> QED
    BY <1>3, <1>4, <1>5, <2>2 DEF WidthsTo
<1>8. 0 + n = n /\ n + 1 - 1 = n
  OBVIOUS
<1>9. f[n] = g[n]
  BY <1>6, <1>7, <1>8 DEF Shifted
<1> QED
  BY <1>1, <1>2, <1>3, <1>4, <1>5, <1>7, <1>8, <1>9

LEMMA DispCut ==
  ASSUME NEW s \in Txt, NEW k \in Nat, k <= Len(s)
  PROVE  /\ SubSeq(s, 1, k) \in Txt /\ SubSeq(s, k + 1, Len(s)) \in Txt
         /\ Len(SubSeq(s, 1, k)) = k /\ Len(SubSeq(s, k + 1, Len(s))) = Len(s) - k
         /\ DispWidth(SubSeq(s, 1, k)) + DispWidth(SubSeq(s, k + 1, Len(s))) = DispWidth(s)
<1>1. PICK n \in Nat : n = Len(s)
  BY DEF Txt
<1>2. k <= n
  BY <1>1
<1>3. PICK a : a = SubSeq(s, 1, k)
  OBVIOUS
<1>4. PICK b : b = SubSeq(s, k + 1, Len(s))
  OBVIOUS
<1>5. a \in Txt /\ Len(a) = k /\ \A j \in 1 .. k : a[j] = s[j]
  <2>1. \A i \in 1 .. k : s[i] \in Character
    BY <1>1 DEF Txt
  <2>2. /\ SubSeq(s, 1, k) \in Seq(Character)
        /\ Len(SubSeq(s, 1, k)) = IF 1 <= k THEN k - 1 + 1 ELSE 0
        /\ \A i \in 1 .. k - 1 + 1 : SubSeq(s, 1, k)[i] = s[1 + i - 1]
    BY <2>1, SubSeqProperties
  <2>3. (IF 1 <= k THEN k - 1 + 1 ELSE 0) = k /\ k - 1 + 1 = k /\ \A i \in 1 .. k : 1 + i - 1 = i
    OBVIOUS
  <2> QED
    BY <1>3, <2>2, <2>3 DEF Txt
<1>6. b \in Txt /\ Len(b) = n - k /\ \A j \in 1 .. n - k : b[j] = s[k + j]
  <2>1. \A i \in k + 1 .. n : s[i] \in Character
    BY <1>1 DEF Txt
  <2>2. /\ SubSeq(s, k + 1, n) \in Seq(Character)
        /\ Len(SubSeq(s, k + 1, n)) = IF k + 1 <= n THEN n - (k + 1) + 1 ELSE 0
        /\ \A i \in 1 .. n - (k + 1) + 1 : SubSeq(s, k + 1, n)[i] = s[k + 1 + i - 1]
    BY <2>1, SubSeqProperties
  <2>3. (IF k + 1 <= n THEN n - (k + 1) + 1 ELSE 0) = n - k /\ n - (k + 1) + 1 = n - k
    BY <1>2
  <2>4. \A i \in 1 .. n - k : k + 1 + i - 1 = k + i
    BY <1>2
  <2> QED
    BY <1>1, <1>4, <2>2, <2>3, <2>4 DEF Txt
<1>7. PICK f : WidthsTo(s, f) /\ DispWidth(s) = f[Len(s)]
  BY DispIs
<1>8. PICK g : WidthsTo(a, g) /\ DispWidth(a) = g[Len(a)]
  BY <1>5, DispIs
<1>9. PICK h : WidthsTo(b, h) /\ DispWidth(b) = h[Len(b)]
  BY <1>6, DispIs
<1>10. Shifted(f, 0, g, 0, k)
  <2>1. 0 + k <= Len(s) /\ 0 + k <= Len(a) /\ \A j \in 1 .. k : s[0 + j] = a[0 + j]
    BY <1>5
  <2> QED
    BY <1>5, <1>7, <1>8, <2>1, WidthsShift
<1>11. PICK m \in Nat : m = n - k
  BY <1>2
<1>12. Shifted(f, k, h, 0, m)
  <2>1. k + m <= Len(s) /\ 0 + m <= Len(b) /\ \A j \in 1 .. m : s[k + j] = b[0 + j]
    BY <1>1, <1>6, <1>11
  <2> QED
    BY <1>6, <1>7, <1>9, <2>1, WidthsShift
<1>13. f[0] = 0 /\ g[0] = 0 /\ h[0] = 0
  BY <1>7, <1>8, <1>9 DEF WidthsTo
<1>14. 0 + k = k /\ 0 + m = m /\ k + m = n
  BY <1>2, <1>11
<1>15. g[k] + h[m] = f[n]
  BY <1>10, <1>12, <1>13, <1>14 DEF Shifted
<1> QED
  BY <1>1, <1>3, <1>4, <1>5, <1>6, <1>7, <1>8, <1>9, <1>11, <1>15

LEMMA DispEmpty == <<>> \in Txt /\ DispWidth(<<>>) = 0 /\ Len(<<>>) = 0
<1>1. <<>> \in Txt /\ Len(<<>>) = 0
  BY DEF Txt
<1>2. PICK f : WidthsTo(<<>>, f) /\ DispWidth(<<>>) = f[Len(<<>>)]
  BY <1>1, DispIs
<1> QED
  BY <1>1, <1>2 DEF WidthsTo

\* A column for each character, and one more if one is wide.
LEMMA DispCounts ==
  ASSUME NEW s \in Txt
  PROVE  /\ Len(s) \in Nat /\ Len(s) <= DispWidth(s)
         /\ Range(s) \cap Wide # {} => Len(s) + 1 <= DispWidth(s)
<1>1. PICK n \in Nat : n = Len(s)
  BY DEF Txt
<1>2. PICK f : WidthsTo(s, f) /\ DispWidth(s) = f[Len(s)]
  BY DispIs
<1>3. /\ f[0] = 0
      /\ \A i \in 0 .. n : f[i] \in Nat
      /\ \A i \in 1 .. n : f[i] = f[i - 1] + CharW(s[i])
  BY <1>1, <1>2 DEF WidthsTo
<1> DEFINE T == {k \in Nat : k <= n /\ k <= f[k] /\ \A i \in 1 .. k : s[i] \in Wide => k + 1 <= f[k]}
<1>4. 0 \in T
  BY <1>3
<1>5. ASSUME NEW k \in Nat, k < n, k \in T PROVE k + 1 \in T
  <2>1. k + 1 \in 1 .. n /\ k + 1 - 1 = k /\ k \in 0 .. n /\ k + 1 \in 0 .. n
    BY <1>5
  <2>2. f[k + 1] = f[k] + CharW(s[k + 1]) /\ f[k] \in Nat /\ f[k + 1] \in Nat
    BY <1>3, <2>1
  <2>3. PICK w \in {1, 2} : w = CharW(s[k + 1]) /\ (s[k + 1] \in Wide => w = 2)
    BY CharWidths
  <2>4. k + 1 <= f[k + 1]
    BY <1>5, <2>2, <2>3
  <2>5. ASSUME NEW i \in 1 .. k + 1, s[i] \in Wide PROVE k + 1 + 1 <= f[k + 1]
    <3>1. CASE i = k + 1
      BY <1>5, <2>2, <2>3, <2>5, <3>1
    <3>2. CASE i # k + 1
      <4>1. i \in 1 .. k
        BY <3>2
      <4>2. k + 1 <= f[k]
        BY <1>5, <2>5, <4>1
      <4> QED
        BY <2>2, <2>3, <4>2
    <3> QED
      BY <3>1, <3>2
  <2> QED
    BY <2>1, <2>4, <2>5
<1>6. n \in T
  <2>1. 0 .. n \subseteq T
    <3> HIDE DEF T
    <3> QED
      BY <1>4, <1>5, Reaches
  <2> QED
    BY <2>1
<1>7. ASSUME Range(s) \cap Wide # {} PROVE \E i \in 1 .. n : s[i] \in Wide
  <2>1. DOMAIN s = 1 .. n
    BY <1>1 DEF Txt
  <2> QED
    BY <1>7, <2>1 DEF Range
<1> QED
  BY <1>1, <1>2, <1>6, <1>7

-----------------------------------------------------------------------------
\* Wrapping

\* A line of text for a columns: one more if one of its characters is wide.
LineFor(a) == {s \in Txt : \/ DispWidth(s) <= a
                           \/ DispWidth(s) <= a + 1 /\ Range(s) \cap Wide # {}}

\* Where the wrapping of a text stands: only a line that may still break at a
\* space is sure to fit.
WrapState(a) ==
  {st \in [lines : Seq(LineFor(a)), line : LineFor(a), w : Nat, sp : Nat] :
     /\ st.w = DispWidth(st.line) /\ st.sp <= Len(st.line)
     /\ st.w <= a \/ st.sp = 0}

Started == [lines |-> <<>>, line |-> <<>>, w |-> 0, sp |-> 0]

LEMMA StartedIs == ASSUME NEW a \in Nat PROVE Started \in WrapState(a)
<1>1. <<>> \in LineFor(a)
  BY DispEmpty DEF LineFor
<1>2. <<>> \in Seq(LineFor(a))
  OBVIOUS
<1>3. Started \in [lines : Seq(LineFor(a)), line : LineFor(a), w : Nat, sp : Nat]
  BY <1>1, <1>2 DEF Started
<1>4. Started.w = DispWidth(Started.line) /\ Started.sp <= Len(Started.line) /\ Started.w <= a
  BY DispEmpty DEF Started
<1> QED
  BY <1>3, <1>4 DEF WrapState

\* There is room for a character, or the line is one that holds anything.
RoomFor(b, c, a) ==
  /\ b \in [lines : Seq(LineFor(a)), line : Txt, w : Nat, sp : Nat]
  /\ b.w = DispWidth(b.line) /\ b.sp <= Len(b.line)
  /\ b.w + CharW(c) <= a \/ (b.sp = 0 /\ b.w + 1 <= a)

Broken(st, c, a) ==
  LET tail == SubSeq(st.line, st.sp + 1, Len(st.line))
  IN IF st.w + CharW(c) <= a \/ st.line = <<>> THEN st
     ELSE IF st.sp > 0
     THEN [lines |-> Append(st.lines, SubSeq(st.line, 1, st.sp - 1)),
           line |-> tail, w |-> DispWidth(tail), sp |-> 0]
     ELSE [lines |-> Append(st.lines, st.line), line |-> <<>>, w |-> 0, sp |-> 0]

LEMMA BreakMakesRoom ==
  ASSUME NEW a \in Nat, a >= 1, NEW st \in WrapState(a), NEW c \in Character
  PROVE  RoomFor(Broken(st, c, a), c, a)
<1>1. /\ st \in [lines : Seq(LineFor(a)), line : LineFor(a), w : Nat, sp : Nat]
      /\ st.w = DispWidth(st.line) /\ st.sp <= Len(st.line)
      /\ st.w <= a \/ st.sp = 0
  BY DEF WrapState
<1>2. st.line \in Txt
  BY <1>1 DEF LineFor
<1>3. PICK w \in Nat : w = st.w
  BY <1>1
<1>4. PICK sp \in Nat : sp = st.sp
  BY <1>1
<1>5. PICK n \in Nat : n = Len(st.line)
  BY <1>2 DEF Txt
<1>6. sp <= n /\ (w <= a \/ sp = 0) /\ w = DispWidth(st.line)
  BY <1>1, <1>3, <1>4, <1>5
<1>7. st \in [lines : Seq(LineFor(a)), line : Txt, w : Nat, sp : Nat]
  <2>1. LineFor(a) \subseteq Txt
    BY DEF LineFor
  <2> QED
    BY <1>1, <2>1
<1>8. CASE st.w + CharW(c) <= a \/ st.line = <<>>
  <2>1. Broken(st, c, a) = st
    BY <1>8 DEF Broken
  <2>2. st.line = <<>> => st.sp = 0 /\ st.w + 1 <= a
    <3>1. st.line = <<>> => n = 0 /\ w = 0
      BY <1>5, <1>6, DispEmpty
    <3>2. st.line = <<>> => sp = 0 /\ w + 1 <= a
      BY <1>6, <3>1
    <3> QED
      BY <1>3, <1>4, <3>2
  <2> QED
    BY <1>1, <1>7, <1>8, <2>1, <2>2 DEF RoomFor
<1>9. CASE ~(st.w + CharW(c) <= a \/ st.line = <<>>) /\ sp > 0
  <2>1. PICK before : before = SubSeq(st.line, 1, st.sp - 1)
    OBVIOUS
  <2>2. PICK tail : tail = SubSeq(st.line, st.sp + 1, Len(st.line))
    OBVIOUS
  <2>3. Broken(st, c, a) = [lines |-> Append(st.lines, before), line |-> tail, w |-> DispWidth(tail), sp |-> 0]
    BY <1>4, <1>9, <2>1, <2>2 DEF Broken
  <2>4. before \in LineFor(a)
    <3>1. PICK k \in Nat : k = sp - 1
      BY <1>9
    <3>2. k <= Len(st.line) /\ before = SubSeq(st.line, 1, k)
      BY <1>4, <1>5, <1>6, <2>1, <3>1
    <3>3. PICK rest : rest = SubSeq(st.line, k + 1, Len(st.line))
      OBVIOUS
    <3>4. before \in Txt /\ rest \in Txt /\ DispWidth(before) + DispWidth(rest) = DispWidth(st.line)
      BY <1>2, <3>2, <3>3, DispCut
    <3>5. PICK x \in Nat : x = DispWidth(before)
      BY <3>4, DispType
    <3>6. PICK y \in Nat : y = DispWidth(rest)
      BY <3>4, DispType
    <3>7. x <= a
      BY <1>6, <1>9, <3>4, <3>5, <3>6
    <3> QED
      BY <3>4, <3>5, <3>7 DEF LineFor
  <2>5. tail \in Txt /\ DispWidth(tail) \in Nat /\ DispWidth(tail) + 1 <= a
    <3>1. sp <= Len(st.line) /\ tail = SubSeq(st.line, sp + 1, Len(st.line))
      BY <1>4, <1>5, <1>6, <2>2
    <3>2. PICK head : head = SubSeq(st.line, 1, sp)
      OBVIOUS
    <3>3. head \in Txt /\ tail \in Txt /\ Len(head) = sp /\ DispWidth(head) + DispWidth(tail) = DispWidth(st.line)
      BY <1>2, <3>1, <3>2, DispCut
    <3>4. PICK x \in Nat : x = DispWidth(head)
      BY <3>3, DispType
    <3>5. PICK y \in Nat : y = DispWidth(tail)
      BY <3>3, DispType
    <3>6. sp <= x
      BY <3>3, <3>4, DispCounts
    <3>7. y + 1 <= a
      BY <1>6, <1>9, <3>3, <3>4, <3>5, <3>6
    <3> QED
      BY <3>3, <3>5, <3>7
  <2>6. Append(st.lines, before) \in Seq(LineFor(a))
    BY <1>1, <2>4, AppendIs
  <2>7. Len(tail) \in Nat
    BY <2>5, DispCounts
  <2>8. PICK b : b = Broken(st, c, a)
    OBVIOUS
  <2>9. b.lines = Append(st.lines, before) /\ b.line = tail /\ b.w = DispWidth(tail) /\ b.sp = 0
    BY <2>3, <2>8
  <2>10. b \in [lines : Seq(LineFor(a)), line : Txt, w : Nat, sp : Nat]
    BY <2>3, <2>5, <2>6, <2>8
  <2> QED
    BY <2>5, <2>7, <2>8, <2>9, <2>10 DEF RoomFor
<1>10. CASE ~(st.w + CharW(c) <= a \/ st.line = <<>>) /\ ~(sp > 0)
  <2>1. PICK b : b = Broken(st, c, a)
    OBVIOUS
  <2>2. b = [lines |-> Append(st.lines, st.line), line |-> <<>>, w |-> 0, sp |-> 0]
    BY <1>4, <1>10, <2>1 DEF Broken
  <2>3. Append(st.lines, st.line) \in Seq(LineFor(a))
    BY <1>1, AppendIs
  <2>4. b \in [lines : Seq(LineFor(a)), line : Txt, w : Nat, sp : Nat]
    BY <2>2, <2>3, DispEmpty
  <2>5. b.line = <<>> /\ b.w = 0 /\ b.sp = 0
    BY <2>2
  <2> QED
    BY <2>1, <2>4, <2>5, DispEmpty DEF RoomFor
<1> QED
  BY <1>8, <1>9, <1>10

\* The character is put into that room.
Put(b, c) == [b EXCEPT !.sp = IF c = " " THEN Len(b.line) + 1 ELSE @,
                       !.line = Append(@, c), !.w = @ + CharW(c)]

LEMMA PutFits ==
  ASSUME NEW a \in Nat, NEW c \in Character, NEW b, RoomFor(b, c, a)
  PROVE  Put(b, c) \in WrapState(a)
<1>1. /\ b \in [lines : Seq(LineFor(a)), line : Txt, w : Nat, sp : Nat]
      /\ b.w = DispWidth(b.line) /\ b.sp <= Len(b.line)
      /\ b.w + CharW(c) <= a \/ (b.sp = 0 /\ b.w + 1 <= a)
  BY DEF RoomFor
<1>2. b.line \in Txt
  BY <1>1
<1>3. PICK w \in Nat : w = b.w
  BY <1>1
<1>4. PICK sp \in Nat : sp = b.sp
  BY <1>1
<1>5. PICK n \in Nat : n = Len(b.line)
  BY <1>2 DEF Txt
<1>6. PICK k \in Nat : k = CharW(c) /\ (k = 1 \/ k = 2) /\ (k = 2 => c \in Wide)
  BY CharWidths
<1>7. w = DispWidth(b.line) /\ sp <= n /\ (w + k <= a \/ (sp = 0 /\ w + 1 <= a))
  BY <1>1, <1>3, <1>4, <1>5, <1>6
<1>8. PICK l : l = Append(b.line, c)
  OBVIOUS
<1>9. l \in Txt /\ DispWidth(l) = w + k /\ Longer(b.line, c, l)
  BY <1>2, <1>6, <1>7, <1>8, AppendTxt, DispAppend
<1>10. Len(l) = n + 1 /\ l[n + 1] = c
  BY <1>5, <1>9 DEF Longer
<1>11. PICK p : p = Put(b, c)
  OBVIOUS
<1>12. p = [lines |-> b.lines, line |-> l, w |-> w + k, sp |-> IF c = " " THEN n + 1 ELSE sp]
  BY <1>1, <1>3, <1>4, <1>5, <1>6, <1>8, <1>11 DEF Put
<1>13. l \in LineFor(a)
  <2>1. CASE w + k <= a
    BY <1>9, <2>1 DEF LineFor
  <2>2. CASE ~(w + k <= a)
    <3>1. k = 1 \/ k = 2
      BY <1>6
    <3>2. k = 2 /\ w + k <= a + 1
      BY <1>7, <2>2, <3>1
    <3>3. c \in Range(l) /\ c \in Wide
      <4>1. n + 1 \in 1 .. Len(l)
        BY <1>10
      <4>2. n + 1 \in DOMAIN l
        BY <1>9, <4>1 DEF Txt
      <4> QED
        BY <1>6, <1>10, <3>2, <4>2 DEF Range
    <3> QED
      BY <1>9, <3>2, <3>3 DEF LineFor
  <2> QED
    BY <2>1, <2>2
<1>14. PICK q : q = IF c = " " THEN n + 1 ELSE sp
  OBVIOUS
<1>15. q \in Nat /\ q <= n + 1 /\ (w + k <= a \/ q = 0)
  <2>1. CASE c = " "
    <3>1. c \notin Wide
      BY <2>1, DocumentAssumption
    <3>2. k = 1 /\ n + 1 \in Nat /\ w + 1 <= a
      BY <1>6, <1>7, <3>1
    <3>3. q = n + 1
      BY <1>14, <2>1
    <3> QED
      BY <3>2, <3>3
  <2>2. CASE c # " "
    <3>1. q = sp
      BY <1>14, <2>2
    <3> QED
      BY <1>7, <3>1
  <2> QED
    BY <2>1, <2>2
<1>16. p.lines = b.lines /\ p.line = l /\ p.w = w + k /\ p.sp = q
  BY <1>12, <1>14
<1>17. w + k \in Nat
  OBVIOUS
<1>18. p \in [lines : Seq(LineFor(a)), line : LineFor(a), w : Nat, sp : Nat]
  BY <1>1, <1>12, <1>13, <1>14, <1>15, <1>17
<1> QED
  BY <1>9, <1>10, <1>11, <1>15, <1>16, <1>18 DEF WrapState

LEMMA WrapCharStays ==
  ASSUME NEW a \in Nat, a >= 1, NEW st \in WrapState(a), NEW c \in Character
  PROVE  WrapChar(st, c, a) \in WrapState(a)
<1>1. PICK b : b = Broken(st, c, a)
  OBVIOUS
<1>2. RoomFor(b, c, a)
  BY <1>1, BreakMakesRoom
<1>3. Put(b, c) \in WrapState(a)
  BY <1>2, PutFits
<1>4. WrapChar(st, c, a) = Put(Broken(st, c, a), c)
  BY DEF WrapChar, Put, Broken
<1> QED
  BY <1>1, <1>3, <1>4

WrapTo(s, a, f) ==
  /\ f \in [0 .. Len(s) -> WrapState(a)] /\ f[0] = Started
  /\ \A i \in 1 .. Len(s) : f[i] = WrapChar(f[i - 1], s[i], a)

Wrapping(s, a) ==
  Over(LAMBDA st, c : WrapChar(st, c, a), [lines |-> <<>>, line |-> <<>>, w |-> 0, sp |-> 0], s)

LEMMA WrapFolds ==
  ASSUME NEW a \in Nat, a >= 1, NEW s \in Txt
  PROVE  \E f : WrapTo(s, a, f) /\ Wrapping(s, a) = f[Len(s)]
<1>1. PICK m \in Nat : m = Len(s)
  BY DEF Txt
<1> DEFINE G == [i \in 1 .. m |-> [x \in WrapState(a) |-> WrapChar(x, s[i], a)]]
<1>2. \A i \in 1 .. m, x \in WrapState(a) : WrapChar(x, s[i], a) \in WrapState(a)
  <2>1. \A i \in 1 .. m : s[i] \in Character
    BY <1>1 DEF Txt
  <2> QED
    BY <2>1, WrapCharStays
<1>3. G \in [1 .. m -> [WrapState(a) -> WrapState(a)]]
  BY <1>2
<1>4. \A i \in 1 .. m, x \in WrapState(a) : G[i][x] = WrapChar(x, s[i], a)
  OBVIOUS
<1> HIDE DEF G
<1>5. Started \in WrapState(a)
  BY StartedIs
<1>6. PICK h : Folded(h, WrapState(a), m, Started, G)
  BY <1>3, <1>5, FoldStays
<1> DEFINE g == [i \in 0 .. m |-> h[i]]
<1>7. ASSUME NEW i \in 0 .. m PROVE h[i] = IF i = 0 THEN Started ELSE WrapChar(g[i - 1], s[i], a)
  <2>1. CASE i = 0
    BY <1>6, <2>1 DEF Folded
  <2>2. CASE i # 0
    <3>1. i \in 1 .. m /\ i - 1 \in 0 .. m
      BY <2>2
    <3>2. h[i] = G[i][h[i - 1]] /\ h[i - 1] \in WrapState(a) /\ g[i - 1] = h[i - 1]
      BY <1>6, <3>1 DEF Folded
    <3> QED
      BY <1>4, <2>2, <3>1, <3>2
  <2> QED
    BY <2>1, <2>2
<1>8. g = [i \in 0 .. m |-> IF i = 0 THEN Started ELSE WrapChar(g[i - 1], s[i], a)]
  BY <1>7
<1> HIDE DEF g
<1>9. PICK f : f = CHOOSE e : e = [i \in 0 .. Len(s) |-> IF i = 0 THEN Started ELSE WrapChar(e[i - 1], s[i], a)]
  OBVIOUS
<1>10. f = [i \in 0 .. m |-> IF i = 0 THEN Started ELSE WrapChar(f[i - 1], s[i], a)]
  BY <1>1, <1>8, <1>9
<1>11. Wrapping(s, a) = f[Len(s)]
  BY <1>9 DEF Wrapping, Over, Started
<1>12. f[0] = Started /\ \A i \in 1 .. m : f[i] = WrapChar(f[i - 1], s[i], a)
  BY <1>10
<1> DEFINE T == {k \in Nat : k <= m /\ f[k] \in WrapState(a)}
<1>13. 0 .. m \subseteq T
  <2>1. 0 \in T
    BY <1>5, <1>12
  <2>2. ASSUME NEW k \in Nat, k < m, k \in T PROVE k + 1 \in T
    <3>1. PICK i \in 1 .. m : i = k + 1
      BY <2>2
    <3>2. i - 1 = k /\ f[i - 1] \in WrapState(a)
      BY <2>2, <3>1
    <3>3. f[i] \in WrapState(a)
      BY <1>2, <1>12, <3>2
    <3> QED
      BY <3>1, <3>3
  <2> HIDE DEF T
  <2> QED
    BY <2>1, <2>2, Reaches
<1>14. \A i \in 0 .. m : f[i] \in WrapState(a)
  BY <1>13
<1>15. f \in [0 .. m -> WrapState(a)]
  BY <1>10, <1>14
<1> QED
  BY <1>1, <1>11, <1>12, <1>15 DEF WrapTo

LEMMA WrapRunsFit ==
  ASSUME NEW chars \in Txt, NEW first \in Int, width \in Nat,
         NEW a, a = IF width - first > 1 THEN width - first ELSE 1
  PROVE  WrapRuns(chars, first) \in Seq(LineFor(a))
<1>1. a \in Nat /\ a >= 1
  OBVIOUS
<1>2. PICK st : st = Wrapping(chars, a)
  OBVIOUS
<1>3. st \in WrapState(a)
  <2>1. PICK f : WrapTo(chars, a, f) /\ Wrapping(chars, a) = f[Len(chars)]
    BY <1>1, WrapFolds
  <2>2. Len(chars) \in 0 .. Len(chars)
    BY DEF Txt
  <2> QED
    BY <1>2, <2>1, <2>2 DEF WrapTo
<1>4. st.lines \in Seq(LineFor(a)) /\ st.line \in LineFor(a)
  BY <1>3 DEF WrapState
<1>5. Append(st.lines, st.line) \in Seq(LineFor(a))
  BY <1>4, AppendIs
<1>6. WrapRuns(chars, first) = IF st.line # <<>> \/ st.lines = <<>> THEN Append(st.lines, st.line) ELSE st.lines
  <2>1. WrapRuns(chars, first) =
          LET t == Wrapping(chars, IF width - first > 1 THEN width - first ELSE 1)
          IN IF t.line # <<>> \/ t.lines = <<>> THEN Append(t.lines, t.line) ELSE t.lines
    BY DEF WrapRuns, Wrapping, Over
  <2> QED
    BY <1>2, <2>1
<1> QED
  BY <1>4, <1>5, <1>6

-----------------------------------------------------------------------------
\* Code

\* A segment of a line of code for a columns: it fits, or is one character.
Segment(i, a) == {s \in Txt : DispWidth(s) <= (IF i = 1 THEN a ELSE a - 2) \/ Len(s) <= 1}

Segments(a) == {ss \in Seq(Txt) : \A i \in 1 .. Len(ss) : ss[i] \in Segment(i, a)}

CodeState(a) ==
  {st \in [segs : Segments(a), cur : Txt, w : Nat] :
     st.w = DispWidth(st.cur) /\ st.cur \in Segment(Len(st.segs) + 1, a)}

CodeStep(st, c, a) ==
  LET room == IF st.segs = <<>> THEN a ELSE a - 2
  IN IF st.w + CharW(c) > (IF room > 1 THEN room ELSE 1) /\ st.cur # <<>>
     THEN [segs |-> Append(st.segs, st.cur), cur |-> <<c>>, w |-> CharW(c)]
     ELSE [st EXCEPT !.cur = Append(@, c), !.w = @ + CharW(c)]

\* A segment more.
LEMMA SegmentsGrow ==
  ASSUME NEW a \in Int, NEW ss \in Segments(a), NEW s \in Segment(Len(ss) + 1, a)
  PROVE  Append(ss, s) \in Segments(a)
<1>1. ss \in Seq(Txt) /\ s \in Txt
  BY DEF Segments, Segment
<1>2. PICK t : t = Append(ss, s)
  OBVIOUS
<1>3. t \in Seq(Txt) /\ Longer(ss, s, t)
  BY <1>1, <1>2, AppendIs
<1>4. PICK n \in Nat : n = Len(ss)
  BY <1>1
<1>5. Len(t) = n + 1 /\ t[n + 1] = s /\ \A j \in 1 .. n : t[j] = ss[j]
  BY <1>3, <1>4 DEF Longer
<1>6. \A j \in 1 .. n : ss[j] \in Segment(j, a)
  BY <1>4 DEF Segments
<1>7. ASSUME NEW i \in 1 .. n + 1 PROVE t[i] \in Segment(i, a)
  <2>1. CASE i = n + 1
    BY <1>4, <1>5, <2>1
  <2>2. CASE i # n + 1
    <3>1. i \in 1 .. n
      BY <2>2
    <3> QED
      BY <1>5, <1>6, <3>1
  <2> QED
    BY <2>1, <2>2
<1> QED
  BY <1>2, <1>3, <1>5, <1>7 DEF Segments

IsOne(s, c) == s \in Txt /\ Len(s) = 1 /\ DispWidth(s) = CharW(c)

LEMMA OneChar == ASSUME NEW c \in Character PROVE IsOne(<<c>>, c)
<1>1. <<c>> = Append(<<>>, c)
  OBVIOUS
<1>2. PICK s : s = <<c>>
  OBVIOUS
<1>3. s \in Txt /\ Longer(<<>>, c, s) /\ DispWidth(s) = DispWidth(<<>>) + CharW(c)
  BY <1>1, <1>2, DispEmpty, AppendTxt, DispAppend
<1>4. Len(s) = 1
  BY <1>3, DispEmpty DEF Longer
<1>5. \A x : CharW(x) \in Nat
  BY CharWidths
<1>6. PICK k \in Nat : k = CharW(c)
  BY <1>5
<1>7. DispWidth(s) = 0 + k
  BY <1>3, <1>6, DispEmpty, Zenon
<1>8. DispWidth(s) = k
  BY <1>7
<1> QED
  BY <1>2, <1>3, <1>4, <1>6, <1>8 DEF IsOne

LEMMA CodeStepStays ==
  ASSUME NEW a \in Int, NEW st \in CodeState(a), NEW c \in Character
  PROVE  CodeStep(st, c, a) \in CodeState(a)
<1>1. /\ st \in [segs : Segments(a), cur : Txt, w : Nat]
      /\ st.w = DispWidth(st.cur) /\ st.cur \in Segment(Len(st.segs) + 1, a)
  BY DEF CodeState
<1>2. st.segs \in Segments(a) /\ st.segs \in Seq(Txt) /\ st.cur \in Txt
  BY <1>1 DEF Segments
<1>3. PICK n \in Nat : n = Len(st.segs)
  BY <1>2
<1>4. n = 0 <=> st.segs = <<>>
  BY <1>2, <1>3
<1>5. PICK w \in Nat : w = st.w
  BY <1>1
<1>6. PICK k \in Nat : k = CharW(c)
  BY CharWidths
<1>7. PICK room \in Int : room = IF st.segs = <<>> THEN a ELSE a - 2
  OBVIOUS
<1>8. room = IF n + 1 = 1 THEN a ELSE a - 2
  BY <1>4, <1>7
<1>9. \A s \in Txt : DispWidth(s) <= room \/ Len(s) <= 1 => s \in Segment(n + 1, a)
  BY <1>8 DEF Segment
<1>10. CASE w + k > (IF room > 1 THEN room ELSE 1) /\ st.cur # <<>>
  <2>1. PICK b : b = CodeStep(st, c, a)
    OBVIOUS
  <2>2. b = [segs |-> Append(st.segs, st.cur), cur |-> <<c>>, w |-> k]
    BY <1>5, <1>6, <1>7, <1>10, <2>1 DEF CodeStep
  <2>3. Append(st.segs, st.cur) \in Segments(a)
    BY <1>1, <1>2, SegmentsGrow
  <2>4. b \in [segs : Segments(a), cur : Txt, w : Nat] /\ b.segs = Append(st.segs, st.cur) /\ b.cur = <<c>> /\ b.w = k
    <3>1. <<c>> \in Txt
      BY OneChar DEF IsOne
    <3> QED
      BY <2>2, <2>3, <3>1
  <2>5. b.w = DispWidth(b.cur) /\ b.cur \in Segment(Len(b.segs) + 1, a)
    <3>1. \A i : <<c>> \in Segment(i, a)
      <4>1. PICK s : s = <<c>>
        OBVIOUS
      <4>2. IsOne(s, c)
        BY <4>1, OneChar
      <4> QED
        BY <4>1, <4>2 DEF Segment, IsOne
    <3> QED
      BY <1>6, <2>4, <3>1, OneChar DEF IsOne
  <2> QED
    BY <2>1, <2>4, <2>5 DEF CodeState
<1>11. CASE ~(w + k > (IF room > 1 THEN room ELSE 1) /\ st.cur # <<>>)
  <2>1. PICK b : b = CodeStep(st, c, a)
    OBVIOUS
  <2>2. PICK l : l = Append(st.cur, c)
    OBVIOUS
  <2>3. b = [segs |-> st.segs, cur |-> l, w |-> w + k]
    BY <1>1, <1>5, <1>6, <1>7, <1>11, <2>1, <2>2 DEF CodeStep
  <2>4. l \in Txt /\ DispWidth(l) = w + k /\ Longer(st.cur, c, l)
    BY <1>1, <1>2, <1>5, <1>6, <2>2, AppendTxt, DispAppend
  <2>5. PICK x \in Nat : x = Len(l)
    BY <2>4 DEF Txt
  <2>6. x <= w + k
    BY <2>4, <2>5, DispCounts
  <2>7. w + k <= room \/ x <= 1
    <3>1. CASE st.cur = <<>>
      <4>1. Len(l) = Len(<<>>) + 1
        BY <2>4, <3>1 DEF Longer
      <4> QED
        BY <2>5, <4>1
    <3>2. CASE ~(w + k > (IF room > 1 THEN room ELSE 1))
      BY <2>6, <3>2
    <3> QED
      BY <1>11, <3>1, <3>2
  <2>8. l \in Segment(n + 1, a)
    BY <1>9, <2>4, <2>5, <2>7
  <2>9. b.segs = st.segs /\ b.cur = l /\ b.w = w + k /\ b \in [segs : Segments(a), cur : Txt, w : Nat]
    BY <1>2, <2>3, <2>4
  <2> QED
    BY <1>3, <2>1, <2>4, <2>8, <2>9 DEF CodeState
<1> QED
  BY <1>5, <1>6, <1>10, <1>11

NoSegs == [segs |-> <<>>, cur |-> <<>>, w |-> 0]

CodeTo(s, a, f) ==
  /\ f \in [0 .. Len(s) -> CodeState(a)] /\ f[0] = NoSegs
  /\ \A i \in 1 .. Len(s) : f[i] = CodeStep(f[i - 1], s[i], a)

Cutting(s, a) ==
  Over(LAMBDA st, c : CodeStep(st, c, a), [segs |-> <<>>, cur |-> <<>>, w |-> 0], s)

LEMMA CodeFolds ==
  ASSUME NEW a \in Int, NEW s \in Txt
  PROVE  \E f : CodeTo(s, a, f) /\ Cutting(s, a) = f[Len(s)]
<1>1. PICK m \in Nat : m = Len(s)
  BY DEF Txt
<1> DEFINE G == [i \in 1 .. m |-> [x \in CodeState(a) |-> CodeStep(x, s[i], a)]]
<1>2. \A i \in 1 .. m, x \in CodeState(a) : CodeStep(x, s[i], a) \in CodeState(a)
  <2>1. \A i \in 1 .. m : s[i] \in Character
    BY <1>1 DEF Txt
  <2> QED
    BY <2>1, CodeStepStays
<1>3. G \in [1 .. m -> [CodeState(a) -> CodeState(a)]]
  BY <1>2
<1>4. \A i \in 1 .. m, x \in CodeState(a) : G[i][x] = CodeStep(x, s[i], a)
  OBVIOUS
<1> HIDE DEF G
<1>5. NoSegs \in CodeState(a)
  <2>1. <<>> \in Segments(a) /\ <<>> \in Segment(Len(<<>>) + 1, a)
    <3>1. <<>> \in Seq(Txt) /\ Len(<<>>) = 0
      OBVIOUS
    <3>2. \A i : <<>> \in Segment(i, a)
      BY DispEmpty DEF Segment
    <3> QED
      BY <3>1, <3>2 DEF Segments
  <2>2. NoSegs \in [segs : Segments(a), cur : Txt, w : Nat]
    BY <2>1, DispEmpty DEF NoSegs
  <2>3. NoSegs.w = DispWidth(NoSegs.cur) /\ NoSegs.cur = <<>> /\ NoSegs.segs = <<>>
    BY DispEmpty DEF NoSegs
  <2> QED
    BY <2>1, <2>2, <2>3 DEF CodeState
<1>6. PICK h : Folded(h, CodeState(a), m, NoSegs, G)
  BY <1>3, <1>5, FoldStays
<1> DEFINE g == [i \in 0 .. m |-> h[i]]
<1>7. ASSUME NEW i \in 0 .. m PROVE h[i] = IF i = 0 THEN NoSegs ELSE CodeStep(g[i - 1], s[i], a)
  <2>1. CASE i = 0
    BY <1>6, <2>1 DEF Folded
  <2>2. CASE i # 0
    <3>1. i \in 1 .. m /\ i - 1 \in 0 .. m
      BY <2>2
    <3>2. h[i] = G[i][h[i - 1]] /\ h[i - 1] \in CodeState(a) /\ g[i - 1] = h[i - 1]
      BY <1>6, <3>1 DEF Folded
    <3> QED
      BY <1>4, <2>2, <3>1, <3>2
  <2> QED
    BY <2>1, <2>2
<1>8. g = [i \in 0 .. m |-> IF i = 0 THEN NoSegs ELSE CodeStep(g[i - 1], s[i], a)]
  BY <1>7
<1> HIDE DEF g
<1>9. PICK f : f = CHOOSE e : e = [i \in 0 .. Len(s) |-> IF i = 0 THEN NoSegs ELSE CodeStep(e[i - 1], s[i], a)]
  OBVIOUS
<1>10. f = [i \in 0 .. m |-> IF i = 0 THEN NoSegs ELSE CodeStep(f[i - 1], s[i], a)]
  BY <1>1, <1>8, <1>9
<1>11. Cutting(s, a) = f[Len(s)]
  BY <1>9 DEF Cutting, Over, NoSegs
<1>12. f[0] = NoSegs /\ \A i \in 1 .. m : f[i] = CodeStep(f[i - 1], s[i], a)
  BY <1>10
<1> DEFINE T == {k \in Nat : k <= m /\ f[k] \in CodeState(a)}
<1>13. 0 .. m \subseteq T
  <2>1. 0 \in T
    BY <1>5, <1>12
  <2>2. ASSUME NEW k \in Nat, k < m, k \in T PROVE k + 1 \in T
    <3>1. PICK i \in 1 .. m : i = k + 1
      BY <2>2
    <3>2. i - 1 = k /\ f[i - 1] \in CodeState(a)
      BY <2>2, <3>1
    <3>3. f[i] \in CodeState(a)
      BY <1>2, <1>12, <3>2
    <3> QED
      BY <3>1, <3>3
  <2> HIDE DEF T
  <2> QED
    BY <2>1, <2>2, Reaches
<1>14. \A i \in 0 .. m : f[i] \in CodeState(a)
  BY <1>13
<1>15. f \in [0 .. m -> CodeState(a)]
  BY <1>10, <1>14
<1> QED
  BY <1>1, <1>11, <1>12, <1>15 DEF CodeTo

LEMMA WrapCodeFits ==
  ASSUME NEW chars \in Txt, NEW a \in Int
  PROVE  WrapCode(chars, a) \in Segments(a)
<1>1. PICK st : st = Cutting(chars, a)
  OBVIOUS
<1>2. st \in CodeState(a)
  <2>1. PICK f : CodeTo(chars, a, f) /\ Cutting(chars, a) = f[Len(chars)]
    BY CodeFolds
  <2>2. Len(chars) \in 0 .. Len(chars)
    BY DEF Txt
  <2> QED
    BY <1>1, <2>1, <2>2 DEF CodeTo
<1>3. Append(st.segs, st.cur) \in Segments(a)
  BY <1>2, SegmentsGrow DEF CodeState
<1>4. WrapCode(chars, a) = LET t == Cutting(chars, a) IN Append(t.segs, t.cur)
  BY DEF WrapCode, Cutting, CodeStep, Over
<1> QED
  BY <1>1, <1>3, <1>4

-----------------------------------------------------------------------------
\* Lines and pages

LineKinds == {"text", "code", "rule", "table", "lang", "empty"}
LineSet == [kind : LineKinds, pre : Int, mark : BOOLEAN, body : Txt]

\* A line fits w columns, beside a table of n columns.
FitsIn(l, w, n) ==
  /\ l.kind \in {"text", "code"} =>
       LineWidth(l) <= w + (IF Range(l.body) \cap Wide # {} THEN 1 ELSE 0) \/ Len(l.body) <= 1
  /\ l.kind \in {"rule", "table"} => LineWidth(l) <= w \/ w < 4 * n + 1
  /\ l.kind = "table" => l.pre >= 0

Fitting(w, n) == {l \in LineSet : FitsIn(l, w, n)}

Made(l, kind, pre, body) ==
  l \in LineSet /\ l.kind = kind /\ l.body = body /\ LineWidth(l) = pre + DispWidth(body)

LEMMA MakeLine ==
  ASSUME NEW kind \in LineKinds, NEW pre \in Int, NEW mark \in BOOLEAN, NEW body \in Txt
  PROVE  Made(Line(kind, pre, mark, body), kind, pre, body)
<1>1. PICK l : l = Line(kind, pre, mark, body)
  OBVIOUS
<1>2. l = [kind |-> kind, pre |-> pre, mark |-> mark, body |-> body]
  BY <1>1 DEF Line
<1>3. l.kind = kind /\ l.pre = pre /\ l.body = body
  BY <1>2
<1>4. LineWidth(l) = pre + DispWidth(body)
  BY <1>3 DEF LineWidth
<1>5. l \in LineSet
  BY <1>2 DEF LineSet
<1> QED
  BY <1>1, <1>3, <1>4, <1>5 DEF Made

\* Lines fit beside a wider table too.
LEMMA FitsMore ==
  ASSUME NEW w \in Nat, NEW m \in Nat, NEW n \in Nat, m <= n
  PROVE  Fitting(w, m) \subseteq Fitting(w, n)
<1>1. ASSUME NEW l \in Fitting(w, m) PROVE l \in Fitting(w, n)
  <2>1. l \in LineSet /\ FitsIn(l, w, m)
    BY DEF Fitting
  <2>2. w < 4 * m + 1 => w < 4 * n + 1
    OBVIOUS
  <2>3. FitsIn(l, w, n)
    BY <2>1, <2>2 DEF FitsIn
  <2> QED
    BY <2>1, <2>3 DEF Fitting
<1> QED
  BY <1>1

LEMMA TextLineFits ==
  ASSUME NEW w \in Nat, NEW n \in Nat, NEW first \in Int, NEW mark \in BOOLEAN,
         NEW a \in Nat, a = IF w - first > 1 THEN w - first ELSE 1, NEW s \in LineFor(a)
  PROVE  Line("text", first, mark, s) \in Fitting(w, n)
<1>1. PICK l : l = Line("text", first, mark, s)
  OBVIOUS
<1>2. s \in Txt
  BY DEF LineFor
<1>3. l \in LineSet /\ l.kind = "text" /\ l.body = s /\ LineWidth(l) = first + DispWidth(s)
  <2>1. "text" \in LineKinds
    BY DEF LineKinds
  <2>2. Made(l, "text", first, s)
    BY <1>1, <1>2, <2>1, MakeLine
  <2> QED
    BY <2>2 DEF Made
<1>4. PICK d \in Nat : d = DispWidth(s)
  BY <1>2, DispType
<1>5. PICK k \in Nat : k = Len(s)
  BY <1>2 DEF Txt
<1>6. PICK x \in Nat : x = IF Range(s) \cap Wide # {} THEN 1 ELSE 0
  OBVIOUS
<1>7. d <= a + x
  <2>1. CASE DispWidth(s) <= a
    BY <1>4, <2>1
  <2>2. CASE DispWidth(s) <= a + 1 /\ Range(s) \cap Wide # {}
    BY <1>4, <1>6, <2>2
  <2> QED
    BY <2>1, <2>2 DEF LineFor
<1>8. k + x <= d
  <2>1. CASE Range(s) \cap Wide # {}
    BY <1>2, <1>4, <1>5, <1>6, <2>1, DispCounts
  <2>2. CASE Range(s) \cap Wide = {}
    BY <1>2, <1>4, <1>5, <1>6, <2>2, DispCounts
  <2> QED
    BY <2>1, <2>2
<1>9. first + d <= w + x \/ k <= 1
  BY <1>7, <1>8
<1>10. FitsIn(l, w, n)
  BY <1>3, <1>4, <1>5, <1>6, <1>9 DEF FitsIn
<1> QED
  BY <1>1, <1>3, <1>10 DEF Fitting

LEMMA CodeLineFits ==
  ASSUME NEW w \in Nat, NEW n \in Nat, NEW qw \in Int, NEW i \in Nat, NEW s \in Segment(i, w - (2 + qw))
  PROVE  Line("code", qw + (IF i = 1 THEN 2 ELSE 4), FALSE, s) \in Fitting(w, n)
<1>1. PICK pre \in Int : pre = qw + (IF i = 1 THEN 2 ELSE 4)
  OBVIOUS
<1>2. PICK l : l = Line("code", pre, FALSE, s)
  OBVIOUS
<1>3. s \in Txt
  BY DEF Segment
<1>4. l \in LineSet /\ l.kind = "code" /\ l.body = s /\ LineWidth(l) = pre + DispWidth(s)
  <2>1. "code" \in LineKinds /\ FALSE \in BOOLEAN
    BY DEF LineKinds
  <2>2. Made(l, "code", pre, s)
    BY <1>2, <1>3, <2>1, MakeLine
  <2> QED
    BY <2>2 DEF Made
<1>5. PICK d \in Nat : d = DispWidth(s)
  BY <1>3, DispType
<1>6. PICK k \in Nat : k = Len(s)
  BY <1>3 DEF Txt
<1>7. PICK a \in Int : a = w - (2 + qw)
  OBVIOUS
<1>8. d <= (IF i = 1 THEN a ELSE a - 2) \/ k <= 1
  BY <1>5, <1>6, <1>7 DEF Segment
<1>9. pre + d <= w \/ k <= 1
  BY <1>1, <1>7, <1>8
<1>10. PICK x \in Nat : x = IF Range(s) \cap Wide # {} THEN 1 ELSE 0
  OBVIOUS
<1>11. pre + d <= w + x \/ k <= 1
  BY <1>9
<1>12. FitsIn(l, w, n)
  BY <1>4, <1>5, <1>6, <1>10, <1>11 DEF FitsIn
<1> QED
  BY <1>1, <1>2, <1>4, <1>12 DEF Fitting

LEMMA OtherLinesFit ==
  ASSUME NEW w \in Nat, NEW n \in Nat
  PROVE  /\ BlankLine \in Fitting(w, n)
         /\ \A pre \in Int : pre <= w => Line("rule", pre, FALSE, <<>>) \in Fitting(w, n)
         /\ \A pre \in Int : Line("lang", pre, FALSE, <<>>) \in Fitting(w, n)
         /\ \A pre \in Int : Line("empty", pre, FALSE, <<>>) \in Fitting(w, n)
<1>1. ASSUME NEW kind \in LineKinds, NEW pre \in Int PROVE Made(Line(kind, pre, FALSE, <<>>), kind, pre, <<>>)
  <2>1. FALSE \in BOOLEAN /\ <<>> \in Txt
    BY DispEmpty
  <2> QED
    BY <2>1, MakeLine, Zenon
<1>2. {"text", "rule", "lang", "empty"} \subseteq LineKinds /\ 0 \in Int
  BY DEF LineKinds
<1>3. BlankLine \in Fitting(w, n)
  <2>1. Made(BlankLine, "text", 0, <<>>)
    BY <1>1, <1>2 DEF BlankLine
  <2>2. PICK l : l = BlankLine
    OBVIOUS
  <2>3. l \in LineSet /\ l.kind = "text" /\ Len(l.body) = 0
    BY <2>1, <2>2, DispEmpty DEF Made
  <2>4. FitsIn(l, w, n)
    BY <2>3 DEF FitsIn
  <2> QED
    BY <2>2, <2>3, <2>4 DEF Fitting
<1>4. ASSUME NEW pre \in Int, pre <= w PROVE Line("rule", pre, FALSE, <<>>) \in Fitting(w, n)
  <2>1. Made(Line("rule", pre, FALSE, <<>>), "rule", pre, <<>>)
    BY <1>1, <1>2
  <2>2. PICK l : l = Line("rule", pre, FALSE, <<>>)
    OBVIOUS
  <2>3. l \in LineSet /\ l.kind = "rule" /\ LineWidth(l) = pre + 0
    BY <2>1, <2>2, DispEmpty, Zenon DEF Made
  <2>4. LineWidth(l) <= w
    BY <1>4, <2>3
  <2>5. FitsIn(l, w, n)
    BY <2>3, <2>4 DEF FitsIn
  <2> QED
    BY <2>2, <2>3, <2>5 DEF Fitting
<1>5. ASSUME NEW kind \in LineKinds, kind = "lang" \/ kind = "empty", NEW pre \in Int
      PROVE  Line(kind, pre, FALSE, <<>>) \in Fitting(w, n)
  <2>1. Made(Line(kind, pre, FALSE, <<>>), kind, pre, <<>>)
    BY <1>1
  <2>2. PICK l : l = Line(kind, pre, FALSE, <<>>)
    OBVIOUS
  <2>3. l \in LineSet /\ l.kind = kind
    BY <2>1, <2>2 DEF Made
  <2>4. FitsIn(l, w, n)
    BY <1>5, <2>3 DEF FitsIn
  <2> QED
    BY <2>2, <2>3, <2>4 DEF Fitting
<1> QED
  BY <1>2, <1>3, <1>4, <1>5

\* The state of the renderer, its lines from L.
Pages(L) ==
  [out : Seq(L), runs : Txt, quote : Int, lists : Seq(Int), marker : Int,
   inCode : BOOLEAN, lang : Int, code : Seq(Txt), inTable : BOOLEAN,
   head : Seq(Txt), rows : Seq(Seq(Txt)), inHead : BOOLEAN,
   cell : Txt, row : Seq(Txt), link : BOOLEAN]

\* Something is written; the table in hand stays.
Writes(m, k, L) == k \in Pages(L) /\ k.head = m.head /\ k.rows = m.rows

LEMMA WritesOn ==
  ASSUME NEW L, NEW a, NEW b, NEW c, Writes(a, b, L), Writes(b, c, L)
  PROVE  Writes(a, c, L)
  BY DEF Writes

LEMMA AppendWrites ==
  ASSUME NEW L, NEW m \in Pages(L), NEW ls \in Seq(L)
  PROVE  Writes(m, [m EXCEPT !.out = @ \o ls], L)
<1>1. m.out \o ls \in Seq(L)
  BY ConcatProperties DEF Pages
<1> QED
  BY <1>1 DEF Writes, Pages

LEMMA LineWrites ==
  ASSUME NEW L, NEW m \in Pages(L), NEW l \in L
  PROVE  Writes(m, [m EXCEPT !.out = Append(@, l)], L)
<1>1. Append(m.out, l) \in Seq(L)
  BY AppendIs DEF Pages
<1> QED
  BY <1>1 DEF Writes, Pages

LEMMA FieldWrites ==
  ASSUME NEW L, NEW m \in Pages(L)
  PROVE  /\ \A v \in Txt : Writes(m, [m EXCEPT !.runs = v], L)
         /\ \A v \in Int : Writes(m, [m EXCEPT !.marker = v], L)
         /\ \A v \in Seq(Txt) : Writes(m, [m EXCEPT !.code = v], L)
  BY DEF Writes, Pages

LEMMA BlankWrites ==
  ASSUME NEW L, NEW m \in Pages(L), BlankLine \in L
  PROVE  Writes(m, BlankAfter(m), L)
<1>1. Writes(m, m, L)
  BY DEF Writes
<1>2. Writes(m, [m EXCEPT !.out = Append(@, BlankLine)], L)
  BY LineWrites
<1> QED
  BY <1>1, <1>2 DEF BlankAfter

LEMMA WrappedWrites ==
  ASSUME NEW n \in Nat, width \in Nat, NEW L, L = Fitting(width, n), NEW m \in Pages(L),
         NEW first \in Int, NEW mark \in BOOLEAN
  PROVE  Writes(m, PushWrapped(m, first, mark), L)
<1>1. PICK a \in Nat : a = IF width - first > 1 THEN width - first ELSE 1
  OBVIOUS
<1>2. PICK ls : ls = WrapRuns(m.runs, first)
  OBVIOUS
<1>3. ls \in Seq(LineFor(a))
  <2>1. m.runs \in Txt
    BY DEF Pages
  <2> QED
    BY <1>1, <1>2, <2>1, WrapRunsFit
<1> DEFINE new == [i \in DOMAIN ls |-> Line("text", first, mark /\ i = 1, ls[i])]
<1>4. new \in Seq(L)
  <2>1. PICK k \in Nat : k = Len(ls)
    BY <1>3
  <2>2. DOMAIN ls = 1 .. k
    BY <1>3, <2>1
  <2>3. ASSUME NEW i \in 1 .. k PROVE Line("text", first, mark /\ i = 1, ls[i]) \in L
    <3>1. ls[i] \in LineFor(a)
      BY <1>3, <2>1
    <3>2. (mark /\ i = 1) \in BOOLEAN
      OBVIOUS
    <3> QED
      BY <1>1, <3>1, <3>2, TextLineFits
  <2>4. new = [i \in 1 .. k |-> Line("text", first, mark /\ i = 1, ls[i])]
    BY <2>2
  <2> QED
    BY <2>3, <2>4
<1> HIDE DEF new
<1>5. PICK b : b = [m EXCEPT !.out = @ \o new]
  OBVIOUS
<1>6. Writes(m, b, L)
  BY <1>4, <1>5, AppendWrites
<1>7. PushWrapped(m, first, mark) = [b EXCEPT !.runs = <<>>]
  BY <1>2, <1>5 DEF PushWrapped, new, Pages
<1>8. Writes(b, [b EXCEPT !.runs = <<>>], L)
  BY <1>6, DispEmpty DEF Writes, Pages
<1> QED
  BY <1>6, <1>7, <1>8, WritesOn

LEMMA HeadingWrites ==
  ASSUME NEW n \in Nat, width \in Nat, NEW L, L = Fitting(width, n), NEW m \in Pages(L)
  PROVE  Writes(m, EmitHeading(m), L)
<1>1. BlankLine \in L
  BY OtherLinesFit
<1>2. PICK b : b = BlankAfter(m)
  OBVIOUS
<1>3. Writes(m, b, L) /\ b \in Pages(L)
  BY <1>1, <1>2, BlankWrites DEF Writes
<1>4. PICK c : c = PushWrapped(b, 2, FALSE)
  OBVIOUS
<1>5. Writes(b, c, L) /\ c \in Pages(L)
  <2>1. 2 \in Int /\ FALSE \in BOOLEAN
    OBVIOUS
  <2>2. Writes(b, c, L)
    BY <1>3, <1>4, <2>1, WrappedWrites, Zenon
  <2> QED
    BY <2>2 DEF Writes
<1>6. Writes(c, BlankAfter(c), L)
  BY <1>1, <1>5, BlankWrites
<1>7. Writes(m, c, L)
  BY <1>3, <1>5, WritesOn
<1>8. EmitHeading(m) = BlankAfter(c)
  BY <1>2, <1>4 DEF EmitHeading
<1> QED
  BY <1>6, <1>7, <1>8, WritesOn

LEMMA ParaWrites ==
  ASSUME NEW n \in Nat, width \in Nat, NEW L, L = Fitting(width, n), NEW m \in Pages(L)
  PROVE  Writes(m, EmitPara(m), L)
<1>1. Writes(m, m, L)
  BY DEF Writes
<1>2. PICK b : b = PushWrapped(m, 2 * m.quote + m.marker, m.marker > 0)
  OBVIOUS
<1>3. Writes(m, b, L)
  <2>1. PICK q \in Int, k \in Int : q = m.quote /\ k = m.marker
    BY DEF Pages
  <2>2. PICK first \in Int : first = 2 * q + k
    OBVIOUS
  <2>3. (m.marker > 0) \in BOOLEAN
    OBVIOUS
  <2>4. b = PushWrapped(m, first, m.marker > 0)
    BY <1>2, <2>1, <2>2
  <2> QED
    BY <2>3, <2>4, WrappedWrites, Zenon
<1>4. Writes(b, [b EXCEPT !.marker = 0], L)
  <2>1. 0 \in Int /\ b \in Pages(L)
    BY <1>3 DEF Writes
  <2> QED
    BY <2>1, FieldWrites, Zenon
<1>5. EmitPara(m) \in {m, [b EXCEPT !.marker = 0]}
  BY <1>2 DEF EmitPara
<1> QED
  BY <1>1, <1>3, <1>4, <1>5, WritesOn

\* Sequences put end to end.
FlattenTo(ss, S, f) ==
  /\ f \in [1 .. Len(ss) -> Seq(S)]
  /\ \A i \in 1 .. Len(ss) : f[i] = IF i = 1 THEN ss[i] ELSE f[i - 1] \o ss[i]

LEMMA FlattenIs ==
  ASSUME NEW S, NEW ss \in Seq(Seq(S)), ss # <<>>
  PROVE  \E f : FlattenTo(ss, S, f) /\ FlattenSeq(ss) = f[Len(ss)]
<1>1. PICK m \in Nat : m = Len(ss)
  OBVIOUS
<1>2. m # 0 /\ \A i \in 1 .. m : ss[i] \in Seq(S)
  BY <1>1
<1> DEFINE Step(x, i) == IF i = 1 THEN ss[i] ELSE x \o ss[i]
           G == [i \in 1 .. m |-> [x \in Seq(S) |-> Step(x, i)]]
<1>3. ASSUME NEW i \in 1 .. m, NEW x \in Seq(S) PROVE Step(x, i) \in Seq(S)
  BY <1>2, ConcatProperties
<1>4. G \in [1 .. m -> [Seq(S) -> Seq(S)]]
  <2> HIDE DEF Step
  <2> QED
    BY <1>3
<1>5. \A i \in 1 .. m, x \in Seq(S) : G[i][x] = Step(x, i)
  <2> HIDE DEF Step
  <2> QED
    OBVIOUS
<1> HIDE DEF G
<1>6. PICK h : Folded(h, Seq(S), m, <<>>, G)
  <2>1. <<>> \in Seq(S)
    OBVIOUS
  <2> QED
    BY <1>4, <2>1, FoldStays
<1> DEFINE g == [i \in 1 .. m |-> h[i]]
<1>7. ASSUME NEW i \in 1 .. m PROVE h[i] = IF i = 1 THEN ss[i] ELSE g[i - 1] \o ss[i]
  <2>1. h[i] = G[i][h[i - 1]] /\ h[i - 1] \in Seq(S)
    <3>1. i - 1 \in 0 .. m
      OBVIOUS
    <3> QED
      BY <1>6, <3>1 DEF Folded
  <2>2. h[i] = Step(h[i - 1], i)
    <3> HIDE DEF Step
    <3> QED
      BY <1>5, <2>1
  <2>3. i # 1 => g[i - 1] = h[i - 1]
    OBVIOUS
  <2> QED
    BY <2>2, <2>3
<1>8. g = [i \in 1 .. m |-> IF i = 1 THEN ss[i] ELSE g[i - 1] \o ss[i]]
  BY <1>7
<1> HIDE DEF g
<1>9. PICK f : f = CHOOSE e : e = [i \in 1 .. Len(ss) |-> IF i = 1 THEN ss[i] ELSE e[i - 1] \o ss[i]]
  OBVIOUS
<1>10. f = [i \in 1 .. m |-> IF i = 1 THEN ss[i] ELSE f[i - 1] \o ss[i]]
  BY <1>1, <1>8, <1>9
<1>11. FlattenSeq(ss) = f[m]
  BY <1>1, <1>2, <1>9 DEF FlattenSeq
<1>12. \A i \in 1 .. m : f[i] = Step(f[i - 1], i)
  BY <1>10
<1> DEFINE T == {k \in Nat : k # 0 /\ k <= m => f[k] \in Seq(S)}
<1>13. ASSUME NEW k \in Nat, k \in T PROVE k + 1 \in T
  <2>1. CASE k + 1 <= m
    <3>1. PICK i \in 1 .. m : i = k + 1
      BY <2>1
    <3>2. CASE i = 1
      BY <1>2, <1>12, <3>1, <3>2
    <3>3. CASE i # 1
      <4>1. i - 1 = k /\ f[i - 1] \in Seq(S)
        BY <1>13, <2>1, <3>1, <3>3
      <4>2. f[i] \in Seq(S)
        <5> HIDE DEF Step
        <5> QED
          BY <1>3, <1>12, <4>1
      <4> QED
        BY <3>1, <4>2
    <3> QED
      BY <3>2, <3>3
  <2>2. CASE ~(k + 1 <= m)
    BY <2>2
  <2> QED
    BY <2>1, <2>2
<1>14. \A i \in 1 .. m : f[i] \in Seq(S)
  <2>1. 0 \in T
    OBVIOUS
  <2>2. Nat \subseteq T
    <3> HIDE DEF T
    <3> QED
      BY <1>13, <2>1, ReachesAll
  <2> QED
    BY <2>2
<1>15. f \in [1 .. m -> Seq(S)]
  BY <1>10, <1>14
<1> QED
  BY <1>1, <1>11, <1>12, <1>15 DEF FlattenTo

LEMMA FlattenEmpty == ASSUME NEW S, NEW ss \in Seq(S), Len(ss) = 0 PROVE FlattenSeq(ss) = <<>>
<1>1. ss = <<>>
  OBVIOUS
<1> QED
  BY <1>1 DEF FlattenSeq

LEMMA FlattenStays ==
  ASSUME NEW S, NEW ss \in Seq(Seq(S))
  PROVE  FlattenSeq(ss) \in Seq(S)
<1>1. PICK m \in Nat : m = Len(ss)
  OBVIOUS
<1>2. CASE m = 0
  <2>1. PICK R : R = Seq(S)
    OBVIOUS
  <2>2. ss \in Seq(R) /\ Len(ss) = 0
    BY <1>1, <1>2, <2>1
  <2>3. FlattenSeq(ss) = <<>>
    BY <2>2, FlattenEmpty
  <2>4. <<>> \in Seq(S)
    OBVIOUS
  <2> QED
    BY <2>3, <2>4
<1>3. CASE m # 0
  <2>1. ss # <<>>
    BY <1>1, <1>3
  <2>2. PICK f : FlattenTo(ss, S, f) /\ FlattenSeq(ss) = f[Len(ss)]
    BY <2>1, FlattenIs
  <2>3. m \in 1 .. m
    BY <1>3
  <2> QED
    BY <1>1, <2>2, <2>3 DEF FlattenTo
<1> QED
  BY <1>2, <1>3

LEMMA CodeWrites ==
  ASSUME NEW n \in Nat, width \in Nat, NEW L, L = Fitting(width, n), NEW m \in Pages(L)
  PROVE  Writes(m, EmitCode(m), L)
<1>1. BlankLine \in L
  BY OtherLinesFit
<1>2. PICK qw \in Int : qw = 2 * m.quote
  BY DEF Pages
<1> DEFINE CodeLine(chars) ==
             LET segs == WrapCode(chars, width - (2 + qw))
             IN [i \in DOMAIN segs |-> Line("code", qw + (IF i = 1 THEN 2 ELSE 4), FALSE, segs[i])]
           body == IF m.code = <<>> THEN <<CodeLine(<<>>)>>
                   ELSE [i \in DOMAIN m.code |-> CodeLine(m.code[i])]
           lang == IF m.lang > 0 THEN <<Line("lang", qw + 2 + m.lang, FALSE, <<>>)>> ELSE <<>>
<1>3. ASSUME NEW chars \in Txt PROVE CodeLine(chars) \in Seq(L)
  <2>1. PICK a \in Int : a = width - (2 + qw)
    OBVIOUS
  <2>2. PICK segs : segs = WrapCode(chars, a)
    OBVIOUS
  <2>3. segs \in Segments(a)
    BY <2>2, WrapCodeFits
  <2>4. PICK k \in Nat : k = Len(segs) /\ DOMAIN segs = 1 .. k
    BY <2>3 DEF Segments
  <2>5. ASSUME NEW i \in 1 .. k PROVE Line("code", qw + (IF i = 1 THEN 2 ELSE 4), FALSE, segs[i]) \in L
    <3>1. segs[i] \in Segment(i, a)
      BY <2>3, <2>4 DEF Segments
    <3>2. i \in Nat
      OBVIOUS
    <3> QED
      BY <2>1, <3>1, <3>2, CodeLineFits
  <2>6. [i \in 1 .. k |-> Line("code", qw + (IF i = 1 THEN 2 ELSE 4), FALSE, segs[i])] \in [1 .. k -> L]
    BY <2>5, Zenon
  <2>7. \A t \in [1 .. k -> L] : t \in Seq(L)
    OBVIOUS
  <2> QED
    BY <2>1, <2>2, <2>4, <2>6, <2>7
<1> HIDE DEF CodeLine
<1>4. body \in Seq(Seq(L))
  <2>1. m.code \in Seq(Txt)
    BY DEF Pages
  <2>2. CASE m.code = <<>>
    BY <1>3, <2>2, DispEmpty
  <2>3. CASE m.code # <<>>
    <3>1. PICK k \in Nat : k = Len(m.code) /\ DOMAIN m.code = 1 .. k
      BY <2>1
    <3>2. \A i \in 1 .. k : m.code[i] \in Txt
      BY <2>1, <3>1
    <3>3. [i \in 1 .. k |-> CodeLine(m.code[i])] \in Seq(Seq(L))
      BY <1>3, <3>2
    <3> QED
      BY <2>3, <3>1, <3>3
  <2> QED
    BY <2>2, <2>3
<1>5. lang \in Seq(L)
  <2>1. PICK pre \in Int : pre = qw + 2 + m.lang
    BY DEF Pages
  <2>2. PICK l \in L : l = Line("lang", pre, FALSE, <<>>)
    BY OtherLinesFit
  <2>3. lang \in {<<l>>, <<>>}
    BY <2>1, <2>2
  <2>4. <<l>> \in Seq(L) /\ <<>> \in Seq(L)
    OBVIOUS
  <2> QED
    BY <2>3, <2>4
<1> HIDE DEF body, lang
<1>6. FlattenSeq(body) \in Seq(L)
  BY <1>4, FlattenStays
<1>7. PICK b : b = BlankAfter(m)
  OBVIOUS
<1>8. Writes(m, b, L) /\ b \in Pages(L)
  BY <1>1, <1>7, BlankWrites DEF Writes
<1>9. PICK b1 : b1 = [b EXCEPT !.out = @ \o (lang \o FlattenSeq(body))]
  OBVIOUS
<1>10. PICK c : c = [b1 EXCEPT !.code = <<>>]
  OBVIOUS
<1>11. Writes(b, c, L) /\ c \in Pages(L)
  <2>1. lang \o FlattenSeq(body) \in Seq(L)
    BY <1>5, <1>6, ConcatProperties
  <2>2. Writes(b, b1, L)
    BY <1>8, <1>9, <2>1, AppendWrites
  <2>3. <<>> \in Seq(Txt)
    OBVIOUS
  <2>4. Writes(b1, c, L)
    BY <1>10, <2>2, <2>3, FieldWrites DEF Writes
  <2> QED
    BY <2>2, <2>4 DEF Writes
<1>12. Writes(c, BlankAfter(c), L)
  BY <1>1, <1>11, BlankWrites
<1>13. EmitCode(m) = BlankAfter(c)
  <2>1. PICK d : d = [b EXCEPT !.out = @ \o lang \o FlattenSeq(body), !.code = <<>>]
    OBVIOUS
  <2>2. EmitCode(m) = BlankAfter(d)
    BY <1>2, <1>7, <2>1 DEF EmitCode, CodeLine, body, lang
  <2>3. (b.out \o lang) \o FlattenSeq(body) = b.out \o (lang \o FlattenSeq(body))
    <3>1. b.out \in Seq(L)
      BY <1>8 DEF Pages
    <3>2. PICK x \in Seq(L), y \in Seq(L), z \in Seq(L) : x = b.out /\ y = lang /\ z = FlattenSeq(body)
      BY <1>5, <1>6, <3>1
    <3>3. (x \o y) \o z = x \o (y \o z)
      BY ConcatAssociative
    <3> QED
      BY <3>2, <3>3
  <2>4. d = c
    BY <1>8, <1>9, <1>10, <2>1, <2>3 DEF Pages
  <2> QED
    BY <2>2, <2>4
<1> QED
  BY <1>8, <1>11, <1>12, <1>13, WritesOn

-----------------------------------------------------------------------------
\* Columns of a table

SumsTo(s, f) ==
  /\ f \in [0 .. Len(s) -> Nat] /\ f[0] = 0
  /\ \A i \in 1 .. Len(s) : f[i] = f[i - 1] + s[i]

LEMMA SumIs ==
  ASSUME NEW s \in Seq(Nat)
  PROVE  \E f : SumsTo(s, f) /\ SeqSum(s) = f[Len(s)]
<1>1. PICK m \in Nat : m = Len(s)
  OBVIOUS
<1> DEFINE G == [i \in 1 .. m |-> [x \in Nat |-> x + s[i]]]
<1>2. \A i \in 1 .. m, x \in Nat : x + s[i] \in Nat
  BY <1>1
<1>3. G \in [1 .. m -> [Nat -> Nat]]
  BY <1>2
<1>4. \A i \in 1 .. m, x \in Nat : G[i][x] = x + s[i]
  OBVIOUS
<1> HIDE DEF G
<1>5. 0 \in Nat
  OBVIOUS
<1>6. PICK h : Folded(h, Nat, m, 0, G)
  BY <1>3, <1>5, FoldStays
<1> DEFINE g == [i \in 0 .. m |-> h[i]]
<1>7. ASSUME NEW i \in 0 .. m PROVE h[i] = IF i = 0 THEN 0 ELSE g[i - 1] + s[i]
  <2>1. CASE i = 0
    BY <1>6, <2>1 DEF Folded
  <2>2. CASE i # 0
    <3>1. i \in 1 .. m /\ i - 1 \in 0 .. m
      BY <2>2
    <3>2. h[i] = G[i][h[i - 1]] /\ h[i - 1] \in Nat /\ g[i - 1] = h[i - 1]
      BY <1>6, <3>1 DEF Folded
    <3> QED
      BY <1>4, <2>2, <3>1, <3>2
  <2> QED
    BY <2>1, <2>2
<1>8. g = [i \in 0 .. m |-> IF i = 0 THEN 0 ELSE g[i - 1] + s[i]]
  BY <1>7
<1> HIDE DEF g
<1>9. PICK f : f = CHOOSE e : e = [i \in 0 .. Len(s) |-> IF i = 0 THEN 0 ELSE e[i - 1] + s[i]]
  OBVIOUS
<1>10. f = [i \in 0 .. m |-> IF i = 0 THEN 0 ELSE f[i - 1] + s[i]]
  BY <1>1, <1>8, <1>9
<1>11. SeqSum(s) = f[Len(s)]
  BY <1>9 DEF SeqSum, Over
<1>12. f[0] = 0 /\ \A i \in 1 .. m : f[i] = f[i - 1] + s[i]
  BY <1>10
<1> DEFINE T == {k \in Nat : k <= m /\ f[k] \in Nat}
<1>13. 0 .. m \subseteq T
  <2>1. 0 \in T
    BY <1>5, <1>12
  <2>2. ASSUME NEW k \in Nat, k < m, k \in T PROVE k + 1 \in T
    <3>1. PICK i \in 1 .. m : i = k + 1
      BY <2>2
    <3>2. i - 1 = k /\ f[i - 1] \in Nat
      BY <2>2, <3>1
    <3>3. f[i] \in Nat
      BY <1>2, <1>12, <3>2
    <3> QED
      BY <3>1, <3>3
  <2> HIDE DEF T
  <2> QED
    BY <2>1, <2>2, Reaches
<1>14. \A i \in 0 .. m : f[i] \in Nat
  BY <1>13
<1>15. f \in [0 .. m -> Nat]
  BY <1>10, <1>14
<1> QED
  BY <1>1, <1>11, <1>12, <1>15 DEF SumsTo

LEMMA SumType == ASSUME NEW s \in Seq(Nat) PROVE SeqSum(s) \in Nat
<1>1. PICK f : SumsTo(s, f) /\ SeqSum(s) = f[Len(s)]
  BY SumIs
<1>2. Len(s) \in 0 .. Len(s)
  OBVIOUS
<1> QED
  BY <1>1, <1>2 DEF SumsTo

\* A column that gives one up.
LEMMA SumLess ==
  ASSUME NEW c \in Seq(Nat), NEW i \in 1 .. Len(c), c[i] >= 1, NEW d, d = [c EXCEPT ![i] = @ - 1]
  PROVE  d \in Seq(Nat) /\ Len(d) = Len(c) /\ SeqSum(d) + 1 = SeqSum(c)
<1>1. PICK n \in Nat : n = Len(c)
  OBVIOUS
<1>2. PICK x \in Nat : x = c[i]
  OBVIOUS
<1>3. x - 1 \in Nat /\ d = [c EXCEPT ![i] = x - 1]
  BY <1>2
<1>4. d \in Seq(Nat) /\ Len(d) = n /\ d[i] = x - 1 /\ \A j \in 1 .. n : j # i => d[j] = c[j]
  BY <1>1, <1>3, ExceptSeq
<1>5. PICK f : SumsTo(c, f) /\ SeqSum(c) = f[Len(c)]
  BY SumIs
<1>6. PICK g : SumsTo(d, g) /\ SeqSum(d) = g[Len(d)]
  BY <1>4, SumIs
<1>7. /\ f[0] = 0 /\ g[0] = 0
      /\ \A j \in 0 .. n : f[j] \in Nat /\ g[j] \in Nat
      /\ \A j \in 1 .. n : f[j] = f[j - 1] + c[j] /\ g[j] = g[j - 1] + d[j]
  BY <1>1, <1>4, <1>5, <1>6 DEF SumsTo
<1>8. i \in Nat /\ i >= 1 /\ i <= n
  BY <1>1
<1> DEFINE T == {k \in Nat : k <= n /\ (k < i => g[k] = f[k]) /\ (k >= i => g[k] + 1 = f[k])}
<1>9. 0 \in T
  BY <1>7, <1>8
<1>10. ASSUME NEW k \in Nat, k < n, k \in T PROVE k + 1 \in T
  <2>1. PICK j \in 1 .. n : j = k + 1
    BY <1>10
  <2>2. PICK p \in Nat, q \in Nat, y \in Nat : p = f[k] /\ q = g[k] /\ y = c[j]
    <3>1. k \in 0 .. n /\ c[j] \in Nat
      BY <1>1, <1>10
    <3> QED
      BY <1>7, <3>1
  <2>3. j - 1 = k /\ f[j] = p + y /\ g[j] = q + d[j]
    BY <1>7, <2>1, <2>2
  <2>4. CASE j = i
    <3>1. k < i /\ y = x /\ d[j] = x - 1
      BY <1>2, <1>4, <2>1, <2>2, <2>4
    <3>2. q = p /\ g[j] = q + (x - 1) /\ y = x
      BY <1>10, <2>2, <2>3, <3>1
    <3>3. g[j] + 1 = f[j]
      BY <2>3, <3>2
    <3> QED
      BY <1>10, <2>1, <2>4, <3>3
  <2>5. CASE j # i
    <3>1. d[j] = y
      BY <1>4, <2>2, <2>5
    <3>2. CASE j < i
      BY <1>10, <2>1, <2>2, <2>3, <3>1, <3>2
    <3>3. CASE j > i
      <4>1. k >= i /\ q + 1 = p
        BY <1>10, <2>1, <2>2, <3>3
      <4>2. g[j] + 1 = f[j]
        BY <2>3, <3>1, <4>1
      <4> QED
        BY <1>10, <2>1, <3>3, <4>2
    <3> QED
      BY <1>8, <2>5, <3>2, <3>3
  <2> QED
    BY <2>4, <2>5
<1>11. n \in T
  <2>1. 0 .. n \subseteq T
    <3> HIDE DEF T
    <3> QED
      BY <1>9, <1>10, Reaches
  <2> QED
    BY <2>1
<1> QED
  BY <1>1, <1>4, <1>5, <1>6, <1>8, <1>11

\* Columns of at most one take no more than their number.
LEMMA SumSmall ==
  ASSUME NEW c \in Seq(Nat), \A i \in 1 .. Len(c) : c[i] <= 1
  PROVE  SeqSum(c) <= Len(c)
<1>1. PICK n \in Nat : n = Len(c)
  OBVIOUS
<1>2. PICK f : SumsTo(c, f) /\ SeqSum(c) = f[Len(c)]
  BY SumIs
<1>3. /\ f[0] = 0
      /\ \A j \in 0 .. n : f[j] \in Nat
      /\ \A j \in 1 .. n : f[j] = f[j - 1] + c[j] /\ c[j] \in Nat /\ c[j] <= 1
  <2>1. \A j \in 1 .. n : c[j] \in Nat /\ c[j] <= 1
    BY <1>1
  <2> QED
    BY <1>1, <1>2, <2>1 DEF SumsTo
<1> DEFINE T == {k \in Nat : k <= n /\ f[k] <= k}
<1>4. 0 \in T
  BY <1>3
<1>5. ASSUME NEW k \in Nat, k < n, k \in T PROVE k + 1 \in T
  <2>1. PICK j \in 1 .. n : j = k + 1
    BY <1>5
  <2>2. PICK p \in Nat, y \in Nat : p = f[k] /\ y = c[j]
    <3>1. k \in 0 .. n
      BY <1>5
    <3> QED
      BY <1>3, <3>1
  <2>3. j - 1 = k /\ f[j] = p + y /\ y <= 1 /\ p <= k
    BY <1>3, <1>5, <2>1, <2>2
  <2> QED
    BY <1>5, <2>1, <2>3
<1>6. n \in T
  <2>1. 0 .. n \subseteq T
    <3> HIDE DEF T
    <3> QED
      BY <1>4, <1>5, Reaches
  <2> QED
    BY <2>1
<1> QED
  BY <1>1, <1>2, <1>6

\* The widest, and the leftmost of the widest.
IsWidest(c, i) ==
  /\ i \in 1 .. Len(c)
  /\ \A j \in 1 .. Len(c) : c[j] <= c[i]
  /\ \A j \in 1 .. i - 1 : c[j] < c[i]

LEMMA WidestIs ==
  ASSUME NEW c \in Seq(Nat), c # <<>>
  PROVE  \E i : IsWidest(c, i)
<1>1. PICK n \in Nat : n = Len(c)
  OBVIOUS
<1>2. n >= 1 /\ \A j \in 1 .. n : c[j] \in Nat
  BY <1>1
<1> DEFINE T == {k \in Nat : k <= n /\ (k >= 1 => \E i \in 1 .. k : \A j \in 1 .. k : c[j] <= c[i])}
<1>3. 0 \in T
  OBVIOUS
<1>4. ASSUME NEW k \in Nat, k < n, k \in T PROVE k + 1 \in T
  <2>1. PICK l \in 1 .. n : l = k + 1
    BY <1>4
  <2>2. CASE k = 0
    <3>1. l = 1 /\ \A j \in 1 .. l : j = 1
      BY <2>1, <2>2
    <3>2. c[1] <= c[1]
      BY <1>2
    <3>3. \A j \in 1 .. l : c[j] <= c[1]
      BY <3>1, <3>2
    <3> QED
      BY <2>1, <3>1, <3>3
  <2>3. CASE k # 0
    <3>1. PICK i \in 1 .. k : \A j \in 1 .. k : c[j] <= c[i]
      BY <1>4, <2>3
    <3>2. c[i] \in Nat /\ c[l] \in Nat /\ i \in 1 .. l /\ l \in 1 .. l
      BY <1>2, <2>1, <3>1
    <3>3. \A j \in 1 .. l : j = l \/ j \in 1 .. k
      BY <2>1
    <3>4. CASE c[l] <= c[i]
      <4>1. \A j \in 1 .. l : c[j] <= c[i]
        BY <3>1, <3>3, <3>4
      <4> QED
        BY <2>1, <3>2, <4>1
    <3>5. CASE ~(c[l] <= c[i])
      <4>1. \A j \in 1 .. k : c[j] \in Nat
        BY <1>2, <1>4
      <4>2. \A j \in 1 .. l : c[j] <= c[l]
        <5>1. ASSUME NEW j \in 1 .. k PROVE c[j] <= c[l]
          <6>1. PICK u \in Nat, v \in Nat, z \in Nat : u = c[j] /\ v = c[i] /\ z = c[l]
            BY <3>2, <4>1
          <6>2. u <= v /\ ~(z <= v)
            BY <3>1, <3>5, <6>1
          <6> QED
            BY <6>1, <6>2
        <5>2. c[l] <= c[l]
          BY <3>2
        <5> QED
          BY <3>3, <5>1, <5>2
      <4> QED
        BY <2>1, <3>2, <4>2
    <3> QED
      BY <3>4, <3>5
  <2> QED
    BY <2>2, <2>3
<1>5. \E i \in 1 .. n : \A j \in 1 .. n : c[j] <= c[i]
  <2>1. 0 .. n \subseteq T
    <3> HIDE DEF T
    <3> QED
      BY <1>3, <1>4, Reaches
  <2>2. n \in T
    <3> HIDE DEF T
    <3> QED
      BY <2>1
  <2> QED
    BY <1>2, <2>2
<1> DEFINE W == {i \in 1 .. n : \A j \in 1 .. n : c[j] <= c[i]}
<1>6. W # {} /\ W \in SUBSET Nat
  BY <1>2, <1>5
<1>7. PICK i \in W : \A k \in W : i <= k
  <2> HIDE DEF W
  <2> QED
    BY <1>6, LeastNumber
<1>8. ASSUME NEW j \in 1 .. i - 1 PROVE c[j] < c[i]
  <2>1. i \in 1 .. n /\ j \in 1 .. n /\ ~(i <= j)
    BY <1>7
  <2>2. j \notin W
    BY <1>7, <2>1
  <2>3. PICK k \in 1 .. n : ~(c[k] <= c[j])
    BY <2>1, <2>2
  <2>4. PICK u \in Nat, v \in Nat, z \in Nat : u = c[k] /\ v = c[j] /\ z = c[i]
    BY <1>2, <2>1
  <2>5. u <= z /\ ~(u <= v)
    BY <1>7, <2>3, <2>4
  <2> QED
    BY <2>4, <2>5
<1> QED
  BY <1>1, <1>7, <1>8 DEF IsWidest

\* Shrinking takes one off, or there is nothing to take.
Shrunk(c, d, budget) ==
  /\ d \in Seq(Nat) /\ Len(d) = Len(c)
  /\ SeqSum(d) + 1 = SeqSum(c) \/ (d = c /\ SeqSum(c) <= budget)

LEMMA ShrinkShrinks ==
  ASSUME NEW c \in Seq(Nat), c # <<>>, NEW budget \in Nat, Len(c) <= budget
  PROVE  Shrunk(c, Shrink(c, budget), budget)
<1>1. PICK mi : mi = CHOOSE i \in 1 .. Len(c) : /\ \A j \in 1 .. Len(c) : c[j] <= c[i]
                                              /\ \A j \in 1 .. i - 1 : c[j] < c[i]
  OBVIOUS
<1>2. IsWidest(c, mi)
  BY <1>1, WidestIs DEF IsWidest
<1>3. PICK d : d = [c EXCEPT ![mi] = @ - 1]
  OBVIOUS
<1>4. Shrink(c, budget) = IF SeqSum(c) > budget /\ c[mi] > 1 THEN d ELSE c
  BY <1>1, <1>3 DEF Shrink
<1>5. PICK s \in Nat, n \in Nat : s = SeqSum(c) /\ n = Len(c) /\ n <= budget
  BY SumType
<1>6. mi \in 1 .. Len(c) /\ c[mi] \in Nat
  BY <1>2 DEF IsWidest
<1>7. CASE SeqSum(c) > budget /\ c[mi] > 1
  <2>1. c[mi] >= 1
    BY <1>6, <1>7
  <2>2. d \in Seq(Nat) /\ Len(d) = Len(c) /\ SeqSum(d) + 1 = SeqSum(c)
    BY <1>3, <1>6, <2>1, SumLess
  <2> QED
    BY <1>4, <1>7, <2>2 DEF Shrunk
<1>8. CASE ~(SeqSum(c) > budget /\ c[mi] > 1)
  <2>1. SeqSum(c) <= budget
    <3>1. CASE ~(s > budget)
      BY <1>5, <3>1
    <3>2. CASE ~(c[mi] > 1)
      <4>1. ASSUME NEW j \in 1 .. Len(c) PROVE c[j] <= 1
        <5>1. PICK u \in Nat, v \in Nat : u = c[j] /\ v = c[mi]
          BY <1>6
        <5>2. u <= v /\ ~(v > 1)
          BY <1>2, <3>2, <5>1 DEF IsWidest
        <5> QED
          BY <5>1, <5>2
      <4>2. SeqSum(c) <= Len(c)
        BY <4>1, SumSmall
      <4>3. s <= budget
        BY <1>5, <4>2
      <4> QED
        BY <1>5, <4>3
    <3> QED
      BY <1>5, <1>8, <3>1, <3>2
  <2>2. Shrink(c, budget) = c
    BY <1>4, <1>8
  <2> QED
    BY <2>1, <2>2 DEF Shrunk
<1> QED
  BY <1>7, <1>8

ColumnsOf(n) == {c \in Seq(Nat) : Len(c) = n}

ShrinkTo(s, cw, budget, f) ==
  /\ f \in [0 .. Len(s) -> ColumnsOf(Len(cw))] /\ f[0] = cw
  /\ \A i \in 1 .. Len(s) : f[i] = Shrink(f[i - 1], budget)

Shrinking(s, cw, budget) == Over(LAMBDA c, k : Shrink(c, budget), cw, s)

LEMMA ShrinkFolds ==
  ASSUME NEW cw \in Seq(Nat), cw # <<>>, NEW budget \in Nat, Len(cw) <= budget, NEW s \in Seq(Nat)
  PROVE  \E f : ShrinkTo(s, cw, budget, f) /\ Shrinking(s, cw, budget) = f[Len(s)]
<1>1. PICK m \in Nat : m = Len(s)
  OBVIOUS
<1> DEFINE G == [i \in 1 .. m |-> [x \in ColumnsOf(Len(cw)) |-> Shrink(x, budget)]]
<1>2. \A i \in 1 .. m, x \in ColumnsOf(Len(cw)) : Shrink(x, budget) \in ColumnsOf(Len(cw))
  <2>1. ASSUME NEW x \in ColumnsOf(Len(cw)) PROVE Shrink(x, budget) \in ColumnsOf(Len(cw))
    <3>1. x \in Seq(Nat) /\ Len(x) = Len(cw)
      BY DEF ColumnsOf
    <3>2. x # <<>> /\ Len(x) <= budget
      BY <3>1
    <3>3. Shrunk(x, Shrink(x, budget), budget)
      BY <3>1, <3>2, ShrinkShrinks
    <3> QED
      BY <3>1, <3>3 DEF Shrunk, ColumnsOf
  <2> QED
    BY <2>1
<1>3. G \in [1 .. m -> [ColumnsOf(Len(cw)) -> ColumnsOf(Len(cw))]]
  BY <1>2
<1>4. \A i \in 1 .. m, x \in ColumnsOf(Len(cw)) : G[i][x] = Shrink(x, budget)
  OBVIOUS
<1> HIDE DEF G
<1>5. cw \in ColumnsOf(Len(cw))
  BY DEF ColumnsOf
<1>6. PICK h : Folded(h, ColumnsOf(Len(cw)), m, cw, G)
  BY <1>3, <1>5, FoldStays
<1> DEFINE g == [i \in 0 .. m |-> h[i]]
<1>7. ASSUME NEW i \in 0 .. m PROVE h[i] = IF i = 0 THEN cw ELSE Shrink(g[i - 1], budget)
  <2>1. CASE i = 0
    BY <1>6, <2>1 DEF Folded
  <2>2. CASE i # 0
    <3>1. i \in 1 .. m /\ i - 1 \in 0 .. m
      BY <2>2
    <3>2. h[i] = G[i][h[i - 1]] /\ h[i - 1] \in ColumnsOf(Len(cw)) /\ g[i - 1] = h[i - 1]
      BY <1>6, <3>1 DEF Folded
    <3> QED
      BY <1>4, <2>2, <3>1, <3>2
  <2> QED
    BY <2>1, <2>2
<1>8. g = [i \in 0 .. m |-> IF i = 0 THEN cw ELSE Shrink(g[i - 1], budget)]
  BY <1>7
<1> HIDE DEF g
<1>9. PICK f : f = CHOOSE e : e = [i \in 0 .. Len(s) |-> IF i = 0 THEN cw ELSE Shrink(e[i - 1], budget)]
  OBVIOUS
<1>10. f = [i \in 0 .. m |-> IF i = 0 THEN cw ELSE Shrink(f[i - 1], budget)]
  BY <1>1, <1>8, <1>9
<1>11. Shrinking(s, cw, budget) = f[Len(s)]
  BY <1>9 DEF Shrinking, Over
<1>12. f[0] = cw /\ \A i \in 1 .. m : f[i] = Shrink(f[i - 1], budget)
  BY <1>10
<1> DEFINE T == {k \in Nat : k <= m /\ f[k] \in ColumnsOf(Len(cw))}
<1>13. 0 .. m \subseteq T
  <2>1. 0 \in T
    BY <1>5, <1>12
  <2>2. ASSUME NEW k \in Nat, k < m, k \in T PROVE k + 1 \in T
    <3>1. PICK i \in 1 .. m : i = k + 1
      BY <2>2
    <3>2. i - 1 = k /\ f[i - 1] \in ColumnsOf(Len(cw))
      BY <2>2, <3>1
    <3>3. f[i] \in ColumnsOf(Len(cw))
      BY <1>2, <1>12, <3>2
    <3> QED
      BY <3>1, <3>3
  <2> HIDE DEF T
  <2> QED
    BY <2>1, <2>2, Reaches
<1>14. \A i \in 0 .. m : f[i] \in ColumnsOf(Len(cw))
  BY <1>13
<1>15. f \in [0 .. m -> ColumnsOf(Len(cw))]
  BY <1>10, <1>14
<1> QED
  BY <1>1, <1>11, <1>12, <1>15 DEF ShrinkTo

\* As many steps as there is too much are enough.
LEMMA ShrinkReaches ==
  ASSUME NEW cw \in Seq(Nat), cw # <<>>, NEW budget \in Nat, Len(cw) <= budget,
         NEW over \in Nat, SeqSum(cw) = budget + over, NEW c, c = Shrinking([k \in 1 .. over |-> k], cw, budget)
  PROVE  c \in Seq(Nat) /\ Len(c) = Len(cw) /\ SeqSum(c) <= budget
<1>1. PICK s : s = [k \in 1 .. over |-> k]
  OBVIOUS
<1>2. s \in Seq(Nat) /\ Len(s) = over
  <2>1. s \in [1 .. over -> Nat]
    BY <1>1
  <2> QED
    BY <2>1
<1>3. PICK f : ShrinkTo(s, cw, budget, f) /\ Shrinking(s, cw, budget) = f[Len(s)]
  BY <1>2, ShrinkFolds
<1>4. /\ f[0] = cw
      /\ \A i \in 0 .. over : f[i] \in ColumnsOf(Len(cw))
      /\ \A i \in 1 .. over : f[i] = Shrink(f[i - 1], budget)
  BY <1>2, <1>3 DEF ShrinkTo
<1>5. \A i \in 0 .. over : f[i] \in Seq(Nat) /\ Len(f[i]) = Len(cw) /\ SeqSum(f[i]) \in Nat
  BY <1>4, SumType DEF ColumnsOf
<1> DEFINE T == {k \in Nat : k <= over /\ (SeqSum(f[k]) <= budget \/ SeqSum(f[k]) + k <= budget + over)}
<1>6. 0 \in T
  <2>1. SeqSum(f[0]) = budget + over
    BY <1>4
  <2> QED
    BY <2>1
<1>7. ASSUME NEW k \in Nat, k < over, k \in T PROVE k + 1 \in T
  <2>1. PICK i \in 1 .. over : i = k + 1
    BY <1>7
  <2>2. i - 1 = k /\ f[i] = Shrink(f[k], budget) /\ k \in 0 .. over /\ i \in 0 .. over
    BY <1>4, <1>7, <2>1
  <2>3. f[k] \in Seq(Nat) /\ f[k] # <<>> /\ Len(f[k]) <= budget
    <3>1. f[k] \in Seq(Nat) /\ Len(f[k]) = Len(cw)
      BY <1>5, <2>2
    <3>2. Len(cw) # 0
      OBVIOUS
    <3> QED
      BY <3>1, <3>2
  <2>4. Shrunk(f[k], f[i], budget)
    BY <2>2, <2>3, ShrinkShrinks
  <2>5. PICK p \in Nat, q \in Nat : p = SeqSum(f[k]) /\ q = SeqSum(f[i])
    BY <1>5, <2>2
  <2>6. q + 1 = p \/ (q = p /\ p <= budget)
    BY <2>4, <2>5 DEF Shrunk
  <2>7. p <= budget \/ p + k <= budget + over
    BY <1>7, <2>5
  <2>8. q <= budget \/ q + i <= budget + over
    BY <2>1, <2>6, <2>7
  <2> QED
    BY <1>7, <2>1, <2>5, <2>8
<1>8. over \in T
  <2>1. 0 .. over \subseteq T
    <3> HIDE DEF T
    <3> QED
      BY <1>6, <1>7, Reaches
  <2> QED
    BY <2>1
<1>9. over \in 0 .. over
  OBVIOUS
<1>10. SeqSum(f[over]) <= budget
  <2>1. PICK p \in Nat : p = SeqSum(f[over])
    BY <1>5, <1>9
  <2>2. p <= budget \/ p + over <= budget + over
    BY <1>8, <2>1
  <2> QED
    BY <2>1, <2>2
<1> QED
  BY <1>1, <1>2, <1>3, <1>5, <1>9, <1>10

-----------------------------------------------------------------------------
\* Cells of a table

\* Two texts end to end.
LEMMA DispConcat ==
  ASSUME NEW x \in Txt, NEW y \in Txt
  PROVE  x \o y \in Txt /\ DispWidth(x \o y) = DispWidth(x) + DispWidth(y)
<1>1. PICK k \in Nat : k = Len(x)
  BY DEF Txt
<1>2. PICK l \in Nat : l = Len(y)
  BY DEF Txt
<1>3. PICK z : z = x \o y
  OBVIOUS
<1>4. /\ z \in Txt /\ Len(z) = k + l
      /\ \A i \in 1 .. k + l : z[i] = IF i <= k THEN x[i] ELSE y[i - k]
  BY <1>1, <1>2, <1>3, ConcatProperties DEF Txt
<1>5. PICK a : a = SubSeq(z, 1, k)
  OBVIOUS
<1>6. PICK b : b = SubSeq(z, k + 1, Len(z))
  OBVIOUS
<1>7. a \in Txt /\ b \in Txt /\ Len(a) = k /\ Len(b) = l /\ DispWidth(a) + DispWidth(b) = DispWidth(z)
  <2>1. k <= Len(z) /\ Len(z) - k = l
    BY <1>4
  <2> QED
    BY <1>4, <1>5, <1>6, <2>1, DispCut
<1>8. a = x
  <2>1. \A i \in 1 .. k : a[i] = x[i]
    <3>1. \A i \in 1 .. k : a[i] = z[1 + i - 1]
      BY <1>4, <1>5 DEF Txt
    <3>2. \A i \in 1 .. k : 1 + i - 1 = i /\ i \in 1 .. k + l /\ i <= k
      OBVIOUS
    <3> QED
      BY <1>4, <3>1, <3>2
  <2> QED
    BY <1>1, <1>7, <2>1, SeqEqual DEF Txt
<1>9. b = y
  <2>1. \A i \in 1 .. l : b[i] = y[i]
    <3>1. \A i \in 1 .. l : b[i] = z[k + 1 + i - 1]
      <4>1. b = SubSeq(z, k + 1, k + l)
        BY <1>4, <1>6
      <4>2. \A i \in k + 1 .. k + l : z[i] \in Character
        BY <1>4 DEF Txt
      <4>3. \A i \in 1 .. (k + l) - (k + 1) + 1 : b[i] = z[k + 1 + i - 1]
        BY <4>1, <4>2, SubSeqProperties
      <4>4. (k + l) - (k + 1) + 1 = l
        OBVIOUS
      <4> QED
        BY <4>3, <4>4
    <3>2. \A i \in 1 .. l : k + 1 + i - 1 = k + i /\ k + i \in 1 .. k + l /\ ~(k + i <= k) /\ (k + i) - k = i
      OBVIOUS
    <3> QED
      BY <1>4, <3>1, <3>2
  <2> QED
    BY <1>2, <1>7, <2>1, SeqEqual DEF Txt
<1>10. DispWidth(x) \in Nat /\ DispWidth(y) \in Nat
  BY DispType
<1> QED
  BY <1>3, <1>4, <1>7, <1>8, <1>9

\* The dots take one column.
LEMMA DotsAppend ==
  ASSUME NEW s \in Txt
  PROVE  Append(s, Dots) \in Txt /\ DispWidth(Append(s, Dots)) = DispWidth(s) + 1
<1>1. PICK c \in Character : c = Dots
  BY DEF Character
<1>2. c \notin Wide
  BY <1>1, DocumentAssumption DEF Dots
<1>3. CharW(c) = 1
  BY <1>2, CharWidths
<1>4. Append(s, c) \in Txt /\ DispWidth(Append(s, c)) = DispWidth(s) + CharW(c)
  BY DispAppend
<1> QED
  BY <1>1, <1>3, <1>4

\* What is cut to a width has that width at most.
Narrow(t, w) == t \in Txt /\ DispWidth(t) <= w

\* The characters kept before the dots.
KeptTo(s, budget, kept) ==
  /\ kept \in 0 .. Len(s) /\ budget >= 1 /\ DispWidth(SubSeq(s, 1, kept)) <= budget - 1
  /\ TruncateToWidth(s, budget) = Append(SubSeq(s, 1, kept), Dots)

LEMMA TruncateIs ==
  ASSUME NEW s \in Txt, NEW budget \in Nat
  PROVE  \/ DispWidth(s) <= budget /\ TruncateToWidth(s, budget) = s
         \/ TruncateToWidth(s, budget) = <<>>
         \/ \E kept : KeptTo(s, budget, kept)
<1>1. CASE DispWidth(s) <= budget
  BY <1>1 DEF TruncateToWidth
<1>2. CASE ~(DispWidth(s) <= budget) /\ budget = 0
  BY <1>2 DEF TruncateToWidth
<1>3. CASE ~(DispWidth(s) <= budget) /\ budget # 0
  <2>1. PICK l \in Nat : l = Len(s)
    BY DEF Txt
  <2> DEFINE D(n) == DispWidth(SubSeq(s, 1, n))
             Kept(n) == D(n) <= budget - 1 /\ (n = Len(s) \/ D(n + 1) > budget - 1)
             T == {n \in 0 .. l : n = l \/ D(n + 1) > budget - 1}
  <2>2. \A n \in 0 .. l : SubSeq(s, 1, n) \in Txt /\ D(n) \in Nat
    <3>1. \A n \in 0 .. l : n \in Nat /\ n <= Len(s)
      BY <2>1
    <3> QED
      BY <3>1, DispCut, DispType
  <2>3. D(0) = 0
    <3>1. Len(SubSeq(s, 1, 0)) = 0 /\ SubSeq(s, 1, 0) \in Txt
      BY <2>1, DispCut
    <3>2. SubSeq(s, 1, 0) = <<>>
      BY <3>1 DEF Txt
    <3> QED
      BY <3>2, DispEmpty
  <2> HIDE DEF D
  <2>4. PICK n \in T : \A k \in T : n <= k
    <3>1. l \in T /\ T \in SUBSET Nat
      OBVIOUS
    <3> HIDE DEF T
    <3> QED
      BY <3>1, LeastNumber
  <2>5. D(n) <= budget - 1
    <3>1. CASE n = 0
      BY <1>3, <2>3, <3>1
    <3>2. CASE n # 0
      <4>1. PICK k \in Nat : k = n - 1
        BY <2>4, <3>2
      <4>2. k \in 0 .. l /\ k # l /\ k + 1 = n /\ ~(n <= k)
        BY <2>4, <4>1
      <4>3. k \notin T
        BY <2>4, <4>2
      <4>4. ~(D(n) > budget - 1)
        BY <4>2, <4>3
      <4>5. D(n) \in Nat
        BY <2>2, <2>4
      <4> QED
        BY <4>4, <4>5
    <3> QED
      BY <3>1, <3>2
  <2>6. n \in 0 .. Len(s) /\ Kept(n)
    BY <2>1, <2>4, <2>5
  <2>7. PICK kept : kept = CHOOSE m \in 0 .. Len(s) : Kept(m)
    OBVIOUS
  <2>8. kept \in 0 .. Len(s) /\ Kept(kept)
    <3> HIDE DEF Kept
    <3> QED
      BY <2>6, <2>7
  <2>9. TruncateToWidth(s, budget) = Append(SubSeq(s, 1, kept), Dots)
    BY <1>3, <2>7 DEF TruncateToWidth, D
  <2>10. KeptTo(s, budget, kept)
    BY <1>3, <2>8, <2>9 DEF D, KeptTo
  <2> QED
    BY <2>10
<1> QED
  BY <1>1, <1>2, <1>3

LEMMA TruncateFits ==
  ASSUME NEW s \in Txt, NEW budget \in Nat
  PROVE  Narrow(TruncateToWidth(s, budget), budget)
<1>1. CASE DispWidth(s) <= budget /\ TruncateToWidth(s, budget) = s
  BY <1>1 DEF Narrow
<1>2. CASE TruncateToWidth(s, budget) = <<>>
  BY <1>2, DispEmpty DEF Narrow
<1>3. ASSUME NEW kept, KeptTo(s, budget, kept) PROVE Narrow(TruncateToWidth(s, budget), budget)
  <2>1. PICK l \in Nat : l = Len(s)
    BY DEF Txt
  <2>2. PICK t : t = SubSeq(s, 1, kept)
    OBVIOUS
  <2>3. kept \in Nat /\ kept <= Len(s)
    BY <1>3, <2>1 DEF KeptTo
  <2>4. t \in Txt /\ DispWidth(t) \in Nat
    BY <2>2, <2>3, DispCut, DispType
  <2>5. DispWidth(t) <= budget - 1
    BY <1>3, <2>2 DEF KeptTo
  <2>6. Append(t, Dots) \in Txt /\ DispWidth(Append(t, Dots)) = DispWidth(t) + 1
    BY <2>4, DotsAppend
  <2>7. DispWidth(t) + 1 <= budget
    BY <2>4, <2>5
  <2> QED
    BY <1>3, <2>2, <2>6, <2>7 DEF KeptTo, Narrow
<1> QED
  BY <1>1, <1>2, <1>3, TruncateIs

LEMMA CellFits ==
  ASSUME NEW s \in Txt, NEW w \in Nat
  PROVE  Narrow(FitCell(s, w), w)
<1>1. CASE w = 0
  BY <1>1, DispEmpty DEF FitCell, Narrow
<1>2. CASE w # 0 /\ DispWidth(s) <= w
  BY <1>2 DEF FitCell, Narrow
<1>3. CASE w # 0 /\ ~(DispWidth(s) <= w)
  <2>1. PICK k \in Nat : k = w - 1
    BY <1>3
  <2>2. PICK t : t = TruncateToWidth(s, k)
    OBVIOUS
  <2>3. t \in Txt /\ DispWidth(t) <= k /\ DispWidth(t) \in Nat
    BY <2>2, TruncateFits, DispType DEF Narrow
  <2>4. Append(t, Dots) \in Txt /\ DispWidth(Append(t, Dots)) = DispWidth(t) + 1
    BY <2>3, DotsAppend
  <2>5. DispWidth(t) + 1 <= w
    BY <2>1, <2>3
  <2>6. FitCell(s, w) = Append(t, Dots)
    BY <1>3, <2>1, <2>2 DEF FitCell
  <2> QED
    BY <2>4, <2>5, <2>6 DEF Narrow
<1> QED
  BY <1>1, <1>2, <1>3

\* Cells that fit their columns, put end to end.
LEMMA RowFits ==
  ASSUME NEW ss \in Seq(Txt), NEW c \in Seq(Nat), Len(ss) = Len(c),
         \A i \in 1 .. Len(ss) : DispWidth(ss[i]) <= c[i]
  PROVE  Narrow(FlattenSeq(ss), SeqSum(c))
<1>1. PICK n \in Nat : n = Len(ss)
  OBVIOUS
<1>2. PICK f : SumsTo(c, f) /\ SeqSum(c) = f[Len(c)]
  BY SumIs
<1>3. /\ f[0] = 0
      /\ \A i \in 0 .. n : f[i] \in Nat
      /\ \A i \in 1 .. n : f[i] = f[i - 1] + c[i]
  BY <1>1, <1>2 DEF SumsTo
<1>4. \A i \in 1 .. n : ss[i] \in Txt /\ c[i] \in Nat /\ DispWidth(ss[i]) <= c[i] /\ DispWidth(ss[i]) \in Nat
  <2>1. \A i \in 1 .. n : ss[i] \in Txt /\ c[i] \in Nat /\ DispWidth(ss[i]) <= c[i]
    BY <1>1
  <2> QED
    BY <2>1, DispType
<1>5. CASE n = 0
  <2>1. FlattenSeq(ss) = <<>>
    BY <1>1, <1>5, FlattenEmpty
  <2>2. SeqSum(c) = 0
    BY <1>1, <1>2, <1>3, <1>5
  <2> QED
    BY <2>1, <2>2, DispEmpty DEF Narrow
<1>6. CASE n # 0
  <2>1. ss \in Seq(Seq(Character)) /\ ss # <<>>
    BY <1>1, <1>6 DEF Txt
  <2>2. PICK g : FlattenTo(ss, Character, g) /\ FlattenSeq(ss) = g[Len(ss)]
    BY <2>1, FlattenIs
  <2>3. \A i \in 1 .. n : g[i] \in Txt /\ g[i] = IF i = 1 THEN ss[i] ELSE g[i - 1] \o ss[i]
    BY <1>1, <2>2 DEF FlattenTo, Txt
  <2> DEFINE T == {k \in Nat : k <= n /\ (k # 0 => DispWidth(g[k]) <= f[k])}
  <2>4. 0 \in T
    OBVIOUS
  <2>5. ASSUME NEW k \in Nat, k < n, k \in T PROVE k + 1 \in T
    <3>1. PICK i \in 1 .. n : i = k + 1
      BY <2>5
    <3>2. PICK x \in Nat, y \in Nat, p \in Nat : x = DispWidth(ss[i]) /\ y = c[i] /\ p = f[k]
      <4>1. k \in 0 .. n
        BY <2>5
      <4> QED
        BY <1>3, <1>4, <4>1
    <3>3. i - 1 = k /\ f[i] = p + y /\ x <= y
      BY <1>3, <1>4, <3>1, <3>2
    <3>4. CASE k = 0
      <4>1. i = 1
        BY <3>1, <3>4
      <4>2. DispWidth(g[i]) = x
        BY <2>3, <3>2, <4>1
      <4>3. p = 0
        BY <1>3, <3>2, <3>4
      <4>4. DispWidth(g[i]) <= f[i]
        BY <3>3, <4>2, <4>3
      <4> QED
        BY <2>5, <3>1, <4>4
    <3>5. CASE k # 0
      <4>1. k \in 1 .. n /\ i # 1
        BY <2>5, <3>1, <3>5
      <4>2. g[i] = g[k] \o ss[i] /\ g[k] \in Txt /\ ss[i] \in Txt
        BY <1>4, <2>3, <3>3, <4>1
      <4>3. PICK q \in Nat : q = DispWidth(g[k])
        BY <4>2, DispType
      <4>4. DispWidth(g[i]) = q + x
        BY <3>2, <4>2, <4>3, DispConcat
      <4>5. q <= p
        BY <2>5, <3>2, <3>5, <4>3
      <4>6. DispWidth(g[i]) <= f[i]
        BY <3>3, <4>4, <4>5
      <4> QED
        BY <2>5, <3>1, <4>6
    <3> QED
      BY <3>4, <3>5
  <2>6. DispWidth(g[n]) <= f[n]
    <3>1. 0 .. n \subseteq T
      <4> HIDE DEF T
      <4> QED
        BY <2>4, <2>5, Reaches
    <3>2. n \in T
      <4> HIDE DEF T
      <4> QED
        BY <3>1
    <3> QED
      BY <1>6, <3>2
  <2>7. g[n] \in Txt
    BY <1>6, <2>3
  <2> QED
    BY <1>1, <1>2, <2>2, <2>6, <2>7 DEF Narrow
<1> QED
  BY <1>5, <1>6

\* Columns are dropped from the end.
DropState == [on : BOOLEAN, used : Int, keep : Nat]

AllColumns == [on |-> TRUE, used |-> 1, keep |-> 0]

DropStep(st, c) ==
  IF st.on /\ (st.used + c + 3 <= width \/ st.keep = 0)
  THEN [st EXCEPT !.used = @ + c + 3, !.keep = @ + 1]
  ELSE [st EXCEPT !.on = FALSE]

DropTo(s, f) ==
  /\ f \in [0 .. Len(s) -> DropState] /\ f[0] = AllColumns
  /\ \A i \in 1 .. Len(s) : f[i] = DropStep(f[i - 1], s[i])

Dropping(s) == Over(LAMBDA st, c : DropStep(st, c), [on |-> TRUE, used |-> 1, keep |-> 0], s)

LEMMA DropSteps ==
  ASSUME NEW st \in DropState, NEW c \in Nat
  PROVE  DropStep(st, c) \in DropState /\ DropStep(st, c).keep <= st.keep + 1
<1>1. PICK d : d = DropStep(st, c)
  OBVIOUS
<1>2. PICK k \in Nat : k = st.keep
  BY DEF DropState
<1>3. PICK u \in Int : u = st.used
  BY DEF DropState
<1>4. st.on \in BOOLEAN
  BY DEF DropState
<1>5. CASE st.on /\ (st.used + c + 3 <= width \/ st.keep = 0)
  <2>1. d = [on |-> st.on, used |-> u + c + 3, keep |-> k + 1]
    BY <1>1, <1>2, <1>3, <1>5 DEF DropStep, DropState
  <2>2. u + c + 3 \in Int /\ k + 1 \in Nat
    OBVIOUS
  <2>3. d \in DropState
    BY <1>4, <2>1, <2>2, Zenon DEF DropState
  <2>4. d.keep = k + 1
    BY <2>1
  <2> QED
    BY <1>1, <1>2, <2>3, <2>4
<1>6. CASE ~(st.on /\ (st.used + c + 3 <= width \/ st.keep = 0))
  <2>1. d = [on |-> FALSE, used |-> u, keep |-> k]
    BY <1>1, <1>2, <1>3, <1>6 DEF DropStep, DropState
  <2>2. d \in DropState
    BY <2>1, Zenon DEF DropState
  <2>3. d.keep = k
    BY <2>1
  <2> QED
    BY <1>1, <1>2, <2>2, <2>3
<1> QED
  BY <1>5, <1>6

LEMMA DropFolds ==
  ASSUME NEW s \in Seq(Nat)
  PROVE  \E f : DropTo(s, f) /\ Dropping(s) = f[Len(s)]
<1>1. PICK m \in Nat : m = Len(s)
  OBVIOUS
<1> DEFINE G == [i \in 1 .. m |-> [x \in DropState |-> DropStep(x, s[i])]]
<1>2. \A i \in 1 .. m, x \in DropState : DropStep(x, s[i]) \in DropState
  <2>1. \A i \in 1 .. m : s[i] \in Nat
    BY <1>1
  <2> QED
    BY <2>1, DropSteps
<1>3. G \in [1 .. m -> [DropState -> DropState]]
  BY <1>2
<1>4. \A i \in 1 .. m, x \in DropState : G[i][x] = DropStep(x, s[i])
  OBVIOUS
<1> HIDE DEF G
<1>5. AllColumns \in DropState
  BY DEF DropState, AllColumns
<1>6. PICK h : Folded(h, DropState, m, AllColumns, G)
  BY <1>3, <1>5, FoldStays
<1> DEFINE g == [i \in 0 .. m |-> h[i]]
<1>7. ASSUME NEW i \in 0 .. m PROVE h[i] = IF i = 0 THEN AllColumns ELSE DropStep(g[i - 1], s[i])
  <2>1. CASE i = 0
    BY <1>6, <2>1 DEF Folded
  <2>2. CASE i # 0
    <3>1. i \in 1 .. m /\ i - 1 \in 0 .. m
      BY <2>2
    <3>2. h[i] = G[i][h[i - 1]] /\ h[i - 1] \in DropState /\ g[i - 1] = h[i - 1]
      BY <1>6, <3>1 DEF Folded
    <3> QED
      BY <1>4, <2>2, <3>1, <3>2
  <2> QED
    BY <2>1, <2>2
<1>8. g = [i \in 0 .. m |-> IF i = 0 THEN AllColumns ELSE DropStep(g[i - 1], s[i])]
  BY <1>7
<1> HIDE DEF g
<1>9. PICK f : f = CHOOSE e : e = [i \in 0 .. Len(s) |-> IF i = 0 THEN AllColumns ELSE DropStep(e[i - 1], s[i])]
  OBVIOUS
<1>10. f = [i \in 0 .. m |-> IF i = 0 THEN AllColumns ELSE DropStep(f[i - 1], s[i])]
  BY <1>1, <1>8, <1>9
<1>11. Dropping(s) = f[Len(s)]
  BY <1>9 DEF Dropping, Over, AllColumns
<1>12. f[0] = AllColumns /\ \A i \in 1 .. m : f[i] = DropStep(f[i - 1], s[i])
  BY <1>10
<1> DEFINE T == {k \in Nat : k <= m /\ f[k] \in DropState}
<1>13. 0 .. m \subseteq T
  <2>1. 0 \in T
    BY <1>5, <1>12
  <2>2. ASSUME NEW k \in Nat, k < m, k \in T PROVE k + 1 \in T
    <3>1. PICK i \in 1 .. m : i = k + 1
      BY <2>2
    <3>2. i - 1 = k /\ f[i - 1] \in DropState
      BY <2>2, <3>1
    <3>3. f[i] \in DropState
      BY <1>2, <1>12, <3>2
    <3> QED
      BY <3>1, <3>3
  <2> HIDE DEF T
  <2> QED
    BY <2>1, <2>2, Reaches
<1>14. \A i \in 0 .. m : f[i] \in DropState
  BY <1>13
<1>15. f \in [0 .. m -> DropState]
  BY <1>10, <1>14
<1> QED
  BY <1>1, <1>11, <1>12, <1>15 DEF DropTo

LEMMA DropKeeps ==
  ASSUME NEW s \in Seq(Nat)
  PROVE  DropColumns(s) \in 0 .. Len(s)
<1>1. PICK n \in Nat : n = Len(s)
  OBVIOUS
<1>2. PICK f : DropTo(s, f) /\ Dropping(s) = f[Len(s)]
  BY DropFolds
<1>3. /\ f[0] = AllColumns
      /\ \A i \in 0 .. n : f[i] \in DropState
      /\ \A i \in 1 .. n : f[i] = DropStep(f[i - 1], s[i])
  BY <1>1, <1>2 DEF DropTo
<1>4. \A i \in 0 .. n : f[i].keep \in Nat
  BY <1>3 DEF DropState
<1> DEFINE T == {k \in Nat : k <= n /\ f[k].keep <= k}
<1>5. 0 \in T
  BY <1>3 DEF AllColumns
<1>6. ASSUME NEW k \in Nat, k < n, k \in T PROVE k + 1 \in T
  <2>1. PICK i \in 1 .. n : i = k + 1
    BY <1>6
  <2>2. i - 1 = k /\ k \in 0 .. n /\ f[k] \in DropState /\ f[i] = DropStep(f[k], s[i]) /\ s[i] \in Nat
    <3>1. i - 1 = k /\ k \in 0 .. n
      BY <1>6, <2>1
    <3>2. f[k] \in DropState
      BY <1>3, <3>1
    <3>3. f[i] = DropStep(f[k], s[i])
      BY <1>3, <2>1, <3>1
    <3>4. s[i] \in Nat
      BY <1>1, <2>1
    <3> QED
      BY <3>1, <3>2, <3>3, <3>4
  <2>3. f[i].keep <= f[k].keep + 1
    BY <2>2, DropSteps
  <2>4. PICK x \in Nat, y \in Nat : x = f[k].keep /\ y = f[i].keep
    BY <1>4, <2>2
  <2>5. y <= i
    BY <1>6, <2>1, <2>3, <2>4
  <2> QED
    BY <1>6, <2>1, <2>4, <2>5
<1>7. n \in T
  <2>1. 0 .. n \subseteq T
    <3> HIDE DEF T
    <3> QED
      BY <1>5, <1>6, Reaches
  <2> QED
    BY <2>1
<1>8. DropColumns(s) = Dropping(s).keep
  BY DEF DropColumns, Dropping, DropStep, Over
<1>9. n \in 0 .. n
  OBVIOUS
<1> QED
  BY <1>1, <1>2, <1>4, <1>7, <1>8, <1>9

-----------------------------------------------------------------------------
\* A table

\* Rows of as many cells as the header.
Rows(head, body) == body \in Seq(Seq(Txt)) /\ \A r \in 1 .. Len(body) : Len(body[r]) = Len(head)

\* Columns that fit, or a width without room for one character in each.
ColumnsOk(cols, n) ==
  /\ cols \in Seq(Nat) /\ Len(cols) <= n
  /\ \/ Len(cols) = n /\ SeqSum(cols) + 3 * n + 1 <= width
     \/ width < 4 * n + 1

\* How the columns come about: the widest cells, then what makes them fit.
ColumnsFrom(rows, n, cw, budget, over) ==
  /\ cw \in Seq(Nat) /\ Len(cw) = n /\ budget \in Nat /\ over \in Int
  /\ \A r \in 1 .. Len(rows), i \in 1 .. n : DispWidth(rows[r][i]) <= cw[i]
  /\ budget = IF width > 3 * n + 1 THEN width - (3 * n + 1) ELSE 0
  /\ over = SeqSum(cw) - budget
  /\ TableColumns(rows) = IF over <= 0 THEN cw
                          ELSE IF budget >= n THEN Shrinking([j \in 1 .. over |-> j], cw, budget)
                          ELSE SubSeq(cw, 1, DropColumns(cw))

LEMMA ColumnsAre ==
  ASSUME width \in Nat, NEW rows \in Seq(Seq(Txt)), rows # <<>>,
         NEW n \in Nat, n >= 1, \A r \in 1 .. Len(rows) : Len(rows[r]) = n
  PROVE  \E cw \in Seq(Nat), budget \in Nat, over \in Int : ColumnsFrom(rows, n, cw, budget, over)
<1>1. PICK k \in Nat : k = Len(rows)
  OBVIOUS
<1>2. k >= 1 /\ DOMAIN rows = 1 .. k /\ \A r \in 1 .. k : rows[r] \in Seq(Txt) /\ Len(rows[r]) = n
  BY <1>1
<1> DEFINE Widest(i) == LET ws == {DispWidth(rows[r][i]) : r \in DOMAIN rows}
                        IN CHOOSE w \in ws : \A v \in ws : v <= w
           cw == [i \in 1 .. n |-> Widest(i)]
<1>3. ASSUME NEW i \in 1 .. n
      PROVE  Widest(i) \in Nat /\ \A r \in 1 .. k : DispWidth(rows[r][i]) <= Widest(i)
  <2>1. \A r \in 1 .. k : DispWidth(rows[r][i]) \in Nat
    <3>1. \A r \in 1 .. k : rows[r][i] \in Txt
      BY <1>2
    <3> QED
      BY <3>1, DispType
  <2>2. PICK c : c = [r \in 1 .. k |-> DispWidth(rows[r][i])]
    OBVIOUS
  <2>3. c \in Seq(Nat) /\ Len(c) = k /\ \A r \in 1 .. k : c[r] = DispWidth(rows[r][i])
    <3>1. c \in [1 .. k -> Nat]
      BY <2>1, <2>2
    <3> QED
      BY <2>2, <3>1
  <2>4. c # <<>>
    BY <1>2, <2>3
  <2>5. PICK j : IsWidest(c, j)
    BY <2>3, <2>4, WidestIs
  <2>6. PICK ws : ws = {DispWidth(rows[r][i]) : r \in DOMAIN rows}
    OBVIOUS
  <2>7. c[j] \in ws /\ \A v \in ws : v <= c[j]
    <3>1. j \in 1 .. k /\ \A r \in 1 .. k : c[r] <= c[j]
      BY <2>3, <2>5 DEF IsWidest
    <3> QED
      BY <1>2, <2>3, <2>6, <3>1
  <2>8. Widest(i) = CHOOSE w \in ws : \A v \in ws : v <= w
    BY <2>6
  <2>9. Widest(i) \in ws /\ \A v \in ws : v <= Widest(i)
    <3> HIDE DEF Widest
    <3> QED
      BY <2>7, <2>8
  <2>10. ws \subseteq Nat
    BY <1>2, <2>1, <2>6
  <2>11. \A r \in 1 .. k : DispWidth(rows[r][i]) \in ws
    BY <1>2, <2>6
  <2> HIDE DEF Widest
  <2> QED
    BY <2>9, <2>10, <2>11
<1> HIDE DEF Widest
<1>4. cw \in Seq(Nat) /\ Len(cw) = n
  <2>1. cw \in [1 .. n -> Nat]
    BY <1>3
  <2>2. cw \in Seq(Nat) /\ Len(cw) = n
    BY <2>1
  <2> HIDE DEF cw
  <2> QED
    BY <2>2
<1>5. PICK w \in Nat : w = width
  OBVIOUS
<1>6. PICK budget \in Nat : budget = IF w > 3 * n + 1 THEN w - (3 * n + 1) ELSE 0
  <2> HIDE DEF cw
  <2>1. CASE w > 3 * n + 1
    BY <2>1
  <2>2. CASE ~(w > 3 * n + 1)
    BY <2>2
  <2> QED
    BY <2>1, <2>2
<1>7. PICK over \in Int : over = SeqSum(cw) - budget
  <2> HIDE DEF cw
  <2> QED
    BY <1>4, SumType
<1>8. TableColumns(rows) = IF over <= 0 THEN cw
                           ELSE IF budget >= n THEN Shrinking([j \in 1 .. over |-> j], cw, budget)
                           ELSE SubSeq(cw, 1, DropColumns(cw))
  <2>1. Len(rows[1]) = n
    BY <1>2
  <2>2. cw = [i \in 1 .. n |-> LET ws == {DispWidth(rows[r][i]) : r \in DOMAIN rows}
                              IN CHOOSE x \in ws : \A v \in ws : v <= x]
    BY DEF Widest
  <2>3. PICK c : c = cw
    OBVIOUS
  <2> HIDE DEF cw
  <2> QED
    BY <1>5, <1>6, <1>7, <2>1, <2>2 DEF TableColumns, Shrinking, Over
<1> HIDE DEF cw
<1>9. \A r \in 1 .. k, i \in 1 .. n : DispWidth(rows[r][i]) <= cw[i]
  <2>1. \A i \in 1 .. n : cw[i] = Widest(i)
    BY DEF cw
  <2> QED
    BY <1>3, <2>1
<1> QED
  BY <1>1, <1>4, <1>5, <1>6, <1>7, <1>8, <1>9 DEF ColumnsFrom

LEMMA ColumnsFit ==
  ASSUME width \in Nat, NEW rows \in Seq(Seq(Txt)), rows # <<>>,
         NEW n \in Nat, n >= 1, \A r \in 1 .. Len(rows) : Len(rows[r]) = n
  PROVE  ColumnsOk(TableColumns(rows), n)
<1>1. PICK w \in Nat : w = width
  OBVIOUS
<1>2. PICK cw \in Seq(Nat), budget \in Nat, over \in Int : ColumnsFrom(rows, n, cw, budget, over)
  BY ColumnsAre
<1>4. cw \in Seq(Nat) /\ Len(cw) = n /\ cw # <<>>
  <2>1. cw \in Seq(Nat) /\ Len(cw) = n
    BY <1>2 DEF ColumnsFrom
  <2> QED
    BY <2>1
<1>5. w = width
  BY <1>1
<1>6. budget \in Nat /\ budget = IF w > 3 * n + 1 THEN w - (3 * n + 1) ELSE 0
  BY <1>1, <1>2 DEF ColumnsFrom
<1>7. over \in Int /\ over = SeqSum(cw) - budget
  BY <1>2 DEF ColumnsFrom
<1>8. TableColumns(rows) = IF over <= 0 THEN cw
                           ELSE IF budget >= n THEN Shrinking([j \in 1 .. over |-> j], cw, budget)
                           ELSE SubSeq(cw, 1, DropColumns(cw))
  BY <1>2 DEF ColumnsFrom
<1>9. PICK s \in Nat : s = SeqSum(cw)
  BY <1>4, SumType
<1>10. CASE over <= 0
  <2>1. s <= budget
    BY <1>7, <1>9, <1>10
  <2>2. s + 3 * n + 1 <= w \/ w < 4 * n + 1
    BY <1>5, <1>6, <2>1
  <2>3. ColumnsOk(cw, n)
    BY <1>4, <1>5, <1>9, <2>2 DEF ColumnsOk
  <2> QED
    BY <1>8, <1>10, <2>3
<1>11. CASE ~(over <= 0) /\ budget >= n
  <2>1. PICK o \in Nat : o = over
    BY <1>11
  <2>2. SeqSum(cw) = budget + o
    BY <1>7, <1>9, <2>1
  <2>3. PICK c : c = Shrinking([j \in 1 .. o |-> j], cw, budget)
    OBVIOUS
  <2>4. c \in Seq(Nat) /\ Len(c) = Len(cw) /\ SeqSum(c) <= budget
    <3>1. Len(cw) <= budget
      BY <1>4, <1>11
    <3> QED
      BY <1>4, <2>2, <2>3, <3>1, ShrinkReaches
  <2>5. PICK t \in Nat : t = SeqSum(c)
    BY <2>4, SumType
  <2>6. t + 3 * n + 1 <= w \/ w < 4 * n + 1
    BY <1>5, <1>6, <2>4, <2>5
  <2>7. ColumnsOk(c, n)
    BY <1>4, <1>5, <2>4, <2>5, <2>6 DEF ColumnsOk
  <2>8. TableColumns(rows) = c
    BY <1>8, <1>11, <2>1, <2>3
  <2> QED
    BY <2>7, <2>8
<1>12. CASE ~(over <= 0) /\ ~(budget >= n)
  <2>1. PICK keep \in 0 .. n : keep = DropColumns(cw)
    BY <1>4, DropKeeps
  <2>2. PICK c : c = SubSeq(cw, 1, keep)
    OBVIOUS
  <2>3. c \in Seq(Nat) /\ Len(c) = IF 1 <= keep THEN keep - 1 + 1 ELSE 0
    <3>1. \A i \in 1 .. keep : cw[i] \in Nat
      BY <1>4
    <3> QED
      BY <2>2, <3>1, SubSeqProperties
  <2>4. Len(c) <= n
    BY <2>3
  <2>5. width < 4 * n + 1
    BY <1>5, <1>6, <1>12
  <2>6. ColumnsOk(c, n)
    BY <2>3, <2>4, <2>5 DEF ColumnsOk
  <2> QED
    BY <1>8, <1>12, <2>1, <2>2, <2>6
<1> QED
  BY <1>10, <1>11, <1>12

LEMMA TableLineFits ==
  ASSUME NEW w \in Nat, NEW n \in Nat, NEW frame \in Nat, frame <= w \/ w < 4 * n + 1,
         NEW shown \in Txt, DispWidth(shown) <= frame, NEW mark \in BOOLEAN
  PROVE  Line("table", frame - DispWidth(shown), mark, shown) \in Fitting(w, n)
<1>1. PICK d \in Nat : d = DispWidth(shown)
  BY DispType
<1>2. PICK pre \in Nat : pre = frame - d
  BY <1>1
<1>3. PICK l : l = Line("table", pre, mark, shown)
  OBVIOUS
<1>4. Made(l, "table", pre, shown)
  <2>1. "table" \in LineKinds /\ pre \in Int
    BY DEF LineKinds
  <2> QED
    BY <1>3, <2>1, MakeLine
<1>5. l.pre = pre
  BY <1>3 DEF Line
<1>6. l \in LineSet /\ l.kind = "table" /\ LineWidth(l) = frame
  BY <1>1, <1>2, <1>4 DEF Made
<1>7. FitsIn(l, w, n)
  BY <1>5, <1>6 DEF FitsIn
<1> QED
  BY <1>1, <1>2, <1>3, <1>6, <1>7 DEF Fitting

LEMMA RenderFits ==
  ASSUME width \in Nat, NEW head \in Seq(Txt), NEW body, Rows(head, body)
  PROVE  RenderTable(head, body) \in Seq(Fitting(width, Len(head)))
<1>1. PICK n \in Nat : n = Len(head)
  OBVIOUS
<1>2. PICK L : L = Fitting(width, n)
  OBVIOUS
<1>3. body \in Seq(Seq(Txt)) /\ \A r \in 1 .. Len(body) : Len(body[r]) = n
  BY <1>1 DEF Rows
<1>4. CASE head = <<>>
  <2>1. RenderTable(head, body) = <<>>
    BY <1>4 DEF RenderTable
  <2>2. <<>> \in Seq(L)
    OBVIOUS
  <2> QED
    BY <1>1, <1>2, <2>1, <2>2
<1>5. CASE head # <<>>
  <2>1. n >= 1
    BY <1>1, <1>5
  <2>2. PICK rows : rows = <<head>> \o body
    OBVIOUS
  <2>3. /\ rows \in Seq(Seq(Txt)) /\ rows # <<>>
        /\ \A r \in 1 .. Len(rows) : Len(rows[r]) = n
    <3>1. PICK R : R = Seq(Txt)
      OBVIOUS
    <3>2. PICK h : h = <<head>>
      OBVIOUS
    <3>3. h \in Seq(R) /\ Len(h) = 1 /\ h[1] = head /\ body \in Seq(R)
      BY <1>3, <3>1, <3>2
    <3>4. PICK k \in Nat : k = Len(body)
      BY <3>3
    <3>5. /\ rows \in Seq(R) /\ Len(rows) = 1 + k
          /\ \A i \in 1 .. 1 + k : rows[i] = IF i <= 1 THEN h[i] ELSE body[i - 1]
      BY <2>2, <3>2, <3>3, <3>4, ConcatProperties
    <3>6. ASSUME NEW r \in 1 .. 1 + k PROVE Len(rows[r]) = n
      <4>1. CASE r = 1
        BY <1>1, <3>3, <3>5, <4>1
      <4>2. CASE r # 1
        <5>1. r - 1 \in 1 .. Len(body) /\ rows[r] = body[r - 1]
          BY <3>4, <3>5, <4>2
        <5> QED
          BY <1>3, <5>1
      <4> QED
        BY <4>1, <4>2
    <3>7. rows # <<>>
      BY <3>5
    <3> QED
      BY <3>1, <3>5, <3>6, <3>7
  <2>4. PICK cols : cols = TableColumns(rows)
    OBVIOUS
  <2>5. ColumnsOk(cols, n)
    BY <2>1, <2>3, <2>4, ColumnsFit
  <2>6. cols \in Seq(Nat)
    BY <2>5 DEF ColumnsOk
  <2>7. PICK c \in Nat, s \in Nat : c = Len(cols) /\ s = SeqSum(cols)
    BY <2>6, SumType
  <2>8. c <= n /\ DOMAIN cols = 1 .. c /\ \A i \in 1 .. c : cols[i] \in Nat
    BY <2>5, <2>6, <2>7 DEF ColumnsOk
  <2>9. (c = n /\ s + 3 * n + 1 <= width) \/ width < 4 * n + 1
    BY <2>5, <2>7 DEF ColumnsOk
  <2> DEFINE cut == Len(cols) < Len(head)
  <2>10. PICK frame \in Nat : frame = SeqSum(cols) + 3 * Len(cols) + 1 + (IF cut THEN 1 ELSE 0)
    <3>1. s + 3 * c + 1 + (IF cut THEN 1 ELSE 0) \in Nat
      OBVIOUS
    <3> QED
      BY <2>7, <3>1
  <2>11. s <= frame /\ (frame <= width \/ width < 4 * n + 1)
    <3>1. cut <=> c < n
      BY <1>1, <2>7
    <3>2. frame = s + 3 * c + 1 + (IF c < n THEN 1 ELSE 0)
      BY <2>7, <2>10, <3>1
    <3> QED
      BY <2>9, <3>2
  <2>12. cut \in BOOLEAN
    OBVIOUS
  <2> DEFINE Border == Line("table", frame, FALSE, <<>>)
             Shown(cells) == FlattenSeq([i \in DOMAIN cols |-> FitCell(cells[i], cols[i])])
             DataRow(cells) == Line("table", frame - DispWidth(Shown(cells)), cut, Shown(cells))
  <2> HIDE DEF cut
  <2>13. Border \in L
    <3>1. frame - DispWidth(<<>>) = frame /\ DispWidth(<<>>) <= frame /\ FALSE \in BOOLEAN
      BY DispEmpty
    <3>2. \A b \in BOOLEAN : Line("table", frame - DispWidth(<<>>), b, <<>>) \in L
      BY <1>2, <2>11, <3>1, DispEmpty, TableLineFits
    <3> QED
      BY <3>1, <3>2
  <2>14. ASSUME NEW cells \in Seq(Txt), Len(cells) = n PROVE DataRow(cells) \in L
    <3>1. ASSUME NEW i \in 1 .. c PROVE Narrow(FitCell(cells[i], cols[i]), cols[i])
      <4>1. cells[i] \in Txt
        BY <2>8, <2>14
      <4> QED
        BY <2>8, <4>1, CellFits
    <3>2. PICK ss : ss = [i \in 1 .. c |-> FitCell(cells[i], cols[i])]
      OBVIOUS
    <3>3. ss \in Seq(Txt) /\ Len(ss) = c /\ \A i \in 1 .. c : DispWidth(ss[i]) <= cols[i]
      <4>1. \A i \in 1 .. c : FitCell(cells[i], cols[i]) \in Txt /\ DispWidth(FitCell(cells[i], cols[i])) <= cols[i]
        BY <3>1 DEF Narrow
      <4>2. ss \in [1 .. c -> Txt]
        BY <3>2, <4>1
      <4>3. ss \in Seq(Txt) /\ Len(ss) = c
        BY <4>2
      <4> QED
        BY <3>2, <4>1, <4>3
    <3>4. PICK shown : shown = FlattenSeq(ss)
      OBVIOUS
    <3>5. Narrow(shown, SeqSum(cols))
      BY <2>6, <2>7, <3>3, <3>4, RowFits
    <3>6. shown \in Txt /\ DispWidth(shown) <= s
      BY <2>7, <3>5 DEF Narrow
    <3>7. DispWidth(shown) <= frame
      <4>1. PICK d \in Nat : d = DispWidth(shown)
        BY <3>6, DispType
      <4> QED
        BY <2>11, <3>6, <4>1
    <3>8. Line("table", frame - DispWidth(shown), cut, shown) \in L
      BY <1>2, <2>11, <2>12, <3>6, <3>7, TableLineFits
    <3>9. Shown(cells) = shown
      BY <2>8, <3>2, <3>4
    <3> HIDE DEF Shown
    <3> QED
      BY <3>8, <3>9
  <2>15. RenderTable(head, body) = (<<Border, DataRow(head), Border>>
                                    \o [r \in DOMAIN body |-> DataRow(body[r])]) \o <<Border>>
    BY <1>5, <2>2, <2>4, <2>10 DEF RenderTable, cut
  <2> HIDE DEF Border, DataRow
  <2>16. <<Border, DataRow(head), Border>> \in Seq(L) /\ <<Border>> \in Seq(L)
    <3>1. PICK x \in L, y \in L : x = Border /\ y = DataRow(head)
      BY <1>1, <2>13, <2>14
    <3>2. <<x, y, x>> \in Seq(L) /\ <<x>> \in Seq(L)
      OBVIOUS
    <3> QED
      BY <3>1, <3>2
  <2>17. [r \in DOMAIN body |-> DataRow(body[r])] \in Seq(L)
    <3>1. PICK k \in Nat : k = Len(body) /\ DOMAIN body = 1 .. k
      BY <1>3
    <3>2. \A r \in 1 .. k : body[r] \in Seq(Txt) /\ Len(body[r]) = n
      BY <1>3, <3>1
    <3>3. \A r \in 1 .. k : DataRow(body[r]) \in L
      BY <2>14, <3>2
    <3>4. [r \in 1 .. k |-> DataRow(body[r])] \in [1 .. k -> L]
      BY <3>3
    <3>5. \A t \in [1 .. k -> L] : t \in Seq(L)
      OBVIOUS
    <3> QED
      BY <3>1, <3>4, <3>5
  <2>18. RenderTable(head, body) \in Seq(L)
    <3>1. PICK x \in Seq(L), y \in Seq(L), z \in Seq(L) :
            /\ x = <<Border, DataRow(head), Border>>
            /\ y = [r \in DOMAIN body |-> DataRow(body[r])] /\ z = <<Border>>
      BY <2>16, <2>17
    <3>2. x \o y \in Seq(L)
      BY ConcatProperties
    <3>3. (x \o y) \o z \in Seq(L)
      BY <3>2, ConcatProperties
    <3> QED
      BY <2>15, <3>1, <3>3
  <2> QED
    BY <1>1, <1>2, <2>18
<1> QED
  BY <1>4, <1>5

-----------------------------------------------------------------------------
\* The document

TagKinds == {"doc", "heading", "para", "code", "quote", "list", "item", "link",
             "table", "head", "row", "cell"}
Tag == [k : TagKinds, tight : BOOLEAN]
Has(o, k) == \E i \in 1 .. Len(o) : o[i].k = k

\* A tag whose content is cells or text holds no block and no second head.
Opened(o) ==
  /\ o \in Seq(Tag) /\ Len(o) >= 1 /\ o[1].k = "doc"
  /\ \A i, j \in 1 .. Len(o) : i < j /\ o[i].k \in {"head", "cell", "link"} => o[j].k \in {"cell", "link"}

\* The one table: rows as wide as the head, and none before the head ends.
TableInv ==
  /\ Rows(md.head, md.rows)
  /\ md.head = <<>> => md.rows = <<>>
  /\ Has(open, "row") => md.head # <<>>
  /\ Has(open, "head") \/ last = "table" => md.head = <<>>

PageInv ==
  /\ width \in Nat /\ texts \in Nat
  /\ md \in Pages(Fitting(width, Len(md.head)))
  /\ Opened(open)
  /\ TableInv

LEMMA Pushed ==
  ASSUME NEW o, Opened(o), NEW k \in TagKinds, NEW tight \in BOOLEAN,
         k \in {"cell", "link"} \/ Last(o).k \notin {"head", "cell", "link"}
  PROVE  /\ Opened(Append(o, [k |-> k, tight |-> tight]))
         /\ \A j \in TagKinds \ {k} : Has(Append(o, [k |-> k, tight |-> tight]), j) => Has(o, j)
<1>1. PICK t \in Tag : t = [k |-> k, tight |-> tight]
  BY DEF Tag
<1>2. o \in Seq(Tag) /\ Len(o) >= 1 /\ o[1].k = "doc"
  BY DEF Opened
<1>3. PICK n \in Nat : n = Len(o)
  BY <1>2
<1>4. PICK p : p = Append(o, t)
  OBVIOUS
<1>5. p \in Seq(Tag) /\ Len(p) = n + 1 /\ p[n + 1] = t /\ \A i \in 1 .. n : p[i] = o[i]
  BY <1>2, <1>3, <1>4, AppendProperties
<1>6. p[1].k = "doc" /\ Len(p) >= 1
  BY <1>2, <1>3, <1>5
<1>7. t.k = k
  BY <1>1
<1>8. \A i, j \in 1 .. n : i < j /\ o[i].k \in {"head", "cell", "link"} => o[j].k \in {"cell", "link"}
  BY <1>3 DEF Opened
<1>9. Last(o) = o[n]
  BY <1>3 DEF Last
<1>10. ASSUME NEW i \in 1 .. n + 1, NEW j \in 1 .. n + 1, i < j, p[i].k \in {"head", "cell", "link"}
       PROVE  p[j].k \in {"cell", "link"}
  <2>1. i \in 1 .. n /\ p[i] = o[i]
    BY <1>5, <1>10
  <2>2. CASE j <= n
    <3>1. j \in 1 .. n /\ p[j] = o[j]
      BY <1>5, <2>2
    <3> QED
      BY <1>8, <1>10, <2>1, <3>1
  <2>3. CASE j = n + 1 /\ k \in {"cell", "link"}
    BY <1>5, <1>7, <2>3
  <2>4. CASE Last(o).k \notin {"head", "cell", "link"}
    <3>1. n \in 1 .. n
      BY <2>1
    <3>2. CASE i = n
      BY <1>9, <1>10, <2>1, <2>4, <3>2
    <3>3. CASE i < n
      <4>1. o[n].k \in {"cell", "link"}
        BY <1>8, <1>10, <2>1, <3>1, <3>3
      <4> QED
        BY <1>9, <2>4, <4>1
    <3> QED
      BY <2>1, <3>2, <3>3
  <2> QED
    BY <2>2, <2>3, <2>4
<1>11. Opened(p)
  BY <1>5, <1>6, <1>10 DEF Opened
<1>12. ASSUME NEW j \in TagKinds \ {k}, Has(p, j) PROVE Has(o, j)
  <2>1. PICK i \in 1 .. n + 1 : p[i].k = j
    BY <1>5, <1>12 DEF Has
  <2>2. i # n + 1
    BY <1>5, <1>7, <2>1
  <2> QED
    BY <1>3, <1>5, <2>1, <2>2 DEF Has
<1> QED
  BY <1>1, <1>4, <1>11, <1>12

LEMMA Popped ==
  ASSUME NEW o, Opened(o), Last(o).k # "doc"
  PROVE  /\ Opened(Front(o))
         /\ \A j \in TagKinds : Has(Front(o), j) => Has(o, j)
         /\ Last(o).k = "head" => ~Has(Front(o), "head")
<1>1. o \in Seq(Tag) /\ Len(o) >= 1 /\ o[1].k = "doc"
  BY DEF Opened
<1>2. PICK n \in Nat : n = Len(o)
  BY <1>1
<1>3. Last(o) = o[n] /\ n > 1
  BY <1>1, <1>2 DEF Last
<1>4. PICK m \in Nat : m = n - 1
  BY <1>3
<1>5. PICK p : p = SubSeq(o, 1, m)
  OBVIOUS
<1>6. Front(o) = p
  BY <1>2, <1>4, <1>5 DEF Front
<1>7. p \in Seq(Tag) /\ Len(p) = m /\ \A i \in 1 .. m : p[i] = o[i]
  <2>1. \A i \in 1 .. m : o[i] \in Tag
    BY <1>1, <1>2, <1>4
  <2>2. 1 <= m
    BY <1>3, <1>4
  <2> QED
    BY <1>5, <2>1, <2>2, SubSeqProperties
<1>8. \A i, j \in 1 .. n : i < j /\ o[i].k \in {"head", "cell", "link"} => o[j].k \in {"cell", "link"}
  BY <1>2 DEF Opened
<1>9. \A i \in 1 .. m : i \in 1 .. n /\ i < n
  BY <1>3, <1>4
<1>10. Opened(p)
  <2>1. 1 <= m
    BY <1>3, <1>4
  <2>2. p[1].k = "doc" /\ Len(p) >= 1
    BY <1>1, <1>7, <2>1
  <2>3. \A i, j \in 1 .. m : i < j /\ p[i].k \in {"head", "cell", "link"} => p[j].k \in {"cell", "link"}
    BY <1>7, <1>8, <1>9
  <2> QED
    BY <1>7, <2>2, <2>3 DEF Opened
<1>11. ASSUME NEW j, Has(p, j) PROVE Has(o, j)
  BY <1>2, <1>7, <1>9, <1>11 DEF Has
<1>12. ASSUME Last(o).k = "head" PROVE ~Has(p, "head")
  <2>1. \A i \in 1 .. m : o[i].k # "head"
    <3>1. n \in 1 .. n
      BY <1>3
    <3>2. o[n].k = "head"
      BY <1>3, <1>12
    <3>3. ASSUME NEW i \in 1 .. m, o[i].k = "head" PROVE FALSE
      <4>1. o[n].k \in {"cell", "link"}
        BY <1>8, <1>9, <3>1, <3>3
      <4> QED
        BY <3>2, <4>1
    <3> QED
      BY <3>3
  <2> QED
    BY <1>7, <2>1 DEF Has
<1> QED
  BY <1>6, <1>10, <1>11, <1>12

LEMMA TableWrites ==
  ASSUME width \in Nat, NEW m, NEW L, L = Fitting(width, Len(m.head)), m \in Pages(L),
         Rows(m.head, m.rows)
  PROVE  Writes(m, EmitTable(m), L)
<1>1. m.head \in Seq(Txt)
  BY DEF Pages
<1>2. PICK n \in Nat : n = Len(m.head)
  BY <1>1
<1>3. BlankLine \in L
  BY <1>2, OtherLinesFit
<1>4. PICK ls : ls = RenderTable(m.head, m.rows)
  OBVIOUS
<1>5. ls \in Seq(L)
  BY <1>1, <1>4, RenderFits
<1>6. PICK a : a = [m EXCEPT !.out = @ \o ls]
  OBVIOUS
<1>7. Writes(m, a, L)
  BY <1>5, <1>6, AppendWrites
<1>8. PICK b : b = [m EXCEPT !.out = @ \o ls, !.inTable = FALSE]
  OBVIOUS
<1>9. b = [a EXCEPT !.inTable = FALSE]
  BY <1>6, <1>8 DEF Pages
<1>10. Writes(a, b, L) /\ b \in Pages(L)
  BY <1>7, <1>9 DEF Writes, Pages
<1>11. Writes(b, BlankAfter(b), L)
  BY <1>3, <1>10, BlankWrites
<1>12. Writes(m, b, L)
  BY <1>7, <1>10, WritesOn
<1>13. EmitTable(m) = BlankAfter(b)
  BY <1>4, <1>8 DEF EmitTable
<1> QED
  BY <1>11, <1>12, <1>13, WritesOn

LEMMA TrimmedFits ==
  ASSUME NEW w \in Nat, NEW n \in Nat, NEW o \in Seq(Fitting(w, n))
  PROVE  Trimmed(o) \in Seq(Fitting(w, n))
<1>1. PICK L : L = Fitting(w, n)
  OBVIOUS
<1>2. PICK k \in Nat : k = Len(o)
  OBVIOUS
<1>3. DOMAIN o = 1 .. k /\ \A i \in 1 .. k : o[i] \in L
  BY <1>1, <1>2
<1>4. \A T \in SUBSET (1 .. k) : Cardinality(T) \in Nat
  <2>1. IsFiniteSet(1 .. k)
    BY FS_Interval
  <2>2. ASSUME NEW T \in SUBSET (1 .. k) PROVE Cardinality(T) \in Nat
    <3>1. IsFiniteSet(T)
      BY <2>1, FS_Subset
    <3> QED
      BY <3>1, FS_CardinalityType
  <2> QED
    BY <2>2
<1>5. PICK a \in Nat, b \in Nat : a = FirstBlanks(o) /\ b = LastBlanks(o)
  <2>1. {i \in DOMAIN o : \A j \in 1 .. i : IsBlank(o[j])} \in SUBSET (1 .. k)
    BY <1>3
  <2>2. {i \in DOMAIN o : \A j \in i .. Len(o) : IsBlank(o[j])} \in SUBSET (1 .. k)
    BY <1>3
  <2>3. FirstBlanks(o) \in Nat
    BY <1>4, <2>1 DEF FirstBlanks
  <2>4. LastBlanks(o) \in Nat
    BY <1>4, <2>2 DEF LastBlanks
  <2> QED
    BY <2>3, <2>4
<1>6. PICK from \in Int, to \in Int : from = a + 1 /\ to = k - b
  OBVIOUS
<1>7. PICK t : t = SubSeq(o, from, to)
  OBVIOUS
<1>8. t \in Seq(L)
  <2>1. \A i \in from .. to : i \in 1 .. k
    BY <1>6
  <2>2. \A i \in from .. to : o[i] \in L
    BY <1>3, <2>1
  <2> QED
    BY <1>7, <2>2, SubSeqProperties
<1>9. PICK e \in L : e = Line("empty", 4, FALSE, <<>>)
  <2>1. 4 \in Int
    OBVIOUS
  <2>2. Line("empty", 4, FALSE, <<>>) \in L
    BY <1>1, <2>1, OtherLinesFit
  <2> QED
    BY <2>2
<1>10. <<e>> \in Seq(L)
  OBVIOUS
<1>11. Trimmed(o) = IF t = <<>> THEN <<e>> ELSE t
  BY <1>2, <1>5, <1>6, <1>7, <1>9 DEF Trimmed
<1> QED
  BY <1>1, <1>8, <1>10, <1>11

\* A step that leaves the table as it is.
Steady ==
  /\ width' = width /\ texts' \in Nat /\ Opened(open')
  /\ Has(open', "row") => Has(open, "row")
  /\ Has(open', "head") => Has(open, "head")
  /\ last' = "table" => last = "table"

LEMMA SteadyKeeps ==
  ASSUME PageInv, Steady, Writes(md, md', Fitting(width, Len(md.head)))
  PROVE  PageInv'
<1>1. md'.head = md.head /\ md'.rows = md.rows /\ md' \in Pages(Fitting(width, Len(md.head)))
  BY DEF Writes
<1>2. PICK n : n = Len(md.head)
  OBVIOUS
<1>3. Len(md'.head) = n /\ width' = width /\ texts' \in Nat /\ Opened(open')
  BY <1>1, <1>2 DEF Steady
<1>4. TableInv'
  BY <1>1 DEF PageInv, TableInv, Steady, Rows
<1>5. width' \in Nat
  BY <1>3 DEF PageInv
<1> QED
  BY <1>1, <1>2, <1>3, <1>4, <1>5 DEF PageInv

LEMMA TagStarts ==
  ASSUME PageInv, NEW k \in TagKinds, NEW tight \in BOOLEAN, StartTag(k, tight),
         k \in {"cell", "link"} \/ Top.k \notin {"head", "cell", "link"}
  PROVE  Opened(open') /\ \A j \in TagKinds \ {k} : Has(open', j) => Has(open, j)
<1>1. open' = Append(open, [k |-> k, tight |-> tight])
  BY DEF StartTag
<1>2. Opened(open) /\ (k \in {"cell", "link"} \/ Last(open).k \notin {"head", "cell", "link"})
  BY DEF PageInv, Top
<1> QED
  BY <1>1, <1>2, Pushed

LEMMA BlockStarts ==
  ASSUME PageInv, NEW k \in TagKinds \ {"table", "head", "row"}, NEW tight \in BOOLEAN,
         StartBlock(k, tight)
  PROVE  Steady
<1>1. StartTag(k, tight) /\ Top.k \in {"doc", "quote", "item"} /\ width' = width /\ texts' = texts
  BY DEF StartBlock, In
<1>2. Opened(open') /\ \A j \in TagKinds \ {k} : Has(open', j) => Has(open, j)
  BY <1>1, TagStarts
<1>3. last' # "table"
  BY <1>1 DEF StartTag
<1>4. "row" \in TagKinds \ {k} /\ "head" \in TagKinds \ {k}
  BY DEF TagKinds
<1> QED
  BY <1>1, <1>2, <1>3, <1>4 DEF Steady, PageInv

LEMMA InnerStarts ==
  ASSUME PageInv, NEW k \in {"cell", "link"}, NEW within, InnerTag(k, within)
  PROVE  Steady
<1>1. StartTag(k, FALSE) /\ width' = width /\ texts' = texts
  BY DEF InnerTag
<1>2. k \in TagKinds /\ FALSE \in BOOLEAN /\ "row" \in TagKinds \ {k} /\ "head" \in TagKinds \ {k}
  BY DEF TagKinds
<1>3. Opened(open') /\ \A j \in TagKinds \ {k} : Has(open', j) => Has(open, j)
  BY <1>1, <1>2, TagStarts, Zenon
<1>4. last' # "table"
  BY <1>1 DEF StartTag
<1> QED
  BY <1>1, <1>2, <1>3, <1>4 DEF Steady, PageInv

LEMMA TagEnds ==
  ASSUME PageInv, NEW k \in TagKinds \ {"doc"}, EndTag(k)
  PROVE  Steady /\ (k = "head" => ~Has(open', "head"))
<1>1. Last(open).k = k /\ open' = Front(open) /\ width' = width /\ texts' = texts
  BY DEF EndTag, In, Top
<1>2. Opened(open)
  BY DEF PageInv
<1>3. /\ Opened(open') /\ \A j \in TagKinds : Has(open', j) => Has(open, j)
      /\ k = "head" => ~Has(open', "head")
  BY <1>1, <1>2, Popped
<1>4. last' # "table"
  BY DEF EndTag
<1>5. "row" \in TagKinds /\ "head" \in TagKinds
  BY DEF TagKinds
<1> QED
  BY <1>1, <1>3, <1>4, <1>5 DEF Steady, PageInv

LEMMA NewPage == ASSUME NEW L PROVE NewMd \in Pages(L)
<1>1. <<>> \in Txt /\ <<>> \in Seq(L) /\ <<>> \in Seq(Int) /\ <<>> \in Seq(Txt) /\ <<>> \in Seq(Seq(Txt))
  <2>1. ASSUME NEW S PROVE <<>> \in Seq(S)
    OBVIOUS
  <2> QED
    BY <2>1, DispEmpty
<1>2. PICK e : e = <<>>
  OBVIOUS
<1>3. 0 \in Int /\ FALSE \in BOOLEAN
  OBVIOUS
<1> QED
  BY <1>1, <1>3 DEF NewMd, Pages

LEMMA OneTag ==
  ASSUME NEW t \in Tag, t.k = "doc"
  PROVE  Opened(<<t>>) /\ ~Has(<<t>>, "row") /\ ~Has(<<t>>, "head")
<1>1. PICK o : o = <<t>>
  OBVIOUS
<1>2. o \in Seq(Tag) /\ Len(o) = 1 /\ o[1] = t
  BY <1>1
<1>3. \A i \in 1 .. 1 : i = 1
  OBVIOUS
<1> QED
  BY <1>1, <1>2, <1>3 DEF Opened, Has

LEMMA NoRows == ASSUME NEW h PROVE Rows(h, <<>>)
<1>1. PICK r : r = <<>>
  OBVIOUS
<1>2. r \in Seq(Seq(Txt)) /\ Len(r) = 0
  BY <1>1
<1> QED
  BY <1>1, <1>2 DEF Rows

LEMMA PageInitEstablishes == ASSUME MdInit PROVE PageInv
<1>1. width \in Nat
  <2>1. PICK w \in Nat : width = IF w > 8 THEN w ELSE 8
    BY DocumentAssumption DEF MdInit
  <2>2. (IF w > 8 THEN w ELSE 8) \in Nat
    OBVIOUS
  <2> QED
    BY <2>1, <2>2
<1>2. texts = 0 /\ last = "start" /\ md = NewMd
  BY DEF MdInit
<1>3. PICK t \in Tag : t = [k |-> "doc", tight |-> FALSE]
  BY DEF Tag, TagKinds
<1>4. PICK o : o = <<t>>
  OBVIOUS
<1>5. t.k = "doc"
  BY <1>3
<1>6. Opened(o) /\ ~Has(o, "row") /\ ~Has(o, "head")
  BY <1>4, <1>5, OneTag
<1>7. open = o
  BY <1>3, <1>4 DEF MdInit
<1>8. md.head = <<>> /\ md.rows = <<>>
  BY <1>2 DEF NewMd
<1>9. TableInv
  <2>1. Rows(md.head, md.rows)
    BY <1>8, NoRows
  <2> QED
    BY <1>2, <1>6, <1>7, <1>8, <2>1 DEF TableInv
<1>10. md \in Pages(Fitting(width, Len(md.head))) /\ 0 \in Nat
  BY <1>2, NewPage
<1> QED
  BY <1>1, <1>2, <1>6, <1>7, <1>9, <1>10 DEF PageInv

LEMMA PageStutterKeeps == ASSUME PageInv, UNCHANGED mdVars PROVE PageInv'
  BY DEF PageInv, mdVars, TableInv

\* The page as it is.
OnPage(n, L) ==
  n = Len(md.head) /\ L = Fitting(width, n) /\ width \in Nat /\ md \in Pages(L) /\ BlankLine \in L

LEMMA PageNow == ASSUME PageInv PROVE \E n \in Nat : \E L : OnPage(n, L)
<1>1. PICK L : L = Fitting(width, Len(md.head))
  OBVIOUS
<1>2. md \in Pages(L) /\ width \in Nat
  BY <1>1 DEF PageInv
<1>3. md.head \in Seq(Txt)
  BY <1>2 DEF Pages
<1>4. PICK n \in Nat : n = Len(md.head)
  BY <1>3
<1>5. BlankLine \in L
  BY <1>1, <1>2, <1>4, OtherLinesFit
<1> QED
  BY <1>1, <1>2, <1>4, <1>5 DEF OnPage

LEMMA WritingFits ==
  ASSUME PageInv, NEW n, NEW L, OnPage(n, L), Steady, Writes(md, md', L)
  PROVE  PageInv'
  BY SteadyKeeps DEF OnPage

LEMMA HeadingKeeps == ASSUME PageInv, StartHeading \/ EndHeading PROVE PageInv'
<1>1. PICK n \in Nat : \E L : OnPage(n, L)
  BY PageNow
<1>2. PICK L : OnPage(n, L)
  BY <1>1
<1>3. "heading" \in TagKinds \ {"table", "head", "row"} /\ FALSE \in BOOLEAN /\ "heading" \in TagKinds \ {"doc"}
  BY DEF TagKinds
<1>4. CASE StartHeading
  <2>1. Steady
    BY <1>3, <1>4, BlockStarts, Zenon DEF StartHeading
  <2>2. Writes(md, md', L)
    BY <1>2, <1>4 DEF OnPage, StartHeading, Writes
  <2> QED
    BY <1>2, <2>1, <2>2, WritingFits
<1>5. CASE EndHeading
  <2>1. Steady
    BY <1>3, <1>5, TagEnds, Zenon DEF EndHeading
  <2>2. Writes(md, md', L)
    BY <1>2, <1>5, HeadingWrites DEF OnPage, EndHeading
  <2> QED
    BY <1>2, <2>1, <2>2, WritingFits
<1> QED
  BY <1>4, <1>5

LEMMA ParaKeeps == ASSUME PageInv, StartPara \/ EndPara PROVE PageInv'
<1>1. PICK n \in Nat : \E L : OnPage(n, L)
  BY PageNow
<1>2. PICK L : OnPage(n, L)
  BY <1>1
<1>3. "para" \in TagKinds \ {"table", "head", "row"} /\ FALSE \in BOOLEAN /\ "para" \in TagKinds \ {"doc"}
  BY DEF TagKinds
<1>4. CASE StartPara
  <2>1. Steady
    BY <1>3, <1>4, BlockStarts, Zenon DEF StartPara
  <2>2. Writes(md, md', L)
    BY <1>2, <1>4 DEF OnPage, StartPara, Writes
  <2> QED
    BY <1>2, <2>1, <2>2, WritingFits
<1>5. CASE EndPara
  <2>1. Steady
    BY <1>3, <1>5, TagEnds, Zenon DEF EndPara
  <2>2. Writes(md, md', L)
    BY <1>2, <1>5, ParaWrites DEF OnPage, EndPara
  <2> QED
    BY <1>2, <2>1, <2>2, WritingFits
<1> QED
  BY <1>4, <1>5

LEMMA CodeKeeps == ASSUME PageInv, (\E lg \in {0, 4} : StartCode(lg)) \/ EndCode PROVE PageInv'
<1>1. PICK n \in Nat : \E L : OnPage(n, L)
  BY PageNow
<1>2. PICK L : OnPage(n, L)
  BY <1>1
<1>3. "code" \in TagKinds \ {"table", "head", "row"} /\ FALSE \in BOOLEAN /\ "code" \in TagKinds \ {"doc"}
  BY DEF TagKinds
<1>4. CASE \E lg \in {0, 4} : StartCode(lg)
  <2>1. PICK lg \in Int : StartCode(lg)
    BY <1>4
  <2>2. Steady
    BY <1>3, <2>1, BlockStarts, Zenon DEF StartCode
  <2>3. <<>> \in Seq(Txt)
    OBVIOUS
  <2>4. Writes(md, md', L)
    BY <1>2, <2>1, <2>3 DEF OnPage, StartCode, Writes, Pages
  <2> QED
    BY <1>2, <2>2, <2>4, WritingFits
<1>5. CASE EndCode
  <2>1. Steady
    BY <1>3, <1>5, TagEnds, Zenon DEF EndCode
  <2>2. PICK k : k = EmitCode(md)
    OBVIOUS
  <2>3. Writes(md, k, L)
    BY <1>2, <2>2, CodeWrites DEF OnPage
  <2>4. md' = [k EXCEPT !.inCode = FALSE]
    BY <1>5, <2>2 DEF EndCode
  <2>5. Writes(md, md', L)
    BY <2>3, <2>4 DEF Writes, Pages
  <2> QED
    BY <1>2, <2>1, <2>5, WritingFits
<1> QED
  BY <1>4, <1>5

LEMMA QuoteKeeps == ASSUME PageInv, StartQuote \/ EndQuote PROVE PageInv'
<1>1. PICK n \in Nat : \E L : OnPage(n, L)
  BY PageNow
<1>2. PICK L : OnPage(n, L)
  BY <1>1
<1>3. "quote" \in TagKinds \ {"table", "head", "row"} /\ FALSE \in BOOLEAN /\ "quote" \in TagKinds \ {"doc"}
  BY DEF TagKinds
<1>4. md \in Pages(L)
  BY <1>2 DEF OnPage
<1>5. PICK q \in Int : q = md.quote
  BY <1>4 DEF Pages
<1>6. q + 1 \in Int /\ q - 1 \in Int
  OBVIOUS
<1>7. \A v \in Int : Writes(md, [md EXCEPT !.quote = v], L)
  BY <1>4 DEF Writes, Pages
<1>8. CASE StartQuote
  <2>1. Steady
    BY <1>3, <1>8, BlockStarts, Zenon DEF StartQuote
  <2>2. md' = [md EXCEPT !.quote = q + 1]
    BY <1>5, <1>8 DEF StartQuote
  <2>3. Writes(md, md', L)
    BY <1>6, <1>7, <2>2
  <2> QED
    BY <1>2, <2>1, <2>3, WritingFits
<1>9. CASE EndQuote
  <2>1. Steady
    BY <1>3, <1>9, TagEnds, Zenon DEF EndQuote
  <2>2. md' = [md EXCEPT !.quote = q - 1]
    BY <1>5, <1>9 DEF EndQuote
  <2>3. Writes(md, md', L)
    BY <1>6, <1>7, <2>2
  <2> QED
    BY <1>2, <2>1, <2>3, WritingFits
<1> QED
  BY <1>8, <1>9

LEMMA FrontIn == ASSUME NEW S, NEW s \in Seq(S) PROVE Front(s) \in Seq(S)
<1>1. PICK k \in Nat : k = Len(s)
  OBVIOUS
<1>2. PICK j \in Int : j = k - 1
  OBVIOUS
<1>3. \A i \in 1 .. j : s[i] \in S
  BY <1>1, <1>2
<1>4. SubSeq(s, 1, j) \in Seq(S)
  BY <1>3, SubSeqProperties
<1> QED
  BY <1>1, <1>2, <1>4 DEF Front

LEMMA ListKeeps ==
  ASSUME PageInv, (\E e \in ListKinds : StartList(e.n, e.tight)) \/ EndList
  PROVE  PageInv'
<1>1. PICK n \in Nat : \E L : OnPage(n, L)
  BY PageNow
<1>2. PICK L : OnPage(n, L)
  BY <1>1
<1>3. "list" \in TagKinds \ {"table", "head", "row"} /\ "list" \in TagKinds \ {"doc"}
  BY DEF TagKinds
<1>4. md \in Pages(L) /\ Writes(md, md, L)
  BY <1>2 DEF OnPage, Writes
<1>5. CASE \E e \in ListKinds : StartList(e.n, e.tight)
  <2>1. PICK e \in ListKinds : StartList(e.n, e.tight)
    BY <1>5
  <2>2. PICK number \in Int, tight \in BOOLEAN : number = e.n /\ tight = e.tight
    BY <2>1, DocumentAssumption
  <2>3. StartList(number, tight)
    BY <2>1, <2>2
  <2>4. Steady
    BY <1>3, <2>3, BlockStarts, Zenon DEF StartList
  <2>5. PICK m : m = IF md.lists # <<>> /\ md.runs # <<>> THEN EmitPara(md) ELSE md
    OBVIOUS
  <2>6. Writes(md, EmitPara(md), L)
    BY <1>2, ParaWrites DEF OnPage
  <2>7. Writes(md, m, L)
    BY <1>4, <2>5, <2>6
  <2>8. md' = [m EXCEPT !.lists = Append(@, number)]
    BY <2>3, <2>5 DEF StartList
  <2>9. Append(m.lists, number) \in Seq(Int)
    <3>1. m.lists \in Seq(Int)
      BY <2>7 DEF Writes, Pages
    <3> QED
      BY <3>1, AppendIs
  <2>10. Writes(md, md', L)
    BY <2>7, <2>8, <2>9 DEF Writes, Pages
  <2> QED
    BY <1>2, <2>4, <2>10, WritingFits
<1>6. CASE EndList
  <2>1. Steady
    BY <1>3, <1>6, TagEnds, Zenon DEF EndList
  <2>2. PICK m : m = [md EXCEPT !.lists = Front(@)]
    OBVIOUS
  <2>3. Front(md.lists) \in Seq(Int)
    <3>1. md.lists \in Seq(Int)
      BY <1>4 DEF Pages
    <3> QED
      BY <3>1, FrontIn
  <2>4. Writes(md, m, L) /\ m \in Pages(L)
    BY <1>4, <2>2, <2>3 DEF Writes, Pages
  <2>5. Writes(m, BlankAfter(m), L)
    BY <1>2, <2>4, BlankWrites DEF OnPage
  <2>6. md' \in {m, BlankAfter(m)}
    BY <1>6, <2>2 DEF EndList
  <2>7. Writes(md, md', L)
    BY <2>4, <2>5, <2>6, WritesOn
  <2> QED
    BY <1>2, <2>1, <2>7, WritingFits
<1> QED
  BY <1>5, <1>6

LEMMA StringsAreTxt == ASSUME NEW s \in Seq(STRING) PROVE s \in Txt
<1>1. STRING \subseteq Character
  BY DEF Character
<1> QED
  BY <1>1, SeqMonotonic DEF Txt

LEMMA TxtGrows == ASSUME NEW s \in Txt, NEW t \in Txt PROVE s \o t \in Txt
  BY ConcatProperties DEF Txt

LEMMA NumeralWidthType == ASSUME NEW n PROVE NumeralWidth(n) \in Int
<1>1. PICK S : S = {k \in 1..9 : 10 ^ k <= n}
  OBVIOUS
<1>2. S \subseteq 1..9
  BY <1>1
<1>3. IsFiniteSet(1..9)
  <2>1. PICK a \in Int, b \in Int : a = 1 /\ b = 9
    OBVIOUS
  <2>2. IsFiniteSet(a .. b)
    BY FS_Interval
  <2> QED
    BY <2>1, <2>2
<1>4. Cardinality(S) \in Nat
  <2>1. IsFiniteSet(S)
    BY <1>2, <1>3, FS_Subset
  <2> QED
    BY <2>1, FS_CardinalityType
<1>5. NumeralWidth(n) = 1 + Cardinality(S)
  BY <1>1 DEF NumeralWidth
<1> QED
  BY <1>4, <1>5

LEMMA ItemKeeps == ASSUME PageInv, StartItem \/ EndItem PROVE PageInv'
<1>1. PICK n \in Nat : \E L : OnPage(n, L)
  BY PageNow
<1>2. PICK L : OnPage(n, L)
  BY <1>1
<1>3. /\ "item" \in TagKinds /\ "item" \in TagKinds \ {"doc"}
      /\ "row" \in TagKinds \ {"item"} /\ "head" \in TagKinds \ {"item"}
  BY DEF TagKinds
<1>4. md \in Pages(L)
  BY <1>2 DEF OnPage
<1>5. CASE StartItem
  <2>1. Top \in Tag
    <3>1. open \in Seq(Tag) /\ Len(open) >= 1
      BY DEF PageInv, Opened
    <3> QED
      BY <3>1 DEF Top, Last
  <2>2. PICK tight \in BOOLEAN : tight = Top.tight
    BY <2>1 DEF Tag
  <2>3. StartTag("item", tight) /\ Top.k = "list" /\ width' = width /\ texts' = texts
    BY <1>5, <2>2 DEF StartItem, In
  <2>4. Top.k \notin {"head", "cell", "link"}
    BY <2>3
  <2>5. Opened(open') /\ \A j \in TagKinds \ {"item"} : Has(open', j) => Has(open, j)
    BY <1>3, <2>3, <2>4, TagStarts
  <2>6. last' # "table"
    BY <2>3 DEF StartTag
  <2>7. Steady
    BY <1>3, <2>3, <2>5, <2>6 DEF Steady, PageInv
  <2>8. PICK s \in Seq(Int) : s = md.lists
    BY <1>4 DEF Pages
  <2>9. PICK k \in Nat : k = Len(s)
    BY <2>8
  <2>10. PICK number : number = Last(s)
    OBVIOUS
  <2>11. PICK v : v = IF number = Bullet THEN number ELSE number + 1
    OBVIOUS
  <2>12. [s EXCEPT ![k] = v] \in Seq(Int)
    <3>1. \A i \in 1 .. k : s[i] \in Int
      BY <2>9
    <3>2. CASE k = 0
      <4>1. [s EXCEPT ![k] = v] = s
        BY <2>9, <3>2
      <4> QED
        BY <4>1
    <3>3. CASE k > 0
      <4>1. number \in Int
        BY <2>9, <2>10, <3>3 DEF Last
      <4>2. v \in Int
        BY <2>11, <4>1
      <4>3. [s EXCEPT ![k] = v] \in [1 .. k -> Int]
        <5>1. s \in [1 .. k -> Int]
          BY <2>9
        <5>2. \A f \in [1 .. k -> Int] : [f EXCEPT ![k] = v] \in [1 .. k -> Int]
          BY <4>2
        <5> QED
          BY <5>1, <5>2
      <4>4. \A f \in [1 .. k -> Int] : f \in Seq(Int)
        OBVIOUS
      <4> QED
        BY <4>3, <4>4
    <3> QED
      BY <3>2, <3>3
  <2>13. MarkerWidth(Len(md.lists) - 1, number) \in Int
    <3>1. PICK d \in Int : d = k - 1
      OBVIOUS
    <3>2. PICK e \in Int : e = IF number = Bullet THEN 2 ELSE NumeralWidth(number) + 2
      <4>1. PICK digits \in Int : digits = NumeralWidth(number)
        BY NumeralWidthType
      <4> QED
        BY <4>1
    <3>3. MarkerWidth(d, number) = 2 * d + e
      BY <3>2 DEF MarkerWidth
    <3> QED
      BY <2>8, <2>9, <3>1, <3>3
  <2>14. md' = [md EXCEPT !.marker = MarkerWidth(Len(md.lists) - 1, number), !.lists = [s EXCEPT ![k] = v]]
    BY <1>4, <1>5, <2>8, <2>9, <2>10, <2>11 DEF StartItem, Pages
  <2>15. Writes(md, md', L)
    BY <1>4, <2>12, <2>13, <2>14 DEF Writes, Pages
  <2> QED
    BY <1>2, <2>7, <2>15, WritingFits
<1>6. CASE EndItem
  <2>1. Steady
    BY <1>3, <1>6, TagEnds, Zenon DEF EndItem
  <2>2. Writes(md, md', L)
    BY <1>2, <1>6, ParaWrites DEF OnPage, EndItem
  <2> QED
    BY <1>2, <2>1, <2>2, WritingFits
<1> QED
  BY <1>5, <1>6

LEMMA LinkKeeps == ASSUME PageInv, StartLink \/ EndLink PROVE PageInv'
<1>1. PICK n \in Nat : \E L : OnPage(n, L)
  BY PageNow
<1>2. PICK L : OnPage(n, L)
  BY <1>1
<1>3. "link" \in {"cell", "link"} /\ "link" \in TagKinds \ {"doc"}
  BY DEF TagKinds
<1>4. md \in Pages(L)
  BY <1>2 DEF OnPage
<1>5. CASE StartLink
  <2>1. InnerTag("link", {Top.k}) /\ md' = [md EXCEPT !.link = TRUE]
    BY <1>5 DEF StartLink
  <2>2. Steady
    BY <1>3, <2>1, InnerStarts, Zenon
  <2>3. Writes(md, md', L)
    BY <1>4, <2>1 DEF Writes, Pages
  <2> QED
    BY <1>2, <2>2, <2>3, WritingFits
<1>6. CASE EndLink
  <2>1. Steady
    BY <1>3, <1>6, TagEnds, Zenon DEF EndLink
  <2>2. md.runs \o Url \in Txt
    <3>1. Url \in Txt
      BY DocumentAssumption, StringsAreTxt
    <3>2. md.runs \in Txt
      BY <1>4 DEF Pages
    <3> QED
      BY <3>1, <3>2, TxtGrows
  <2>3. md' = [md EXCEPT !.runs = md.runs \o Url]
    BY <1>6 DEF EndLink
  <2>4. Writes(md, md', L)
    BY <1>4, <2>2, <2>3 DEF Writes, Pages
  <2> QED
    BY <1>2, <2>1, <2>4, WritingFits
<1> QED
  BY <1>5, <1>6

LEMMA TextKeeps == ASSUME PageInv, Text \/ SoftBreak PROVE PageInv'
<1>1. PICK n \in Nat : \E L : OnPage(n, L)
  BY PageNow
<1>2. PICK L : OnPage(n, L)
  BY <1>1
<1>3. md \in Pages(L)
  BY <1>2 DEF OnPage
<1>4. width' = width /\ open' = open /\ last' # "table" /\ texts' \in {texts, texts + 1}
  BY DEF Text, SoftBreak
<1>5. Steady
  BY <1>4 DEF Steady, PageInv
<1>6. md.code \in Seq(Txt) /\ md.cell \in Txt /\ md.runs \in Txt
  BY <1>3 DEF Pages
<1>7. CASE Text
  <2>1. PICK w \in Txt : w = Words[texts + 1]
    <3>1. texts \in Nat /\ texts < Len(Words)
      BY <1>7 DEF PageInv, Text
    <3>2. PICK S : S = Seq(STRING)
      OBVIOUS
    <3>3. Words \in Seq(S)
      BY <3>2, DocumentAssumption
    <3>4. Words[texts + 1] \in S
      BY <3>1, <3>3
    <3> QED
      BY <3>2, <3>4, StringsAreTxt
  <2>2. Append(md.code, w) \in Seq(Txt) /\ md.cell \o w \in Txt /\ md.runs \o w \in Txt
    BY <1>6, <2>1, AppendIs, TxtGrows
  <2>3. md' \in {[md EXCEPT !.code = Append(md.code, w)], [md EXCEPT !.cell = md.cell \o w],
                 [md EXCEPT !.runs = md.runs \o w]}
    BY <1>7, <2>1 DEF Text
  <2>4. Writes(md, md', L)
    BY <1>3, <2>2, <2>3 DEF Writes, Pages
  <2> QED
    BY <1>2, <1>5, <2>4, WritingFits
<1>8. CASE SoftBreak
  <2>1. Append(md.runs, " ") \in Txt
    <3>1. " " \in Character
      BY DEF Character
    <3> QED
      BY <1>6, <3>1, AppendIs DEF Txt
  <2>2. md' = [md EXCEPT !.runs = Append(md.runs, " ")]
    BY <1>8 DEF SoftBreak
  <2>3. Writes(md, md', L)
    BY <1>3, <2>1, <2>2 DEF Writes, Pages
  <2> QED
    BY <1>2, <1>5, <2>3, WritingFits
<1> QED
  BY <1>7, <1>8

LEMMA HtmlKeeps == ASSUME PageInv, InlineHtml \/ HtmlBlock PROVE PageInv'
<1>1. width' = width /\ md' = md /\ open' = open /\ last' # "table" /\ texts' = texts + 1
  BY DEF InlineHtml, HtmlBlock, DropsHtml
<1>2. texts' \in Nat
  BY <1>1 DEF PageInv
<1>3. TableInv'
  BY <1>1 DEF PageInv, TableInv
<1> QED
  BY <1>1, <1>2, <1>3 DEF PageInv

LEMMA RuleKeeps == ASSUME PageInv, Rule PROVE PageInv'
<1>1. PICK n \in Nat : \E L : OnPage(n, L)
  BY PageNow
<1>2. PICK L : OnPage(n, L)
  BY <1>1
<1>3. md \in Pages(L) /\ BlankLine \in L
  BY <1>2 DEF OnPage
<1>4. Steady
  BY DEF Rule, Steady, PageInv
<1>5. PICK pre \in Int : pre = (IF width < 60 THEN width ELSE 60) /\ pre <= width
  <2>1. PICK w \in Nat : w = width
    BY <1>2 DEF OnPage
  <2>2. CASE w < 60
    BY <2>1, <2>2
  <2>3. CASE ~(w < 60)
    BY <2>1, <2>3
  <2> QED
    BY <2>2, <2>3
<1>6. PICK e : e = Line("rule", pre, FALSE, <<>>)
  OBVIOUS
<1>7. e \in L
  BY <1>2, <1>5, <1>6, OtherLinesFit DEF OnPage
<1>8. PICK b : b = BlankAfter(md)
  OBVIOUS
<1>9. Writes(md, b, L) /\ b \in Pages(L)
  BY <1>3, <1>8, BlankWrites DEF Writes
<1>10. PICK c : c = [b EXCEPT !.out = Append(@, e)]
  OBVIOUS
<1>11. Writes(b, c, L) /\ c \in Pages(L)
  BY <1>7, <1>9, <1>10, LineWrites DEF Writes
<1>12. Writes(c, BlankAfter(c), L)
  BY <1>3, <1>11, BlankWrites
<1>13. md' = BlankAfter(c)
  BY <1>5, <1>6, <1>8, <1>10 DEF Rule
<1>14. Writes(md, md', L)
  BY <1>9, <1>11, <1>12, <1>13, WritesOn
<1> QED
  BY <1>2, <1>4, <1>14, WritingFits

LEMMA FinishKeeps == ASSUME PageInv, Finish PROVE PageInv'
<1>1. PICK n \in Nat : \E L : OnPage(n, L)
  BY PageNow
<1>2. PICK L : OnPage(n, L)
  BY <1>1
<1>3. md \in Pages(L) /\ L = Fitting(width, n) /\ width \in Nat
  BY <1>2 DEF OnPage
<1>4. Steady
  BY DEF Finish, Steady, PageInv
<1>5. PICK t : t = Trimmed(md.out)
  OBVIOUS
<1>6. t \in Seq(L)
  <2>1. md.out \in Seq(L)
    BY <1>3 DEF Pages
  <2> QED
    BY <1>3, <1>5, <2>1, TrimmedFits
<1>7. md' = [md EXCEPT !.out = t]
  BY <1>5 DEF Finish
<1>8. Writes(md, md', L)
  BY <1>3, <1>6, <1>7 DEF Writes, Pages
<1> QED
  BY <1>2, <1>4, <1>8, WritingFits

LEMMA TableKeeps == ASSUME PageInv, StartTable \/ EndTable PROVE PageInv'
<1>1. PICK n \in Nat : \E L : OnPage(n, L)
  BY PageNow
<1>2. PICK L : OnPage(n, L)
  BY <1>1
<1>3. /\ "table" \in TagKinds /\ "table" \in TagKinds \ {"doc"} /\ FALSE \in BOOLEAN
      /\ "row" \in TagKinds \ {"table"} /\ "head" \in TagKinds \ {"table"}
  BY DEF TagKinds
<1>4. CASE StartTable
  <2>1. /\ StartTag("table", FALSE) /\ Top.k \in {"doc", "quote", "item"}
        /\ width' = width /\ texts' = texts /\ md.head = <<>>
        /\ md' = [md EXCEPT !.inTable = TRUE, !.head = <<>>, !.rows = <<>>]
    BY <1>4 DEF StartTable, StartBlock, In
  <2>2. Top.k \notin {"head", "cell", "link"}
    BY <2>1
  <2>3. Opened(open') /\ \A j \in TagKinds \ {"table"} : Has(open', j) => Has(open, j)
    BY <1>3, <2>1, <2>2, TagStarts
  <2>4. md.rows = <<>> /\ ~Has(open', "row")
    BY <1>3, <2>1, <2>3 DEF PageInv, TableInv
  <2>5. Writes(md, md', L) /\ md'.head = <<>> /\ md'.rows = <<>>
    <3>1. ASSUME NEW S PROVE <<>> \in Seq(S)
      OBVIOUS
    <3>2. <<>> \in Seq(Txt) /\ <<>> \in Seq(Seq(Txt))
      BY <3>1
    <3> QED
      BY <1>2, <2>1, <2>4, <3>2 DEF OnPage, Writes, Pages
  <2>6. Rows(md'.head, md'.rows)
    BY <2>5, NoRows
  <2>7. TableInv'
    BY <2>4, <2>5, <2>6 DEF TableInv
  <2>8. md' \in Pages(Fitting(width', Len(md'.head)))
    BY <1>2, <2>1, <2>5 DEF OnPage, Writes
  <2> QED
    BY <2>1, <2>3, <2>7, <2>8 DEF PageInv
<1>5. CASE EndTable
  <2>1. Steady
    BY <1>3, <1>5, TagEnds, Zenon DEF EndTable
  <2>2. Rows(md.head, md.rows)
    BY DEF PageInv, TableInv
  <2>3. Writes(md, EmitTable(md), L)
    BY <1>2, <2>2, TableWrites DEF OnPage
  <2>4. md' = EmitTable(md)
    BY <1>5 DEF EndTable
  <2> QED
    BY <1>2, <2>1, <2>3, <2>4, WritingFits
<1> QED
  BY <1>4, <1>5

LEMMA HeadKeeps == ASSUME PageInv, StartHead \/ EndHead PROVE PageInv'
<1>1. PICK n \in Nat : \E L : OnPage(n, L)
  BY PageNow
<1>2. PICK L : OnPage(n, L)
  BY <1>1
<1>3. /\ "head" \in TagKinds /\ "head" \in TagKinds \ {"doc"} /\ FALSE \in BOOLEAN
      /\ "row" \in TagKinds \ {"head"}
  BY DEF TagKinds
<1>4. md \in Pages(L) /\ L = Fitting(width, n) /\ n = Len(md.head) /\ width \in Nat
  BY <1>2 DEF OnPage
<1>5. CASE StartHead
  <2>1. /\ StartTag("head", FALSE) /\ Top.k \in {"table"} /\ last = "table"
        /\ width' = width /\ texts' = texts /\ md' = [md EXCEPT !.inHead = TRUE]
    BY <1>5 DEF StartHead, InnerTag, In
  <2>2. Top.k \notin {"head", "cell", "link"}
    BY <2>1
  <2>3. Opened(open') /\ \A j \in TagKinds \ {"head"} : Has(open', j) => Has(open, j)
    BY <1>3, <2>1, <2>2, TagStarts
  <2>4. Writes(md, md', L)
    BY <1>4, <2>1 DEF Writes, Pages
  <2>5. md'.head = md.head /\ md'.rows = md.rows /\ md' \in Pages(Fitting(width', Len(md'.head)))
    BY <1>4, <2>1, <2>4 DEF Writes
  <2>6. TableInv'
    BY <1>3, <2>1, <2>3, <2>5 DEF PageInv, TableInv, Rows
  <2> QED
    BY <2>1, <2>3, <2>5, <2>6 DEF PageInv
<1>6. CASE EndHead
  <2>1. Steady /\ ~Has(open', "head") /\ last' # "table"
    <3>1. EndTag("head")
      BY <1>6 DEF EndHead
    <3>2. last' # "table"
      BY <3>1 DEF EndTag
    <3> QED
      BY <1>3, <3>1, <3>2, TagEnds, Zenon
  <2>2. Has(open, "head")
    <3>1. Last(open).k = "head"
      BY <1>6 DEF EndHead, EndTag, In, Top
    <3>2. open \in Seq(Tag) /\ Len(open) >= 1
      BY DEF PageInv, Opened
    <3>3. Len(open) \in 1 .. Len(open)
      BY <3>2
    <3> QED
      BY <3>1, <3>3 DEF Has, Last
  <2>3. md.head = <<>> /\ md.rows = <<>>
    BY <2>2 DEF PageInv, TableInv
  <2>4. PICK row \in Seq(Txt) : row = md.row /\ row # <<>>
    BY <1>4, <1>6 DEF EndHead, Pages
  <2>5. PICK k \in Nat : k = Len(row)
    BY <2>4
  <2>6. PICK K : K = Fitting(width, k)
    OBVIOUS
  <2>7. md.out \in Seq(K)
    <3>1. n = 0
      BY <1>4, <2>3
    <3>2. L \subseteq K
      BY <1>4, <2>6, <3>1, FitsMore
    <3>3. md.out \in Seq(L)
      BY <1>4 DEF Pages
    <3> QED
      BY <3>2, <3>3, SeqMonotonic
  <2>8. md' = [md EXCEPT !.head = row, !.row = <<>>, !.inHead = FALSE]
    BY <1>6, <2>4 DEF EndHead
  <2>9. md' \in Pages(K) /\ md'.head = row /\ md'.rows = <<>>
    <3>1. <<>> \in Seq(Txt)
      OBVIOUS
    <3> QED
      BY <1>4, <2>3, <2>4, <2>7, <2>8, <3>1 DEF Pages
  <2>10. Rows(md'.head, md'.rows)
    BY <2>9, NoRows
  <2>11. TableInv'
    BY <2>1, <2>4, <2>9, <2>10 DEF TableInv
  <2>12. md' \in Pages(Fitting(width', Len(md'.head)))
    BY <2>1, <2>5, <2>6, <2>9 DEF Steady
  <2> QED
    BY <2>1, <2>11, <2>12 DEF PageInv, Steady
<1> QED
  BY <1>5, <1>6

LEMMA RowKeeps == ASSUME PageInv, StartRow \/ EndRow PROVE PageInv'
<1>1. PICK n \in Nat : \E L : OnPage(n, L)
  BY PageNow
<1>2. PICK L : OnPage(n, L)
  BY <1>1
<1>3. /\ "row" \in TagKinds /\ "row" \in TagKinds \ {"doc"} /\ FALSE \in BOOLEAN
      /\ "head" \in TagKinds \ {"row"}
  BY DEF TagKinds
<1>4. md \in Pages(L) /\ L = Fitting(width, n) /\ n = Len(md.head) /\ width \in Nat
  BY <1>2 DEF OnPage
<1>5. CASE StartRow
  <2>1. /\ StartTag("row", FALSE) /\ Top.k \in {"table"} /\ md.head # <<>>
        /\ width' = width /\ texts' = texts /\ md' = [md EXCEPT !.row = <<>>]
    BY <1>5 DEF StartRow, InnerTag, In
  <2>2. Top.k \notin {"head", "cell", "link"}
    BY <2>1
  <2>3. Opened(open') /\ \A j \in TagKinds \ {"row"} : Has(open', j) => Has(open, j)
    BY <1>3, <2>1, <2>2, TagStarts
  <2>4. last' # "table"
    BY <2>1 DEF StartTag
  <2>5. Writes(md, md', L)
    <3>1. <<>> \in Seq(Txt)
      OBVIOUS
    <3> QED
      BY <1>4, <2>1, <3>1 DEF Writes, Pages
  <2>6. md'.head = md.head /\ md'.rows = md.rows /\ md' \in Pages(Fitting(width', Len(md'.head)))
    BY <1>4, <2>1, <2>5 DEF Writes
  <2>7. TableInv'
    BY <1>3, <2>1, <2>3, <2>4, <2>6 DEF PageInv, TableInv, Rows
  <2> QED
    BY <2>1, <2>3, <2>6, <2>7 DEF PageInv
<1>6. CASE EndRow
  <2>1. Steady
    BY <1>3, <1>6, TagEnds, Zenon DEF EndRow
  <2>2. CASE md.inHead
    <3>1. Writes(md, md', L)
      BY <1>4, <1>6, <2>2 DEF EndRow, Writes
    <3> QED
      BY <1>2, <2>1, <3>1, WritingFits
  <2>3. CASE ~md.inHead
    <3>1. PICK row \in Seq(Txt) : row = md.row /\ Len(row) = n
      BY <1>4, <1>6 DEF EndRow, Pages
    <3>2. md' = [md EXCEPT !.rows = Append(md.rows, row), !.row = <<>>]
      BY <1>6, <2>3, <3>1 DEF EndRow
    <3>3. PICK R : R = Seq(Txt)
      OBVIOUS
    <3>4. md.rows \in Seq(R) /\ \A r \in 1 .. Len(md.rows) : Len(md.rows[r]) = n
      BY <1>4, <3>3 DEF PageInv, TableInv, Rows
    <3>5. PICK b \in Seq(R) : b = md.rows
      BY <3>4
    <3>6. PICK k \in Nat : k = Len(b)
      BY <3>5
    <3>7. PICK c : c = Append(b, row)
      OBVIOUS
    <3>8. c \in Seq(R) /\ Len(c) = k + 1 /\ c[k + 1] = row /\ \A r \in 1 .. k : c[r] = b[r]
      BY <3>1, <3>3, <3>6, <3>7, AppendProperties
    <3>9. \A r \in 1 .. Len(c) : Len(c[r]) = n
      <4>1. ASSUME NEW r \in 1 .. k + 1 PROVE Len(c[r]) = n
        <5>1. CASE r = k + 1
          BY <3>1, <3>8, <5>1
        <5>2. CASE r # k + 1
          <6>1. r \in 1 .. k
            BY <5>2
          <6> QED
            BY <3>4, <3>5, <3>6, <3>8, <6>1
        <5> QED
          BY <5>1, <5>2
      <4> QED
        BY <3>8, <4>1
    <3>10. md' \in Pages(L) /\ md'.head = md.head /\ md'.rows = c
      <4>1. <<>> \in Seq(Txt)
        OBVIOUS
      <4> QED
        BY <1>4, <3>2, <3>3, <3>5, <3>7, <3>8, <4>1 DEF Pages
    <3>11. Rows(md'.head, md'.rows)
      BY <1>4, <3>3, <3>8, <3>9, <3>10 DEF Rows
    <3>12. md.head # <<>>
      <4>1. Last(open).k = "row"
        BY <1>6 DEF EndRow, EndTag, In, Top
      <4>2. open \in Seq(Tag) /\ Len(open) >= 1
        BY DEF PageInv, Opened
      <4>3. Len(open) \in 1 .. Len(open)
        BY <4>2
      <4>4. Has(open, "row")
        BY <4>1, <4>3 DEF Has, Last
      <4> QED
        BY <4>4 DEF PageInv, TableInv
    <3>13. TableInv'
      BY <2>1, <3>10, <3>11, <3>12 DEF PageInv, TableInv, Steady
    <3>14. md' \in Pages(Fitting(width', Len(md'.head)))
      BY <1>4, <2>1, <3>10 DEF Steady
    <3> QED
      BY <2>1, <3>13, <3>14 DEF PageInv, Steady
  <2> QED
    BY <2>2, <2>3
<1> QED
  BY <1>5, <1>6

LEMMA CellKeeps == ASSUME PageInv, StartCell \/ EndCell PROVE PageInv'
<1>1. PICK n \in Nat : \E L : OnPage(n, L)
  BY PageNow
<1>2. PICK L : OnPage(n, L)
  BY <1>1
<1>3. "cell" \in {"cell", "link"} /\ "cell" \in TagKinds \ {"doc"}
  BY DEF TagKinds
<1>4. md \in Pages(L)
  BY <1>2 DEF OnPage
<1>5. <<>> \in Txt
  BY DispEmpty
<1>6. CASE StartCell
  <2>1. InnerTag("cell", {"head", "row"}) /\ md' = [md EXCEPT !.cell = <<>>]
    BY <1>6 DEF StartCell
  <2>2. Steady
    BY <1>3, <2>1, InnerStarts, Zenon
  <2>3. Writes(md, md', L)
    BY <1>4, <1>5, <2>1 DEF Writes, Pages
  <2> QED
    BY <1>2, <2>2, <2>3, WritingFits
<1>7. CASE EndCell
  <2>1. Steady
    BY <1>3, <1>7, TagEnds, Zenon DEF EndCell
  <2>2. Append(md.row, md.cell) \in Seq(Txt)
    <3>1. md.row \in Seq(Txt) /\ md.cell \in Txt
      BY <1>4 DEF Pages
    <3> QED
      BY <3>1, AppendIs
  <2>3. md' = [md EXCEPT !.row = Append(md.row, md.cell), !.cell = <<>>]
    BY <1>7 DEF EndCell
  <2>4. Writes(md, md', L)
    BY <1>4, <1>5, <2>2, <2>3 DEF Writes, Pages
  <2> QED
    BY <1>2, <2>1, <2>4, WritingFits
<1> QED
  BY <1>6, <1>7

LEMMA PageStepKeeps == ASSUME PageInv, MdNext PROVE PageInv'
  BY HeadingKeeps, ParaKeeps, CodeKeeps, QuoteKeeps, ListKeeps, ItemKeeps, LinkKeeps, TableKeeps, HeadKeeps,
     RowKeeps, CellKeeps, TextKeeps, HtmlKeeps, RuleKeeps, FinishKeeps, Zenon DEF MdNext

\* A table's rows show no more than its frame holds.
RowsInFrame == \A i \in DOMAIN md.out : md.out[i].kind = "table" => md.out[i].pre >= 0

LEMMA PageInvFits == ASSUME PageInv PROVE LinesFit /\ RowsInFrame
<1>1. PICK n \in Nat : \E L : OnPage(n, L)
  BY PageNow
<1>2. PICK L : OnPage(n, L)
  BY <1>1
<1>3. \A i \in DOMAIN md.out : md.out[i] \in LineSet /\ FitsIn(md.out[i], width, n)
  <2>1. md.out \in Seq(L) /\ L = Fitting(width, n)
    BY <1>2 DEF OnPage, Pages
  <2>2. \A i \in DOMAIN md.out : md.out[i] \in L
    BY <2>1
  <2> QED
    BY <2>1, <2>2 DEF Fitting
<1>4. n = Len(md.head)
  BY <1>2 DEF OnPage
<1>5. RowsInFrame
  BY <1>3 DEF FitsIn, RowsInFrame
<1> SUFFICES ASSUME NEW i \in DOMAIN md.out
             PROVE  LET l == md.out[i]
                        extra == IF Range(l.body) \cap Wide # {} THEN 1 ELSE 0
                    IN CASE l.kind \in {"text", "code"} -> LineWidth(l) <= width + extra \/ Len(l.body) <= 1
                         [] l.kind \in {"rule", "table"} -> LineWidth(l) <= width \/ width < 4 * Len(md.head) + 1
                         [] OTHER -> TRUE
  BY <1>5 DEF LinesFit
<1>6. PICK l : l = md.out[i]
  OBVIOUS
<1>7. FitsIn(l, width, n)
  BY <1>3, <1>6
<1>8. CASE l.kind \in {"text", "code"}
  <2>1. l.kind \notin {"rule", "table"}
    BY <1>8
  <2>2. LineWidth(l) <= width + (IF Range(l.body) \cap Wide # {} THEN 1 ELSE 0) \/ Len(l.body) <= 1
    BY <1>7, <1>8 DEF FitsIn
  <2> QED
    BY <1>6, <1>8, <2>1, <2>2
<1>9. CASE l.kind \in {"rule", "table"}
  <2>1. l.kind \notin {"text", "code"}
    BY <1>9
  <2>2. LineWidth(l) <= width \/ width < 4 * Len(md.head) + 1
    BY <1>4, <1>7, <1>9 DEF FitsIn
  <2> QED
    BY <1>6, <1>9, <2>1, <2>2
<1>10. CASE l.kind \notin {"text", "code", "rule", "table"}
  BY <1>6, <1>10
<1> QED
  BY <1>8, <1>9, <1>10

\* Every line of a finished page fits the width it was asked for, whatever the
\* document says (markdown.rs wrap_runs, wrap_styled_code, render_table), but for
\* what the property names: one column of a wide character, a prefix that leaves
\* no room, a table with more columns than the width has room for.
THEOREM PagesFit == MdSpec => []LinesFit
<1>1. MdInit => PageInv
  BY PageInitEstablishes
<1>2. PageInv /\ [MdNext]_mdVars => PageInv'
  BY PageStepKeeps, PageStutterKeeps
<1>3. PageInv => LinesFit
  BY PageInvFits
<1> QED
  BY <1>1, <1>2, <1>3, PTL DEF MdSpec

\* However far the columns of a table are shrunk or dropped, its cells are cut
\* to them: no row is wider than the table's border (markdown.rs fit_cell).
THEOREM RowsStayInFrame == MdSpec => []RowsInFrame
<1>1. MdInit => PageInv
  BY PageInitEstablishes
<1>2. PageInv /\ [MdNext]_mdVars => PageInv'
  BY PageStepKeeps, PageStutterKeeps
<1>3. PageInv => RowsInFrame
  BY PageInvFits
<1> QED
  BY <1>1, <1>2, <1>3, PTL DEF MdSpec

-----------------------------------------------------------------------------
\* What a sequence weighs: the sum of the weights W of its terms.
WeighsTo(W, s, f) ==
  /\ f \in [0 .. Len(s) -> Nat] /\ f[0] = 0
  /\ \A i \in 1 .. Len(s) : f[i] = f[i - 1] + W[s[i]]

Weight(W, s) == (CHOOSE f : WeighsTo(W, s, f))[Len(s)]

LEMMA WeightIs ==
  ASSUME NEW S, NEW W \in [S -> Nat], NEW s \in Seq(S)
  PROVE  \E f : WeighsTo(W, s, f) /\ Weight(W, s) = f[Len(s)]
<1>1. PICK m \in Nat : m = Len(s)
  OBVIOUS
<1>2. \A i \in 1 .. m : W[s[i]] \in Nat
  BY <1>1
<1> DEFINE G == [i \in 1 .. m |-> [n \in Nat |-> n + W[s[i]]]]
<1>3. G \in [1 .. m -> [Nat -> Nat]]
  BY <1>2
<1>4. \A i \in 1 .. m, n \in Nat : G[i][n] = n + W[s[i]]
  OBVIOUS
<1> HIDE DEF G
<1>5. PICK h : Folded(h, Nat, m, 0, G)
  BY <1>3, FoldStays
<1>6. h \in [0 .. m -> Nat] /\ h[0] = 0 /\ \A i \in 1 .. m : h[i] = G[i][h[i - 1]]
  BY <1>5 DEF Folded
<1>7. ASSUME NEW i \in 1 .. m PROVE h[i] = h[i - 1] + W[s[i]]
  <2>1. i - 1 \in 0 .. m
    OBVIOUS
  <2> QED
    BY <1>4, <1>6, <2>1
<1>8. WeighsTo(W, s, h)
  BY <1>1, <1>6, <1>7 DEF WeighsTo
<1>9. PICK f : f = CHOOSE e : WeighsTo(W, s, e)
  OBVIOUS
<1>10. WeighsTo(W, s, f)
  BY <1>8, <1>9
<1> QED
  BY <1>9, <1>10 DEF Weight

LEMMA WeightType ==
  ASSUME NEW S, NEW W \in [S -> Nat], NEW s \in Seq(S)
  PROVE  Weight(W, s) \in Nat
<1>1. PICK f : WeighsTo(W, s, f) /\ Weight(W, s) = f[Len(s)]
  BY WeightIs
<1>2. Len(s) \in 0 .. Len(s)
  OBVIOUS
<1> QED
  BY <1>1, <1>2 DEF WeighsTo

Within(f, from, g, at, m) ==
  /\ f[from] \in Nat /\ f[from + m] \in Nat /\ g[at] \in Nat /\ g[at + m] \in Nat
  /\ f[from + m] + g[at] <= g[at + m] + f[from]

\* Terms that weigh no more, one by one, weigh no more together.
LEMMA WeightsCompare ==
  ASSUME NEW S, NEW W \in [S -> Nat], NEW s \in Seq(S), NEW f, WeighsTo(W, s, f),
         NEW R, NEW V \in [R -> Nat], NEW t \in Seq(R), NEW g, WeighsTo(V, t, g),
         NEW from \in Nat, NEW at \in Nat, NEW m \in Nat, from + m <= Len(s), at + m <= Len(t),
         \A j \in 1 .. m : W[s[from + j]] <= V[t[at + j]]
  PROVE  Within(f, from, g, at, m)
<1>1. PICK a \in Nat : a = Len(s)
  OBVIOUS
<1>2. PICK b \in Nat : b = Len(t)
  OBVIOUS
<1>3. from + m <= a /\ at + m <= b
  BY <1>2, <1>1
<1>4. /\ \A i \in 0 .. a : f[i] \in Nat
      /\ \A i \in 1 .. a : f[i] = f[i - 1] + W[s[i]] /\ W[s[i]] \in Nat
      /\ \A i \in 0 .. b : g[i] \in Nat
      /\ \A i \in 1 .. b : g[i] = g[i - 1] + V[t[i]] /\ V[t[i]] \in Nat
  <2>1. \A i \in 1 .. a : W[s[i]] \in Nat
    BY <1>1
  <2>2. \A i \in 1 .. b : V[t[i]] \in Nat
    BY <1>2
  <2>3. f \in [0 .. a -> Nat] /\ \A i \in 1 .. a : f[i] = f[i - 1] + W[s[i]]
    BY <1>1 DEF WeighsTo
  <2>4. g \in [0 .. b -> Nat] /\ \A i \in 1 .. b : g[i] = g[i - 1] + V[t[i]]
    BY <1>2 DEF WeighsTo
  <2> QED
    BY <2>1, <2>2, <2>3, <2>4
<1> DEFINE T == {k \in Nat : k <= m /\ f[from + k] + g[at] <= g[at + k] + f[from]}
<1>5. 0 \in T
  <2>1. from \in 0 .. a /\ at \in 0 .. b /\ from + 0 = from /\ at + 0 = at
    BY <1>3
  <2>2. f[from] \in Nat /\ g[at] \in Nat
    BY <1>4, <2>1
  <2> QED
    BY <2>1, <2>2
<1>6. ASSUME NEW k \in Nat, k < m, k \in T PROVE k + 1 \in T
  <2>1. PICK p \in Nat, q \in Nat : p = from + k /\ q = at + k
    OBVIOUS
  <2>2. /\ p \in 0 .. a /\ p + 1 \in 1 .. a /\ p + 1 - 1 = p /\ p + 1 = from + (k + 1)
        /\ q \in 0 .. b /\ q + 1 \in 1 .. b /\ q + 1 - 1 = q /\ q + 1 = at + (k + 1)
        /\ from \in 0 .. a /\ at \in 0 .. b
    BY <1>3, <1>6, <2>1
  <2>3. f[p + 1] = f[p] + W[s[p + 1]] /\ g[q + 1] = g[q] + V[t[q + 1]]
    BY <1>4, <2>2
  <2>4. W[s[p + 1]] <= V[t[q + 1]]
    <3>1. PICK j \in 1 .. m : j = k + 1
      BY <1>6
    <3>2. from + j = p + 1 /\ at + j = q + 1
      BY <2>1, <3>1
    <3>3. W[s[from + j]] <= V[t[at + j]]
      OBVIOUS
    <3> QED
      BY <3>2, <3>3
  <2>5. f[p] + g[at] <= g[q] + f[from]
    BY <1>6, <2>1
  <2>6. PICK x \in Nat, y \in Nat, u \in Nat, v \in Nat, c \in Nat, d \in Nat :
          x = f[p] /\ y = g[q] /\ u = f[from] /\ v = g[at] /\ c = W[s[p + 1]] /\ d = V[t[q + 1]]
    BY <1>4, <2>2
  <2>7. PICK x1, y1 : x1 = f[p + 1] /\ y1 = g[q + 1]
    OBVIOUS
  <2>8. x1 = x + c /\ y1 = y + d /\ x + v <= y + u /\ c <= d
    BY <2>3, <2>4, <2>5, <2>6, <2>7
  <2>9. x1 + v <= y1 + u
    BY <2>8
  <2>10. f[p + 1] + g[at] <= g[q + 1] + f[from]
    BY <2>6, <2>7, <2>9
  <2>11. f[from + (k + 1)] + g[at] <= g[at + (k + 1)] + f[from]
    BY <2>2, <2>10
  <2>12. k + 1 \in Nat /\ k + 1 <= m
    BY <1>6
  <2> QED
    BY <2>11, <2>12
<1>7. m \in T
  <2>1. 0 .. m \subseteq T
    <3> HIDE DEF T
    <3> QED
      BY <1>5, <1>6, Reaches
  <2> QED
    BY <2>1
<1>8. from \in 0 .. a /\ from + m \in 0 .. a /\ at \in 0 .. b /\ at + m \in 0 .. b
  BY <1>3
<1> QED
  BY <1>4, <1>7, <1>8 DEF Within

Lighter(W, s, V, t) == Len(s) = Len(t) /\ \A j \in 1 .. Len(s) : W[s[j]] <= V[t[j]]
Alike(W, s, V, t) == Len(s) = Len(t) /\ \A j \in 1 .. Len(s) : W[s[j]] = V[t[j]]

LEMMA WeightLess ==
  ASSUME NEW S, NEW W \in [S -> Nat], NEW s \in Seq(S),
         NEW R, NEW V \in [R -> Nat], NEW t \in Seq(R), Lighter(W, s, V, t)
  PROVE  Weight(W, s) <= Weight(V, t)
<1>1. PICK n \in Nat : n = Len(s) /\ n = Len(t)
  BY DEF Lighter
<1>2. PICK f : WeighsTo(W, s, f) /\ Weight(W, s) = f[Len(s)]
  BY WeightIs
<1>3. PICK g : WeighsTo(V, t, g) /\ Weight(V, t) = g[Len(t)]
  BY WeightIs
<1>4. Within(f, 0, g, 0, n)
  <2>1. \A j \in 1 .. n : 0 + j = j
    OBVIOUS
  <2>2. 0 + n <= Len(s) /\ 0 + n <= Len(t) /\ \A j \in 1 .. n : W[s[0 + j]] <= V[t[0 + j]]
    BY <1>1, <2>1 DEF Lighter
  <2> QED
    BY <1>2, <1>3, <2>2, WeightsCompare
<1>5. f[0] = 0 /\ g[0] = 0 /\ 0 + n = n
  BY <1>2, <1>3 DEF WeighsTo
<1>6. f[n] <= g[n]
  BY <1>4, <1>5 DEF Within
<1> QED
  BY <1>1, <1>2, <1>3, <1>6

\* W weighs the terms of s.
Weighs(W, S, s) == W \in [S -> Nat] /\ s \in Seq(S)

LEMMA TermsOf ==
  ASSUME NEW S, NEW s \in Seq(S), NEW n \in Nat, n = Len(s)
  PROVE  \A j \in 1 .. n : s[j] \in S
OBVIOUS

LEMMA WeightsOf ==
  ASSUME NEW S, NEW W, NEW s, Weighs(W, S, s), NEW n \in Nat, n = Len(s)
  PROVE  \A j \in 1 .. n : W[s[j]] \in Nat
<1>1. \A j \in 1 .. n : s[j] \in S
  BY TermsOf DEF Weighs
<1> QED
  BY <1>1 DEF Weighs

LEMMA WeightSame ==
  ASSUME NEW S, NEW W, NEW s, Weighs(W, S, s), NEW R, NEW V, NEW t, Weighs(V, R, t),
         Alike(W, s, V, t)
  PROVE  Weight(W, s) = Weight(V, t)
<1>1. Weight(W, s) \in Nat /\ Weight(V, t) \in Nat
  BY WeightType DEF Weighs
<1>2. PICK n \in Nat : n = Len(s) /\ n = Len(t)
  BY DEF Alike, Weighs
<1>3. \A j \in 1 .. n : W[s[j]] \in Nat
  BY <1>2, WeightsOf
<1>4. \A j \in 1 .. n : V[t[j]] \in Nat
  BY <1>2, WeightsOf
<1>5. \A j \in 1 .. n : W[s[j]] = V[t[j]]
  BY <1>2 DEF Alike
<1>6. \A j \in 1 .. n : W[s[j]] <= V[t[j]] /\ V[t[j]] <= W[s[j]]
  BY <1>3, <1>4, <1>5
<1>7. Lighter(W, s, V, t) /\ Lighter(V, t, W, s)
  BY <1>2, <1>6 DEF Lighter
<1>8. Weight(W, s) <= Weight(V, t)
  BY <1>7, WeightLess DEF Weighs
<1>9. Weight(V, t) <= Weight(W, s)
  BY <1>7, WeightLess DEF Weighs
<1> QED
  BY <1>1, <1>8, <1>9

\* The weight of a part, from the running sum over the whole.
PartOf(t, s, from) == from + Len(t) <= Len(s) /\ \A j \in 1 .. Len(t) : t[j] = s[from + j]
PartWeighs(W, t, f, from) ==
  /\ Weight(W, t) \in Nat /\ f[from] \in Nat
  /\ f[from + Len(t)] = f[from] + Weight(W, t)

LEMMA WeightPart ==
  ASSUME NEW S, NEW W \in [S -> Nat], NEW s \in Seq(S), NEW f, WeighsTo(W, s, f),
         NEW from \in Nat, NEW t \in Seq(S), PartOf(t, s, from)
  PROVE  PartWeighs(W, t, f, from)
<1> PICK m \in Nat : m = Len(t)
  OBVIOUS
<1>0. from + m <= Len(s) /\ \A j \in 1 .. m : t[j] = s[from + j]
  BY DEF PartOf
<1>1. PICK g : WeighsTo(W, t, g) /\ Weight(W, t) = g[Len(t)]
  BY WeightIs
<1>2. \A j \in 1 .. m : 0 + j = j /\ W[s[from + j]] \in Nat
  <2>1. PICK n \in Nat : n = Len(s)
    OBVIOUS
  <2>2. \A j \in 1 .. m : from + j \in 1 .. n
    BY <1>0, <2>1
  <2> QED
    BY <2>1, <2>2
<1>3. \A j \in 1 .. m : W[s[from + j]] <= W[t[0 + j]] /\ W[t[0 + j]] <= W[s[from + j]]
  BY <1>0, <1>2
<1>4. 0 + m <= Len(t)
  OBVIOUS
<1>5. Within(f, from, g, 0, m)
  BY <1>0, <1>1, <1>3, <1>4, WeightsCompare
<1>6. Within(g, 0, f, from, m)
  BY <1>0, <1>1, <1>3, <1>4, WeightsCompare
<1>7. g[0] = 0 /\ 0 + m = m
  BY <1>1 DEF WeighsTo
<1>8. PICK x \in Nat, y \in Nat, z \in Nat : x = f[from] /\ y = f[from + m] /\ z = g[m]
  BY <1>5, <1>7 DEF Within
<1>9. y + 0 <= z + x /\ z + x <= y + 0
  BY <1>5, <1>6, <1>7, <1>8 DEF Within
<1>10. y = x + z
  BY <1>9
<1>11. Weight(W, t) = z
  BY <1>1, <1>8
<1> QED
  BY <1>8, <1>10, <1>11 DEF PartWeighs

LEMMA WeightNothing ==
  ASSUME NEW S, NEW W \in [S -> Nat], NEW s \in Seq(S), \A i \in 1 .. Len(s) : W[s[i]] = 0
  PROVE  Weight(W, s) = 0
<1>1. PICK n \in Nat : n = Len(s)
  OBVIOUS
<1>2. PICK f : WeighsTo(W, s, f) /\ Weight(W, s) = f[Len(s)]
  BY WeightIs
<1>3. f[0] = 0 /\ \A i \in 1 .. n : f[i] = f[i - 1] + W[s[i]]
  BY <1>1, <1>2 DEF WeighsTo
<1> DEFINE T == {k \in Nat : k <= n /\ f[k] = 0}
<1>4. 0 \in T
  BY <1>3
<1>5. ASSUME NEW k \in Nat, k < n, k \in T PROVE k + 1 \in T
  <2>1. k + 1 \in 1 .. n /\ k + 1 - 1 = k
    BY <1>5
  <2>2. f[k + 1] = f[k] + W[s[k + 1]] /\ W[s[k + 1]] = 0 /\ f[k] = 0
    BY <1>1, <1>3, <1>5, <2>1
  <2>3. f[k + 1] = 0
    BY <2>2
  <2> QED
    BY <2>1, <2>3
<1>6. 0 .. n \subseteq T
  <2> HIDE DEF T
  <2> QED
    BY <1>4, <1>5, Reaches
<1>7. n \in T
  BY <1>6
<1> QED
  BY <1>1, <1>2, <1>7

LEMMA WeightEmpty ==
  ASSUME NEW S, NEW W \in [S -> Nat]
  PROVE  <<>> \in Seq(S) /\ Weight(W, <<>>) = 0
<1>1. PICK s : s = <<>>
  OBVIOUS
<1> s \in Seq(S)
  BY <1>1
<1>2. \A i \in 1 .. Len(s) : W[s[i]] = 0
  BY <1>1
<1>3. Weight(W, s) = 0
  BY <1>2, WeightNothing
<1> QED
  BY <1>1, <1>3

LEMMA WeightConcat ==
  ASSUME NEW S, NEW W \in [S -> Nat], NEW s \in Seq(S), NEW t \in Seq(S)
  PROVE  s \o t \in Seq(S) /\ Weight(W, s \o t) = Weight(W, s) + Weight(W, t)
<1>1. PICK a \in Nat, b \in Nat : a = Len(s) /\ b = Len(t)
  OBVIOUS
<1>2. PICK c : c = s \o t
  OBVIOUS
<1>3. c \in Seq(S) /\ Len(c) = a + b
  BY <1>1, <1>2
<1>4. \A j \in 1 .. a : c[j] = s[j]
  BY <1>1, <1>2
<1>5. \A j \in 1 .. b : c[a + j] = t[j]
  BY <1>1, <1>2
<1>6. PICK f : WeighsTo(W, c, f) /\ Weight(W, c) = f[Len(c)]
  BY <1>3, WeightIs
<1>7. f[0 + a] = f[0] + Weight(W, s) /\ Weight(W, s) \in Nat
  <2>1. PartOf(s, c, 0)
    BY <1>1, <1>3, <1>4 DEF PartOf
  <2>2. PartWeighs(W, s, f, 0)
    BY <1>3, <1>6, <2>1, WeightPart
  <2> QED
    BY <1>1, <2>2 DEF PartWeighs
<1>8. f[a + b] = f[a] + Weight(W, t)
  <2>1. PartOf(t, c, a)
    BY <1>1, <1>3, <1>5 DEF PartOf
  <2>2. PartWeighs(W, t, f, a)
    BY <1>3, <1>6, <2>1, WeightPart
  <2> QED
    BY <1>1, <2>2 DEF PartWeighs
<1>9. f[0] = 0 /\ 0 + a = a
  BY <1>6 DEF WeighsTo
<1>10. f[a] = Weight(W, s)
  BY <1>7, <1>9
<1> QED
  BY <1>2, <1>3, <1>6, <1>8, <1>10

LEMMA WeightOne ==
  ASSUME NEW S, NEW W \in [S -> Nat], NEW e \in S
  PROVE  <<e>> \in Seq(S) /\ Weight(W, <<e>>) = W[e]
<1>1. PICK s : s = <<e>>
  OBVIOUS
<1> s \in Seq(S)
  BY <1>1
<1>2. Len(s) = 1 /\ s[1] = e
  BY <1>1
<1>3. PICK f : WeighsTo(W, s, f) /\ Weight(W, s) = f[Len(s)]
  BY WeightIs
<1>4. 1 \in 1 .. 1 /\ 1 - 1 = 0
  OBVIOUS
<1>5. f[1] = f[0] + W[e] /\ f[0] = 0
  BY <1>2, <1>3, <1>4 DEF WeighsTo
<1>6. f[1] = W[e]
  BY <1>5
<1> QED
  BY <1>1, <1>2, <1>3, <1>6

LEMMA WeightAppend ==
  ASSUME NEW S, NEW W \in [S -> Nat], NEW s \in Seq(S), NEW e \in S
  PROVE  Append(s, e) \in Seq(S) /\ Weight(W, Append(s, e)) = Weight(W, s) + W[e]
<1>1. PICK t : t = <<e>>
  OBVIOUS
<1>2. t \in Seq(S) /\ Weight(W, t) = W[e]
  BY <1>1, WeightOne
<1>3. Append(s, e) = s \o t
  BY <1>1, AppendIsConcat
<1> QED
  BY <1>2, <1>3, WeightConcat

\* Around one term.
LEMMA WeightAround ==
  ASSUME NEW S, NEW W \in [S -> Nat], NEW s \in Seq(S), NEW p \in 1 .. Len(s)
  PROVE  /\ SubSeq(s, 1, p - 1) \in Seq(S) /\ SubSeq(s, p + 1, Len(s)) \in Seq(S)
         /\ Weight(W, s) = Weight(W, SubSeq(s, 1, p - 1)) + W[s[p]] + Weight(W, SubSeq(s, p + 1, Len(s)))
<1>1. PICK n \in Nat : n = Len(s)
  OBVIOUS
<1>2. PICK k \in Nat, m \in Nat : k = p - 1 /\ m = n - p
  <2>1. p - 1 \in Nat /\ n - p \in Nat
    BY <1>1
  <2> QED
    BY <2>1
<1>3. PICK a : a = SubSeq(s, 1, p - 1)
  OBVIOUS
<1>4. PICK b : b = SubSeq(s, p + 1, Len(s))
  OBVIOUS
<1>5. \A i \in 1 .. n : s[i] \in S
  BY <1>1
<1>6. a \in Seq(S) /\ Len(a) = k /\ \A j \in 1 .. k : a[j] = s[0 + j]
  <2>1. \A i \in 1 .. p - 1 : s[i] \in S
    BY <1>1, <1>5
  <2>2. /\ SubSeq(s, 1, p - 1) \in Seq(S)
        /\ Len(SubSeq(s, 1, p - 1)) = IF 1 <= p - 1 THEN p - 1 - 1 + 1 ELSE 0
        /\ \A i \in 1 .. p - 1 - 1 + 1 : SubSeq(s, 1, p - 1)[i] = s[1 + i - 1]
    BY <2>1, SubSeqProperties
  <2>3. (IF 1 <= p - 1 THEN p - 1 - 1 + 1 ELSE 0) = k /\ p - 1 - 1 + 1 = k
    BY <1>2
  <2>4. \A i \in 1 .. k : 1 + i - 1 = 0 + i
    OBVIOUS
  <2> QED
    BY <1>3, <2>2, <2>3, <2>4
<1>7. b \in Seq(S) /\ Len(b) = m /\ \A j \in 1 .. m : b[j] = s[p + j]
  <2>1. \A i \in p + 1 .. n : s[i] \in S
    BY <1>1, <1>5
  <2> p + 1 \in Int /\ n \in Int
    OBVIOUS
  <2>2. /\ SubSeq(s, p + 1, n) \in Seq(S)
        /\ Len(SubSeq(s, p + 1, n)) = IF p + 1 <= n THEN n - (p + 1) + 1 ELSE 0
        /\ \A i \in 1 .. n - (p + 1) + 1 : SubSeq(s, p + 1, n)[i] = s[p + 1 + i - 1]
    BY <2>1, SubSeqProperties
  <2>3. (IF p + 1 <= n THEN n - (p + 1) + 1 ELSE 0) = m /\ n - (p + 1) + 1 = m
    BY <1>1, <1>2
  <2>4. \A i \in 1 .. m : p + 1 + i - 1 = p + i
    OBVIOUS
  <2> QED
    BY <1>1, <1>4, <2>2, <2>3, <2>4
<1>8. PICK f : WeighsTo(W, s, f) /\ Weight(W, s) = f[Len(s)]
  BY WeightIs
<1>9. f[0 + k] = f[0] + Weight(W, a) /\ Weight(W, a) \in Nat
  <2>1. PartOf(a, s, 0)
    BY <1>1, <1>2, <1>6 DEF PartOf
  <2>2. PartWeighs(W, a, f, 0)
    BY <1>6, <1>8, <2>1, WeightPart
  <2> QED
    BY <1>6, <2>2 DEF PartWeighs
<1>10. f[p + m] = f[p] + Weight(W, b) /\ Weight(W, b) \in Nat
  <2>1. PartOf(b, s, p)
    BY <1>1, <1>2, <1>7 DEF PartOf
  <2>2. PartWeighs(W, b, f, p)
    BY <1>7, <1>8, <2>1, WeightPart
  <2> QED
    BY <1>7, <2>2 DEF PartWeighs
<1>11. f[0] = 0 /\ f[p] = f[p - 1] + W[s[p]]
  BY <1>8 DEF WeighsTo
<1>12. W[s[p]] \in Nat
  BY <1>1, <1>5
<1>13. PICK x \in Nat, y \in Nat, z \in Nat : x = Weight(W, a) /\ y = Weight(W, b) /\ z = W[s[p]]
  BY <1>9, <1>10, <1>12
<1>14. 0 + k = k /\ p - 1 = k /\ p + m = n
  BY <1>1, <1>2
<1>15. f[k] = 0 + x /\ f[p] = f[k] + z /\ f[n] = f[p] + y
  BY <1>9, <1>10, <1>11, <1>13, <1>14
<1>16. f[n] = x + z + y
  BY <1>15
<1> QED
  BY <1>1, <1>3, <1>4, <1>6, <1>7, <1>8, <1>13, <1>16

LEMMA WeightTerm ==
  ASSUME NEW S, NEW W \in [S -> Nat], NEW s \in Seq(S), NEW p \in 1 .. Len(s)
  PROVE  W[s[p]] <= Weight(W, s)
<1>1. PICK a, b : a = SubSeq(s, 1, p - 1) /\ b = SubSeq(s, p + 1, Len(s))
  OBVIOUS
<1>2. a \in Seq(S) /\ b \in Seq(S) /\ Weight(W, s) = Weight(W, a) + W[s[p]] + Weight(W, b)
  BY <1>1, WeightAround
<1>3. PICK x \in Nat, y \in Nat, z \in Nat : x = Weight(W, a) /\ y = Weight(W, b) /\ z = W[s[p]]
  <2>1. s[p] \in S
    OBVIOUS
  <2> QED
    BY <1>2, <2>1, WeightType
<1>4. Weight(W, s) = x + z + y
  BY <1>2, <1>3
<1> QED
  BY <1>3, <1>4

\* A text cut in two.
LEMMA WeightCut ==
  ASSUME NEW S, NEW W \in [S -> Nat], NEW s \in Seq(S), NEW k \in Nat, k <= Len(s)
  PROVE  /\ SubSeq(s, 1, k) \in Seq(S) /\ SubSeq(s, k + 1, Len(s)) \in Seq(S)
         /\ Weight(W, s) = Weight(W, SubSeq(s, 1, k)) + Weight(W, SubSeq(s, k + 1, Len(s)))
<1>1. PICK n \in Nat : n = Len(s)
  OBVIOUS
<1>2. PICK a, b : a = SubSeq(s, 1, k) /\ b = SubSeq(s, k + 1, n)
  OBVIOUS
<1>3. \A i \in 1 .. n : s[i] \in S
  BY <1>1
<1>4. a \in Seq(S)
  <2>1. \A i \in 1 .. k : s[i] \in S
    BY <1>1, <1>3
  <2> QED
    BY <1>2, <2>1, SubSeqProperties
<1>5. b \in Seq(S)
  <2>1. \A i \in k + 1 .. n : s[i] \in S
    BY <1>3
  <2> QED
    BY <1>2, <2>1, SubSeqProperties
<1>6. s = a \o b
  <2>1. SubSeq(s, 1, n) = s
    BY <1>1, SubSeqFull
  <2>2. SubSeq(s, 1, k) \o SubSeq(s, k + 1, n) = SubSeq(s, 1, n)
    <3>1. 1 \in 1 .. Len(s) + 1 /\ k \in 1 - 1 .. Len(s) /\ n \in k .. Len(s)
      BY <1>1
    <3> QED
      BY <3>1, ConcatAdjacentSubSeq
  <2> QED
    BY <1>2, <2>1, <2>2
<1>7. Weight(W, a \o b) = Weight(W, a) + Weight(W, b)
  BY <1>4, <1>5, WeightConcat
<1> QED
  BY <1>1, <1>2, <1>4, <1>5, <1>6, <1>7

Sums(W, S) == [x \in Seq(S) |-> Weight(W, x)]

LEMMA SumsType ==
  ASSUME NEW S, NEW W \in [S -> Nat]
  PROVE  Sums(W, S) \in [Seq(S) -> Nat] /\ \A x \in Seq(S) : Sums(W, S)[x] = Weight(W, x)
<1>1. \A x \in Seq(S) : Weight(W, x) \in Nat
  BY WeightType
<1> QED
  BY <1>1 DEF Sums

LEMMA WeightFlatten ==
  ASSUME NEW S, NEW W \in [S -> Nat], NEW ss \in Seq(Seq(S))
  PROVE  FlattenSeq(ss) \in Seq(S) /\ Weight(W, FlattenSeq(ss)) = Weight(Sums(W, S), ss)
<1>1. PICK m \in Nat : m = Len(ss)
  OBVIOUS
<1>2. PICK R : R = Seq(S)
  OBVIOUS
<1>3. PICK V \in [R -> Nat] : V = Sums(W, S) /\ \A x \in R : V[x] = Weight(W, x)
  BY <1>2, SumsType
<1>4. ss \in Seq(R) /\ \A i \in 1 .. m : ss[i] \in R
  BY <1>1, <1>2
<1>5. PICK g : WeighsTo(V, ss, g) /\ Weight(V, ss) = g[Len(ss)]
  BY <1>4, WeightIs
<1>6. g[0] = 0 /\ \A i \in 1 .. m : g[i] = g[i - 1] + Weight(W, ss[i])
  BY <1>1, <1>3, <1>4, <1>5 DEF WeighsTo
<1>7. CASE m = 0
  <2>1. FlattenSeq(ss) = <<>>
    BY <1>1, <1>4, <1>7, FlattenEmpty
  <2> QED
    BY <1>1, <1>3, <1>5, <1>6, <1>7, <2>1, WeightEmpty
<1>8. CASE m # 0
  <2>1. PICK f : FlattenTo(ss, S, f) /\ FlattenSeq(ss) = f[Len(ss)]
    BY <1>1, <1>8, FlattenIs
  <2>2. /\ \A i \in 1 .. m : f[i] \in Seq(S)
        /\ \A i \in 1 .. m : f[i] = IF i = 1 THEN ss[i] ELSE f[i - 1] \o ss[i]
    BY <1>1, <2>1 DEF FlattenTo
  <2> DEFINE T == {k \in Nat : k # 0 /\ k <= m => Weight(W, f[k]) = g[k]}
  <2>3. 0 \in T
    OBVIOUS
  <2>4. ASSUME NEW k \in Nat, k \in T PROVE k + 1 \in T
    <3>1. CASE k + 1 <= m
      <4>1. PICK i \in 1 .. m : i = k + 1 /\ i - 1 = k
        BY <3>1
      <4>2. ss[i] \in Seq(S) /\ g[i] = g[k] + Weight(W, ss[i])
        BY <1>2, <1>4, <1>6, <4>1
      <4>3. CASE k = 0
        <5>1. f[i] = ss[i] /\ g[i] = 0 + Weight(W, ss[i])
          BY <1>6, <2>2, <4>1, <4>2, <4>3
        <5>2. Weight(W, ss[i]) \in Nat
          BY <4>2, WeightType
        <5>3. Weight(W, f[i]) = g[i]
          BY <5>1, <5>2
        <5> QED
          BY <4>1, <5>3
      <4>4. CASE k # 0
        <5>1. k \in 1 .. m
          BY <3>1, <4>4
        <5>2. f[i] = f[k] \o ss[i] /\ f[k] \in Seq(S) /\ Weight(W, f[k]) = g[k]
          <6>1. i # 1 /\ f[i - 1] = f[k]
            BY <4>1, <4>4
          <6>2. f[i] = f[i - 1] \o ss[i]
            BY <2>2, <6>1
          <6>3. f[k] \in Seq(S) /\ Weight(W, f[k]) = g[k]
            BY <2>2, <2>4, <4>4, <5>1
          <6> QED
            BY <6>1, <6>2, <6>3
        <5>3. Weight(W, f[i]) = Weight(W, f[k]) + Weight(W, ss[i])
          <6>1. PICK x \in Seq(S), y \in Seq(S) : x = f[k] /\ y = ss[i]
            BY <4>2, <5>2
          <6>2. Weight(W, x \o y) = Weight(W, x) + Weight(W, y)
            BY WeightConcat
          <6> QED
            BY <5>2, <6>1, <6>2
        <5>4. Weight(W, f[i]) = g[i]
          BY <4>2, <5>2, <5>3
        <5> QED
          BY <4>1, <5>4
      <4> QED
        BY <4>3, <4>4
    <3>2. CASE ~(k + 1 <= m)
      BY <3>2
    <3> QED
      BY <3>1, <3>2
  <2>5. Nat \subseteq T
    <3> HIDE DEF T
    <3> QED
      BY <2>3, <2>4, ReachesAll
  <2>6. m \in 1 .. m
    BY <1>8
  <2>7. Weight(W, f[m]) = g[m] /\ f[m] \in Seq(S)
    BY <1>8, <2>2, <2>5, <2>6
  <2> QED
    BY <1>1, <1>3, <1>5, <2>1, <2>7
<1> QED
  BY <1>7, <1>8

-----------------------------------------------------------------------------
\* How often a character stands in a text, in texts, in rows, in lines.
Hits(c) == [x \in Character |-> IF x = c THEN 1 ELSE 0]
CountIn(c, s) == Weight(Hits(c), s)
TextHits(c) == Sums(Hits(c), Character)
RowHits(c) == Sums(TextHits(c), Txt)
LineHits(c) == [l \in LineSet |-> CountIn(c, l.body)]

LEMMA HitsType ==
  ASSUME NEW c
  PROVE  /\ Hits(c) \in [Character -> Nat]
         /\ TextHits(c) \in [Txt -> Nat] /\ \A s \in Txt : TextHits(c)[s] = CountIn(c, s)
         /\ RowHits(c) \in [Seq(Txt) -> Nat] /\ \A r \in Seq(Txt) : RowHits(c)[r] = Weight(TextHits(c), r)
         /\ LineHits(c) \in [LineSet -> Nat] /\ \A l \in LineSet : LineHits(c)[l] = CountIn(c, l.body)
<1>1. Hits(c) \in [Character -> Nat]
  BY DEF Hits
<1>2. TextHits(c) \in [Txt -> Nat] /\ \A s \in Txt : TextHits(c)[s] = CountIn(c, s)
  BY <1>1, SumsType DEF TextHits, CountIn, Txt
<1>3. RowHits(c) \in [Seq(Txt) -> Nat] /\ \A r \in Seq(Txt) : RowHits(c)[r] = Weight(TextHits(c), r)
  BY <1>2, SumsType DEF RowHits
<1>4. \A l \in LineSet : CountIn(c, l.body) \in Nat
  <2>1. ASSUME NEW l \in LineSet PROVE CountIn(c, l.body) \in Nat
    <3>1. l.body \in Seq(Character)
      BY DEF LineSet, Txt
    <3> QED
      BY <1>1, <3>1, WeightType DEF CountIn
  <2> QED
    BY <2>1
<1> QED
  BY <1>1, <1>2, <1>3, <1>4 DEF LineHits

LEMMA CountType == ASSUME NEW c, NEW s \in Txt PROVE CountIn(c, s) \in Nat
  BY HitsType, WeightType DEF CountIn, Txt

LEMMA CountEmpty == ASSUME NEW c PROVE CountIn(c, <<>>) = 0
  BY HitsType, WeightEmpty DEF CountIn

LEMMA CountAppend ==
  ASSUME NEW c, NEW s \in Txt, NEW x \in Character
  PROVE  Append(s, x) \in Txt /\ CountIn(c, Append(s, x)) = CountIn(c, s) + (IF x = c THEN 1 ELSE 0)
<1>1. Hits(c) \in [Character -> Nat] /\ Hits(c)[x] = IF x = c THEN 1 ELSE 0
  BY DEF Hits
<1> QED
  BY <1>1, WeightAppend DEF CountIn, Txt

LEMMA CountConcat ==
  ASSUME NEW c, NEW s \in Txt, NEW t \in Txt
  PROVE  s \o t \in Txt /\ CountIn(c, s \o t) = CountIn(c, s) + CountIn(c, t)
<1>1. Hits(c) \in [Character -> Nat]
  BY HitsType
<1>2. s \in Seq(Character) /\ t \in Seq(Character)
  BY DEF Txt
<1>3. s \o t \in Seq(Character) /\ Weight(Hits(c), s \o t) = Weight(Hits(c), s) + Weight(Hits(c), t)
  BY <1>1, <1>2, WeightConcat
<1> QED
  BY <1>3 DEF CountIn, Txt

LEMMA CountNone ==
  ASSUME NEW c, NEW s \in Txt, c \notin Range(s)
  PROVE  CountIn(c, s) = 0
<1>1. s \in Seq(Character) /\ DOMAIN s = 1 .. Len(s)
  BY DEF Txt
<1>2. \A i \in 1 .. Len(s) : s[i] \in Character /\ s[i] # c
  BY <1>1 DEF Range
<1>3. \A i \in 1 .. Len(s) : Hits(c)[s[i]] = 0
  BY <1>2 DEF Hits
<1> QED
  BY <1>1, <1>3, HitsType, WeightNothing DEF CountIn

\* The count is that of the property.
LEMMA CountIs ==
  ASSUME NEW c, NEW s \in Txt
  PROVE  CountIn(c, s) = Cardinality({i \in DOMAIN s : s[i] = c})
<1>1. PICK n \in Nat : n = Len(s)
  BY DEF Txt
<1>2. s \in Seq(Character) /\ DOMAIN s = 1 .. n
  BY <1>1 DEF Txt
<1>3. PICK f : WeighsTo(Hits(c), s, f) /\ CountIn(c, s) = f[n]
  <2>1. Hits(c) \in [Character -> Nat]
    BY HitsType
  <2>2. \E f : WeighsTo(Hits(c), s, f) /\ Weight(Hits(c), s) = f[Len(s)]
    BY <1>2, <2>1, WeightIs
  <2> QED
    BY <1>1, <2>2 DEF CountIn
<1>4. /\ f \in [0 .. n -> Nat] /\ f[0] = 0
      /\ \A i \in 1 .. n : f[i] = f[i - 1] + Hits(c)[s[i]]
  BY <1>1, <1>3 DEF WeighsTo
<1>5. \A i \in 1 .. n : Hits(c)[s[i]] = IF s[i] = c THEN 1 ELSE 0
  BY <1>1, <1>2 DEF Hits
<1> DEFINE C(k) == {i \in 1 .. k : s[i] = c}
           T == {k \in Nat : k <= n => IsFiniteSet(C(k)) /\ Cardinality(C(k)) = f[k]}
<1>6. 0 \in T
  <2>1. C(0) = {}
    OBVIOUS
  <2>2. IsFiniteSet({}) /\ Cardinality({}) = 0
    BY FS_EmptySet
  <2> QED
    BY <1>4, <2>1, <2>2
<1>7. ASSUME NEW k \in Nat, k \in T PROVE k + 1 \in T
  <2>1. CASE k + 1 <= n
    <3>1. PICK i \in 1 .. n : i = k + 1 /\ i - 1 = k
      BY <2>1
    <3>2. IsFiniteSet(C(k)) /\ Cardinality(C(k)) = f[k] /\ f[k] \in Nat
      <4>1. k \in 0 .. n
        BY <2>1
      <4> QED
        BY <1>4, <1>7, <4>1
    <3>3. f[i] = f[k] + (IF s[i] = c THEN 1 ELSE 0)
      BY <1>4, <1>5, <3>1
    <3>4. CASE s[i] = c
      <4>1. C(k + 1) = C(k) \cup {i} /\ i \notin C(k)
        BY <3>1, <3>4
      <4>2. IsFiniteSet(C(k) \cup {i}) /\ Cardinality(C(k) \cup {i}) = Cardinality(C(k)) + 1
        <5> HIDE DEF C
        <5> QED
          BY <3>2, <4>1, FS_AddElement
      <4>3. f[i] = f[k] + 1
        BY <3>3, <3>4
      <4> HIDE DEF C
      <4> QED
        BY <3>1, <3>2, <4>1, <4>2, <4>3
    <3>5. CASE s[i] # c
      <4>1. C(k + 1) = C(k)
        BY <3>1, <3>5
      <4>2. f[i] = f[k]
        BY <3>2, <3>3, <3>5
      <4> HIDE DEF C
      <4> QED
        BY <3>1, <3>2, <4>1, <4>2
    <3> QED
      BY <3>4, <3>5
  <2>2. CASE ~(k + 1 <= n)
    BY <2>2
  <2> QED
    BY <2>1, <2>2
<1>8. Nat \subseteq T
  <2> HIDE DEF T
  <2> QED
    BY <1>6, <1>7, ReachesAll
<1>9. Cardinality(C(n)) = f[n]
  BY <1>8
<1> QED
  BY <1>2, <1>3, <1>9

LEMMA OccurrencesAre ==
  ASSUME NEW c, md.out \in Seq(LineSet)
  PROVE  Occurrences(c) = Weight(LineHits(c), md.out)
<1>1. PICK o \in Seq(LineSet) : o = md.out
  OBVIOUS
<1>2. PICK n \in Nat : n = Len(o)
  BY <1>1
<1> DEFINE Card(l) == Cardinality({i \in DOMAIN l.body : l.body[i] = c})
<1>3. ASSUME NEW i \in 1 .. n PROVE Card(o[i]) = LineHits(c)[o[i]] /\ Card(o[i]) \in Nat
  <2>1. PICK l \in LineSet : l = o[i]
    BY <1>2
  <2>2. PICK s \in Txt : s = l.body
    BY DEF LineSet
  <2>3. CountIn(c, s) = Cardinality({j \in DOMAIN s : s[j] = c}) /\ CountIn(c, s) \in Nat
    BY CountIs, CountType
  <2>4. LineHits(c)[l] = CountIn(c, s)
    BY <2>2, HitsType
  <2> QED
    BY <2>1, <2>2, <2>3, <2>4
<1>4. PICK g : WeighsTo(LineHits(c), o, g) /\ Weight(LineHits(c), o) = g[Len(o)]
  <2>1. LineHits(c) \in [LineSet -> Nat]
    BY HitsType
  <2> HIDE DEF Card
  <2> QED
    BY <2>1, WeightIs
<1>5. /\ g \in [0 .. n -> Nat] /\ g[0] = 0
      /\ \A i \in 1 .. n : g[i] = g[i - 1] + LineHits(c)[o[i]]
  BY <1>2, <1>4 DEF WeighsTo
<1> HIDE DEF Card
<1>6. g = [i \in 0 .. n |-> IF i = 0 THEN 0 ELSE g[i - 1] + Card(o[i])]
  <2>1. ASSUME NEW i \in 0 .. n PROVE g[i] = IF i = 0 THEN 0 ELSE g[i - 1] + Card(o[i])
    <3>1. CASE i = 0
      BY <1>5, <3>1
    <3>2. CASE i # 0
      BY <1>3, <1>5, <3>2
    <3> QED
      BY <3>1, <3>2
  <2> QED
    BY <1>5, <2>1
<1>7. PICK f : f = CHOOSE e : e = [i \in 0 .. Len(o) |-> IF i = 0 THEN 0 ELSE e[i - 1] + Card(o[i])]
  OBVIOUS
<1>8. f = [i \in 0 .. n |-> IF i = 0 THEN 0 ELSE f[i - 1] + Card(o[i])]
  BY <1>2, <1>6, <1>7
<1>9. Occurrences(c) = f[n]
  BY <1>1, <1>2, <1>7 DEF Occurrences, Over, Card
<1> DEFINE T == {k \in Nat : k <= n => f[k] = g[k]}
<1>10. 0 \in T
  BY <1>5, <1>8
<1>11. ASSUME NEW k \in Nat, k \in T PROVE k + 1 \in T
  <2>1. CASE k + 1 <= n
    <3>1. PICK i \in 1 .. n : i = k + 1 /\ i - 1 = k
      BY <2>1
    <3>2. f[i] = f[i - 1] + Card(o[i]) /\ g[i] = g[i - 1] + Card(o[i]) /\ f[k] = g[k]
      BY <1>3, <1>5, <1>8, <1>11, <2>1, <3>1
    <3> QED
      BY <3>1, <3>2
  <2>2. CASE ~(k + 1 <= n)
    BY <2>2
  <2> QED
    BY <2>1, <2>2
<1>12. Nat \subseteq T
  <2> HIDE DEF T
  <2> QED
    BY <1>10, <1>11, ReachesAll
<1>13. f[n] = g[n]
  BY <1>12
<1> QED
  BY <1>1, <1>2, <1>4, <1>9, <1>13

-----------------------------------------------------------------------------
\* Wrapping loses no character but the space a line breaks at.
Letters == Character \ {" ", Dots}
Space == " "
SpaceAt(b) == b.sp > 0 => b.sp <= Len(b.line) /\ b.line[b.sp] = Space
Holds(b, c) == Weight(TextHits(c), b.lines) + CountIn(c, b.line)

LEMMA LinesAreTexts == ASSUME NEW a, NEW ls \in Seq(LineFor(a)) PROVE ls \in Seq(Txt)
<1>1. LineFor(a) \subseteq Txt
  BY DEF LineFor
<1> QED
  BY <1>1, SeqMonotonic

LEMMA TextsAppend ==
  ASSUME NEW c, NEW ls \in Seq(Txt), NEW s \in Txt
  PROVE  /\ Append(ls, s) \in Seq(Txt)
         /\ Weight(TextHits(c), Append(ls, s)) = Weight(TextHits(c), ls) + CountIn(c, s)
<1>1. TextHits(c) \in [Txt -> Nat] /\ TextHits(c)[s] = CountIn(c, s)
  BY HitsType
<1> QED
  BY <1>1, WeightAppend

LEMMA TextsType == ASSUME NEW c, NEW ls \in Seq(Txt) PROVE Weight(TextHits(c), ls) \in Nat
<1>1. TextHits(c) \in [Txt -> Nat]
  BY HitsType
<1> QED
  BY <1>1, WeightType

LEMMA BreakHolds ==
  ASSUME NEW a \in Nat, a >= 1, NEW st \in WrapState(a), SpaceAt(st), NEW x \in Character, NEW c \in Letters
  PROVE  Holds(Broken(st, x, a), c) = Holds(st, c) /\ SpaceAt(Broken(st, x, a))
<1>1. PICK b : b = Broken(st, x, a)
  OBVIOUS
<1>2. /\ st \in [lines : Seq(LineFor(a)), line : LineFor(a), w : Nat, sp : Nat]
      /\ st.sp <= Len(st.line)
  BY DEF WrapState
<1>3. PICK line \in Txt, ls \in Seq(Txt), sp \in Nat : line = st.line /\ ls = st.lines /\ sp = st.sp
  <2>1. st.line \in Txt
    BY <1>2 DEF LineFor
  <2>2. st.lines \in Seq(Txt)
    BY <1>2, LinesAreTexts
  <2> QED
    BY <1>2, <2>1, <2>2
<1>4. PICK u \in Nat, v \in Nat : u = Weight(TextHits(c), ls) /\ v = CountIn(c, line)
  BY TextsType, CountType
<1>5. Holds(st, c) = u + v
  BY <1>3, <1>4 DEF Holds
<1>6. CASE st.w + CharW(x) <= a \/ st.line = <<>>
  BY <1>1, <1>6 DEF Broken
<1>7. CASE ~(st.w + CharW(x) <= a \/ st.line = <<>>) /\ sp > 0
  <2>1. PICK tail, head : tail = SubSeq(line, sp + 1, Len(line)) /\ head = SubSeq(line, 1, sp - 1)
    OBVIOUS
  <2>2. b = [lines |-> Append(ls, head), line |-> tail, w |-> DispWidth(tail), sp |-> 0]
    BY <1>1, <1>3, <1>7, <2>1 DEF Broken
  <2>3. b.lines = Append(ls, head) /\ b.line = tail /\ b.sp = 0
    BY <2>2
  <2>4. sp \in 1 .. Len(line) /\ line[sp] = Space
    <3>1. sp <= Len(line) /\ line[sp] = Space
      BY <1>3, <1>7 DEF SpaceAt
    <3>2. Len(line) \in Nat
      BY DEF Txt
    <3> QED
      BY <1>7, <3>1, <3>2
  <2>5. /\ head \in Txt /\ tail \in Txt
        /\ CountIn(c, line) = CountIn(c, head) + Hits(c)[line[sp]] + CountIn(c, tail)
    <3>1. Hits(c) \in [Character -> Nat] /\ line \in Seq(Character)
      BY HitsType DEF Txt
    <3>2. /\ SubSeq(line, 1, sp - 1) \in Seq(Character) /\ SubSeq(line, sp + 1, Len(line)) \in Seq(Character)
          /\ Weight(Hits(c), line) = Weight(Hits(c), SubSeq(line, 1, sp - 1)) + Hits(c)[line[sp]]
                                       + Weight(Hits(c), SubSeq(line, sp + 1, Len(line)))
      BY <2>4, <3>1, WeightAround
    <3> QED
      BY <2>1, <3>2 DEF CountIn, Txt
  <2>6. Hits(c)[line[sp]] = 0
    <3>1. Space \in Character /\ Space # c
      BY DEF Character, Letters, Space
    <3> QED
      BY <2>4, <3>1 DEF Hits
  <2>7. PICK p \in Nat, q \in Nat : p = CountIn(c, head) /\ q = CountIn(c, tail)
    BY <2>5, CountType
  <2>8. v = p + q
    BY <1>4, <2>5, <2>6, <2>7
  <2>9. Weight(TextHits(c), Append(ls, head)) = u + p
    BY <1>4, <2>5, <2>7, TextsAppend
  <2>10. Holds(b, c) = u + p + q
    BY <2>3, <2>7, <2>9 DEF Holds
  <2>11. SpaceAt(b)
    BY <2>3 DEF SpaceAt
  <2> QED
    BY <1>1, <1>5, <2>8, <2>10, <2>11
<1>8. CASE ~(st.w + CharW(x) <= a \/ st.line = <<>>) /\ ~(sp > 0)
  <2>1. b = [lines |-> Append(ls, line), line |-> <<>>, w |-> 0, sp |-> 0]
    BY <1>1, <1>3, <1>8 DEF Broken
  <2>2. b.lines = Append(ls, line) /\ b.line = <<>> /\ b.sp = 0
    BY <2>1
  <2>3. Weight(TextHits(c), Append(ls, line)) = u + v /\ CountIn(c, <<>>) = 0
    BY <1>4, TextsAppend, CountEmpty
  <2>4. Holds(b, c) = u + v
    BY <2>2, <2>3 DEF Holds
  <2>5. SpaceAt(b)
    BY <2>2 DEF SpaceAt
  <2> QED
    BY <1>1, <1>5, <2>4, <2>5
<1> QED
  BY <1>6, <1>7, <1>8

LEMMA PutHolds ==
  ASSUME NEW a \in Nat, NEW x \in Character, NEW b, RoomFor(b, x, a), SpaceAt(b), NEW c
  PROVE  Holds(Put(b, x), c) = Holds(b, c) + (IF x = c THEN 1 ELSE 0) /\ SpaceAt(Put(b, x))
<1>1. b \in [lines : Seq(LineFor(a)), line : Txt, w : Nat, sp : Nat]
  BY DEF RoomFor
<1>2. PICK line \in Txt, ls \in Seq(Txt) : line = b.line /\ ls = b.lines
  BY <1>1, LinesAreTexts
<1>3. PICK n \in Nat : n = Len(line)
  BY DEF Txt
<1>4. PICK l : l = Append(line, x)
  OBVIOUS
<1>5. l \in Txt /\ Longer(line, x, l) /\ CountIn(c, l) = CountIn(c, line) + (IF x = c THEN 1 ELSE 0)
  BY <1>4, AppendTxt, CountAppend
<1>6. PICK p : p = Put(b, x)
  OBVIOUS
<1>7. p.lines = ls /\ p.line = l /\ p.sp = IF x = Space THEN n + 1 ELSE b.sp
  BY <1>1, <1>2, <1>3, <1>4, <1>6 DEF Put, Space
<1>8. PICK k \in {0, 1} : k = IF x = c THEN 1 ELSE 0
  OBVIOUS
<1>9. PICK u \in Nat, v \in Nat : u = Weight(TextHits(c), ls) /\ v = CountIn(c, line)
  BY TextsType, CountType
<1>10. Holds(p, c) = u + (v + k) /\ Holds(b, c) = u + v
  BY <1>2, <1>5, <1>7, <1>8, <1>9 DEF Holds
<1>11. SpaceAt(p)
  <2>1. Len(l) = n + 1 /\ l[n + 1] = x /\ \A j \in 1 .. n : l[j] = line[j]
    BY <1>3, <1>5 DEF Longer
  <2>2. CASE x = Space
    <3>1. p.sp = n + 1
      BY <1>7, <2>2
    <3> QED
      BY <1>7, <2>1, <2>2, <3>1 DEF SpaceAt
  <2>3. CASE x # Space
    <3>1. PICK sp \in Nat : sp = b.sp /\ sp = p.sp
      BY <1>1, <1>7, <2>3
    <3>2. sp > 0 => sp <= n /\ line[sp] = Space
      BY <1>2, <1>3, <3>1 DEF SpaceAt
    <3>3. sp > 0 => sp <= n + 1 /\ l[sp] = Space
      BY <2>1, <3>2
    <3> QED
      BY <1>7, <2>1, <3>1, <3>3 DEF SpaceAt
  <2> QED
    BY <2>2, <2>3
<1>12. Holds(p, c) = Holds(b, c) + k
  BY <1>10
<1> QED
  BY <1>6, <1>8, <1>11, <1>12

LEMMA WrapHolds ==
  ASSUME NEW a \in Nat, a >= 1, NEW s \in Txt, NEW c \in Letters
  PROVE  Wrapping(s, a) \in WrapState(a) /\ Holds(Wrapping(s, a), c) = CountIn(c, s)
<1>1. PICK f : WrapTo(s, a, f) /\ Wrapping(s, a) = f[Len(s)]
  BY WrapFolds
<1>2. PICK n \in Nat : n = Len(s)
  BY DEF Txt
<1>3. /\ \A i \in 0 .. n : f[i] \in WrapState(a)
      /\ f[0] = Started
      /\ \A i \in 1 .. n : f[i] = WrapChar(f[i - 1], s[i], a)
  BY <1>1, <1>2 DEF WrapTo
<1>4. s \in Seq(Character) /\ \A i \in 1 .. n : s[i] \in Character
  BY <1>2 DEF Txt
<1>5. PICK g : WeighsTo(Hits(c), s, g) /\ CountIn(c, s) = g[n]
  <2>1. Hits(c) \in [Character -> Nat]
    BY HitsType
  <2>2. \E g : WeighsTo(Hits(c), s, g) /\ Weight(Hits(c), s) = g[Len(s)]
    BY <1>4, <2>1, WeightIs
  <2> QED
    BY <1>2, <2>2 DEF CountIn
<1>6. g[0] = 0 /\ \A i \in 1 .. n : g[i] = g[i - 1] + Hits(c)[s[i]]
  BY <1>2, <1>5 DEF WeighsTo
<1> DEFINE T == {k \in Nat : k <= n /\ Holds(f[k], c) = g[k] /\ SpaceAt(f[k])}
<1>7. 0 \in T
  <2>1. PICK st : st = Started
    OBVIOUS
  <2>2. st.lines = <<>> /\ st.line = <<>> /\ st.sp = 0
    BY <2>1 DEF Started
  <2>3. Weight(TextHits(c), <<>>) = 0 /\ CountIn(c, <<>>) = 0
    BY HitsType, WeightEmpty, CountEmpty
  <2>4. Holds(st, c) = 0 /\ SpaceAt(st)
    BY <2>2, <2>3 DEF Holds, SpaceAt
  <2> QED
    BY <1>3, <1>6, <2>1, <2>4
<1>8. ASSUME NEW k \in Nat, k < n, k \in T PROVE k + 1 \in T
  <2>1. PICK i \in 1 .. n : i = k + 1 /\ i - 1 = k
    BY <1>8
  <2>2. PICK st \in WrapState(a), x \in Character : st = f[k] /\ x = s[i]
    BY <1>3, <1>4, <1>8
  <2>3. PICK b : b = Broken(st, x, a)
    OBVIOUS
  <2>4. SpaceAt(st) /\ Holds(st, c) = g[k]
    BY <1>8, <2>2
  <2>5. Holds(b, c) = Holds(st, c) /\ SpaceAt(b) /\ RoomFor(b, x, a)
    BY <2>3, <2>4, BreakHolds, BreakMakesRoom
  <2>6. Holds(Put(b, x), c) = Holds(b, c) + (IF x = c THEN 1 ELSE 0) /\ SpaceAt(Put(b, x))
    BY <2>5, PutHolds
  <2>7. f[i] = Put(b, x)
    <3>1. f[i] = WrapChar(st, x, a)
      BY <1>3, <2>1, <2>2
    <3>2. WrapChar(st, x, a) = Put(Broken(st, x, a), x)
      BY DEF WrapChar, Put, Broken
    <3> QED
      BY <2>3, <3>1, <3>2
  <2>8. g[i] = g[k] + (IF x = c THEN 1 ELSE 0)
    <3>1. Hits(c)[x] = IF x = c THEN 1 ELSE 0
      BY DEF Hits
    <3> QED
      BY <1>6, <2>1, <2>2, <3>1
  <2>9. Holds(f[i], c) = g[i] /\ SpaceAt(f[i])
    BY <2>4, <2>5, <2>6, <2>7, <2>8
  <2> QED
    BY <2>1, <2>9
<1>9. 0 .. n \subseteq T
  <2> HIDE DEF T
  <2> QED
    BY <1>7, <1>8, Reaches
<1>10. Holds(f[n], c) = g[n] /\ f[n] \in WrapState(a)
  <2>1. n \in 0 .. n
    OBVIOUS
  <2> QED
    BY <1>3, <1>9, <2>1
<1> QED
  BY <1>1, <1>2, <1>5, <1>10

LEMMA WrapRunsKeep ==
  ASSUME NEW chars \in Txt, NEW first \in Int, width \in Nat, NEW c \in Letters
  PROVE  /\ WrapRuns(chars, first) \in Seq(Txt)
         /\ Weight(TextHits(c), WrapRuns(chars, first)) = CountIn(c, chars)
<1>1. PICK a \in Nat : a = (IF width - first > 1 THEN width - first ELSE 1) /\ a >= 1
  OBVIOUS
<1>2. PICK st : st = Wrapping(chars, a)
  OBVIOUS
<1>3. st \in WrapState(a) /\ Holds(st, c) = CountIn(c, chars)
  BY <1>1, <1>2, WrapHolds
<1>4. PICK ls \in Seq(Txt), line \in Txt : ls = st.lines /\ line = st.line
  <2>1. st.lines \in Seq(LineFor(a)) /\ st.line \in LineFor(a)
    BY <1>3 DEF WrapState
  <2> QED
    BY <2>1, LinesAreTexts DEF LineFor
<1>5. WrapRuns(chars, first) = IF line # <<>> \/ ls = <<>> THEN Append(ls, line) ELSE ls
  <2>1. WrapRuns(chars, first) =
          LET t == Wrapping(chars, IF width - first > 1 THEN width - first ELSE 1)
          IN IF t.line # <<>> \/ t.lines = <<>> THEN Append(t.lines, t.line) ELSE t.lines
    BY DEF WrapRuns, Wrapping, Over
  <2> QED
    BY <1>1, <1>2, <1>4, <2>1
<1>6. Holds(st, c) = Weight(TextHits(c), ls) + CountIn(c, line) /\ Weight(TextHits(c), ls) \in Nat
  BY <1>4, TextsType DEF Holds
<1>7. CASE line # <<>> \/ ls = <<>>
  BY <1>3, <1>5, <1>6, <1>7, TextsAppend
<1>8. CASE ~(line # <<>> \/ ls = <<>>)
  <2>1. CountIn(c, line) = 0
    BY <1>8, CountEmpty
  <2> QED
    BY <1>3, <1>5, <1>6, <1>8, <2>1
<1> QED
  BY <1>7, <1>8

-----------------------------------------------------------------------------
\* Cutting code into segments loses nothing.
Cuts(b, c) == Weight(TextHits(c), b.segs) + CountIn(c, b.cur)

LEMMA CodeStepCuts ==
  ASSUME NEW a \in Int, NEW st \in CodeState(a), NEW x \in Character, NEW c
  PROVE  Cuts(CodeStep(st, x, a), c) = Cuts(st, c) + (IF x = c THEN 1 ELSE 0)
<1>1. st \in [segs : Segments(a), cur : Txt, w : Nat]
  BY DEF CodeState
<1>2. PICK ss \in Seq(Txt), cur \in Txt : ss = st.segs /\ cur = st.cur
  BY <1>1 DEF Segments
<1>3. PICK u \in Nat, v \in Nat : u = Weight(TextHits(c), ss) /\ v = CountIn(c, cur)
  BY TextsType, CountType
<1>4. PICK k \in {0, 1} : k = IF x = c THEN 1 ELSE 0
  OBVIOUS
<1>5. Cuts(st, c) = u + v
  BY <1>2, <1>3 DEF Cuts
<1>6. PICK b : b = CodeStep(st, x, a)
  OBVIOUS
<1>7. \/ b.segs = Append(ss, cur) /\ b.cur = <<x>>
      \/ b.segs = ss /\ b.cur = Append(cur, x)
  <2>1. PICK P : P = (st.w + CharW(x) > (IF (IF st.segs = <<>> THEN a ELSE a - 2) > 1
                                         THEN IF st.segs = <<>> THEN a ELSE a - 2 ELSE 1) /\ st.cur # <<>>)
    OBVIOUS
  <2>2. b = IF P THEN [segs |-> Append(st.segs, st.cur), cur |-> <<x>>, w |-> CharW(x)]
            ELSE [st EXCEPT !.cur = Append(@, x), !.w = @ + CharW(x)]
    BY <1>6, <2>1 DEF CodeStep
  <2>3. CASE P
    BY <1>2, <2>2, <2>3
  <2>4. CASE ~P
    BY <1>1, <1>2, <2>2, <2>4
  <2> QED
    BY <2>3, <2>4
<1>8. CASE b.segs = Append(ss, cur) /\ b.cur = <<x>>
  <2>1. CountIn(c, <<x>>) = 0 + k
    <3>1. <<x>> = Append(<<>>, x)
      OBVIOUS
    <3>2. <<>> \in Txt
      BY DispEmpty
    <3>3. CountIn(c, Append(<<>>, x)) = CountIn(c, <<>>) + (IF x = c THEN 1 ELSE 0)
      BY <3>2, CountAppend
    <3> QED
      BY <1>4, <3>1, <3>3, CountEmpty
  <2>2. Weight(TextHits(c), Append(ss, cur)) = u + v
    BY <1>3, TextsAppend
  <2>3. Cuts(b, c) = (u + v) + (0 + k)
    BY <1>8, <2>1, <2>2 DEF Cuts
  <2>4. Cuts(b, c) = Cuts(st, c) + k
    BY <1>5, <2>3
  <2> QED
    BY <1>4, <1>6, <2>4
<1>9. CASE b.segs = ss /\ b.cur = Append(cur, x)
  <2>1. CountIn(c, Append(cur, x)) = v + k
    BY <1>3, <1>4, CountAppend
  <2>2. Cuts(b, c) = u + (v + k)
    BY <1>3, <1>9, <2>1 DEF Cuts
  <2>3. Cuts(b, c) = Cuts(st, c) + k
    BY <1>5, <2>2
  <2> QED
    BY <1>4, <1>6, <2>3
<1> QED
  BY <1>7, <1>8, <1>9

LEMMA WrapCodeKeeps ==
  ASSUME NEW s \in Txt, NEW a \in Int, NEW c
  PROVE  WrapCode(s, a) \in Seq(Txt) /\ Weight(TextHits(c), WrapCode(s, a)) = CountIn(c, s)
<1>1. PICK f : CodeTo(s, a, f) /\ Cutting(s, a) = f[Len(s)]
  BY CodeFolds
<1>2. PICK n \in Nat : n = Len(s)
  BY DEF Txt
<1>3. /\ \A i \in 0 .. n : f[i] \in CodeState(a)
      /\ f[0] = NoSegs
      /\ \A i \in 1 .. n : f[i] = CodeStep(f[i - 1], s[i], a)
  BY <1>1, <1>2 DEF CodeTo
<1>4. s \in Seq(Character) /\ \A i \in 1 .. n : s[i] \in Character
  BY <1>2 DEF Txt
<1>5. PICK g : WeighsTo(Hits(c), s, g) /\ CountIn(c, s) = g[n]
  <2>1. Hits(c) \in [Character -> Nat]
    BY HitsType
  <2>2. \E g : WeighsTo(Hits(c), s, g) /\ Weight(Hits(c), s) = g[Len(s)]
    BY <1>4, <2>1, WeightIs
  <2> QED
    BY <1>2, <2>2 DEF CountIn
<1>6. g[0] = 0 /\ \A i \in 1 .. n : g[i] = g[i - 1] + Hits(c)[s[i]]
  BY <1>2, <1>5 DEF WeighsTo
<1> DEFINE T == {k \in Nat : k <= n /\ Cuts(f[k], c) = g[k]}
<1>7. 0 \in T
  <2>1. PICK st : st = NoSegs
    OBVIOUS
  <2>2. st.segs = <<>> /\ st.cur = <<>>
    BY <2>1 DEF NoSegs
  <2>3. Weight(TextHits(c), <<>>) = 0 /\ CountIn(c, <<>>) = 0
    BY HitsType, WeightEmpty, CountEmpty
  <2>4. Cuts(st, c) = 0
    BY <2>2, <2>3 DEF Cuts
  <2> QED
    BY <1>3, <1>6, <2>1, <2>4
<1>8. ASSUME NEW k \in Nat, k < n, k \in T PROVE k + 1 \in T
  <2>1. PICK i \in 1 .. n : i = k + 1 /\ i - 1 = k
    BY <1>8
  <2>2. PICK st \in CodeState(a), x \in Character : st = f[k] /\ x = s[i]
    BY <1>3, <1>4, <1>8
  <2>3. f[i] = CodeStep(st, x, a)
    BY <1>3, <2>1, <2>2
  <2>4. Cuts(f[i], c) = Cuts(st, c) + (IF x = c THEN 1 ELSE 0)
    BY <2>3, CodeStepCuts
  <2>5. g[i] = g[k] + (IF x = c THEN 1 ELSE 0)
    <3>1. Hits(c)[x] = IF x = c THEN 1 ELSE 0
      BY DEF Hits
    <3> QED
      BY <1>6, <2>1, <2>2, <3>1
  <2>6. Cuts(f[i], c) = g[i]
    BY <1>8, <2>2, <2>4, <2>5
  <2> QED
    BY <2>1, <2>6
<1>9. 0 .. n \subseteq T
  <2> HIDE DEF T
  <2> QED
    BY <1>7, <1>8, Reaches
<1>10. Cuts(f[n], c) = g[n] /\ f[n] \in CodeState(a)
  <2>1. n \in 0 .. n
    OBVIOUS
  <2> QED
    BY <1>3, <1>9, <2>1
<1>11. PICK st \in CodeState(a) : st = f[n]
  BY <1>10
<1>12. st.segs \in Seq(Txt) /\ st.cur \in Txt
  BY DEF CodeState, Segments
<1>13. WrapCode(s, a) = Append(st.segs, st.cur)
  <2>1. WrapCode(s, a) = LET t == Cutting(s, a) IN Append(t.segs, t.cur)
    BY DEF WrapCode, Cutting, CodeStep, Over
  <2> QED
    BY <1>1, <1>2, <1>11, <2>1
<1>14. Cuts(st, c) = CountIn(c, s)
  BY <1>5, <1>10, <1>11
<1> QED
  BY <1>12, <1>13, <1>14, TextsAppend DEF Cuts

-----------------------------------------------------------------------------
\* Lines that show texts.
Shows(o, ls) == /\ o \in Seq(LineSet) /\ Len(o) = Len(ls)
                /\ \A i \in 1 .. Len(ls) : o[i].body = ls[i]

LEMMA FunSeq == ASSUME NEW S, NEW n \in Nat, NEW p \in [1 .. n -> S] PROVE p \in Seq(S) /\ Len(p) = n
  OBVIOUS

LEMMA ShownKeeps ==
  ASSUME NEW c, NEW ls \in Seq(Txt), NEW o, Shows(o, ls)
  PROVE  Weight(LineHits(c), o) = Weight(TextHits(c), ls)
<1>1. PICK n \in Nat : n = Len(o) /\ n = Len(ls)
  BY DEF Shows
<1>2. o \in Seq(LineSet) /\ \A i \in 1 .. n : o[i] \in LineSet /\ ls[i] \in Txt /\ o[i].body = ls[i]
  BY <1>1 DEF Shows
<1>3. ASSUME NEW i \in 1 .. n PROVE LineHits(c)[o[i]] = TextHits(c)[ls[i]]
  <2>1. PICK l \in LineSet, s \in Txt : l = o[i] /\ s = ls[i] /\ l.body = s
    BY <1>2
  <2>2. LineHits(c)[l] = CountIn(c, l.body) /\ TextHits(c)[s] = CountIn(c, s)
    BY HitsType
  <2> QED
    BY <2>1, <2>2
<1>4. LineHits(c) \in [LineSet -> Nat] /\ TextHits(c) \in [Txt -> Nat]
  BY HitsType
<1>5. Alike(LineHits(c), o, TextHits(c), ls)
  BY <1>1, <1>3 DEF Alike
<1>6. Weighs(LineHits(c), LineSet, o) /\ Weighs(TextHits(c), Txt, ls)
  BY <1>2, <1>4 DEF Weighs
<1> QED
  BY <1>5, <1>6, WeightSame

LEMMA LinesConcat ==
  ASSUME NEW c, NEW o \in Seq(LineSet), NEW p \in Seq(LineSet)
  PROVE  o \o p \in Seq(LineSet) /\ Weight(LineHits(c), o \o p) = Weight(LineHits(c), o) + Weight(LineHits(c), p)
<1>1. LineHits(c) \in [LineSet -> Nat]
  BY HitsType
<1> QED
  BY <1>1, WeightConcat

LEMMA LinesType == ASSUME NEW c, NEW o \in Seq(LineSet) PROVE Weight(LineHits(c), o) \in Nat
<1>1. LineHits(c) \in [LineSet -> Nat]
  BY HitsType
<1> QED
  BY <1>1, WeightType

\* A line without text adds nothing.
LEMMA LineAppend ==
  ASSUME NEW c, NEW o \in Seq(LineSet), NEW l \in LineSet, l.body = <<>>
  PROVE  Append(o, l) \in Seq(LineSet) /\ Weight(LineHits(c), Append(o, l)) = Weight(LineHits(c), o)
<1>1. LineHits(c) \in [LineSet -> Nat] /\ LineHits(c)[l] = 0
  BY HitsType, CountEmpty
<1>2. Weight(LineHits(c), Append(o, l)) = Weight(LineHits(c), o) + LineHits(c)[l] /\ Append(o, l) \in Seq(LineSet)
  BY <1>1, WeightAppend
<1> QED
  BY <1>1, <1>2, LinesType

-----------------------------------------------------------------------------
\* A row that says text is missing: it is cut at its edge or shows dots.
Warns(l) == l.kind = "table" /\ (l.mark \/ Contains(l.body, Dots)) /\ ~IsBlank(l)
Marked(o) == \E i \in 1 .. Len(o) : Warns(o[i])

LEMMA MarkedStays ==
  ASSUME NEW o \in Seq(LineSet), NEW p \in Seq(LineSet)
  PROVE  /\ Marked(o) => Marked(o \o p)
         /\ Marked(p) => Marked(o \o p)
<1>1. PICK a \in Nat, b \in Nat : a = Len(o) /\ b = Len(p)
  OBVIOUS
<1>2. PICK q : q = o \o p
  OBVIOUS
<1>3. Len(q) = a + b /\ (\A i \in 1 .. a : q[i] = o[i]) /\ (\A i \in 1 .. b : q[a + i] = p[i])
  BY <1>1, <1>2
<1>4. ASSUME Marked(o) PROVE Marked(q)
  <2>1. PICK i \in 1 .. a : Warns(o[i])
    BY <1>1, <1>4 DEF Marked
  <2>2. i \in 1 .. a + b
    OBVIOUS
  <2> QED
    BY <1>3, <2>1, <2>2 DEF Marked
<1>5. ASSUME Marked(p) PROVE Marked(q)
  <2>1. PICK i \in 1 .. b : Warns(p[i])
    BY <1>1, <1>5 DEF Marked
  <2>2. a + i \in 1 .. a + b
    OBVIOUS
  <2> QED
    BY <1>3, <2>1, <2>2 DEF Marked
<1> QED
  BY <1>2, <1>4, <1>5

\* What is on the page and on its way there.
Amount(m, c) == Weight(LineHits(c), m.out) + CountIn(c, m.runs) + Weight(TextHits(c), m.code)

Emits(m, k, c) ==
  /\ k \in Pages(LineSet)
  /\ Marked(m.out) => Marked(k.out)
  /\ Amount(k, c) = Amount(m, c)
  /\ CountIn(c, k.runs) <= CountIn(c, m.runs)
  /\ Weight(TextHits(c), k.code) <= Weight(TextHits(c), m.code)
  /\ k.cell = m.cell /\ k.row = m.row /\ k.head = m.head /\ k.rows = m.rows
  /\ k.inTable = m.inTable /\ k.inCode = m.inCode /\ k.link = m.link /\ k.inHead = m.inHead

PageNumbers(m, c, x, y, z) ==
  /\ x = Weight(LineHits(c), m.out) /\ y = CountIn(c, m.runs) /\ z = Weight(TextHits(c), m.code)
  /\ Amount(m, c) = x + y + z

LEMMA PageAmounts ==
  ASSUME NEW c, NEW m \in Pages(LineSet)
  PROVE  \E x \in Nat, y \in Nat, z \in Nat : PageNumbers(m, c, x, y, z)
<1>1. m.out \in Seq(LineSet) /\ m.runs \in Txt /\ m.code \in Seq(Txt)
  BY DEF Pages
<1>2. Weight(LineHits(c), m.out) \in Nat /\ CountIn(c, m.runs) \in Nat /\ Weight(TextHits(c), m.code) \in Nat
  BY <1>1, LinesType, CountType, TextsType
<1> QED
  BY <1>2 DEF Amount, PageNumbers

LEMMA EmitsOn ==
  ASSUME NEW c, NEW m \in Pages(LineSet), NEW k, NEW n, Emits(m, k, c), Emits(k, n, c)
  PROVE  Emits(m, n, c)
<1>1. k \in Pages(LineSet) /\ n \in Pages(LineSet)
  BY DEF Emits
<1>2. PICK x1 \in Nat, y1 \in Nat, z1 \in Nat : PageNumbers(m, c, x1, y1, z1)
  BY PageAmounts
<1>3. PICK x2 \in Nat, y2 \in Nat, z2 \in Nat : PageNumbers(k, c, x2, y2, z2)
  BY <1>1, PageAmounts
<1>4. PICK x3 \in Nat, y3 \in Nat, z3 \in Nat : PageNumbers(n, c, x3, y3, z3)
  BY <1>1, PageAmounts
<1>5. y2 <= y1 /\ z2 <= z1 /\ y3 <= y2 /\ z3 <= z2
  BY <1>2, <1>3, <1>4 DEF Emits, PageNumbers
<1>6. y3 <= y1 /\ z3 <= z1
  BY <1>5
<1>7. CountIn(c, n.runs) <= CountIn(c, m.runs) /\ Weight(TextHits(c), n.code) <= Weight(TextHits(c), m.code)
  BY <1>2, <1>4, <1>6 DEF PageNumbers
<1> QED
  BY <1>1, <1>7 DEF Emits

LEMMA EmitsLine ==
  ASSUME NEW c, NEW m \in Pages(LineSet), NEW l \in LineSet, l.body = <<>>
  PROVE  Emits(m, [m EXCEPT !.out = Append(@, l)], c)
<1>1. PICK k : k = [m EXCEPT !.out = Append(@, l)]
  OBVIOUS
<1>2. PICK o \in Seq(LineSet) : o = m.out
  BY DEF Pages
<1>3. PICK p : p = Append(o, l)
  OBVIOUS
<1>4. p \in Seq(LineSet) /\ Weight(LineHits(c), p) = Weight(LineHits(c), o)
  BY <1>3, LineAppend
<1>5. /\ k.out = p /\ k.runs = m.runs /\ k.code = m.code
      /\ k.cell = m.cell /\ k.row = m.row /\ k.head = m.head /\ k.rows = m.rows
      /\ k.inTable = m.inTable /\ k.inCode = m.inCode /\ k.link = m.link /\ k.inHead = m.inHead
  BY <1>1, <1>2, <1>3 DEF Pages
<1>6. k \in Pages(LineSet)
  BY <1>1, <1>2, <1>3, <1>4 DEF Pages
<1>7. Marked(m.out) => Marked(k.out)
  <2>1. Append(o, l) = o \o <<l>> /\ <<l>> \in Seq(LineSet)
    BY AppendIsConcat
  <2> QED
    BY <1>2, <1>3, <1>5, <2>1, MarkedStays
<1>8. Amount(k, c) = Amount(m, c)
  BY <1>2, <1>4, <1>5 DEF Amount
<1>9. CountIn(c, m.runs) \in Nat /\ Weight(TextHits(c), m.code) \in Nat
  BY CountType, TextsType DEF Pages
<1> QED
  BY <1>1, <1>5, <1>6, <1>7, <1>8, <1>9 DEF Emits

LEMMA EmitsSame == ASSUME NEW c, NEW m \in Pages(LineSet) PROVE Emits(m, m, c)
<1>1. CountIn(c, m.runs) \in Nat /\ Weight(TextHits(c), m.code) \in Nat
  BY CountType, TextsType DEF Pages
<1> QED
  BY <1>1 DEF Emits

LEMMA PlainLine ==
  ASSUME NEW kind \in LineKinds, NEW pre \in Int
  PROVE  Line(kind, pre, FALSE, <<>>) \in LineSet /\ Line(kind, pre, FALSE, <<>>).body = <<>>
<1>1. FALSE \in BOOLEAN /\ <<>> \in Txt
  BY DispEmpty
<1> QED
  BY <1>1, MakeLine, Zenon DEF Made

LEMMA EmitsBlank ==
  ASSUME NEW c, NEW m \in Pages(LineSet)
  PROVE  Emits(m, BlankAfter(m), c)
<1>1. BlankLine \in LineSet /\ BlankLine.body = <<>>
  <2>1. "text" \in LineKinds /\ 0 \in Int
    BY DEF LineKinds
  <2> QED
    BY <2>1, PlainLine, Zenon DEF BlankLine
<1>2. Emits(m, [m EXCEPT !.out = Append(@, BlankLine)], c)
  BY <1>1, EmitsLine
<1>3. BlankAfter(m) \in {m, [m EXCEPT !.out = Append(@, BlankLine)]}
  BY DEF BlankAfter
<1> QED
  BY <1>2, <1>3, EmitsSame

\* The lines are written and the text they show is let go.
Wrote(m, k, ls) == \E new : Shows(new, ls) /\ k = [m EXCEPT !.out = m.out \o new, !.runs = <<>>]

LEMMA WrappedLines ==
  ASSUME NEW m \in Pages(LineSet), width \in Nat, NEW first \in Int, NEW mark \in BOOLEAN,
         NEW ls, ls = WrapRuns(m.runs, first)
  PROVE  ls \in Seq(Txt) /\ Wrote(m, PushWrapped(m, first, mark), ls)
<1>1. ls \in Seq(Txt)
  <2>1. PICK a : a = IF width - first > 1 THEN width - first ELSE 1
    OBVIOUS
  <2>2. m.runs \in Txt
    BY DEF Pages
  <2>3. ls \in Seq(LineFor(a))
    BY <2>1, <2>2, WrapRunsFit
  <2> QED
    BY <2>3, LinesAreTexts
<1>4. PICK n \in Nat : n = Len(ls) /\ DOMAIN ls = 1 .. n
  BY <1>1
<1>5. PICK new : new = [i \in DOMAIN ls |-> Line("text", first, mark /\ i = 1, ls[i])]
  OBVIOUS
<1>6. Shows(new, ls)
  <2>1. ASSUME NEW i \in 1 .. n
        PROVE  Line("text", first, mark /\ i = 1, ls[i]) \in LineSet
               /\ Line("text", first, mark /\ i = 1, ls[i]).body = ls[i]
    <3>1. ls[i] \in Txt /\ (mark /\ i = 1) \in BOOLEAN
      BY <1>1, <1>4
    <3>2. "text" \in LineKinds
      BY DEF LineKinds
    <3>3. Made(Line("text", first, mark /\ i = 1, ls[i]), "text", first, ls[i])
      BY <3>1, <3>2, MakeLine, Zenon
    <3> QED
      BY <3>3 DEF Made
  <2>2. new = [i \in 1 .. n |-> Line("text", first, mark /\ i = 1, ls[i])]
    BY <1>4, <1>5
  <2>3. new \in [1 .. n -> LineSet]
    BY <2>1, <2>2, Zenon
  <2>4. new \in Seq(LineSet) /\ Len(new) = n
    BY <2>3
  <2>5. \A i \in 1 .. n : new[i].body = ls[i]
    BY <2>1, <2>2, Zenon
  <2> QED
    BY <1>4, <2>4, <2>5 DEF Shows
<1>7. PushWrapped(m, first, mark) = [m EXCEPT !.out = m.out \o new, !.runs = <<>>]
  BY <1>5 DEF PushWrapped
<1> QED
  BY <1>1, <1>6, <1>7 DEF Wrote

LEMMA EmitsWrapped ==
  ASSUME NEW c \in Letters, NEW m \in Pages(LineSet), width \in Nat, NEW first \in Int, NEW mark \in BOOLEAN
  PROVE  Emits(m, PushWrapped(m, first, mark), c) /\ PushWrapped(m, first, mark).runs = <<>>
<1>1. PICK o \in Seq(LineSet), runs \in Txt : o = m.out /\ runs = m.runs
  BY DEF Pages
<1>2. PICK ls : ls = WrapRuns(m.runs, first)
  OBVIOUS
<1>3. ls \in Seq(Txt) /\ Weight(TextHits(c), ls) = CountIn(c, runs)
  BY <1>1, <1>2, WrapRunsKeep
<1>5. Wrote(m, PushWrapped(m, first, mark), ls)
  BY <1>2, WrappedLines
<1>6. PICK new : Shows(new, ls) /\ PushWrapped(m, first, mark) = [m EXCEPT !.out = m.out \o new, !.runs = <<>>]
  BY <1>5 DEF Wrote
<1>7. new \in Seq(LineSet) /\ Weight(LineHits(c), new) = CountIn(c, runs)
  BY <1>3, <1>6, ShownKeeps DEF Shows
<1>8. PICK k : k = PushWrapped(m, first, mark)
  OBVIOUS
<1>9. k = [m EXCEPT !.out = o \o new, !.runs = <<>>]
  BY <1>1, <1>6, <1>8
<1>10. o \o new \in Seq(LineSet) /\ Weight(LineHits(c), o \o new) = Weight(LineHits(c), o) + Weight(LineHits(c), new)
  BY <1>7, LinesConcat
<1>11. /\ k.out = o \o new /\ k.runs = <<>> /\ k.code = m.code
       /\ k.cell = m.cell /\ k.row = m.row /\ k.head = m.head /\ k.rows = m.rows
       /\ k.inTable = m.inTable /\ k.inCode = m.inCode /\ k.link = m.link /\ k.inHead = m.inHead
  BY <1>9 DEF Pages
<1>12. k \in Pages(LineSet)
  BY <1>9, <1>10, DispEmpty DEF Pages
<1>13. Marked(m.out) => Marked(k.out)
  BY <1>1, <1>7, <1>11, MarkedStays
<1>14. PICK x \in Nat, y \in Nat, z \in Nat : PageNumbers(m, c, x, y, z)
  BY PageAmounts
<1>15. PICK x2 \in Nat, y2 \in Nat, z2 \in Nat : PageNumbers(k, c, x2, y2, z2)
  BY <1>12, PageAmounts
<1>16. y2 = 0 /\ z2 = z /\ x2 = x + y
  BY <1>1, <1>7, <1>10, <1>11, <1>14, <1>15, CountEmpty DEF PageNumbers
<1>17. x2 + y2 + z2 = x + y + z /\ y2 <= y /\ z2 <= z
  BY <1>16
<1>18. Amount(k, c) = Amount(m, c) /\ CountIn(c, k.runs) <= CountIn(c, m.runs)
       /\ Weight(TextHits(c), k.code) <= Weight(TextHits(c), m.code)
  BY <1>14, <1>15, <1>17 DEF PageNumbers
<1> QED
  BY <1>8, <1>11, <1>12, <1>13, <1>18 DEF Emits

LEMMA EmitsHeading ==
  ASSUME NEW c \in Letters, NEW m \in Pages(LineSet), width \in Nat
  PROVE  Emits(m, EmitHeading(m), c) /\ EmitHeading(m).runs = <<>>
<1>1. PICK b : b = BlankAfter(m)
  OBVIOUS
<1>2. Emits(m, b, c) /\ b \in Pages(LineSet)
  BY <1>1, EmitsBlank DEF Emits
<1>3. PICK d : d = PushWrapped(b, 2, FALSE)
  OBVIOUS
<1>4. Emits(b, d, c) /\ d.runs = <<>> /\ d \in Pages(LineSet)
  <2>1. 2 \in Int /\ FALSE \in BOOLEAN
    OBVIOUS
  <2>2. Emits(b, d, c) /\ d.runs = <<>>
    BY <1>2, <1>3, <2>1, EmitsWrapped, Zenon
  <2> QED
    BY <2>2 DEF Emits
<1>5. Emits(d, BlankAfter(d), c)
  BY <1>4, EmitsBlank
<1>6. BlankAfter(d).runs = <<>>
  BY <1>4 DEF BlankAfter, Pages
<1>7. Emits(m, d, c)
  BY <1>2, <1>4, EmitsOn
<1>8. EmitHeading(m) = BlankAfter(d)
  BY <1>1, <1>3 DEF EmitHeading
<1> QED
  BY <1>5, <1>6, <1>7, <1>8, EmitsOn

LEMMA EmitsMarker ==
  ASSUME NEW c, NEW m \in Pages(LineSet), NEW v \in Int
  PROVE  Emits(m, [m EXCEPT !.marker = v], c) /\ [m EXCEPT !.marker = v].runs = m.runs
<1>1. PICK k : k = [m EXCEPT !.marker = v]
  OBVIOUS
<1>2. /\ k.out = m.out /\ k.runs = m.runs /\ k.code = m.code
      /\ k.cell = m.cell /\ k.row = m.row /\ k.head = m.head /\ k.rows = m.rows
      /\ k.inTable = m.inTable /\ k.inCode = m.inCode /\ k.link = m.link /\ k.inHead = m.inHead
  BY <1>1 DEF Pages
<1>3. k \in Pages(LineSet)
  BY <1>1 DEF Pages
<1>4. Amount(k, c) = Amount(m, c)
  BY <1>2 DEF Amount
<1>5. CountIn(c, m.runs) \in Nat /\ Weight(TextHits(c), m.code) \in Nat
  BY CountType, TextsType DEF Pages
<1> QED
  BY <1>1, <1>2, <1>3, <1>4, <1>5 DEF Emits

LEMMA EmitsPara ==
  ASSUME NEW c \in Letters, NEW m \in Pages(LineSet), width \in Nat
  PROVE  Emits(m, EmitPara(m), c) /\ EmitPara(m).runs = <<>>
<1>1. CASE m.runs = <<>> /\ m.marker = 0
  BY <1>1, EmitsSame DEF EmitPara
<1>2. CASE ~(m.runs = <<>> /\ m.marker = 0)
  <2>1. PICK first \in Int : first = 2 * m.quote + m.marker
    <3>1. PICK q \in Int, k \in Int : q = m.quote /\ k = m.marker
      BY DEF Pages
    <3> QED
      BY <3>1
  <2>2. (m.marker > 0) \in BOOLEAN
    OBVIOUS
  <2>3. PICK b : b = PushWrapped(m, first, m.marker > 0)
    OBVIOUS
  <2>4. Emits(m, b, c) /\ b.runs = <<>> /\ b \in Pages(LineSet)
    <3>1. Emits(m, b, c) /\ b.runs = <<>>
      BY <2>2, <2>3, EmitsWrapped, Zenon
    <3> QED
      BY <3>1 DEF Emits
  <2>5. EmitPara(m) = [b EXCEPT !.marker = 0]
    BY <1>2, <2>1, <2>3 DEF EmitPara
  <2>6. 0 \in Int
    OBVIOUS
  <2>7. Emits(b, EmitPara(m), c) /\ EmitPara(m).runs = <<>>
    BY <2>4, <2>5, <2>6, EmitsMarker, Zenon
  <2> QED
    BY <2>4, <2>7, EmitsOn
<1> QED
  BY <1>1, <1>2

\* The lines of a code block show its code.
CodeLines(chars, a, qw) ==
  LET segs == WrapCode(chars, a)
  IN [i \in DOMAIN segs |-> Line("code", qw + (IF i = 1 THEN 2 ELSE 4), FALSE, segs[i])]

LEMMA CodeLineKeeps ==
  ASSUME NEW c, NEW chars \in Txt, NEW a \in Int, NEW qw \in Int
  PROVE  /\ CodeLines(chars, a, qw) \in Seq(LineSet)
         /\ Weight(LineHits(c), CodeLines(chars, a, qw)) = CountIn(c, chars)
<1>0. PICK segs : segs = WrapCode(chars, a)
  OBVIOUS
<1>1. segs \in Seq(Txt) /\ Weight(TextHits(c), segs) = CountIn(c, chars)
  BY <1>0, WrapCodeKeeps
<1>2. PICK n \in Nat : n = Len(segs) /\ DOMAIN segs = 1 .. n
  BY <1>1
<1> DEFINE L(i) == Line("code", qw + (IF i = 1 THEN 2 ELSE 4), FALSE, segs[i])
<1>3. ASSUME NEW i \in 1 .. n PROVE L(i) \in LineSet /\ L(i).body = segs[i]
  <2>1. segs[i] \in Txt /\ FALSE \in BOOLEAN
    BY <1>1, <1>2
  <2>2. PICK pre \in Int : pre = qw + (IF i = 1 THEN 2 ELSE 4)
    OBVIOUS
  <2>3. "code" \in LineKinds
    BY DEF LineKinds
  <2>4. Made(Line("code", pre, FALSE, segs[i]), "code", pre, segs[i])
    BY <2>1, <2>3, MakeLine, Zenon
  <2> QED
    BY <2>2, <2>4 DEF Made
<1> PICK o : o = CodeLines(chars, a, qw)
  OBVIOUS
<1>4. o = [i \in 1 .. n |-> L(i)]
  BY <1>0, <1>2 DEF CodeLines
<1> HIDE DEF L
<1>5. o \in [1 .. n -> LineSet]
  BY <1>3, <1>4, Zenon
<1>6. o \in Seq(LineSet) /\ Len(o) = n
  BY <1>5, FunSeq
<1>7. \A i \in 1 .. n : o[i].body = segs[i]
  BY <1>3, <1>4, Zenon
<1>8. Shows(o, segs)
  BY <1>2, <1>6, <1>7 DEF Shows
<1> QED
  BY <1>1, <1>6, <1>8, ShownKeeps

LEMMA EmitsCode ==
  ASSUME NEW c, NEW m \in Pages(LineSet), width \in Nat
  PROVE  Emits(m, EmitCode(m), c) /\ EmitCode(m).code = <<>>
<1>1. PICK code \in Seq(Txt) : code = m.code
  BY DEF Pages
<1>2. PICK qw \in Int : qw = 2 * m.quote
  <2>1. PICK q \in Int : q = m.quote
    BY DEF Pages
  <2> QED
    BY <2>1
<1>3. PICK a \in Int : a = width - (2 + qw)
  OBVIOUS
<1> DEFINE CodeLine(chars) ==
             LET segs == WrapCode(chars, width - (2 + qw))
             IN [i \in DOMAIN segs |-> Line("code", qw + (IF i = 1 THEN 2 ELSE 4), FALSE, segs[i])]
           body == IF m.code = <<>> THEN <<CodeLine(<<>>)>>
                   ELSE [i \in DOMAIN m.code |-> CodeLine(m.code[i])]
           lang == IF m.lang > 0 THEN <<Line("lang", qw + 2 + m.lang, FALSE, <<>>)>> ELSE <<>>
<1>4. ASSUME NEW chars \in Txt
      PROVE  CodeLine(chars) \in Seq(LineSet) /\ Weight(LineHits(c), CodeLine(chars)) = CountIn(c, chars)
  <2>1. CodeLine(chars) = CodeLines(chars, a, qw)
    BY <1>3 DEF CodeLines
  <2> HIDE DEF CodeLine
  <2> QED
    BY <2>1, CodeLineKeeps
<1> HIDE DEF CodeLine
<1>5. PICK R : R = Seq(LineSet)
  OBVIOUS
<1>6. PICK V \in [R -> Nat] : V = Sums(LineHits(c), LineSet) /\ \A x \in R : V[x] = Weight(LineHits(c), x)
  <2>1. LineHits(c) \in [LineSet -> Nat]
    BY HitsType
  <2> QED
    BY <1>5, <2>1, SumsType
<1>7. body \in Seq(R) /\ Weight(V, body) = Weight(TextHits(c), code)
  <2>1. CASE code = <<>>
    <3>1. PICK l \in R : l = CodeLine(<<>>) /\ V[l] = 0
      BY <1>4, <1>5, <1>6, DispEmpty, CountEmpty
    <3>2. body = <<l>>
      BY <1>1, <2>1, <3>1
    <3>3. <<l>> \in Seq(R) /\ Weight(V, <<l>>) = V[l]
      BY WeightOne
    <3>4. Weight(TextHits(c), code) = 0
      BY <2>1, HitsType, WeightEmpty
    <3> QED
      BY <3>1, <3>2, <3>3, <3>4
  <2>2. CASE code # <<>>
    <3>1. PICK n \in Nat : n = Len(code) /\ DOMAIN code = 1 .. n
      OBVIOUS
    <3>2. body = [i \in 1 .. n |-> CodeLine(code[i])]
      BY <1>1, <2>2, <3>1
    <3>3. ASSUME NEW i \in 1 .. n PROVE CodeLine(code[i]) \in R /\ V[CodeLine(code[i])] = TextHits(c)[code[i]]
      <4>1. PICK s \in Txt : s = code[i]
        BY <3>1
      <4>2. TextHits(c)[s] = CountIn(c, s)
        BY HitsType
      <4>3. CodeLine(s) \in R /\ Weight(LineHits(c), CodeLine(s)) = CountIn(c, s)
        BY <1>4, <1>5
      <4> QED
        BY <1>6, <4>1, <4>2, <4>3
    <3>4. PICK p : p = body
      OBVIOUS
    <3>5. p \in [1 .. n -> R]
      BY <3>2, <3>3, <3>4, Zenon
    <3>6. p \in Seq(R) /\ Len(p) = n
      BY <3>5, FunSeq
    <3>7. \A i \in 1 .. n : V[p[i]] = TextHits(c)[code[i]]
      BY <3>2, <3>3, <3>4, Zenon
    <3>8. PICK W \in [Txt -> Nat] : W = TextHits(c)
      BY HitsType
    <3>9. Weight(V, p) = Weight(W, code)
      <4> HIDE DEF body
      <4>1. Alike(V, p, W, code)
        BY <3>1, <3>6, <3>7, <3>8 DEF Alike
      <4>2. Weighs(V, R, p) /\ Weighs(W, Txt, code)
        BY <3>6 DEF Weighs
      <4> QED
        BY <4>1, <4>2, WeightSame
    <3> HIDE DEF body
    <3> QED
      BY <3>4, <3>6, <3>8, <3>9
  <2> QED
    BY <2>1, <2>2
<1>8. lang \in Seq(LineSet) /\ Weight(LineHits(c), lang) = 0
  <2>1. PICK pre \in Int : pre = qw + 2 + m.lang
    <3>1. PICK q \in Int : q = m.lang
      BY DEF Pages
    <3> QED
      BY <3>1
  <2>2. PICK l \in LineSet : l = Line("lang", pre, FALSE, <<>>) /\ l.body = <<>>
    <3>1. "lang" \in LineKinds
      BY DEF LineKinds
    <3> QED
      BY <3>1, PlainLine, Zenon
  <2>3. lang \in {<<l>>, <<>>}
    BY <2>1, <2>2
  <2>4. LineHits(c) \in [LineSet -> Nat] /\ LineHits(c)[l] = 0
    <3>1. LineHits(c) \in [LineSet -> Nat] /\ LineHits(c)[l] = CountIn(c, l.body)
      BY HitsType
    <3> QED
      BY <2>2, <3>1, CountEmpty
  <2>5. <<l>> \in Seq(LineSet) /\ Weight(LineHits(c), <<l>>) = 0 /\ <<>> \in Seq(LineSet) /\ Weight(LineHits(c), <<>>) = 0
    BY <2>4, WeightOne, WeightEmpty
  <2> QED
    BY <2>3, <2>5
<1> HIDE DEF body, lang
<1>9. FlattenSeq(body) \in Seq(LineSet) /\ Weight(LineHits(c), FlattenSeq(body)) = Weight(TextHits(c), code)
  <2>1. LineHits(c) \in [LineSet -> Nat]
    BY HitsType
  <2>2. body \in Seq(Seq(LineSet))
    BY <1>5, <1>7
  <2>3. FlattenSeq(body) \in Seq(LineSet) /\ Weight(LineHits(c), FlattenSeq(body)) = Weight(Sums(LineHits(c), LineSet), body)
    BY <2>1, <2>2, WeightFlatten
  <2> QED
    BY <1>6, <1>7, <2>3
<1>10. PICK b : b = BlankAfter(m)
  OBVIOUS
<1>11. Emits(m, b, c) /\ b \in Pages(LineSet) /\ b.code = code
  BY <1>1, <1>10, EmitsBlank DEF Emits, BlankAfter, Pages
<1>12. PICK o \in Seq(LineSet), g \in Seq(LineSet), h \in Seq(LineSet) : o = b.out /\ g = lang /\ h = FlattenSeq(body)
  BY <1>8, <1>9, <1>11 DEF Pages
<1>13. PICK p : p = o \o g \o h
  OBVIOUS
<1>14. p \in Seq(LineSet) /\ Weight(LineHits(c), p) = Weight(LineHits(c), o) + Weight(TextHits(c), code)
       /\ (Marked(o) => Marked(p))
  <2>1. /\ o \o g \in Seq(LineSet)
        /\ Weight(LineHits(c), o \o g) = Weight(LineHits(c), o) + Weight(LineHits(c), g)
        /\ Marked(o) => Marked(o \o g)
    BY LinesConcat, MarkedStays
  <2>2. /\ p \in Seq(LineSet)
        /\ Weight(LineHits(c), p) = Weight(LineHits(c), o \o g) + Weight(LineHits(c), h)
        /\ Marked(o \o g) => Marked(p)
    BY <1>13, <2>1, LinesConcat, MarkedStays
  <2>3. Weight(LineHits(c), g) = 0 /\ Weight(LineHits(c), h) = Weight(TextHits(c), code) /\ Weight(LineHits(c), o) \in Nat
    BY <1>8, <1>9, <1>12, LinesType
  <2> QED
    BY <2>1, <2>2, <2>3
<1>15. PICK k : k = [b EXCEPT !.out = p, !.code = <<>>]
  OBVIOUS
<1>16. <<>> \in Seq(Txt) /\ Weight(TextHits(c), <<>>) = 0
  BY HitsType, WeightEmpty
<1>17. /\ k.out = p /\ k.runs = b.runs /\ k.code = <<>>
       /\ k.cell = b.cell /\ k.row = b.row /\ k.head = b.head /\ k.rows = b.rows
       /\ k.inTable = b.inTable /\ k.inCode = b.inCode /\ k.link = b.link /\ k.inHead = b.inHead
  BY <1>11, <1>15 DEF Pages
<1>18. k \in Pages(LineSet)
  BY <1>11, <1>14, <1>15, <1>16 DEF Pages
<1>19. Emits(b, k, c)
  <2>1. PICK x \in Nat, y \in Nat, z \in Nat : PageNumbers(b, c, x, y, z)
    BY <1>11, PageAmounts
  <2>2. PICK x2 \in Nat, y2 \in Nat, z2 \in Nat : PageNumbers(k, c, x2, y2, z2)
    BY <1>18, PageAmounts
  <2>3. y2 = y /\ z2 = 0 /\ x2 = x + z
    BY <1>11, <1>12, <1>14, <1>16, <1>17, <2>1, <2>2 DEF PageNumbers
  <2>4. x2 + y2 + z2 = x + y + z /\ y2 <= y /\ z2 <= z
    BY <2>3
  <2>5. Amount(k, c) = Amount(b, c) /\ CountIn(c, k.runs) <= CountIn(c, b.runs)
        /\ Weight(TextHits(c), k.code) <= Weight(TextHits(c), b.code)
    BY <2>1, <2>2, <2>4 DEF PageNumbers
  <2> QED
    BY <1>12, <1>14, <1>17, <1>18, <2>5 DEF Emits
<1>20. Emits(k, BlankAfter(k), c) /\ BlankAfter(k).code = <<>>
  BY <1>17, <1>18, EmitsBlank DEF BlankAfter, Pages
<1>21. EmitCode(m) = BlankAfter(k)
  BY <1>2, <1>10, <1>12, <1>13, <1>15 DEF EmitCode, CodeLine, body, lang
<1>22. Emits(m, k, c)
  BY <1>11, <1>19, EmitsOn
<1> QED
  BY <1>20, <1>21, <1>22, EmitsOn

-----------------------------------------------------------------------------
\* The blank lines taken off a finished page show nothing.
LEMMA FirstOnes ==
  ASSUME NEW k \in Nat, NEW T \in SUBSET (1 .. k), \A i \in T, j \in 1 .. k : j <= i => j \in T
  PROVE  \E n \in 0 .. k : T = 1 .. n /\ Cardinality(T) = n
<1> DEFINE Out == {n \in Nat : n + 1 \notin T}
<1>1. k \in Out
  OBVIOUS
<1>2. PICK n \in Out : \A y \in Out : n <= y
  BY <1>1, LeastNumber
<1>3. n \in 0 .. k
  BY <1>1, <1>2
<1>4. ASSUME NEW i \in 1 .. n PROVE i \in T
  <2>1. PICK y \in Nat : y = i - 1 /\ y < n /\ y + 1 = i
    OBVIOUS
  <2> QED
    BY <1>2, <2>1
<1>5. ASSUME NEW i \in T PROVE i \in 1 .. n
  <2>1. i \in 1 .. k
    OBVIOUS
  <2>2. CASE i <= n
    BY <2>1, <2>2
  <2>3. CASE ~(i <= n)
    <3>1. n + 1 \in 1 .. k /\ n + 1 <= i
      BY <1>3, <2>1, <2>3
    <3>2. n + 1 \in T
      BY <3>1
    <3> QED
      BY <1>2, <3>2
  <2> QED
    BY <2>2, <2>3
<1>6. T = 1 .. n
  BY <1>4, <1>5
<1>7. Cardinality(1 .. n) = n
  BY <1>3, FS_Interval
<1> QED
  BY <1>3, <1>6, <1>7

LEMMA LastOnes ==
  ASSUME NEW k \in Nat, NEW T \in SUBSET (1 .. k), \A i \in T, j \in 1 .. k : i <= j => j \in T
  PROVE  \E n \in 0 .. k : T = k - n + 1 .. k /\ Cardinality(T) = n
<1> DEFINE Out == {n \in Nat : k - n \notin T}
<1>1. k \in Out
  OBVIOUS
<1>2. PICK n \in Out : \A y \in Out : n <= y
  BY <1>1, LeastNumber
<1>3. n \in 0 .. k
  BY <1>1, <1>2
<1>4. ASSUME NEW i \in k - n + 1 .. k PROVE i \in T
  <2>1. PICK y \in Nat : y = k - i /\ y < n /\ k - y = i
    BY <1>3
  <2> QED
    BY <1>2, <2>1
<1>5. ASSUME NEW i \in T PROVE i \in k - n + 1 .. k
  <2>1. i \in 1 .. k
    OBVIOUS
  <2>2. CASE i > k - n
    BY <1>3, <2>1, <2>2
  <2>3. CASE ~(i > k - n)
    <3>1. k - n \in 1 .. k /\ i <= k - n
      BY <1>3, <2>1, <2>3
    <3>2. k - n \in T
      BY <3>1
    <3> QED
      BY <1>2, <3>2
  <2> QED
    BY <2>2, <2>3
<1>6. T = k - n + 1 .. k
  BY <1>4, <1>5
<1>7. Cardinality(k - n + 1 .. k) = n
  <2>1. PICK a \in Int : a = k - n + 1
    BY <1>3
  <2>2. Cardinality(a .. k) = IF a > k THEN 0 ELSE k - a + 1
    BY FS_Interval
  <2>3. (IF a > k THEN 0 ELSE k - a + 1) = n
    BY <1>3, <2>1
  <2> QED
    BY <2>1, <2>2, <2>3
<1> QED
  BY <1>3, <1>6, <1>7

\* What Trimmed takes off: the first a lines and the last b of k.
Ends(o, k, a, b) ==
  /\ \A i \in 1 .. k : i <= a \/ i > k - b => IsBlank(o[i])
  /\ a = FirstBlanks(o) /\ b = LastBlanks(o)

LEMMA EndsAre ==
  ASSUME NEW o \in Seq(LineSet), NEW k \in Nat, k = Len(o)
  PROVE  \E a \in 0 .. k, b \in 0 .. k : Ends(o, k, a, b)
<1>1. DOMAIN o = 1 .. k
  OBVIOUS
<1>2. PICK F : F = {i \in 1 .. k : \A j \in 1 .. i : IsBlank(o[j])}
  OBVIOUS
<1>3. PICK B : B = {i \in 1 .. k : \A j \in i .. k : IsBlank(o[j])}
  OBVIOUS
<1>4. FirstBlanks(o) = Cardinality(F) /\ LastBlanks(o) = Cardinality(B)
  BY <1>1, <1>2, <1>3 DEF FirstBlanks, LastBlanks
<1>5. PICK a \in 0 .. k : F = 1 .. a /\ Cardinality(F) = a
  <2>1. F \in SUBSET (1 .. k) /\ \A i \in F, j \in 1 .. k : j <= i => j \in F
    BY <1>2
  <2> QED
    BY <2>1, FirstOnes
<1>6. PICK b \in 0 .. k : B = k - b + 1 .. k /\ Cardinality(B) = b
  <2>1. B \in SUBSET (1 .. k) /\ \A i \in B, j \in 1 .. k : i <= j => j \in B
    BY <1>3
  <2> QED
    BY <2>1, LastOnes
<1>7. ASSUME NEW i \in 1 .. k, i <= a PROVE IsBlank(o[i])
  <2>1. i \in F
    BY <1>5, <1>7
  <2>2. \A j \in 1 .. i : IsBlank(o[j])
    BY <1>2, <2>1
  <2>3. i \in 1 .. i
    OBVIOUS
  <2> QED
    BY <2>2, <2>3
<1>8. ASSUME NEW i \in 1 .. k, i > k - b PROVE IsBlank(o[i])
  <2>1. i \in k - b + 1 .. k
    BY <1>6, <1>8
  <2>2. \A j \in i .. k : IsBlank(o[j])
    BY <1>3, <1>6, <2>1
  <2>3. i \in i .. k
    OBVIOUS
  <2> QED
    BY <2>2, <2>3
<1> QED
  BY <1>4, <1>5, <1>6, <1>7, <1>8 DEF Ends

LEMMA BlanksAreEmpty ==
  ASSUME NEW c, NEW l \in LineSet, IsBlank(l)
  PROVE  LineHits(c)[l] = 0 /\ ~Warns(l)
<1>1. l.body = <<>>
  BY DEF IsBlank
<1>2. LineHits(c)[l] = CountIn(c, l.body)
  BY HitsType
<1> QED
  BY <1>1, <1>2, CountEmpty DEF Warns

\* Blank lines together.
LEMMA BlanksWeighNothing ==
  ASSUME NEW c, NEW o \in Seq(LineSet), \A i \in 1 .. Len(o) : IsBlank(o[i])
  PROVE  Weight(LineHits(c), o) = 0 /\ ~Marked(o)
<1>1. \A i \in 1 .. Len(o) : o[i] \in LineSet
  OBVIOUS
<1>2. \A i \in 1 .. Len(o) : LineHits(c)[o[i]] = 0 /\ ~Warns(o[i])
  BY <1>1, BlanksAreEmpty
<1>3. LineHits(c) \in [LineSet -> Nat]
  BY HitsType
<1> QED
  BY <1>2, <1>3, WeightNothing DEF Marked

Piece(t, o, from, m) == t \in Seq(LineSet) /\ Len(t) = m /\ \A j \in 1 .. m : t[j] = o[from + j]

\* What SubSeq cuts out.
LEMMA TermsAfter ==
  ASSUME NEW S, NEW o \in Seq(S), NEW from \in Nat, NEW m \in Nat, from + m <= Len(o)
  PROVE  /\ SubSeq(o, from + 1, from + m) \in Seq(S) /\ Len(SubSeq(o, from + 1, from + m)) = m
         /\ \A j \in 1 .. m : SubSeq(o, from + 1, from + m)[j] = o[from + j]
<1>1. PICK k \in Nat : k = Len(o)
  OBVIOUS
<1>2. PICK t : t = SubSeq(o, from + 1, from + m)
  OBVIOUS
<1>3. Len(t) = m
  BY <1>2
<1>4. \A j \in 1 .. m : t[j] = o[from + j]
  BY <1>1, <1>2
<1>5. t \in Seq(S)
  <2>1. \A i \in from + 1 .. from + m : o[i] \in S
    BY <1>1
  <2> QED
    BY <1>2, <2>1
<1> QED
  BY <1>2, <1>3, <1>4, <1>5

LEMMA PieceIs ==
  ASSUME NEW o \in Seq(LineSet), NEW from \in Nat, NEW m \in Nat, from + m <= Len(o)
  PROVE  Piece(SubSeq(o, from + 1, from + m), o, from, m)
  BY TermsAfter DEF Piece

\* The weight of a piece, from the running sum over the whole.
LEMMA PieceWeighs ==
  ASSUME NEW c, NEW o \in Seq(LineSet), NEW f, WeighsTo(LineHits(c), o, f),
         NEW from \in Nat, NEW m \in Nat, from + m <= Len(o), NEW t, Piece(t, o, from, m)
  PROVE  /\ f[from] \in Nat /\ Weight(LineHits(c), t) \in Nat
         /\ f[from + m] = f[from] + Weight(LineHits(c), t)
<1>1. t \in Seq(LineSet) /\ Len(t) = m
  BY DEF Piece
<1>2. PartOf(t, o, from)
  BY <1>1 DEF Piece, PartOf
<1>3. LineHits(c) \in [LineSet -> Nat]
  BY HitsType
<1>4. PartWeighs(LineHits(c), t, f, from)
  BY <1>1, <1>2, <1>3, WeightPart
<1> QED
  BY <1>1, <1>4 DEF PartWeighs

LEMMA TrimmedKeeps ==
  ASSUME NEW o \in Seq(LineSet), NEW c
  PROVE  /\ Trimmed(o) \in Seq(LineSet)
         /\ Weight(LineHits(c), Trimmed(o)) = Weight(LineHits(c), o)
         /\ Marked(o) => Marked(Trimmed(o))
<1>1. PICK k \in Nat : k = Len(o)
  OBVIOUS
<1>2. PICK a \in 0 .. k, b \in 0 .. k : Ends(o, k, a, b)
  BY <1>1, EndsAre
<1>3. PICK e \in LineSet : e = Line("empty", 4, FALSE, <<>>) /\ e.body = <<>>
  <2>1. "empty" \in LineKinds /\ 4 \in Int
    BY DEF LineKinds
  <2> QED
    BY <2>1, PlainLine
<1>4. PICK t : t = SubSeq(o, a + 1, k - b)
  OBVIOUS
<1>5. Trimmed(o) = IF t = <<>> THEN <<e>> ELSE t
  BY <1>1, <1>2, <1>3, <1>4 DEF Trimmed, Ends
<1>6. CASE a + b >= k
  <2>1. t = <<>>
    <3>1. \A i \in a + 1 .. k - b : o[i] \in LineSet
      BY <1>6
    <3>2. /\ SubSeq(o, a + 1, k - b) \in Seq(LineSet)
          /\ Len(SubSeq(o, a + 1, k - b)) = IF a + 1 <= k - b THEN k - b - (a + 1) + 1 ELSE 0
      BY <3>1, SubSeqProperties
    <3>3. Len(t) = 0 /\ t \in Seq(LineSet)
      BY <1>4, <1>6, <3>2
    <3> QED
      BY <3>3
  <2>2. \A i \in 1 .. Len(o) : IsBlank(o[i])
    <3>1. \A i \in 1 .. k : i <= a \/ i > k - b
      BY <1>6
    <3> QED
      BY <1>1, <1>2, <3>1 DEF Ends
  <2>3. Weight(LineHits(c), o) = 0 /\ ~Marked(o)
    BY <2>2, BlanksWeighNothing
  <2>4. LineHits(c) \in [LineSet -> Nat] /\ LineHits(c)[e] = 0
    <3>1. LineHits(c) \in [LineSet -> Nat] /\ LineHits(c)[e] = CountIn(c, e.body)
      BY HitsType
    <3> QED
      BY <1>3, <3>1, CountEmpty
  <2>5. <<e>> \in Seq(LineSet) /\ Weight(LineHits(c), <<e>>) = 0
    BY <2>4, WeightOne
  <2> QED
    BY <1>5, <2>1, <2>3, <2>5
<1>7. CASE a + b < k
  <2>1. PICK m \in Nat : m = k - b - a /\ m >= 1 /\ a + m = k - b
    BY <1>7
  <2>2. Piece(t, o, a, m)
    BY <1>1, <1>4, <2>1, PieceIs
  <2>3. t \in Seq(LineSet) /\ Len(t) = m /\ t # <<>>
    BY <2>1, <2>2 DEF Piece
  <2>4. PICK f : WeighsTo(LineHits(c), o, f) /\ Weight(LineHits(c), o) = f[k]
    <3>1. LineHits(c) \in [LineSet -> Nat]
      BY HitsType
    <3> QED
      BY <1>1, <3>1, WeightIs
  <2>5. f[a] = 0
    <3>1. PICK h : h = SubSeq(o, 0 + 1, 0 + a)
      OBVIOUS
    <3>2. Piece(h, o, 0, a)
      BY <1>1, <3>1, PieceIs
    <3>3. \A j \in 1 .. a : 0 + j \in 1 .. k /\ 0 + j <= a
      OBVIOUS
    <3>4. h \in Seq(LineSet) /\ \A j \in 1 .. Len(h) : IsBlank(h[j])
      BY <1>2, <3>2, <3>3 DEF Piece, Ends
    <3>5. Weight(LineHits(c), h) = 0
      BY <3>4, BlanksWeighNothing
    <3>6. f[0 + a] = f[0] + Weight(LineHits(c), h)
      BY <1>1, <2>4, <3>2, PieceWeighs
    <3>7. f[0] = 0 /\ 0 + a = a
      BY <2>4 DEF WeighsTo
    <3> QED
      BY <3>5, <3>6, <3>7
  <2>6. f[a + m] = f[a] + Weight(LineHits(c), t) /\ Weight(LineHits(c), t) \in Nat
    <3>1. a \in Nat /\ a + m <= Len(o)
      BY <1>1, <2>1
    <3> QED
      BY <2>2, <2>4, <3>1, PieceWeighs
  <2>7. f[k] = f[a + m]
    <3>1. PICK q \in Nat : q = a + m /\ q + b = k
      BY <2>1
    <3>2. PICK h : h = SubSeq(o, q + 1, q + b)
      OBVIOUS
    <3>3. Piece(h, o, q, b)
      BY <1>1, <3>1, <3>2, PieceIs
    <3>4. \A j \in 1 .. b : q + j \in 1 .. k /\ q + j > k - b
      BY <3>1
    <3>5. h \in Seq(LineSet) /\ \A j \in 1 .. Len(h) : IsBlank(h[j])
      BY <1>2, <3>3, <3>4 DEF Piece, Ends
    <3>6. Weight(LineHits(c), h) = 0
      BY <3>5, BlanksWeighNothing
    <3>7. f[q + b] = f[q] + Weight(LineHits(c), h) /\ f[q] \in Nat
      BY <1>1, <2>4, <3>1, <3>3, PieceWeighs
    <3> QED
      BY <3>1, <3>6, <3>7
  <2>8. ASSUME Marked(o) PROVE Marked(t)
    <3>1. PICK i \in 1 .. k : Warns(o[i])
      BY <1>1, <2>8 DEF Marked
    <3>2. o[i] \in LineSet
      BY <1>1
    <3>3. ~IsBlank(o[i])
      BY <3>1, <3>2, BlanksAreEmpty
    <3>4. i > a /\ i <= k - b
      BY <1>2, <3>3 DEF Ends
    <3>5. PICK j \in 1 .. m : a + j = i
      BY <2>1, <3>4
    <3>6. t[j] = o[i]
      BY <2>2, <3>5 DEF Piece
    <3> QED
      BY <2>3, <3>1, <3>6 DEF Marked
  <2> QED
    BY <1>5, <2>3, <2>4, <2>5, <2>6, <2>7, <2>8
<1> QED
  BY <1>6, <1>7

-----------------------------------------------------------------------------
\* A table that loses text says so.
LEMMA WeightDiffers ==
  ASSUME NEW S, NEW W, NEW s, Weighs(W, S, s), NEW R, NEW V, NEW t, Weighs(V, R, t),
         Lighter(W, s, V, t), NEW n \in Nat, n = Len(s)
  PROVE  /\ Weight(W, s) \in Nat /\ Weight(V, t) \in Nat /\ Weight(W, s) <= Weight(V, t)
         /\ Weight(W, s) # Weight(V, t) => \E j \in 1 .. n : W[s[j]] < V[t[j]]
<1>1. Weight(W, s) \in Nat /\ Weight(V, t) \in Nat
  BY WeightType DEF Weighs
<1>2. Weight(W, s) <= Weight(V, t)
  BY WeightLess DEF Weighs
<1>3. n = Len(t) /\ \A j \in 1 .. n : W[s[j]] <= V[t[j]]
  BY DEF Lighter
<1>4. \A j \in 1 .. n : W[s[j]] \in Nat
  BY WeightsOf
<1>5. \A j \in 1 .. n : V[t[j]] \in Nat
  BY <1>3, WeightsOf
<1>6. ASSUME \A j \in 1 .. n : ~(W[s[j]] < V[t[j]]) PROVE Weight(W, s) = Weight(V, t)
  <2>1. \A j \in 1 .. n : W[s[j]] = V[t[j]]
    BY <1>3, <1>4, <1>5, <1>6
  <2>2. Alike(W, s, V, t)
    BY <1>3, <2>1 DEF Alike
  <2> QED
    BY <2>2, WeightSame
<1> QED
  BY <1>1, <1>2, <1>6

LEMMA DotsOther == ASSUME NEW c \in Letters PROVE Dots \in Character /\ Dots # c
  BY Zenon DEF Letters, Character

LEMMA DotsCount ==
  ASSUME NEW s \in Txt, NEW c \in Letters
  PROVE  Append(s, Dots) \in Txt /\ CountIn(c, Append(s, Dots)) = CountIn(c, s)
<1>1. PICK d \in Character : d = Dots /\ d # c
  BY DotsOther
<1>2. Append(s, d) \in Txt /\ CountIn(c, Append(s, d)) = CountIn(c, s) + (IF d = c THEN 1 ELSE 0)
  BY CountAppend
<1>3. CountIn(c, s) \in Nat
  BY CountType
<1> QED
  BY <1>1, <1>2, <1>3

\* A text shown no more often than it stands.
Fewer(t, s, c) == t \in Txt /\ CountIn(c, t) \in Nat /\ CountIn(c, t) <= CountIn(c, s)

LEMMA TruncateCounts ==
  ASSUME NEW s \in Txt, NEW budget \in Nat, NEW c \in Letters
  PROVE  Fewer(TruncateToWidth(s, budget), s, c)
<1>1. CountIn(c, s) \in Nat
  BY CountType
<1>2. CASE TruncateToWidth(s, budget) = s
  BY <1>1, <1>2 DEF Fewer
<1>3. CASE TruncateToWidth(s, budget) = <<>>
  BY <1>1, <1>3, DispEmpty, CountEmpty DEF Fewer
<1>4. ASSUME NEW kept, KeptTo(s, budget, kept) PROVE Fewer(TruncateToWidth(s, budget), s, c)
  <2>1. PICK l \in Nat : l = Len(s)
    BY DEF Txt
  <2>2. PICK t, u : t = SubSeq(s, 1, kept) /\ u = SubSeq(s, kept + 1, Len(s))
    OBVIOUS
  <2>3. kept \in Nat /\ kept <= Len(s)
    BY <1>4, <2>1 DEF KeptTo
  <2>4. t \in Txt /\ u \in Txt
    BY <2>2, <2>3, DispCut
  <2>5. CountIn(c, s) = CountIn(c, t) + CountIn(c, u)
    <3>1. Hits(c) \in [Character -> Nat] /\ s \in Seq(Character)
      BY HitsType DEF Txt
    <3>2. Weight(Hits(c), s) = Weight(Hits(c), SubSeq(s, 1, kept)) + Weight(Hits(c), SubSeq(s, kept + 1, Len(s)))
      BY <2>3, <3>1, WeightCut
    <3> QED
      BY <2>2, <3>2 DEF CountIn
  <2>6. CountIn(c, t) \in Nat /\ CountIn(c, u) \in Nat
    BY <2>4, CountType
  <2>7. Append(t, Dots) \in Txt /\ CountIn(c, Append(t, Dots)) = CountIn(c, t)
    BY <2>4, DotsCount
  <2>8. CountIn(c, t) <= CountIn(c, s)
    BY <2>5, <2>6
  <2> QED
    BY <1>4, <2>2, <2>6, <2>7, <2>8 DEF KeptTo, Fewer
<1> QED
  BY <1>2, <1>3, <1>4, TruncateIs

\* A column without room holds nothing.
LEMMA CellShows ==
  ASSUME NEW s \in Txt, NEW w \in Nat, w = 0 => s = <<>>, NEW c \in Letters
  PROVE  /\ Fewer(FitCell(s, w), s, c)
         /\ CountIn(c, FitCell(s, w)) # CountIn(c, s) => Contains(FitCell(s, w), Dots)
<1>1. CountIn(c, s) \in Nat
  BY CountType
<1>2. CASE w = 0
  <2>1. FitCell(s, w) = s
    BY <1>2 DEF FitCell
  <2> QED
    BY <1>1, <2>1 DEF Fewer
<1>3. CASE w # 0 /\ DispWidth(s) <= w
  <2>1. FitCell(s, w) = s
    BY <1>3 DEF FitCell
  <2> QED
    BY <1>1, <2>1 DEF Fewer
<1>4. CASE w # 0 /\ ~(DispWidth(s) <= w)
  <2>1. PICK k \in Nat : k = w - 1
    BY <1>4
  <2>2. PICK t : t = TruncateToWidth(s, k)
    OBVIOUS
  <2>3. Fewer(t, s, c)
    BY <2>2, TruncateCounts
  <2>4. t \in Txt
    BY <2>3 DEF Fewer
  <2>5. PICK u : u = Append(t, Dots)
    OBVIOUS
  <2>6. u \in Txt /\ CountIn(c, u) = CountIn(c, t)
    BY <2>4, <2>5, DotsCount
  <2>7. Fewer(u, s, c)
    BY <2>3, <2>6 DEF Fewer
  <2>8. Contains(u, Dots)
    <3>1. PICK n \in Nat : n = Len(t)
      BY <2>4 DEF Txt
    <3>2. PICK d \in Character : d = Dots
      BY DotsOther
    <3>3. Longer(t, d, u)
      BY <2>4, <2>5, <3>2, AppendTxt
    <3>4. Len(u) = n + 1 /\ u[n + 1] = d
      BY <3>1, <3>3 DEF Longer
    <3>5. n + 1 \in 1 .. Len(u)
      BY <3>4
    <3> QED
      BY <3>2, <3>4, <3>5 DEF Contains
  <2>9. FitCell(s, w) = u
    BY <1>4, <2>1, <2>2, <2>5 DEF FitCell
  <2> QED
    BY <2>7, <2>8, <2>9
<1> QED
  BY <1>2, <1>3, <1>4

\* Texts end to end contain what one of them contains.
LEMMA FlattenContains ==
  ASSUME NEW ss \in Seq(Txt), NEW j \in 1 .. Len(ss), NEW d, Contains(ss[j], d)
  PROVE  Contains(FlattenSeq(ss), d)
<1>1. PICK s \in Txt : s = ss[j]
  OBVIOUS
<1>3. CountIn(d, s) >= 1
  <2>1. PICK p \in 1 .. Len(s) : s[p] = d
    BY <1>1 DEF Contains
  <2>2. Hits(d) \in [Character -> Nat] /\ s \in Seq(Character)
    BY HitsType DEF Txt
  <2>3. Hits(d)[s[p]] <= Weight(Hits(d), s)
    BY <2>2, WeightTerm
  <2>4. Hits(d)[s[p]] = 1
    <3>1. s[p] \in Character
      BY <2>2
    <3> QED
      BY <2>1, <3>1 DEF Hits
  <2>5. CountIn(d, s) \in Nat
    BY CountType
  <2> QED
    BY <2>3, <2>4, <2>5 DEF CountIn
<1>4. TextHits(d) \in [Txt -> Nat] /\ TextHits(d)[s] = CountIn(d, s)
  BY HitsType
<1>5. TextHits(d)[ss[j]] <= Weight(TextHits(d), ss)
  BY <1>4, WeightTerm
<1>6. PICK u : u = FlattenSeq(ss)
  OBVIOUS
<1>7. u \in Txt /\ CountIn(d, u) = Weight(TextHits(d), ss)
  <2>1. Hits(d) \in [Character -> Nat] /\ ss \in Seq(Seq(Character))
    BY HitsType DEF Txt
  <2>2. FlattenSeq(ss) \in Seq(Character)
        /\ Weight(Hits(d), FlattenSeq(ss)) = Weight(Sums(Hits(d), Character), ss)
    BY <2>1, WeightFlatten
  <2> QED
    BY <1>6, <2>2 DEF CountIn, TextHits, Txt
<1>8. CountIn(d, u) # 0
  <2>1. CountIn(d, u) \in Nat /\ CountIn(d, s) \in Nat
    BY <1>7, CountType
  <2> QED
    BY <1>1, <1>3, <1>4, <1>5, <1>7, <2>1
<1>9. d \in Range(u)
  BY <1>7, <1>8, CountNone
<1> QED
  <2>1. DOMAIN u = 1 .. Len(u)
    BY <1>7 DEF Txt
  <2> QED
    BY <1>6, <1>9, <2>1 DEF Contains, Range

LEMMA SeqFun == ASSUME NEW S, NEW s \in Seq(S), NEW n \in Nat, n = Len(s) PROVE s \in [1 .. n -> S]
  OBVIOUS

\* Shrinking takes no column's last place.
LeavesRoom(c, cw) == c \in Seq(Nat) /\ Len(c) = Len(cw) /\ \A i \in 1 .. Len(cw) : c[i] = 0 => cw[i] = 0

LEMMA ShrinkLeavesRoom ==
  ASSUME NEW cw \in Seq(Nat), NEW c, LeavesRoom(c, cw), c # <<>>, NEW budget
  PROVE  LeavesRoom(Shrink(c, budget), cw)
<1>1. PICK n \in Nat : n = Len(c) /\ n = Len(cw)
  BY DEF LeavesRoom
<1>2. c \in Seq(Nat) /\ \A i \in 1 .. n : c[i] \in Nat
  BY <1>1 DEF LeavesRoom
<1>3. PICK mi : mi = CHOOSE i \in 1 .. Len(c) : /\ \A j \in 1 .. Len(c) : c[j] <= c[i]
                                              /\ \A j \in 1 .. i - 1 : c[j] < c[i]
  OBVIOUS
<1>4. IsWidest(c, mi)
  BY <1>2, <1>3, WidestIs DEF IsWidest
<1>5. mi \in 1 .. n
  BY <1>1, <1>4 DEF IsWidest
<1>6. PICK d : d = [c EXCEPT ![mi] = @ - 1]
  OBVIOUS
<1>7. Shrink(c, budget) = IF SeqSum(c) > budget /\ c[mi] > 1 THEN d ELSE c
  BY <1>3, <1>6 DEF Shrink
<1>8. CASE SeqSum(c) > budget /\ c[mi] > 1
  <2>1. PICK v \in Nat : v = c[mi] /\ v > 1
    BY <1>2, <1>5, <1>8
  <2>2. c \in [1 .. n -> Nat]
    BY <1>1, <1>2, SeqFun
  <2>8. PICK u \in Nat : u = v - 1 /\ u # 0
    BY <2>1
  <2>9. d = [c EXCEPT ![mi] = u]
    BY <1>6, <2>1, <2>8
  <2>3. \A i \in 1 .. n : d[i] = IF i = mi THEN u ELSE c[i]
    BY <2>2, <2>9
  <2>4. d \in [1 .. n -> Nat]
    BY <2>2, <2>9
  <2>5. d \in Seq(Nat) /\ Len(d) = n
    BY <2>4, FunSeq
  <2>6. \A i \in 1 .. n : d[i] = 0 => c[i] = 0
    BY <2>8, <2>3
  <2>7. LeavesRoom(d, cw)
    BY <1>1, <2>5, <2>6 DEF LeavesRoom
  <2> QED
    BY <1>7, <1>8, <2>7
<1>9. CASE ~(SeqSum(c) > budget /\ c[mi] > 1)
  BY <1>7, <1>9
<1> QED
  BY <1>8, <1>9

LEMMA ShrinkingLeavesRoom ==
  ASSUME NEW cw \in Seq(Nat), cw # <<>>, NEW budget \in Nat, Len(cw) <= budget, NEW over \in Nat
  PROVE  LeavesRoom(Shrinking([k \in 1 .. over |-> k], cw, budget), cw)
<1>1. PICK s : s = [k \in 1 .. over |-> k]
  OBVIOUS
<1>2. s \in Seq(Nat) /\ Len(s) = over
  <2>1. s \in [1 .. over -> Nat]
    BY <1>1
  <2> QED
    BY <2>1
<1>3. PICK f : ShrinkTo(s, cw, budget, f) /\ Shrinking(s, cw, budget) = f[Len(s)]
  BY <1>2, ShrinkFolds
<1>4. /\ f[0] = cw
      /\ \A i \in 1 .. over : f[i] = Shrink(f[i - 1], budget)
  BY <1>2, <1>3 DEF ShrinkTo
<1> DEFINE T == {k \in Nat : k <= over => LeavesRoom(f[k], cw)}
<1>5. 0 \in T
  BY <1>4 DEF LeavesRoom
<1>6. ASSUME NEW k \in Nat, k \in T PROVE k + 1 \in T
  <2>1. SUFFICES ASSUME k + 1 <= over PROVE LeavesRoom(f[k + 1], cw)
    OBVIOUS
  <2>2. k + 1 \in 1 .. over /\ k + 1 - 1 = k /\ k <= over
    BY <2>1
  <2>3. LeavesRoom(f[k], cw)
    BY <1>6, <2>2
  <2>4. f[k] # <<>>
    BY <2>3 DEF LeavesRoom
  <2>5. f[k + 1] = Shrink(f[k], budget)
    BY <1>4, <2>2
  <2> QED
    BY <2>3, <2>4, <2>5, ShrinkLeavesRoom
<1>7. Nat \subseteq T
  <2> HIDE DEF T
  <2> QED
    BY <1>5, <1>6, ReachesAll
<1>8. LeavesRoom(f[over], cw)
  BY <1>7
<1> QED
  BY <1>1, <1>2, <1>3, <1>8

\* The columns of a table: a column without room has nothing but empty cells.
Covering(cols, rows, n) ==
  /\ cols \in Seq(Nat) /\ Len(cols) \in 0 .. n
  /\ \A i \in 1 .. Len(cols), r \in 1 .. Len(rows) : cols[i] = 0 => rows[r][i] = <<>>

LEMMA ColumnsCover ==
  ASSUME width \in Nat, NEW rows \in Seq(Seq(Txt)), rows # <<>>,
         NEW n \in Nat, n >= 1, \A r \in 1 .. Len(rows) : Len(rows[r]) = n
  PROVE  Covering(TableColumns(rows), rows, n)
<1>1. PICK cw \in Seq(Nat), budget \in Nat, over \in Int : ColumnsFrom(rows, n, cw, budget, over)
  BY ColumnsAre
<1>2. Len(cw) = n /\ cw # <<>>
  <2>1. Len(cw) = n
    BY <1>1 DEF ColumnsFrom
  <2> QED
    BY <2>1
<1>3. \A r \in 1 .. Len(rows), i \in 1 .. n : cw[i] = 0 => rows[r][i] = <<>>
  <2>1. PICK k \in Nat : k = Len(rows)
    OBVIOUS
  <2>2. ASSUME NEW r \in 1 .. k, NEW i \in 1 .. n, cw[i] = 0 PROVE rows[r][i] = <<>>
    <3>1. PICK row \in Seq(Txt) : row = rows[r] /\ Len(row) = n
      BY <2>1
    <3>2. PICK s \in Txt : s = row[i]
      BY <3>1
    <3>3. DispWidth(s) <= 0
      BY <1>1, <2>1, <2>2, <3>1, <3>2 DEF ColumnsFrom
    <3>4. Len(s) \in Nat /\ Len(s) <= DispWidth(s) /\ DispWidth(s) \in Nat
      BY DispCounts, DispType
    <3>5. Len(s) = 0
      BY <3>3, <3>4
    <3>6. s = <<>>
      BY <3>5 DEF Txt
    <3> QED
      BY <3>1, <3>2, <3>6
  <2> QED
    BY <2>1, <2>2
<1>4. ASSUME NEW c, LeavesRoom(c, cw) PROVE Covering(c, rows, n)
  <2>1. c \in Seq(Nat) /\ Len(c) = n /\ \A i \in 1 .. n : c[i] = 0 => cw[i] = 0
    BY <1>2, <1>4 DEF LeavesRoom
  <2>2. Len(c) \in 0 .. n
    BY <2>1
  <2> QED
    BY <1>3, <2>1, <2>2 DEF Covering
<1>5. TableColumns(rows) = IF over <= 0 THEN cw
                           ELSE IF budget >= n THEN Shrinking([j \in 1 .. over |-> j], cw, budget)
                           ELSE SubSeq(cw, 1, DropColumns(cw))
  BY <1>1 DEF ColumnsFrom
<1>6. CASE over <= 0
  <2>1. LeavesRoom(cw, cw)
    BY DEF LeavesRoom
  <2> QED
    BY <1>4, <1>5, <1>6, <2>1
<1>7. CASE ~(over <= 0) /\ budget >= n
  <2>1. PICK o \in Nat : o = over
    BY <1>7
  <2>2. Len(cw) <= budget
    BY <1>2, <1>7
  <2>3. LeavesRoom(Shrinking([j \in 1 .. o |-> j], cw, budget), cw)
    BY <1>2, <2>2, ShrinkingLeavesRoom
  <2>4. TableColumns(rows) = Shrinking([j \in 1 .. o |-> j], cw, budget)
    BY <1>5, <1>7, <2>1
  <2> QED
    BY <1>4, <2>3, <2>4
<1>8. CASE ~(over <= 0) /\ ~(budget >= n)
  <2>1. PICK keep \in 0 .. n : keep = DropColumns(cw)
    BY <1>2, DropKeeps
  <2>2. PICK c : c = SubSeq(cw, 1, keep)
    OBVIOUS
  <2>3. c \in Seq(Nat) /\ Len(c) = keep /\ \A i \in 1 .. keep : c[i] = cw[i]
    <3>1. \A i \in 1 .. keep : cw[i] \in Nat
      BY <1>2
    <3>2. /\ c \in Seq(Nat)
          /\ Len(c) = IF 1 <= keep THEN keep - 1 + 1 ELSE 0
          /\ \A i \in 1 .. keep - 1 + 1 : c[i] = cw[1 + i - 1]
      BY <2>2, <3>1, SubSeqProperties
    <3>3. (IF 1 <= keep THEN keep - 1 + 1 ELSE 0) = keep /\ keep - 1 + 1 = keep
          /\ \A i \in 1 .. keep : 1 + i - 1 = i
      OBVIOUS
    <3> QED
      BY <3>2, <3>3
  <2>4. \A i \in 1 .. keep : i \in 1 .. n
    OBVIOUS
  <2>5. Covering(c, rows, n)
    BY <1>3, <2>3, <2>4 DEF Covering
  <2> QED
    BY <1>5, <1>8, <2>1, <2>2, <2>5
<1> QED
  BY <1>6, <1>7, <1>8

\* What a row shows of its cells.
Shown(cells, cols) == FlattenSeq([i \in DOMAIN cols |-> FitCell(cells[i], cols[i])])

LEMMA RowShows ==
  ASSUME NEW c \in Letters, NEW cells \in Seq(Txt), NEW cols \in Seq(Nat), NEW q \in Nat, q = Len(cols),
         NEW n \in Nat, n = Len(cells), q <= n, \A i \in 1 .. q : cols[i] = 0 => cells[i] = <<>>
  PROVE  /\ Shown(cells, cols) \in Txt
         /\ CountIn(c, Shown(cells, cols)) <= Weight(TextHits(c), cells)
         /\ CountIn(c, Shown(cells, cols)) # Weight(TextHits(c), cells)
              => q < n \/ Contains(Shown(cells, cols), Dots)
<1>1. PICK ss : ss = [i \in 1 .. q |-> FitCell(cells[i], cols[i])]
  OBVIOUS
<1>2. DOMAIN cols = 1 .. q
  OBVIOUS
<1>3. PICK W \in [Txt -> Nat] : W = TextHits(c) /\ \A s \in Txt : W[s] = CountIn(c, s)
  BY HitsType
<1>4. ASSUME NEW i \in 1 .. q
      PROVE  /\ Fewer(FitCell(cells[i], cols[i]), cells[i], c)
             /\ CountIn(c, FitCell(cells[i], cols[i])) # CountIn(c, cells[i])
                  => Contains(FitCell(cells[i], cols[i]), Dots)
  <2>1. PICK s \in Txt, w \in Nat : s = cells[i] /\ w = cols[i] /\ (w = 0 => s = <<>>)
    OBVIOUS
  <2>2. /\ Fewer(FitCell(s, w), s, c)
        /\ CountIn(c, FitCell(s, w)) # CountIn(c, s) => Contains(FitCell(s, w), Dots)
    BY <2>1, CellShows
  <2> QED
    BY <2>1, <2>2
<1>5. ss \in Seq(Txt) /\ Len(ss) = q
  <2>1. \A i \in 1 .. q : FitCell(cells[i], cols[i]) \in Txt
    BY <1>4 DEF Fewer
  <2>2. ss \in [1 .. q -> Txt]
    BY <1>1, <2>1
  <2> QED
    BY <2>2, FunSeq
<1>6. PICK t, rest : t = SubSeq(cells, 1, q) /\ rest = SubSeq(cells, q + 1, Len(cells))
  OBVIOUS
<1>7. t \in Seq(Txt) /\ rest \in Seq(Txt) /\ Weight(W, cells) = Weight(W, t) + Weight(W, rest)
  BY <1>6, WeightCut
<1>8. Len(t) = q /\ \A i \in 1 .. q : t[i] = cells[i]
  <2>1. \A i \in 1 .. q : cells[i] \in Txt
    OBVIOUS
  <2>2. /\ Len(t) = IF 1 <= q THEN q - 1 + 1 ELSE 0
        /\ \A i \in 1 .. q - 1 + 1 : t[i] = cells[1 + i - 1]
    BY <1>6, <2>1, SubSeqProperties
  <2>3. (IF 1 <= q THEN q - 1 + 1 ELSE 0) = q /\ q - 1 + 1 = q /\ \A i \in 1 .. q : 1 + i - 1 = i
    OBVIOUS
  <2> QED
    BY <2>2, <2>3
<1>9. \A i \in 1 .. q : ss[i] \in Txt /\ t[i] \in Txt
                        /\ W[ss[i]] = CountIn(c, ss[i]) /\ W[t[i]] = CountIn(c, cells[i])
  <2>1. \A i \in 1 .. q : ss[i] \in Txt /\ t[i] \in Txt
    BY <1>5, <1>7, <1>8
  <2> QED
    BY <1>3, <1>8, <2>1
<1>10. Weighs(W, Txt, ss) /\ Weighs(W, Txt, t) /\ Lighter(W, ss, W, t)
  <2>1. \A i \in 1 .. q : W[ss[i]] <= W[t[i]]
    BY <1>1, <1>4, <1>9 DEF Fewer
  <2> QED
    BY <1>5, <1>7, <1>8, <2>1 DEF Weighs, Lighter
<1>11. /\ Weight(W, ss) \in Nat /\ Weight(W, t) \in Nat /\ Weight(W, ss) <= Weight(W, t)
       /\ Weight(W, ss) # Weight(W, t) => \E j \in 1 .. q : W[ss[j]] < W[t[j]]
  BY <1>5, <1>10, WeightDiffers
<1>12. PICK u : u = FlattenSeq(ss)
  OBVIOUS
<1>13. Shown(cells, cols) = u
  BY <1>1, <1>2, <1>12 DEF Shown
<1>14. u \in Txt /\ CountIn(c, u) = Weight(W, ss)
  <2>1. Hits(c) \in [Character -> Nat] /\ ss \in Seq(Seq(Character))
    BY <1>5, HitsType DEF Txt
  <2>2. FlattenSeq(ss) \in Seq(Character)
        /\ Weight(Hits(c), FlattenSeq(ss)) = Weight(Sums(Hits(c), Character), ss)
    BY <2>1, WeightFlatten
  <2> QED
    BY <1>3, <1>12, <2>2 DEF CountIn, TextHits, Txt
<1>15. Weight(W, rest) \in Nat
  BY <1>7, WeightType
<1>16. CountIn(c, u) <= Weight(W, cells)
  BY <1>7, <1>11, <1>14, <1>15
<1>17. ASSUME CountIn(c, u) # Weight(W, cells), ~(q < n) PROVE Contains(u, Dots)
  <2>1. q = n
    BY <1>17
  <2>2. Weight(W, rest) = 0
    <3>1. \A i \in q + 1 .. n : cells[i] \in Txt
      BY <2>1
    <3>2. Len(rest) = IF q + 1 <= n THEN n - (q + 1) + 1 ELSE 0
      BY <1>6, <3>1, SubSeqProperties
    <3>3. rest = <<>>
      BY <1>7, <2>1, <3>2
    <3> QED
      BY <3>3, WeightEmpty
  <2>3. Weight(W, ss) # Weight(W, t)
    BY <1>7, <1>11, <1>14, <1>17, <2>2
  <2>4. PICK j \in 1 .. q : W[ss[j]] < W[t[j]]
    BY <1>11, <2>3
  <2>5. CountIn(c, ss[j]) # CountIn(c, cells[j])
    <3>1. W[ss[j]] \in Nat /\ W[t[j]] \in Nat
      BY <1>9
    <3>2. W[ss[j]] # W[t[j]]
      BY <2>4, <3>1
    <3> QED
      BY <1>9, <3>2
  <2>6. Contains(ss[j], Dots)
    BY <1>1, <1>4, <2>5
  <2> QED
    BY <1>5, <1>12, <2>6, FlattenContains
<1> QED
  BY <1>3, <1>13, <1>14, <1>16, <1>17

\* The rows of a table: its head, then its body.
RowsFrom(rows, head, body, n) ==
  /\ rows \in Seq(Seq(Txt)) /\ rows # <<>>
  /\ Len(rows) = Len(body) + 1 /\ rows[1] = head
  /\ \A r \in 1 .. Len(body) : rows[r + 1] = body[r]
  /\ \A r \in 1 .. Len(rows) : Len(rows[r]) = n

LEMMA TableRowsAre ==
  ASSUME NEW head \in Seq(Txt), NEW body, Rows(head, body), NEW n \in Nat, n = Len(head)
  PROVE  RowsFrom(<<head>> \o body, head, body, n)
<1> PICK rows : rows = <<head>> \o body
  OBVIOUS
<1>1. PICK R : R = Seq(Txt)
  OBVIOUS
<1>2. PICK h : h = <<head>>
  OBVIOUS
<1>3. body \in Seq(R) /\ \A r \in 1 .. Len(body) : Len(body[r]) = n
  BY <1>1 DEF Rows
<1>4. h \in Seq(R) /\ Len(h) = 1 /\ h[1] = head
  BY <1>1, <1>2
<1>5. PICK k \in Nat : k = Len(body)
  BY <1>3
<1>6. /\ rows \in Seq(R) /\ Len(rows) = 1 + k
      /\ \A i \in 1 .. 1 + k : rows[i] = IF i <= 1 THEN h[i] ELSE body[i - 1]
  BY <1>2, <1>3, <1>4, <1>5, ConcatProperties
<1>7. rows[1] = head
  BY <1>4, <1>6
<1>8. ASSUME NEW r \in 1 .. k PROVE rows[r + 1] = body[r]
  <2>1. r + 1 \in 1 .. 1 + k /\ ~(r + 1 <= 1) /\ r + 1 - 1 = r
    OBVIOUS
  <2> QED
    BY <1>6, <2>1
<1>9. ASSUME NEW r \in 1 .. 1 + k PROVE Len(rows[r]) = n
  <2>1. CASE r = 1
    BY <1>7, <2>1
  <2>2. CASE r # 1
    <3>1. PICK p \in 1 .. k : p + 1 = r
      <4>1. r - 1 \in 1 .. k /\ r - 1 + 1 = r
        BY <2>2
      <4> QED
        BY <4>1
    <3> QED
      BY <1>3, <1>5, <1>8, <3>1
  <2> QED
    BY <2>1, <2>2
<1>10. rows # <<>> /\ Len(rows) = Len(body) + 1
  BY <1>5, <1>6
<1> QED
  BY <1>1, <1>5, <1>6, <1>7, <1>8, <1>9, <1>10 DEF RowsFrom

\* A line that shows a row: less than the row holds only if it says so.
Tells(l, cells, c) ==
  /\ l \in LineSet /\ LineHits(c)[l] \in Nat /\ Weight(TextHits(c), cells) \in Nat
  /\ LineHits(c)[l] <= Weight(TextHits(c), cells)
  /\ LineHits(c)[l] # Weight(TextHits(c), cells) => Warns(l)

LEMMA RowTells ==
  ASSUME NEW c \in Letters, NEW rows \in Seq(Seq(Txt)), NEW n \in Nat, NEW r \in 1 .. Len(rows), Len(rows[r]) = n,
         NEW cols, Covering(cols, rows, n), NEW frame \in Nat, frame >= 1, NEW cut \in BOOLEAN, Len(cols) < n => cut
  PROVE  Tells(Line("table", frame - DispWidth(Shown(rows[r], cols)), cut, Shown(rows[r], cols)), rows[r], c)
<1>1. PICK cells \in Seq(Txt) : cells = rows[r] /\ Len(cells) = n
  <2>1. PICK R : R = Seq(Txt)
    OBVIOUS
  <2>2. rows[r] \in R
    BY <2>1
  <2> QED
    BY <2>1, <2>2
<1>2. PICK q \in Nat : q = Len(cols) /\ q <= n /\ cols \in Seq(Nat)
  BY DEF Covering
<1>3. \A i \in 1 .. q : cols[i] = 0 => cells[i] = <<>>
  BY <1>1, <1>2 DEF Covering
<1>4. PICK shown : shown = Shown(cells, cols)
  OBVIOUS
<1>5. /\ shown \in Txt
      /\ CountIn(c, shown) <= Weight(TextHits(c), cells)
      /\ CountIn(c, shown) # Weight(TextHits(c), cells) => q < n \/ Contains(shown, Dots)
  BY <1>1, <1>2, <1>3, <1>4, RowShows
<1>6. PICK d \in Nat : d = DispWidth(shown)
  BY <1>5, DispType
<1>7. PICK pre \in Int : pre = frame - d
  OBVIOUS
<1>8. PICK l : l = Line("table", pre, cut, shown)
  OBVIOUS
<1>9. Made(l, "table", pre, shown)
  <2>1. "table" \in LineKinds
    BY DEF LineKinds
  <2> QED
    BY <1>5, <1>8, <2>1, MakeLine, Zenon
<1>10. l \in LineSet /\ l.kind = "table" /\ l.body = shown /\ l.pre = pre /\ l.mark = cut
  BY <1>8, <1>9 DEF Made, Line
<1>11. LineHits(c)[l] = CountIn(c, shown) /\ CountIn(c, shown) \in Nat
  BY <1>5, <1>10, HitsType, CountType
<1>12. Weight(TextHits(c), cells) \in Nat
  BY TextsType
<1>13. ~IsBlank(l)
  <2>1. CASE shown = <<>>
    <3>1. pre = frame
      BY <1>6, <1>7, <2>1, DispEmpty
    <3> QED
      BY <1>10, <3>1 DEF IsBlank
  <2>2. CASE shown # <<>>
    BY <1>10, <2>2 DEF IsBlank
  <2> QED
    BY <2>1, <2>2
<1>14. CountIn(c, shown) # Weight(TextHits(c), cells) => Warns(l)
  BY <1>2, <1>5, <1>10, <1>13 DEF Warns
<1>15. Tells(l, cells, c)
  BY <1>5, <1>10, <1>11, <1>12, <1>14 DEF Tells
<1> QED
  BY <1>1, <1>4, <1>6, <1>7, <1>8, <1>15

\* A table shows no more than it holds, and less only with a mark.
TableHits(head, body, c) == Weight(TextHits(c), head) + Weight(RowHits(c), body)

LEMMA BodyTells ==
  ASSUME NEW c, NEW body \in Seq(Seq(Txt)), NEW dr \in Seq(LineSet), NEW k \in Nat, k = Len(body), k = Len(dr),
         \A r \in 1 .. k : Tells(dr[r], body[r], c)
  PROVE  /\ Weight(LineHits(c), dr) \in Nat /\ Weight(RowHits(c), body) \in Nat
         /\ Weight(LineHits(c), dr) <= Weight(RowHits(c), body)
         /\ Weight(LineHits(c), dr) # Weight(RowHits(c), body) => Marked(dr)
<1>1. PICK R : R = Seq(Txt)
  OBVIOUS
<1>2. PICK V \in [R -> Nat] : V = RowHits(c) /\ \A x \in R : V[x] = Weight(TextHits(c), x)
  BY <1>1, HitsType
<1>3. PICK W \in [LineSet -> Nat] : W = LineHits(c)
  BY HitsType
<1>4. Weighs(W, LineSet, dr) /\ Weighs(V, R, body)
  BY <1>1 DEF Weighs
<1>5. \A r \in 1 .. k : V[body[r]] = Weight(TextHits(c), body[r])
  <2>1. body \in Seq(R)
    BY <1>1
  <2>2. \A r \in 1 .. k : body[r] \in R
    BY <2>1, TermsOf
  <2> QED
    BY <1>2, <2>2
<1>6. \A r \in 1 .. k : W[dr[r]] <= V[body[r]]
  BY <1>3, <1>5 DEF Tells
<1>7. Lighter(W, dr, V, body)
  BY <1>6 DEF Lighter
<1>8. /\ Weight(W, dr) \in Nat /\ Weight(V, body) \in Nat /\ Weight(W, dr) <= Weight(V, body)
      /\ Weight(W, dr) # Weight(V, body) => \E j \in 1 .. k : W[dr[j]] < V[body[j]]
  BY <1>4, <1>7, WeightDiffers
<1>9. ASSUME NEW j \in 1 .. k, W[dr[j]] < V[body[j]] PROVE Marked(dr)
  <2>1. W[dr[j]] \in Nat /\ V[body[j]] \in Nat
    BY <1>3, <1>5 DEF Tells
  <2>2. W[dr[j]] # V[body[j]]
    BY <1>9, <2>1
  <2>3. Warns(dr[j])
    BY <1>3, <1>5, <2>2 DEF Tells
  <2> QED
    BY <2>3 DEF Marked
<1> QED
  BY <1>2, <1>3, <1>8, <1>9

LEMMA RenderKeeps ==
  ASSUME width \in Nat, NEW c \in Letters, NEW head \in Seq(Txt), head # <<>>, NEW body, Rows(head, body)
  PROVE  /\ RenderTable(head, body) \in Seq(LineSet)
         /\ Weight(LineHits(c), RenderTable(head, body)) \in Nat /\ TableHits(head, body, c) \in Nat
         /\ Weight(LineHits(c), RenderTable(head, body)) <= TableHits(head, body, c)
         /\ Weight(LineHits(c), RenderTable(head, body)) # TableHits(head, body, c)
              => Marked(RenderTable(head, body))
<1>1. PICK n \in Nat : n = Len(head) /\ n >= 1
  OBVIOUS
<1>2. PICK k \in Nat : k = Len(body) /\ DOMAIN body = 1 .. k
  BY DEF Rows
<1>3. PICK rows : rows = <<head>> \o body
  OBVIOUS
<1>4. /\ rows \in Seq(Seq(Txt)) /\ rows # <<>> /\ Len(rows) = k + 1 /\ rows[1] = head
      /\ \A r \in 1 .. k : rows[r + 1] = body[r]
      /\ \A r \in 1 .. Len(rows) : Len(rows[r]) = n
  <2>1. RowsFrom(rows, head, body, n)
    BY <1>1, <1>3, TableRowsAre
  <2> QED
    BY <1>2, <2>1 DEF RowsFrom
<1>5. PICK cols : cols = TableColumns(rows)
  OBVIOUS
<1>6. Covering(cols, rows, n)
  BY <1>1, <1>4, <1>5, ColumnsCover
<1>7. cols \in Seq(Nat)
  BY <1>6 DEF Covering
<1>8. PICK q \in Nat, s \in Nat : q = Len(cols) /\ s = SeqSum(cols)
  BY <1>7, SumType
<1> DEFINE cut == Len(cols) < Len(head)
<1>9. PICK frame \in Nat : frame = SeqSum(cols) + 3 * Len(cols) + 1 + (IF cut THEN 1 ELSE 0) /\ frame >= 1
  <2>1. s + 3 * q + 1 + (IF cut THEN 1 ELSE 0) \in Nat /\ s + 3 * q + 1 + (IF cut THEN 1 ELSE 0) >= 1
    OBVIOUS
  <2> QED
    BY <1>8, <2>1
<1>10. cut \in BOOLEAN /\ (Len(cols) < n => cut)
  BY <1>1
<1> DEFINE Border == Line("table", frame, FALSE, <<>>)
           DataRow(cells) == Line("table", frame - DispWidth(Shown(cells, cols)), cut, Shown(cells, cols))
<1> HIDE DEF cut
<1>11. \A r \in 1 .. Len(rows) : Tells(DataRow(rows[r]), rows[r], c)
  BY <1>4, <1>6, <1>9, <1>10, RowTells
<1>12. RenderTable(head, body) = (<<Border, DataRow(head), Border>>
                                  \o [r \in DOMAIN body |-> DataRow(body[r])]) \o <<Border>>
  BY <1>3, <1>5, <1>9 DEF RenderTable, cut, Shown
<1>13. PICK x \in LineSet : x = Border /\ LineHits(c)[x] = 0
  <2>1. "table" \in LineKinds /\ frame \in Int
    BY DEF LineKinds
  <2>2. Border \in LineSet /\ Border.body = <<>>
    BY <2>1, PlainLine, Zenon
  <2> HIDE DEF Border
  <2>3. LineHits(c)[Border] = CountIn(c, Border.body)
    BY <2>2, HitsType
  <2> QED
    BY <2>2, <2>3, CountEmpty
<1> HIDE DEF Border, DataRow
<1>14. PICK y : y = DataRow(head) /\ Tells(y, head, c)
  <2>1. 1 \in 1 .. Len(rows)
    BY <1>4
  <2> QED
    BY <1>4, <1>11, <2>1
<1>15. \A r \in 1 .. k : Tells(DataRow(body[r]), body[r], c)
  <2>1. \A r \in 1 .. k : r + 1 \in 1 .. Len(rows)
    BY <1>4
  <2> QED
    BY <1>4, <1>11, <2>1
<1>16. PICK dr : dr = [r \in 1 .. k |-> DataRow(body[r])]
  OBVIOUS
<1>17. dr \in Seq(LineSet) /\ Len(dr) = k
  <2>1. \A r \in 1 .. k : DataRow(body[r]) \in LineSet
    BY <1>15 DEF Tells
  <2>2. dr \in [1 .. k -> LineSet]
    BY <1>16, <2>1
  <2> QED
    BY <2>2, FunSeq
<1>18. \A r \in 1 .. k : Tells(dr[r], body[r], c)
  BY <1>15, <1>16
<1>19. body \in Seq(Seq(Txt))
  BY DEF Rows
<1>20. PICK d \in Nat, e \in Nat : /\ d = Weight(LineHits(c), dr) /\ e = Weight(RowHits(c), body) /\ d <= e
                                   /\ d # e => Marked(dr)
  BY <1>2, <1>17, <1>18, <1>19, BodyTells
<1>21. PICK h \in Nat, g \in Nat : /\ h = LineHits(c)[y] /\ g = Weight(TextHits(c), head) /\ h <= g
                                   /\ h # g => Warns(y)
  BY <1>14 DEF Tells
<1>22. y \in LineSet
  BY <1>14 DEF Tells
<1>23. PICK top : top = <<x, y, x>>
  OBVIOUS
<1>24. top \in Seq(LineSet) /\ Weight(LineHits(c), top) = h /\ (Warns(y) => Marked(top))
  <2>1. LineHits(c) \in [LineSet -> Nat]
    BY HitsType
  <2>2. <<x>> \in Seq(LineSet) /\ Weight(LineHits(c), <<x>>) = 0
    BY <1>13, <2>1, WeightOne
  <2>3. PICK a : a = Append(<<x>>, y)
    OBVIOUS
  <2>4. a \in Seq(LineSet) /\ Weight(LineHits(c), a) = 0 + h
    BY <1>21, <1>22, <2>1, <2>2, <2>3, WeightAppend
  <2>5. Append(a, x) \in Seq(LineSet) /\ Weight(LineHits(c), Append(a, x)) = (0 + h) + 0
    BY <1>13, <2>1, <2>4, WeightAppend
  <2>6. top = Append(a, x)
    BY <1>23, <2>3
  <2>7. Len(top) = 3 /\ top[2] = y /\ 2 \in 1 .. 3
    BY <1>23
  <2>8. Warns(y) => Marked(top)
    BY <2>7 DEF Marked
  <2> QED
    BY <2>5, <2>6, <2>8
<1>25. PICK m : m = top \o dr
  OBVIOUS
<1>26. m \in Seq(LineSet) /\ Weight(LineHits(c), m) = h + d /\ (Marked(top) \/ Marked(dr) => Marked(m))
  BY <1>17, <1>20, <1>24, <1>25, LinesConcat, MarkedStays
<1>27. PICK p : p = m \o <<x>>
  OBVIOUS
<1>28. p \in Seq(LineSet) /\ Weight(LineHits(c), p) = h + d /\ (Marked(m) => Marked(p))
  <2>1. LineHits(c) \in [LineSet -> Nat]
    BY HitsType
  <2>2. <<x>> \in Seq(LineSet) /\ Weight(LineHits(c), <<x>>) = 0
    BY <1>13, <2>1, WeightOne
  <2>3. p \in Seq(LineSet) /\ Weight(LineHits(c), p) = (h + d) + 0 /\ (Marked(m) => Marked(p))
    BY <1>26, <1>27, <2>2, LinesConcat, MarkedStays
  <2> QED
    BY <2>3
<1>29. RenderTable(head, body) = p
  <2>1. [r \in DOMAIN body |-> DataRow(body[r])] = dr
    BY <1>2, <1>16
  <2> QED
    BY <1>12, <1>13, <1>14, <1>23, <1>25, <1>27, <2>1
<1>30. TableHits(head, body, c) = g + e
  BY <1>20, <1>21 DEF TableHits
<1>31. h + d <= g + e /\ (h + d # g + e => h # g \/ d # e) /\ h + d \in Nat /\ g + e \in Nat
  BY <1>20, <1>21
<1> QED
  BY <1>20, <1>21, <1>24, <1>26, <1>28, <1>29, <1>30, <1>31

-----------------------------------------------------------------------------
\* What tags may stand in.
Parents(k) ==
  IF k = "doc" THEN {}
  ELSE IF k = "link" THEN {"para", "heading", "cell", "item"}
  ELSE IF k = "cell" THEN {"head", "row"}
  ELSE IF k \in {"head", "row"} THEN {"table"}
  ELSE IF k = "item" THEN {"list"}
  ELSE {"doc", "quote", "item"}

Stacked(o) ==
  /\ o \in Seq(Tag) /\ Len(o) >= 1 /\ o[1].k = "doc"
  /\ \A i \in 2 .. Len(o) : o[i - 1].k \in Parents(o[i].k)

\* The tag that holds the text: a link is part of what it stands in.
Held(o) == IF Last(o).k = "link" THEN o[Len(o) - 1].k ELSE Last(o).k

LEMMA NoLinkHolds == ASSUME NEW k, NEW j \in Parents(k) PROVE j # "link"
  BY DEF Parents

LEMMA StackTop ==
  ASSUME NEW o, Stacked(o)
  PROVE  /\ Last(o).k \in TagKinds /\ Held(o) \in TagKinds \ {"link"} /\ Has(o, Held(o)) /\ Has(o, Last(o).k)
         /\ Last(o).k = "link" => Held(o) \in Parents("link")
         /\ Last(o).k # "link" => Held(o) = Last(o).k
<1>1. PICK n \in Nat : n = Len(o) /\ n >= 1
  BY DEF Stacked
<1>2. o \in Seq(Tag) /\ \A i \in 1 .. n : o[i].k \in TagKinds
  <2>1. o \in Seq(Tag)
    BY DEF Stacked
  <2>2. \A i \in 1 .. n : o[i] \in Tag
    BY <1>1, <2>1
  <2> QED
    BY <2>1, <2>2 DEF Tag
<1>3. n \in 1 .. n /\ Last(o) = o[n]
  BY <1>1 DEF Last
<1>4. Last(o).k \in TagKinds /\ Has(o, Last(o).k)
  BY <1>1, <1>2, <1>3 DEF Has
<1>5. CASE Last(o).k # "link"
  BY <1>4, <1>5 DEF Held
<1>6. CASE Last(o).k = "link"
  <2>1. n \in 2 .. n
    <3>1. o[1].k # "link"
      BY DEF Stacked
    <3> QED
      BY <1>1, <1>3, <1>6, <3>1
  <2>2. PICK m \in 1 .. n : m = n - 1
    BY <2>1
  <2>3. o[n - 1].k \in Parents(o[n].k)
    BY <1>1, <2>1 DEF Stacked
  <2>4. Held(o) = o[m].k
    BY <1>1, <1>6, <2>2 DEF Held
  <2>5. Held(o) \in Parents("link")
    BY <1>3, <1>6, <2>2, <2>3, <2>4
  <2>6. Held(o) \in TagKinds /\ Has(o, Held(o))
    BY <1>1, <1>2, <2>4 DEF Has
  <2> QED
    BY <1>4, <1>6, <2>5, <2>6, NoLinkHolds
<1> QED
  BY <1>5, <1>6

Pushes(o, k, p) == \E tight \in BOOLEAN : p = Append(o, [k |-> k, tight |-> tight])

LEMMA StackPush ==
  ASSUME NEW o, Stacked(o), NEW k \in TagKinds, Last(o).k \in Parents(k), NEW p, Pushes(o, k, p)
  PROVE  /\ Stacked(p) /\ Last(p).k = k
         /\ k # "link" => Held(p) = k
         /\ k = "link" => Held(p) = Held(o)
         /\ \A j : Has(o, j) => Has(p, j)
<1>0. PICK tight \in BOOLEAN : p = Append(o, [k |-> k, tight |-> tight])
  BY DEF Pushes
<1>1. PICK t \in Tag : t = [k |-> k, tight |-> tight] /\ t.k = k
  <2>1. PICK t : t = [k |-> k, tight |-> tight]
    OBVIOUS
  <2>2. t \in Tag
    BY <1>0, <2>1, Zenon DEF Tag
  <2>3. t.k = k
    BY <2>1
  <2> QED
    BY <2>1, <2>2, <2>3
<1>2. PICK n \in Nat : n = Len(o) /\ n >= 1
  BY DEF Stacked
<1>3. o \in Seq(Tag) /\ o[1].k = "doc" /\ \A i \in 2 .. n : o[i - 1].k \in Parents(o[i].k)
  BY <1>2 DEF Stacked
<1>4. p \in Seq(Tag) /\ Len(p) = n + 1 /\ p[n + 1] = t /\ \A i \in 1 .. n : p[i] = o[i]
  BY <1>0, <1>1, <1>2, <1>3, AppendProperties
<1>5. Last(p) = t
  BY <1>4 DEF Last
<1>6. ASSUME NEW i \in 2 .. n + 1 PROVE p[i - 1].k \in Parents(p[i].k)
  <2>1. CASE i = n + 1
    <3>1. p[i - 1] = o[n] /\ Last(o) = o[n] /\ p[i] = t
      BY <1>2, <1>4, <2>1 DEF Last
    <3> QED
      BY <1>1, <3>1
  <2>2. CASE i # n + 1
    <3>1. i \in 2 .. n /\ i \in 1 .. n /\ i - 1 \in 1 .. n
      BY <2>2
    <3> QED
      BY <1>3, <1>4, <3>1
  <2> QED
    BY <2>1, <2>2
<1>7. 1 \in 1 .. n
  BY <1>2
<1>8. Stacked(p)
  BY <1>2, <1>3, <1>4, <1>6, <1>7 DEF Stacked
<1>9. ASSUME k = "link" PROVE Held(p) = Held(o)
  <2>1. Last(o).k # "link"
    BY NoLinkHolds
  <2>2. Held(o) = o[n].k
    BY <1>2, <2>1 DEF Held, Last
  <2>3. Last(p).k = "link"
    BY <1>1, <1>5, <1>9
  <2>4. Held(p) = p[Len(p) - 1].k
    BY <2>3 DEF Held
  <2>5. Len(p) - 1 = n /\ n \in 1 .. n
    BY <1>2, <1>4
  <2> QED
    BY <1>4, <2>2, <2>4, <2>5
<1>10. k # "link" => Held(p) = k
  BY <1>1, <1>5 DEF Held
<1>11. ASSUME NEW j, Has(o, j) PROVE Has(p, j)
  <2>1. PICK i \in 1 .. n : o[i].k = j
    BY <1>2, <1>11 DEF Has
  <2>2. i \in 1 .. Len(p)
    BY <1>4
  <2> QED
    BY <1>4, <2>1, <2>2 DEF Has
<1> QED
  BY <1>1, <1>5, <1>8, <1>9, <1>10, <1>11

LEMMA StackPop ==
  ASSUME NEW o, Stacked(o), Last(o).k # "doc", NEW p, p = Front(o)
  PROVE  /\ Stacked(p) /\ Last(p).k \in Parents(Last(o).k) /\ Held(p) = Last(p).k
         /\ Last(o).k = "link" => Held(p) = Held(o)
         /\ \A j : Has(o, j) => Has(p, j) \/ j = Last(o).k
<1>1. PICK n \in Nat : n = Len(o) /\ n >= 1
  BY DEF Stacked
<1>2. o \in Seq(Tag) /\ o[1].k = "doc" /\ \A i \in 2 .. n : o[i - 1].k \in Parents(o[i].k)
  BY <1>1 DEF Stacked
<1>3. Last(o) = o[n] /\ n > 1
  BY <1>1, <1>2 DEF Last
<1>4. PICK m \in Nat : m = n - 1 /\ m >= 1
  BY <1>3
<1>5. p \in Seq(Tag) /\ Len(p) = m /\ \A i \in 1 .. m : p[i] = o[i]
  <2>1. p = SubSeq(o, 1, m)
    BY <1>1, <1>4 DEF Front
  <2>2. \A i \in 1 .. m : o[i] \in Tag
    BY <1>1, <1>2, <1>4
  <2> QED
    BY <1>4, <2>1, <2>2, SubSeqProperties
<1>6. m \in 1 .. m /\ 1 \in 1 .. m /\ n \in 2 .. n
  BY <1>3, <1>4
<1>7. Last(p) = o[m]
  BY <1>5, <1>6 DEF Last
<1>8. Last(p).k \in Parents(Last(o).k)
  BY <1>2, <1>3, <1>4, <1>6, <1>7
<1>9. Held(p) = Last(p).k
  BY <1>8, NoLinkHolds DEF Held
<1>10. Last(o).k = "link" => Held(p) = Held(o)
  BY <1>1, <1>4, <1>7, <1>9 DEF Held
<1>11. Stacked(p)
  <2>1. ASSUME NEW i \in 2 .. m PROVE p[i - 1].k \in Parents(p[i].k)
    <3>1. i \in 2 .. n /\ i \in 1 .. m /\ i - 1 \in 1 .. m
      BY <1>4
    <3> QED
      BY <1>2, <1>5, <3>1
  <2> QED
    BY <1>2, <1>4, <1>5, <1>6, <2>1 DEF Stacked
<1>12. ASSUME NEW j, Has(o, j) PROVE Has(p, j) \/ j = Last(o).k
  <2>1. PICK i \in 1 .. n : o[i].k = j
    BY <1>1, <1>12 DEF Has
  <2>2. CASE i = n
    BY <1>3, <2>1, <2>2
  <2>3. CASE i # n
    <3>1. i \in 1 .. m
      BY <1>4, <2>3
    <3> QED
      BY <1>5, <2>1, <3>1 DEF Has
  <2> QED
    BY <2>2, <2>3
<1> QED
  BY <1>8, <1>9, <1>10, <1>11, <1>12

\* Only the document stands in nothing.
LEMMA StackBottom ==
  ASSUME NEW o, Stacked(o), Last(o).k = "doc"
  PROVE  Held(o) = "doc" /\ ~Has(o, "item")
<1>1. PICK n \in Nat : n = Len(o) /\ n >= 1
  BY DEF Stacked
<1>2. o[1].k = "doc" /\ \A i \in 2 .. n : o[i - 1].k \in Parents(o[i].k)
  BY <1>1 DEF Stacked
<1>3. Last(o) = o[n]
  BY <1>1 DEF Last
<1>4. n = 1
  <2>1. CASE n = 1
    BY <2>1
  <2>2. CASE n # 1
    <3>1. n \in 2 .. n
      BY <1>1, <2>2
    <3>2. o[n - 1].k \in Parents("doc")
      BY <1>2, <1>3, <3>1
    <3> QED
      BY <3>2 DEF Parents
  <2> QED
    BY <2>1, <2>2
<1>5. ~Has(o, "item")
  <2>1. \A i \in 1 .. Len(o) : o[i].k = "doc"
    BY <1>1, <1>2, <1>4
  <2> QED
    BY <2>1 DEF Has
<1>6. Held(o) = "doc"
  BY DEF Held
<1> QED
  BY <1>5, <1>6

-----------------------------------------------------------------------------
\* The account of a character: on the page, on its way there, in the table.
CellHits(m, c) == CountIn(c, m.cell) + Weight(TextHits(c), m.row) + TableHits(m.head, m.rows, c)
Stock(m, c) == Amount(m, c) + CountIn(c, m.cell) + Weight(TextHits(c), m.row)
               + (IF m.inTable THEN TableHits(m.head, m.rows, c) ELSE 0)

\* Nothing more than was said; less if a table says so, and then it was said there.
Accounted(m, c, said, told) ==
  /\ Stock(m, c) <= said
  /\ Stock(m, c) # said => told /\ Marked(m.out)
  /\ CellHits(m, c) # 0 => told

\* The renderer moves the character, and does not lose it.
Carries(m, k, c) ==
  /\ k \in Pages(LineSet) /\ (Marked(m.out) => Marked(k.out))
  /\ Stock(k, c) = Stock(m, c) /\ (CellHits(k, c) # 0 => CellHits(m, c) # 0)
  /\ CountIn(c, k.runs) <= CountIn(c, m.runs)
  /\ Weight(TextHits(c), k.code) <= Weight(TextHits(c), m.code)

StockNumbers(m, c, a, x, r, t) ==
  /\ a = Amount(m, c) /\ x = CountIn(c, m.cell) /\ r = Weight(TextHits(c), m.row)
  /\ t = TableHits(m.head, m.rows, c)
  /\ Stock(m, c) = a + x + r + (IF m.inTable THEN t ELSE 0) /\ CellHits(m, c) = x + r + t

LEMMA TableType ==
  ASSUME NEW c, NEW head \in Seq(Txt), NEW body \in Seq(Seq(Txt))
  PROVE  TableHits(head, body, c) \in Nat
<1>1. PICK R : R = Seq(Txt)
  OBVIOUS
<1>2. RowHits(c) \in [R -> Nat] /\ body \in Seq(R)
  BY <1>1, HitsType
<1>3. Weight(RowHits(c), body) \in Nat
  BY <1>2, WeightType
<1>4. Weight(TextHits(c), head) \in Nat
  BY TextsType
<1> QED
  BY <1>3, <1>4 DEF TableHits

LEMMA StockIs ==
  ASSUME NEW c, NEW m \in Pages(LineSet)
  PROVE  \E a \in Nat, x \in Nat, r \in Nat, t \in Nat : StockNumbers(m, c, a, x, r, t)
<1>1. /\ m.cell \in Txt /\ m.row \in Seq(Txt) /\ m.head \in Seq(Txt) /\ m.rows \in Seq(Seq(Txt))
  BY DEF Pages
<1>2. CountIn(c, m.cell) \in Nat /\ Weight(TextHits(c), m.row) \in Nat /\ TableHits(m.head, m.rows, c) \in Nat
  BY <1>1, CountType, TextsType, TableType
<1>3. Amount(m, c) \in Nat
  <2>1. PICK x \in Nat, y \in Nat, z \in Nat : PageNumbers(m, c, x, y, z)
    BY PageAmounts
  <2> QED
    BY <2>1 DEF PageNumbers
<1> QED
  BY <1>2, <1>3 DEF StockNumbers, Stock, CellHits

LEMMA CarriesOn ==
  ASSUME NEW c, NEW m \in Pages(LineSet), NEW k, NEW n, Carries(m, k, c), Carries(k, n, c)
  PROVE  Carries(m, n, c)
<1>1. k \in Pages(LineSet) /\ n \in Pages(LineSet)
  BY DEF Carries
<1>2. PICK x1 \in Nat, y1 \in Nat, z1 \in Nat : PageNumbers(m, c, x1, y1, z1)
  BY PageAmounts
<1>3. PICK x2 \in Nat, y2 \in Nat, z2 \in Nat : PageNumbers(k, c, x2, y2, z2)
  BY <1>1, PageAmounts
<1>4. PICK x3 \in Nat, y3 \in Nat, z3 \in Nat : PageNumbers(n, c, x3, y3, z3)
  BY <1>1, PageAmounts
<1>5. y2 <= y1 /\ z2 <= z1 /\ y3 <= y2 /\ z3 <= z2
  BY <1>2, <1>3, <1>4 DEF Carries, PageNumbers
<1>6. y3 <= y1 /\ z3 <= z1
  BY <1>5
<1>7. CountIn(c, n.runs) <= CountIn(c, m.runs) /\ Weight(TextHits(c), n.code) <= Weight(TextHits(c), m.code)
  BY <1>2, <1>4, <1>6 DEF PageNumbers
<1> QED
  BY <1>1, <1>7 DEF Carries

LEMMA CarriedIsAccounted ==
  ASSUME NEW c, NEW m, NEW k, Carries(m, k, c), NEW said, NEW told, Accounted(m, c, said, told)
  PROVE  Accounted(k, c, said, told)
  BY DEF Carries, Accounted

LEMMA EmitsCarries ==
  ASSUME NEW c, NEW m, NEW k, Emits(m, k, c)
  PROVE  Carries(m, k, c)
  BY DEF Emits, Carries, Stock, CellHits

\* Fields that hold no text.
SameText(m, k) ==
  /\ k.out = m.out /\ k.runs = m.runs /\ k.code = m.code /\ k.cell = m.cell /\ k.row = m.row
  /\ k.head = m.head /\ k.rows = m.rows /\ k.inTable = m.inTable

LEMMA SameCarries ==
  ASSUME NEW c, NEW m \in Pages(LineSet), NEW k \in Pages(LineSet), SameText(m, k)
  PROVE  Carries(m, k, c)
<1>1. CountIn(c, m.runs) \in Nat /\ Weight(TextHits(c), m.code) \in Nat
  BY CountType, TextsType DEF Pages
<1>2. Amount(k, c) = Amount(m, c)
  BY DEF Amount, SameText
<1> QED
  BY <1>1, <1>2 DEF SameText, Carries, Stock, CellHits

\* Text that the character is not in.
LEMMA OtherText ==
  ASSUME NEW c, NEW m \in Pages(LineSet), NEW t \in Txt, CountIn(c, t) = 0,
         NEW k, k = [m EXCEPT !.runs = m.runs \o t]
  PROVE  Carries(m, k, c)
<1>1. m.runs \in Txt
  BY DEF Pages
<1>2. PICK u : u = m.runs \o t
  OBVIOUS
<1>2a. u \in Txt /\ CountIn(c, u) = CountIn(c, m.runs)
  <2>1. u \in Txt /\ CountIn(c, u) = CountIn(c, m.runs) + CountIn(c, t)
    BY <1>1, <1>2, CountConcat
  <2>2. PICK n \in Nat : n = CountIn(c, m.runs)
    BY <1>1, CountType
  <2>3. CountIn(c, u) = n + 0
    BY <2>1, <2>2
  <2> QED
    BY <2>1, <2>2, <2>3
<1>3. k \in Pages(LineSet)
  BY <1>2, <1>2a DEF Pages
<1>4. /\ k.out = m.out /\ k.runs = u /\ k.code = m.code /\ k.cell = m.cell /\ k.row = m.row
      /\ k.head = m.head /\ k.rows = m.rows /\ k.inTable = m.inTable
  BY <1>2 DEF Pages
<1>5. CountIn(c, k.runs) = CountIn(c, m.runs) /\ Amount(k, c) = Amount(m, c)
  BY <1>2a, <1>4 DEF Amount
<1>6. CountIn(c, m.runs) \in Nat /\ Weight(TextHits(c), m.code) \in Nat
  BY CountType, TextsType DEF Pages
<1> QED
  BY <1>3, <1>4, <1>5, <1>6 DEF Carries, Stock, CellHits

\* A fresh code block or row, where nothing was.
LEMMA FreshCode ==
  ASSUME NEW c, NEW m \in Pages(LineSet), Weight(TextHits(c), m.code) = 0, NEW lang \in Int,
         NEW k, k = [m EXCEPT !.inCode = TRUE, !.lang = lang, !.code = <<>>]
  PROVE  Carries(m, k, c)
<1>1. <<>> \in Seq(Txt) /\ Weight(TextHits(c), <<>>) = 0
  <2>1. TextHits(c) \in [Txt -> Nat]
    BY HitsType
  <2> QED
    BY <2>1, WeightEmpty
<1>2. k \in Pages(LineSet)
  BY <1>1 DEF Pages
<1>3. /\ k.out = m.out /\ k.runs = m.runs /\ k.code = <<>> /\ k.cell = m.cell /\ k.row = m.row
      /\ k.head = m.head /\ k.rows = m.rows /\ k.inTable = m.inTable
  BY DEF Pages
<1>4. Weight(TextHits(c), k.code) = 0 /\ Amount(k, c) = Amount(m, c)
  BY <1>1, <1>3 DEF Amount
<1>5. CountIn(c, m.runs) \in Nat
  BY CountType DEF Pages
<1> QED
  BY <1>2, <1>3, <1>4, <1>5 DEF Carries, Stock, CellHits

\* A cell becomes part of its row.
LEMMA CellMoves ==
  ASSUME NEW c, NEW m \in Pages(LineSet),
         NEW k, k = [m EXCEPT !.row = Append(m.row, m.cell), !.cell = <<>>]
  PROVE  Carries(m, k, c)
<1>1. PICK row \in Seq(Txt), cell \in Txt : row = m.row /\ cell = m.cell
  BY DEF Pages
<1>2. PICK row2 \in Seq(Txt) :
        row2 = Append(row, cell) /\ Weight(TextHits(c), row2) = Weight(TextHits(c), row) + CountIn(c, cell)
  BY TextsAppend
<1>3. k = [m EXCEPT !.row = row2, !.cell = <<>>]
  BY <1>1, <1>2
<1>4. k \in Pages(LineSet)
  BY <1>3, DispEmpty DEF Pages
<1>5. /\ k.out = m.out /\ k.runs = m.runs /\ k.code = m.code /\ k.cell = <<>> /\ k.row = row2
      /\ k.head = m.head /\ k.rows = m.rows /\ k.inTable = m.inTable
  BY <1>3 DEF Pages
<1>6. Amount(k, c) = Amount(m, c)
  BY <1>5 DEF Amount
<1>7. PICK a \in Nat, x \in Nat, r \in Nat, t \in Nat : StockNumbers(m, c, a, x, r, t)
  BY StockIs
<1>8. PICK a2 \in Nat, x2 \in Nat, r2 \in Nat, t2 \in Nat : StockNumbers(k, c, a2, x2, r2, t2)
  BY <1>4, StockIs
<1>9. a2 = a /\ x2 = 0 /\ r2 = r + x /\ t2 = t
  BY <1>1, <1>2, <1>5, <1>6, <1>7, <1>8, CountEmpty DEF StockNumbers
<1>10. Stock(k, c) = Stock(m, c) /\ CellHits(k, c) = CellHits(m, c)
  <2>1. CASE m.inTable
    BY <1>5, <1>7, <1>8, <1>9, <2>1 DEF StockNumbers
  <2>2. CASE ~m.inTable
    <3>1. Stock(m, c) = a + x + r + 0 /\ CellHits(m, c) = x + r + t
      BY <1>7, <2>2 DEF StockNumbers
    <3>2. Stock(k, c) = a2 + x2 + r2 + 0 /\ CellHits(k, c) = x2 + r2 + t2
      BY <1>5, <1>8, <2>2 DEF StockNumbers
    <3>3. a2 + x2 + r2 + 0 = a + x + r + 0 /\ x2 + r2 + t2 = x + r + t
      BY <1>9
    <3> QED
      BY <3>1, <3>2, <3>3
  <2> QED
    BY <2>1, <2>2
<1>11. CountIn(c, m.runs) \in Nat /\ Weight(TextHits(c), m.code) \in Nat
  BY CountType, TextsType DEF Pages
<1> QED
  BY <1>4, <1>5, <1>10, <1>11 DEF Carries

LEMMA NoRowHits == ASSUME NEW c PROVE Weight(RowHits(c), <<>>) = 0 /\ Weight(TextHits(c), <<>>) = 0
<1>1. PICK R : R = Seq(Txt)
  OBVIOUS
<1>2. RowHits(c) \in [R -> Nat] /\ TextHits(c) \in [Txt -> Nat]
  BY <1>1, HitsType
<1> QED
  BY <1>2, WeightEmpty

\* The row becomes the head of the table, which has none and no rows.
LEMMA HeadMoves ==
  ASSUME NEW c, NEW m \in Pages(LineSet), m.inTable, m.head = <<>>, m.rows = <<>>,
         NEW k, k = [m EXCEPT !.head = m.row, !.row = <<>>, !.inHead = FALSE]
  PROVE  Carries(m, k, c)
<1>1. PICK row \in Seq(Txt) : row = m.row
  BY DEF Pages
<1>2. k \in Pages(LineSet)
  <2>1. <<>> \in Seq(Txt)
    OBVIOUS
  <2> QED
    BY <1>1, <2>1 DEF Pages
<1>3. /\ k.out = m.out /\ k.runs = m.runs /\ k.code = m.code /\ k.cell = m.cell /\ k.row = <<>>
      /\ k.head = row /\ k.rows = m.rows /\ k.inTable = m.inTable
  BY <1>1 DEF Pages
<1>4. Amount(k, c) = Amount(m, c)
  BY <1>3 DEF Amount
<1>5. PICK a \in Nat, x \in Nat, r \in Nat, t \in Nat : StockNumbers(m, c, a, x, r, t)
  BY StockIs
<1>6. PICK a2 \in Nat, x2 \in Nat, r2 \in Nat, t2 \in Nat : StockNumbers(k, c, a2, x2, r2, t2)
  BY <1>2, StockIs
<1>7. t = 0 + 0 /\ t2 = r + 0
  BY <1>1, <1>3, <1>5, <1>6, NoRowHits DEF StockNumbers, TableHits
<1>8. a2 = a /\ x2 = x /\ r2 = 0
  BY <1>3, <1>4, <1>5, <1>6, NoRowHits DEF StockNumbers
<1>9. Stock(k, c) = Stock(m, c) /\ CellHits(k, c) = CellHits(m, c)
  BY <1>3, <1>5, <1>6, <1>7, <1>8 DEF StockNumbers
<1>10. CountIn(c, m.runs) \in Nat /\ Weight(TextHits(c), m.code) \in Nat
  BY CountType, TextsType DEF Pages
<1> QED
  BY <1>2, <1>3, <1>9, <1>10 DEF Carries

\* The row becomes the last of the table's rows.
LEMMA RowMoves ==
  ASSUME NEW c, NEW m \in Pages(LineSet), m.inTable,
         NEW k, k = [m EXCEPT !.rows = Append(m.rows, m.row), !.row = <<>>]
  PROVE  Carries(m, k, c)
<1>1. PICK row \in Seq(Txt) : row = m.row
  BY DEF Pages
<1>2. PICK R : R = Seq(Txt)
  OBVIOUS
<1>3. PICK rows \in Seq(R) : rows = m.rows
  BY <1>2 DEF Pages
<1>4. PICK rows2 \in Seq(R) :
        rows2 = Append(rows, row) /\ Weight(RowHits(c), rows2) = Weight(RowHits(c), rows) + Weight(TextHits(c), row)
  <2>1. RowHits(c) \in [R -> Nat] /\ RowHits(c)[row] = Weight(TextHits(c), row) /\ row \in R
    BY <1>2, HitsType
  <2> QED
    BY <2>1, WeightAppend
<1>5. k = [m EXCEPT !.rows = rows2, !.row = <<>>]
  BY <1>1, <1>3, <1>4
<1>6. k \in Pages(LineSet)
  <2>1. <<>> \in Seq(Txt) /\ rows2 \in Seq(Seq(Txt))
    BY <1>2
  <2> QED
    BY <1>5, <2>1 DEF Pages
<1>7. /\ k.out = m.out /\ k.runs = m.runs /\ k.code = m.code /\ k.cell = m.cell /\ k.row = <<>>
      /\ k.head = m.head /\ k.rows = rows2 /\ k.inTable = m.inTable
  BY <1>5 DEF Pages
<1>8. Amount(k, c) = Amount(m, c)
  BY <1>7 DEF Amount
<1>9. PICK a \in Nat, x \in Nat, r \in Nat, t \in Nat : StockNumbers(m, c, a, x, r, t)
  BY StockIs
<1>10. PICK a2 \in Nat, x2 \in Nat, r2 \in Nat, t2 \in Nat : StockNumbers(k, c, a2, x2, r2, t2)
  BY <1>6, StockIs
<1>11. PICK h \in Nat, b \in Nat : h = Weight(TextHits(c), m.head) /\ b = Weight(RowHits(c), rows)
  <2>1. RowHits(c) \in [R -> Nat]
    BY <1>2, HitsType
  <2>2. Weight(RowHits(c), rows) \in Nat
    BY <2>1, WeightType
  <2>3. Weight(TextHits(c), m.head) \in Nat
    BY TextsType DEF Pages
  <2> QED
    BY <2>2, <2>3
<1>12. t = h + b /\ t2 = h + (b + r)
  BY <1>1, <1>3, <1>4, <1>7, <1>9, <1>10, <1>11 DEF StockNumbers, TableHits
<1>13. a2 = a /\ x2 = x /\ r2 = 0
  BY <1>7, <1>8, <1>9, <1>10, NoRowHits DEF StockNumbers
<1>14. Stock(k, c) = Stock(m, c) /\ CellHits(k, c) = CellHits(m, c)
  <2>1. Stock(m, c) = a + x + r + t /\ CellHits(m, c) = x + r + t
    BY <1>9 DEF StockNumbers
  <2>2. Stock(k, c) = a2 + x2 + r2 + t2 /\ CellHits(k, c) = x2 + r2 + t2
    BY <1>7, <1>10 DEF StockNumbers
  <2>3. a2 + x2 + r2 + t2 = a + x + r + t /\ x2 + r2 + t2 = x + r + t
    BY <1>12, <1>13
  <2> QED
    BY <2>1, <2>2, <2>3
<1>15. CountIn(c, m.runs) \in Nat /\ Weight(TextHits(c), m.code) \in Nat
  BY CountType, TextsType DEF Pages
<1> QED
  BY <1>6, <1>7, <1>14, <1>15 DEF Carries

\* A new table: the head and the rows were empty.
LEMMA FreshTable ==
  ASSUME NEW c, NEW m \in Pages(LineSet), ~m.inTable, m.head = <<>>, m.rows = <<>>,
         NEW k, k = [m EXCEPT !.inTable = TRUE, !.head = <<>>, !.rows = <<>>]
  PROVE  Carries(m, k, c)
<1>1. k \in Pages(LineSet)
  BY DEF Pages
<1>2. /\ k.out = m.out /\ k.runs = m.runs /\ k.code = m.code /\ k.cell = m.cell /\ k.row = m.row
      /\ k.head = m.head /\ k.rows = m.rows /\ k.inTable
  BY DEF Pages
<1>3. Amount(k, c) = Amount(m, c)
  BY <1>2 DEF Amount
<1>4. PICK a \in Nat, x \in Nat, r \in Nat, t \in Nat : StockNumbers(m, c, a, x, r, t)
  BY StockIs
<1>5. PICK a2 \in Nat, x2 \in Nat, r2 \in Nat, t2 \in Nat : StockNumbers(k, c, a2, x2, r2, t2)
  BY <1>1, StockIs
<1>6. t = 0 + 0
  BY <1>4, NoRowHits DEF StockNumbers, TableHits
<1>7. a2 = a /\ x2 = x /\ r2 = r /\ t2 = t
  BY <1>2, <1>3, <1>4, <1>5 DEF StockNumbers
<1>8. Stock(k, c) = Stock(m, c) /\ CellHits(k, c) = CellHits(m, c)
  BY <1>2, <1>4, <1>5, <1>6, <1>7 DEF StockNumbers
<1>9. CountIn(c, m.runs) \in Nat /\ Weight(TextHits(c), m.code) \in Nat
  BY CountType, TextsType DEF Pages
<1> QED
  BY <1>1, <1>2, <1>8, <1>9 DEF Carries

\* The table is drawn: what it does not show, a row of it says is missing.
LEMMA TableAccounts ==
  ASSUME NEW c \in Letters, width \in Nat, NEW m \in Pages(LineSet), m.inTable, m.head # <<>>, Rows(m.head, m.rows),
         NEW said \in Nat, NEW told, Accounted(m, c, said, told), NEW k, k = EmitTable(m)
  PROVE  /\ k \in Pages(LineSet) /\ Accounted(k, c, said, told)
         /\ CountIn(c, k.runs) <= CountIn(c, m.runs)
         /\ Weight(TextHits(c), k.code) <= Weight(TextHits(c), m.code)
         /\ ~k.inTable /\ k.inCode = m.inCode /\ k.cell = m.cell /\ k.row = m.row
         /\ k.inHead = m.inHead /\ k.head = m.head /\ k.link = m.link
<1>1. PICK head, rows : head \in Seq(Txt) /\ head = m.head /\ rows = m.rows /\ head # <<>>
  BY DEF Pages
<1>2. PICK ls : ls = RenderTable(head, rows)
  OBVIOUS
<1>3. /\ ls \in Seq(LineSet) /\ Weight(LineHits(c), ls) \in Nat /\ TableHits(head, rows, c) \in Nat
      /\ Weight(LineHits(c), ls) <= TableHits(head, rows, c)
      /\ Weight(LineHits(c), ls) # TableHits(head, rows, c) => Marked(ls)
  BY <1>1, <1>2, RenderKeeps
<1>4. PICK w \in Nat : w = Weight(LineHits(c), ls)
  BY <1>3
<1>5. PICK o \in Seq(LineSet) : o = m.out
  BY DEF Pages
<1>6. PICK o2 : o2 = o \o ls
  OBVIOUS
<1>7. o2 \in Seq(LineSet) /\ Weight(LineHits(c), o2) = Weight(LineHits(c), o) + w
  BY <1>3, <1>4, <1>6, LinesConcat
<1>8. (Marked(o) => Marked(o2)) /\ (Marked(ls) => Marked(o2))
  BY <1>3, <1>6, MarkedStays
<1>9. PICK b : b = [m EXCEPT !.out = o2, !.inTable = FALSE]
  OBVIOUS
<1>10. k = BlankAfter(b)
  BY <1>1, <1>2, <1>5, <1>6, <1>9 DEF EmitTable
<1>11. b \in Pages(LineSet)
  BY <1>7, <1>9 DEF Pages
<1>12. /\ b.out = o2 /\ b.runs = m.runs /\ b.code = m.code /\ b.cell = m.cell /\ b.row = m.row /\ b.head = m.head
       /\ b.rows = m.rows /\ b.inTable = FALSE /\ b.inCode = m.inCode /\ b.link = m.link /\ b.inHead = m.inHead
  BY <1>9 DEF Pages
<1>13. PICK a \in Nat, x \in Nat, r \in Nat, t \in Nat : StockNumbers(m, c, a, x, r, t)
  BY StockIs
<1>14. PICK a2 \in Nat, x2 \in Nat, r2 \in Nat, t2 \in Nat : StockNumbers(b, c, a2, x2, r2, t2)
  BY <1>11, StockIs
<1>15. a2 = a + w
  <2>1. PICK u1 \in Nat, y1 \in Nat, z1 \in Nat : PageNumbers(m, c, u1, y1, z1)
    BY PageAmounts
  <2>2. PICK u2 \in Nat, y2 \in Nat, z2 \in Nat : PageNumbers(b, c, u2, y2, z2)
    BY <1>11, PageAmounts
  <2>3. u2 = u1 + w /\ y2 = y1 /\ z2 = z1
    BY <1>5, <1>7, <1>12, <2>1, <2>2 DEF PageNumbers
  <2>4. a = u1 + y1 + z1 /\ a2 = u2 + y2 + z2
    BY <1>13, <1>14, <2>1, <2>2 DEF PageNumbers, StockNumbers
  <2> QED
    BY <2>3, <2>4
<1>16. x2 = x /\ r2 = r /\ t2 = t
  BY <1>12, <1>13, <1>14 DEF StockNumbers
<1>17. PICK s \in Nat, s2 \in Nat : s = Stock(m, c) /\ s2 = Stock(b, c) /\ s = a + x + r + t /\ s2 = a + w + x + r
  <2>1. Stock(m, c) = a + x + r + t
    BY <1>13 DEF StockNumbers
  <2>2. Stock(b, c) = a2 + x2 + r2 + 0
    BY <1>12, <1>14 DEF StockNumbers
  <2>3. a2 + x2 + r2 + 0 = a + w + x + r
    BY <1>15, <1>16
  <2> QED
    BY <2>1, <2>2, <2>3
<1>18. w <= t /\ (w # t => Marked(o2)) /\ t = TableHits(head, rows, c)
  BY <1>1, <1>3, <1>4, <1>8, <1>13 DEF StockNumbers
<1>19. s <= said /\ (s # said => told /\ Marked(o)) /\ (CellHits(m, c) # 0 => told)
  BY <1>5, <1>17 DEF Accounted
<1>20. s2 <= said
  BY <1>17, <1>18, <1>19
<1>21. ASSUME s2 # said PROVE told /\ Marked(o2)
  <2>1. CASE s # said
    BY <1>8, <1>19, <2>1
  <2>2. CASE s = said
    <3>1. w # t /\ x + r + t # 0
      BY <1>17, <1>18, <1>21, <2>2
    <3>2. CellHits(m, c) = x + r + t
      BY <1>13 DEF StockNumbers
    <3> QED
      BY <1>18, <1>19, <3>1, <3>2
  <2> QED
    BY <2>1, <2>2
<1>22. CellHits(b, c) = CellHits(m, c)
  BY <1>12 DEF CellHits
<1>23. Accounted(b, c, said, told)
  BY <1>12, <1>17, <1>19, <1>20, <1>21, <1>22 DEF Accounted
<1>24. Emits(b, k, c)
  BY <1>10, <1>11, EmitsBlank
<1>25. Accounted(k, c, said, told)
  BY <1>23, <1>24, EmitsCarries, CarriedIsAccounted
<1> QED
  BY <1>12, <1>24, <1>25 DEF Emits

\* The page is trimmed of blank lines only.
LEMMA TrimmedCarries ==
  ASSUME NEW c, NEW m \in Pages(LineSet), NEW k, k = [m EXCEPT !.out = Trimmed(m.out)]
  PROVE  Carries(m, k, c)
<1>1. PICK o \in Seq(LineSet) : o = m.out
  BY DEF Pages
<1>2. PICK p : p = Trimmed(o)
  OBVIOUS
<1>3. p \in Seq(LineSet) /\ Weight(LineHits(c), p) = Weight(LineHits(c), o) /\ (Marked(o) => Marked(p))
  BY <1>2, TrimmedKeeps
<1>4. k \in Pages(LineSet)
  BY <1>1, <1>2, <1>3 DEF Pages
<1>5. /\ k.out = p /\ k.runs = m.runs /\ k.code = m.code /\ k.cell = m.cell /\ k.row = m.row
      /\ k.head = m.head /\ k.rows = m.rows /\ k.inTable = m.inTable
  BY <1>1, <1>2 DEF Pages
<1>6. Amount(k, c) = Amount(m, c)
  BY <1>1, <1>3, <1>5 DEF Amount
<1>7. CountIn(c, m.runs) \in Nat /\ Weight(TextHits(c), m.code) \in Nat
  BY CountType, TextsType DEF Pages
<1> QED
  BY <1>1, <1>3, <1>4, <1>5, <1>6, <1>7 DEF Carries, Stock, CellHits

\* Text is said: the character is counted where the text goes.
Grown(m, k, c, n) ==
  /\ k \in Pages(LineSet) /\ k.out = m.out /\ Stock(k, c) = Stock(m, c) + n

LEMMA TextToCode ==
  ASSUME NEW c, NEW m \in Pages(LineSet), NEW w \in Txt, NEW k, k = [m EXCEPT !.code = Append(m.code, w)]
  PROVE  Grown(m, k, c, CountIn(c, w)) /\ CellHits(k, c) = CellHits(m, c) /\ k.runs = m.runs
<1>1. PICK code, code2 : code \in Seq(Txt) /\ code = m.code /\ code2 = Append(code, w)
  BY DEF Pages
<1>2. code2 \in Seq(Txt) /\ Weight(TextHits(c), code2) = Weight(TextHits(c), code) + CountIn(c, w)
  BY <1>1, TextsAppend
<1>3. k \in Pages(LineSet)
  BY <1>1, <1>2 DEF Pages
<1>4. /\ k.out = m.out /\ k.runs = m.runs /\ k.code = code2 /\ k.cell = m.cell /\ k.row = m.row
      /\ k.head = m.head /\ k.rows = m.rows /\ k.inTable = m.inTable
  BY <1>1 DEF Pages
<1>5. PICK n \in Nat : n = CountIn(c, w)
  BY CountType
<1>6. PICK x1 \in Nat, y1 \in Nat, z1 \in Nat : PageNumbers(m, c, x1, y1, z1)
  BY PageAmounts
<1>7. PICK x2 \in Nat, y2 \in Nat, z2 \in Nat : PageNumbers(k, c, x2, y2, z2)
  BY <1>3, PageAmounts
<1>8. x2 = x1 /\ y2 = y1 /\ z2 = z1 + n
  BY <1>1, <1>2, <1>4, <1>5, <1>6, <1>7 DEF PageNumbers
<1>9. PICK a \in Nat, x \in Nat, r \in Nat, t \in Nat : StockNumbers(m, c, a, x, r, t)
  BY StockIs
<1>10. PICK a2 \in Nat, u2 \in Nat, r2 \in Nat, t2 \in Nat : StockNumbers(k, c, a2, u2, r2, t2)
  BY <1>3, StockIs
<1>11. a2 = a + n
  <2>1. a = x1 + y1 + z1 /\ a2 = x2 + y2 + z2
    BY <1>6, <1>7, <1>9, <1>10 DEF PageNumbers, StockNumbers
  <2> QED
    BY <1>8, <2>1
<1>12. u2 = x /\ r2 = r /\ t2 = t
  BY <1>4, <1>9, <1>10 DEF StockNumbers
<1>13. PICK e \in Nat : e = (IF m.inTable THEN t ELSE 0)
  OBVIOUS
<1>14. Stock(m, c) = a + x + r + e /\ Stock(k, c) = a2 + u2 + r2 + e
  BY <1>4, <1>9, <1>10, <1>12, <1>13 DEF StockNumbers
<1>15. a2 + u2 + r2 + e = a + x + r + e + n
  BY <1>11, <1>12
<1>16. CellHits(k, c) = CellHits(m, c)
  BY <1>4 DEF CellHits
<1> QED
  BY <1>3, <1>4, <1>5, <1>14, <1>15, <1>16 DEF Grown

LEMMA TextToRuns ==
  ASSUME NEW c, NEW m \in Pages(LineSet), NEW w \in Txt, NEW k, k = [m EXCEPT !.runs = m.runs \o w]
  PROVE  Grown(m, k, c, CountIn(c, w)) /\ CellHits(k, c) = CellHits(m, c) /\ k.code = m.code
<1>1. PICK runs, runs2 : runs \in Txt /\ runs = m.runs /\ runs2 = runs \o w
  BY DEF Pages
<1>2. runs2 \in Txt /\ CountIn(c, runs2) = CountIn(c, runs) + CountIn(c, w)
  BY <1>1, CountConcat
<1>3. k \in Pages(LineSet)
  BY <1>1, <1>2 DEF Pages
<1>4. /\ k.out = m.out /\ k.runs = runs2 /\ k.code = m.code /\ k.cell = m.cell /\ k.row = m.row
      /\ k.head = m.head /\ k.rows = m.rows /\ k.inTable = m.inTable
  BY <1>1 DEF Pages
<1>5. PICK n \in Nat : n = CountIn(c, w)
  BY CountType
<1>6. PICK x1 \in Nat, y1 \in Nat, z1 \in Nat : PageNumbers(m, c, x1, y1, z1)
  BY PageAmounts
<1>7. PICK x2 \in Nat, y2 \in Nat, z2 \in Nat : PageNumbers(k, c, x2, y2, z2)
  BY <1>3, PageAmounts
<1>8. x2 = x1 /\ y2 = y1 + n /\ z2 = z1
  BY <1>1, <1>2, <1>4, <1>5, <1>6, <1>7 DEF PageNumbers
<1>9. PICK a \in Nat, x \in Nat, r \in Nat, t \in Nat : StockNumbers(m, c, a, x, r, t)
  BY StockIs
<1>10. PICK a2 \in Nat, u2 \in Nat, r2 \in Nat, t2 \in Nat : StockNumbers(k, c, a2, u2, r2, t2)
  BY <1>3, StockIs
<1>11. a2 = a + n
  <2>1. a = x1 + y1 + z1 /\ a2 = x2 + y2 + z2
    BY <1>6, <1>7, <1>9, <1>10 DEF PageNumbers, StockNumbers
  <2> QED
    BY <1>8, <2>1
<1>12. u2 = x /\ r2 = r /\ t2 = t
  BY <1>4, <1>9, <1>10 DEF StockNumbers
<1>13. PICK e \in Nat : e = (IF m.inTable THEN t ELSE 0)
  OBVIOUS
<1>14. Stock(m, c) = a + x + r + e /\ Stock(k, c) = a2 + u2 + r2 + e
  BY <1>4, <1>9, <1>10, <1>12, <1>13 DEF StockNumbers
<1>15. a2 + u2 + r2 + e = a + x + r + e + n
  BY <1>11, <1>12
<1>16. CellHits(k, c) = CellHits(m, c)
  BY <1>4 DEF CellHits
<1> QED
  BY <1>3, <1>4, <1>5, <1>14, <1>15, <1>16 DEF Grown

LEMMA TextToCell ==
  ASSUME NEW c, NEW m \in Pages(LineSet), NEW w \in Txt, NEW k, k = [m EXCEPT !.cell = m.cell \o w]
  PROVE  /\ Grown(m, k, c, CountIn(c, w)) /\ (CellHits(k, c) # 0 => CellHits(m, c) # 0 \/ CountIn(c, w) # 0)
         /\ k.runs = m.runs /\ k.code = m.code
<1>1. PICK cell, cell2 : cell \in Txt /\ cell = m.cell /\ cell2 = cell \o w
  BY DEF Pages
<1>2. cell2 \in Txt /\ CountIn(c, cell2) = CountIn(c, cell) + CountIn(c, w)
  BY <1>1, CountConcat
<1>3. k \in Pages(LineSet)
  BY <1>1, <1>2 DEF Pages
<1>4. /\ k.out = m.out /\ k.runs = m.runs /\ k.code = m.code /\ k.cell = cell2 /\ k.row = m.row
      /\ k.head = m.head /\ k.rows = m.rows /\ k.inTable = m.inTable
  BY <1>1 DEF Pages
<1>5. PICK n \in Nat : n = CountIn(c, w)
  BY CountType
<1>6. PICK a \in Nat, x \in Nat, r \in Nat, t \in Nat : StockNumbers(m, c, a, x, r, t)
  BY StockIs
<1>7. PICK a2 \in Nat, x2 \in Nat, r2 \in Nat, t2 \in Nat : StockNumbers(k, c, a2, x2, r2, t2)
  BY <1>3, StockIs
<1>8. a2 = a /\ r2 = r /\ t2 = t
  BY <1>4, <1>6, <1>7 DEF StockNumbers, Amount
<1>9. x2 = x + n
  BY <1>1, <1>2, <1>4, <1>5, <1>6, <1>7 DEF StockNumbers
<1>10. PICK e \in Nat : e = (IF m.inTable THEN t ELSE 0)
  OBVIOUS
<1>11. Stock(m, c) = a + x + r + e /\ Stock(k, c) = a2 + x2 + r2 + e
  BY <1>4, <1>6, <1>7, <1>8, <1>10 DEF StockNumbers
<1>12. a2 + x2 + r2 + e = a + x + r + e + n
  BY <1>8, <1>9
<1>13. CellHits(m, c) = x + r + t /\ CellHits(k, c) = x2 + r2 + t2
  BY <1>6, <1>7 DEF StockNumbers
<1>14. x2 + r2 + t2 # 0 => x + r + t # 0 \/ n # 0
  BY <1>8, <1>9
<1> QED
  BY <1>3, <1>4, <1>5, <1>11, <1>12, <1>13, <1>14 DEF Grown

LEMMA GrownIsAccounted ==
  ASSUME NEW c, NEW m \in Pages(LineSet), NEW k, NEW n \in Nat, Grown(m, k, c, n),
         NEW said \in Nat, NEW told, NEW tells, Accounted(m, c, said, told), told => tells,
         CellHits(k, c) # 0 => CellHits(m, c) # 0 \/ (n # 0 /\ tells)
  PROVE  Accounted(k, c, said + n, tells)
<1>1. PICK a \in Nat, x \in Nat, r \in Nat, t \in Nat : StockNumbers(m, c, a, x, r, t)
  BY StockIs
<1>2. PICK s \in Nat : s = Stock(m, c)
  <2>1. PICK e \in Nat : e = (IF m.inTable THEN t ELSE 0)
    OBVIOUS
  <2>2. Stock(m, c) = a + x + r + e
    BY <1>1, <2>1 DEF StockNumbers
  <2> QED
    BY <2>2
<1>3. s <= said /\ (s # said => told /\ Marked(m.out)) /\ (CellHits(m, c) # 0 => told)
  BY <1>2 DEF Accounted
<1>4. Stock(k, c) = s + n /\ k.out = m.out
  BY <1>2 DEF Grown
<1>5. s + n <= said + n /\ (s + n # said + n => s # said)
  BY <1>3
<1> QED
  BY <1>3, <1>4, <1>5 DEF Accounted

-----------------------------------------------------------------------------
\* Where text may be waiting.
Tabular == {"table", "head", "row", "cell"}
Flow == {"doc", "quote", "item", "list", "heading", "para"}

\* What the tag that holds the text says of the renderer.
ShapedFor(h, m) ==
  /\ m.inTable <=> h \in Tabular
  /\ m.inCode <=> h = "code"
  /\ m.cell # <<>> => h = "cell"
  /\ m.row # <<>> => h \in {"head", "row", "cell"}
  /\ m.inHead => m.head = <<>>

RunsHeld(o) == Held(o) \in {"heading", "para"} \/ Has(o, "item")

Placed(o, m, c) ==
  /\ CountIn(c, m.runs) # 0 => RunsHeld(o)
  /\ Weight(TextHits(c), m.code) # 0 => Held(o) = "code"

Spoken(n, hs) == [i \in 1 .. n |-> IF i \in hs THEN <<>> ELSE Words[i]]
Said(n, hs, c) == Weight(TextHits(c), Spoken(n, hs))
Plain == Letters \ Range(Url)

KeptInv ==
  /\ Stacked(open) /\ (finished => Last(open).k = "doc")
  /\ ShapedFor(Held(open), md) /\ (Last(open).k = "link" => md.link)
  /\ texts <= Len(Words) /\ html \subseteq 1 .. texts
  /\ \A c \in Plain : Placed(open, md, c) /\ Accounted(md, c, Said(texts, html, c), c \in celled)

SameShape(m, k) ==
  /\ k.inTable = m.inTable /\ k.inCode = m.inCode /\ k.cell = m.cell /\ k.row = m.row
  /\ k.inHead = m.inHead /\ k.head = m.head

LEMMA ShapeStays ==
  ASSUME NEW h, NEW g, NEW m, NEW k, ShapedFor(h, m), SameShape(m, k), h = g \/ (h \in Flow /\ g \in Flow)
  PROVE  ShapedFor(g, k)
<1>1. CASE h = g
  BY <1>1 DEF ShapedFor, SameShape
<1>2. CASE h \in Flow /\ g \in Flow
  <2>1. \A x \in Flow : x \notin Tabular /\ x # "code" /\ x # "cell" /\ x \notin {"head", "row", "cell"}
    BY DEF Flow, Tabular
  <2> QED
    BY <1>2, <2>1 DEF ShapedFor, SameShape
<1> QED
  BY <1>1, <1>2

LEMMA EmitsShape ==
  ASSUME NEW m, NEW k, NEW c, Emits(m, k, c)
  PROVE  SameShape(m, k) /\ k.link = m.link
  BY DEF Emits, SameShape

\* Text that was held is held, or was let go.
LEMMA PushHolds ==
  ASSUME NEW o, Stacked(o), NEW k \in TagKinds, Last(o).k \in Parents(k), NEW p, Pushes(o, k, p)
  PROVE  (RunsHeld(o) => RunsHeld(p)) /\ Held(o) # "code"
<1>1. /\ k # "link" => Held(p) = k
      /\ k = "link" => Held(p) = Held(o)
      /\ \A j : Has(o, j) => Has(p, j)
  BY StackPush
<1>2. Last(o).k # "link"
  BY NoLinkHolds
<1>3. Held(o) = Last(o).k
  BY <1>2, StackTop
<1>4. Held(o) # "code"
  BY <1>3 DEF Parents
<1>5. CASE k = "link"
  BY <1>1, <1>4, <1>5 DEF RunsHeld
<1>6. CASE k # "link"
  <2>1. Held(o) \notin {"heading", "para"}
    BY <1>3, <1>6 DEF Parents
  <2> QED
    BY <1>1, <1>4, <2>1 DEF RunsHeld
<1> QED
  BY <1>5, <1>6

LEMMA PopHolds ==
  ASSUME NEW o, Stacked(o), Last(o).k # "doc", NEW p, p = Front(o)
  PROVE  /\ Last(o).k \notin {"heading", "para", "item"} => (RunsHeld(o) => RunsHeld(p))
         /\ Last(o).k # "code" => Held(o) # "code"
<1>1. /\ Last(o).k = "link" => Held(p) = Held(o)
      /\ \A j : Has(o, j) => Has(p, j) \/ j = Last(o).k
  BY StackPop
<1>2. /\ Last(o).k = "link" => Held(o) \in Parents("link")
      /\ Last(o).k # "link" => Held(o) = Last(o).k
  BY StackTop
<1>3. CASE Last(o).k = "link"
  <2>1. Held(o) # "code"
    BY <1>2, <1>3 DEF Parents
  <2>2. "item" # Last(o).k
    BY <1>3
  <2> QED
    BY <1>1, <1>3, <2>1, <2>2 DEF RunsHeld
<1>4. CASE Last(o).k # "link"
  BY <1>1, <1>2, <1>4 DEF RunsHeld
<1> QED
  BY <1>3, <1>4

LEMMA PlacedStays ==
  ASSUME NEW o, NEW p, NEW m \in Pages(LineSet), NEW k \in Pages(LineSet), NEW c, Placed(o, m, c),
         CountIn(c, k.runs) <= CountIn(c, m.runs), Weight(TextHits(c), k.code) <= Weight(TextHits(c), m.code),
         (RunsHeld(o) => RunsHeld(p)) \/ k.runs = <<>>,
         Held(o) # "code" \/ Held(p) = "code" \/ k.code = <<>>
  PROVE  Placed(p, k, c)
<1>1. PICK y \in Nat, z \in Nat : y = CountIn(c, m.runs) /\ z = Weight(TextHits(c), m.code)
  BY CountType, TextsType DEF Pages
<1>2. PICK y2 \in Nat, z2 \in Nat : y2 = CountIn(c, k.runs) /\ z2 = Weight(TextHits(c), k.code)
  BY CountType, TextsType DEF Pages
<1>3. (y2 # 0 => y # 0) /\ (z2 # 0 => z # 0)
  BY <1>1, <1>2
<1>4. (k.runs = <<>> => y2 = 0) /\ (k.code = <<>> => z2 = 0)
  BY <1>2, CountEmpty, NoRowHits
<1>5. (y # 0 => RunsHeld(o)) /\ (z # 0 => Held(o) = "code")
  BY <1>1 DEF Placed
<1>6. y2 # 0 => RunsHeld(p)
  BY <1>3, <1>4, <1>5
<1>7. z2 # 0 => Held(p) = "code"
  BY <1>3, <1>4, <1>5
<1> QED
  BY <1>2, <1>6, <1>7 DEF Placed

\* A step that says nothing new.
Quiet ==
  /\ width' = width /\ texts' = texts /\ celled' = celled /\ html' = html
  /\ \A c \in Plain : Carries(md, md', c)
  /\ (RunsHeld(open) => RunsHeld(open')) \/ md'.runs = <<>>
  /\ Held(open) # "code" \/ Held(open') = "code" \/ md'.code = <<>>

LEMMA QuietKeeps ==
  ASSUME KeptInv, md \in Pages(LineSet), md' \in Pages(LineSet), Quiet,
         Stacked(open'), finished' => Last(open').k = "doc",
         ShapedFor(Held(open'), md'), Last(open').k = "link" => md'.link
  PROVE  KeptInv'
<1>1. ASSUME NEW c \in Plain PROVE Placed(open', md', c) /\ Accounted(md', c, Said(texts', html', c), c \in celled')
  <2>1. Placed(open, md, c) /\ Accounted(md, c, Said(texts, html, c), c \in celled)
    BY DEF KeptInv
  <2>2. Carries(md, md', c)
    BY DEF Quiet
  <2>3. Accounted(md', c, Said(texts, html, c), c \in celled)
    BY <2>1, <2>2, CarriedIsAccounted
  <2>4. Placed(open', md', c)
    BY <2>1, <2>2, PlacedStays DEF Carries, Quiet
  <2> QED
    BY <2>3, <2>4 DEF Quiet
<1>2. texts' <= Len(Words) /\ html' \subseteq 1 .. texts'
  BY DEF KeptInv, Quiet
<1> QED
  BY <1>1, <1>2 DEF KeptInv

\* The page as it is, its lines any.
LEMMA PageIs == ASSUME PageInv PROVE md \in Pages(LineSet) /\ width \in Nat /\ md.head \in Seq(Txt)
<1>1. PICK L : L = Fitting(width, Len(md.head))
  OBVIOUS
<1>2. md \in Pages(L) /\ width \in Nat /\ L \subseteq LineSet
  BY <1>1 DEF PageInv, Fitting
<1>3. md.out \in Seq(LineSet)
  <2>1. md.out \in Seq(L)
    BY <1>2 DEF Pages
  <2> QED
    BY <1>2, <2>1, SeqMonotonic
<1> QED
  BY <1>2, <1>3 DEF Pages

LEMMA PageNextIs == ASSUME PageInv' PROVE md' \in Pages(LineSet)
<1>1. PICK L : L = Fitting(width', Len(md'.head))
  OBVIOUS
<1>2. md' \in Pages(L) /\ L \subseteq LineSet
  BY <1>1 DEF PageInv, Fitting
<1>3. md'.out \in Seq(LineSet)
  <2>1. md'.out \in Seq(L)
    BY <1>2 DEF Pages
  <2> QED
    BY <1>2, <2>1, SeqMonotonic
<1> QED
  BY <1>2, <1>3 DEF Pages

\* What an emitter does to the other fields.
LEMMA BlankShape ==
  ASSUME NEW m \in Pages(LineSet)
  PROVE  /\ BlankAfter(m) \in Pages(LineSet) /\ SameShape(m, BlankAfter(m))
         /\ BlankAfter(m).link = m.link /\ BlankAfter(m).runs = m.runs
<1>1. Emits(m, BlankAfter(m), Dots)
  BY EmitsBlank
<1>2. BlankAfter(m).runs = m.runs
  BY DEF BlankAfter, Pages
<1> QED
  BY <1>1, <1>2, EmitsShape DEF Emits

LEMMA WrappedShape ==
  ASSUME NEW m \in Pages(LineSet), width \in Nat, NEW first \in Int, NEW mark \in BOOLEAN,
         NEW k, k = PushWrapped(m, first, mark)
  PROVE  k \in Pages(LineSet) /\ SameShape(m, k) /\ k.link = m.link /\ k.runs = <<>>
<1>1. PICK ls : ls = WrapRuns(m.runs, first)
  OBVIOUS
<1>2. PICK new : Shows(new, ls) /\ k = [m EXCEPT !.out = m.out \o new, !.runs = <<>>]
  <2>1. Wrote(m, k, ls)
    BY <1>1, WrappedLines
  <2> QED
    BY <2>1 DEF Wrote
<1>3. PICK o : o = m.out \o new /\ o \in Seq(LineSet)
  <2>1. m.out \in Seq(LineSet) /\ new \in Seq(LineSet)
    BY <1>2 DEF Pages, Shows
  <2> QED
    BY <2>1, ConcatProperties
<1> QED
  BY <1>2, <1>3, DispEmpty DEF Pages, SameShape

LEMMA HeadingShape ==
  ASSUME NEW m \in Pages(LineSet), width \in Nat, NEW k, k = EmitHeading(m)
  PROVE  SameShape(m, k) /\ k.link = m.link /\ k.runs = <<>>
<1>1. PICK b : b = BlankAfter(m)
  OBVIOUS
<1>2. b \in Pages(LineSet) /\ SameShape(m, b) /\ b.link = m.link
  BY <1>1, BlankShape
<1>3. PICK d : d = PushWrapped(b, 2, FALSE)
  OBVIOUS
<1>4. d \in Pages(LineSet) /\ SameShape(b, d) /\ d.link = b.link /\ d.runs = <<>>
  <2>1. 2 \in Int /\ FALSE \in BOOLEAN
    OBVIOUS
  <2> QED
    BY <1>2, <1>3, <2>1, WrappedShape, Zenon
<1>5. k = BlankAfter(d)
  BY <1>1, <1>3 DEF EmitHeading
<1>6. SameShape(d, k) /\ k.link = d.link /\ k.runs = <<>>
  BY <1>4, <1>5, BlankShape
<1> QED
  BY <1>2, <1>4, <1>6 DEF SameShape

LEMMA ParaShape ==
  ASSUME NEW m \in Pages(LineSet), width \in Nat, NEW k, k = EmitPara(m)
  PROVE  k \in Pages(LineSet) /\ SameShape(m, k) /\ k.link = m.link /\ k.runs = <<>>
<1>1. CASE m.runs = <<>> /\ m.marker = 0
  BY <1>1 DEF EmitPara, SameShape
<1>2. CASE ~(m.runs = <<>> /\ m.marker = 0)
  <2>1. PICK first \in Int : first = 2 * m.quote + m.marker
    <3>1. PICK q \in Int, j \in Int : q = m.quote /\ j = m.marker
      BY DEF Pages
    <3> QED
      BY <3>1
  <2>2. (m.marker > 0) \in BOOLEAN
    OBVIOUS
  <2>3. PICK b : b = PushWrapped(m, first, m.marker > 0)
    OBVIOUS
  <2>4. b \in Pages(LineSet) /\ SameShape(m, b) /\ b.link = m.link /\ b.runs = <<>>
    BY <2>2, <2>3, WrappedShape, Zenon
  <2>5. k = [b EXCEPT !.marker = 0]
    BY <1>2, <2>1, <2>3 DEF EmitPara
  <2>6. k \in Pages(LineSet) /\ SameShape(b, k) /\ k.link = b.link /\ k.runs = b.runs
    <3>1. 0 \in Int
      OBVIOUS
    <3>2. k \in Pages(LineSet)
      BY <2>4, <2>5, <3>1 DEF Pages
    <3>3. SameShape(b, k) /\ k.link = b.link /\ k.runs = b.runs
      BY <2>4, <2>5 DEF Pages, SameShape
    <3> QED
      BY <3>2, <3>3
  <2> QED
    BY <2>4, <2>6 DEF SameShape
<1> QED
  BY <1>1, <1>2

LEMMA WordsAreTexts == Words \in Seq(Txt)
<1>1. Seq(STRING) \subseteq Txt
  BY StringsAreTxt
<1>2. PICK S : S = Seq(STRING)
  OBVIOUS
<1>3. Words \in Seq(S)
  BY <1>2, DocumentAssumption
<1> QED
  BY <1>1, <1>2, <1>3, SeqMonotonic

-----------------------------------------------------------------------------
\* Each step keeps the account.
\* A tag is opened and nothing is written, or what waited is.
LEMMA OpenedKeeps ==
  ASSUME PageInv, PageInv', KeptInv, NEW k \in TagKinds, NEW tight \in BOOLEAN, StartTag(k, tight),
         Top.k \in Parents(k), ~finished, finished' = finished,
         width' = width, texts' = texts, celled' = celled /\ html' = html,
         \A c \in Plain : Carries(md, md', c),
         NEW h, h = (IF k = "link" THEN Held(open) ELSE k), ShapedFor(h, md'), k = "link" => md'.link
  PROVE  KeptInv'
<1>1. Pushes(open, k, open') /\ Stacked(open) /\ Last(open).k \in Parents(k)
  BY DEF StartTag, KeptInv, Top, Pushes
<1>2. PICK p : p = open'
  OBVIOUS
<1>3. /\ Stacked(p) /\ Last(p).k = k
      /\ k # "link" => Held(p) = k
      /\ k = "link" => Held(p) = Held(open)
  BY <1>1, <1>2, StackPush
<1>4. Held(p) = h
  BY <1>3
<1>5. (RunsHeld(open) => RunsHeld(p)) /\ Held(open) # "code"
  BY <1>1, <1>2, PushHolds
<1>6. Quiet
  BY <1>2, <1>5 DEF Quiet
<1>7. md \in Pages(LineSet) /\ md' \in Pages(LineSet)
  BY PageIs, PageNextIs
<1> QED
  BY <1>2, <1>3, <1>4, <1>6, <1>7, QuietKeeps

\* A tag is closed.
LEMMA ClosedKeeps ==
  ASSUME PageInv, PageInv', KeptInv, NEW k \in TagKinds \ {"doc"}, EndTag(k),
         \A c \in Plain : Carries(md, md', c),
         k \in {"heading", "para", "item"} => md'.runs = <<>>,
         k = "code" => md'.code = <<>>,
         \A h \in Parents(k) : (k = "link" => h = Held(open)) => ShapedFor(h, md')
  PROVE  KeptInv'
<1>1. /\ open' = Front(open) /\ Stacked(open) /\ Last(open).k = k /\ ~finished /\ finished' = finished
      /\ width' = width /\ texts' = texts /\ celled' = celled /\ html' = html
  BY DEF EndTag, In, KeptInv, Top
<1>2. PICK p : p = open'
  OBVIOUS
<1>3. /\ Stacked(p) /\ Last(p).k \in Parents(k) /\ Held(p) = Last(p).k
      /\ k = "link" => Held(p) = Held(open)
  BY <1>1, <1>2, StackPop
<1>4. ShapedFor(Held(p), md')
  BY <1>3
<1>5. /\ k \notin {"heading", "para", "item"} => (RunsHeld(open) => RunsHeld(p))
      /\ k # "code" => Held(open) # "code"
  BY <1>1, <1>2, PopHolds
<1>6. Quiet
  BY <1>1, <1>2, <1>5 DEF Quiet
<1>7. Last(p).k # "link"
  BY <1>3, NoLinkHolds
<1>8. md \in Pages(LineSet) /\ md' \in Pages(LineSet)
  BY PageIs, PageNextIs
<1> QED
  BY <1>1, <1>2, <1>3, <1>4, <1>6, <1>7, <1>8, QuietKeeps

\* The tags stay as they are.
LEMMA WrittenKeeps ==
  ASSUME PageInv, PageInv', KeptInv, open' = open, width' = width, texts' = texts, celled' = celled /\ html' = html,
         finished' => Last(open).k = "doc",
         \A c \in Plain : Carries(md, md', c), SameShape(md, md'), md'.link = md.link
  PROVE  KeptInv'
<1>1. Stacked(open) /\ ShapedFor(Held(open), md) /\ (Last(open).k = "link" => md.link)
  BY DEF KeptInv
<1>2. ShapedFor(Held(open), md')
  BY <1>1, ShapeStays
<1>3. Quiet
  BY DEF Quiet
<1>4. md \in Pages(LineSet) /\ md' \in Pages(LineSet)
  BY PageIs, PageNextIs
<1> QED
  BY <1>1, <1>2, <1>3, <1>4, QuietKeeps

\* Fields that say where the renderer stands, or how far it indents.
LEMMA FieldsStay ==
  ASSUME NEW m \in Pages(LineSet), NEW k, NEW q, NEW ls,
         k = [m EXCEPT !.quote = q] \/ k = [m EXCEPT !.lists = ls]
  PROVE  SameText(m, k) /\ SameShape(m, k) /\ k.link = m.link
  BY DEF Pages, SameText, SameShape

LEMMA InBlock ==
  ASSUME KeptInv, Top.k \in {"doc", "quote", "item"}
  PROVE  Held(open) = Top.k /\ Held(open) \in Flow
<1>1. Top.k # "link" /\ Stacked(open) /\ Top = Last(open)
  BY DEF KeptInv, Top
<1>2. Held(open) = Top.k
  BY <1>1 DEF Held
<1>3. \A x \in {"doc", "quote", "item"} : x \in Flow
  BY DEF Flow
<1> QED
  BY <1>2, <1>3

LEMMA BlockOpens ==
  ASSUME PageInv, PageInv', KeptInv, NEW k \in {"heading", "para", "quote", "list"}, NEW tight \in BOOLEAN,
         StartBlock(k, tight), \A c \in Plain : Carries(md, md', c), SameShape(md, md')
  PROVE  KeptInv'
<1>1. /\ Top.k \in {"doc", "quote", "item"} /\ ~finished /\ finished' = finished /\ StartTag(k, tight)
      /\ width' = width /\ texts' = texts /\ celled' = celled /\ html' = html
  BY DEF StartBlock, In
<1>2. k \in TagKinds /\ k \in Flow /\ k # "link" /\ Parents(k) = {"doc", "quote", "item"}
  BY DEF TagKinds, Flow, Parents
<1>3. Held(open) \in Flow
  BY <1>1, InBlock
<1>4. ShapedFor(k, md')
  BY <1>2, <1>3, ShapeStays DEF KeptInv
<1>5. k = (IF k = "link" THEN Held(open) ELSE k)
  BY <1>2
<1>6. Top.k \in Parents(k)
  BY <1>1, <1>2
<1> QED
  BY <1>1, <1>2, <1>4, <1>5, <1>6, OpenedKeeps

LEMMA BlockCloses ==
  ASSUME PageInv, PageInv', KeptInv, NEW k \in {"heading", "para", "quote", "list", "item"}, EndTag(k),
         \A c \in Plain : Carries(md, md', c), SameShape(md, md'),
         k \in {"heading", "para", "item"} => md'.runs = <<>>
  PROVE  KeptInv'
<1>1. Last(open).k = k
  BY DEF EndTag, In, Top
<1>2. k \in TagKinds \ {"doc"} /\ k \in Flow /\ k # "link" /\ k # "code"
  BY DEF TagKinds, Flow
<1>3. Held(open) = k
  BY <1>1, <1>2 DEF Held
<1>4. \A h \in Parents(k) : h \in Flow
  BY DEF Parents, Flow
<1>5. ShapedFor(Held(open), md)
  BY DEF KeptInv
<1>6. \A h \in Parents(k) : ShapedFor(h, md')
  BY <1>2, <1>3, <1>4, <1>5, ShapeStays
<1> QED
  BY <1>2, <1>6, ClosedKeeps

LEMMA HeadingKept == ASSUME PageInv, PageInv', KeptInv, StartHeading \/ EndHeading PROVE KeptInv'
<1>1. md \in Pages(LineSet) /\ width \in Nat
  BY PageIs
<1>2. CASE StartHeading
  <2>1. md' = md /\ StartBlock("heading", FALSE)
    BY <1>2 DEF StartHeading
  <2>2. SameText(md, md') /\ SameShape(md, md')
    BY <2>1 DEF SameText, SameShape
  <2>3. \A c \in Plain : Carries(md, md', c)
    BY <1>1, <2>1, <2>2, SameCarries
  <2>4. "heading" \in {"heading", "para", "quote", "list"} /\ FALSE \in BOOLEAN
    OBVIOUS
  <2> QED
    BY <2>1, <2>2, <2>3, <2>4, BlockOpens, Zenon
<1>3. CASE EndHeading
  <2>1. md' = EmitHeading(md) /\ EndTag("heading")
    BY <1>3 DEF EndHeading
  <2>2. ASSUME NEW c \in Letters PROVE Emits(md, md', c)
    BY <1>1, <2>1, EmitsHeading
  <2>3. \A c \in Plain : Carries(md, md', c)
    BY <2>2, EmitsCarries DEF Plain
  <2>4. SameShape(md, md') /\ md'.runs = <<>>
    BY <1>1, <2>1, HeadingShape
  <2>5. "heading" \in {"heading", "para", "quote", "list", "item"}
    OBVIOUS
  <2> QED
    BY <2>1, <2>3, <2>4, <2>5, BlockCloses, Zenon
<1> QED
  BY <1>2, <1>3

LEMMA ParaKept == ASSUME PageInv, PageInv', KeptInv, StartPara \/ EndPara PROVE KeptInv'
<1>1. md \in Pages(LineSet) /\ width \in Nat
  BY PageIs
<1>2. CASE StartPara
  <2>1. md' = md /\ StartBlock("para", FALSE)
    BY <1>2 DEF StartPara
  <2>2. SameText(md, md') /\ SameShape(md, md')
    BY <2>1 DEF SameText, SameShape
  <2>3. \A c \in Plain : Carries(md, md', c)
    BY <1>1, <2>1, <2>2, SameCarries
  <2>4. "para" \in {"heading", "para", "quote", "list"} /\ FALSE \in BOOLEAN
    OBVIOUS
  <2> QED
    BY <2>1, <2>2, <2>3, <2>4, BlockOpens, Zenon
<1>3. CASE EndPara
  <2>1. md' = EmitPara(md) /\ EndTag("para")
    BY <1>3 DEF EndPara
  <2>2. ASSUME NEW c \in Letters PROVE Emits(md, md', c)
    BY <1>1, <2>1, EmitsPara
  <2>3. \A c \in Plain : Carries(md, md', c)
    BY <2>2, EmitsCarries DEF Plain
  <2>4. SameShape(md, md') /\ md'.runs = <<>>
    BY <1>1, <2>1, ParaShape
  <2>5. "para" \in {"heading", "para", "quote", "list", "item"}
    OBVIOUS
  <2> QED
    BY <2>1, <2>3, <2>4, <2>5, BlockCloses, Zenon
<1> QED
  BY <1>2, <1>3

LEMMA QuoteKept == ASSUME PageInv, PageInv', KeptInv, StartQuote \/ EndQuote PROVE KeptInv'
<1>1. md \in Pages(LineSet) /\ md' \in Pages(LineSet)
  BY PageIs, PageNextIs
<1>2. \E q : md' = [md EXCEPT !.quote = q]
  BY DEF StartQuote, EndQuote
<1>3. SameText(md, md') /\ SameShape(md, md')
  BY <1>1, <1>2, FieldsStay
<1>4. \A c \in Plain : Carries(md, md', c)
  BY <1>1, <1>3, SameCarries
<1>5. CASE StartQuote
  <2>1. StartBlock("quote", FALSE) /\ "quote" \in {"heading", "para", "quote", "list"} /\ FALSE \in BOOLEAN
    BY <1>5 DEF StartQuote
  <2> QED
    BY <1>3, <1>4, <2>1, BlockOpens, Zenon
<1>6. CASE EndQuote
  <2>1. EndTag("quote") /\ "quote" \in {"heading", "para", "quote", "list", "item"}
    BY <1>6 DEF EndQuote
  <2>2. ~("quote" \in {"heading", "para", "item"})
    OBVIOUS
  <2> QED
    BY <1>3, <1>4, <2>1, <2>2, BlockCloses, Zenon
<1> QED
  BY <1>5, <1>6

LEMMA ListKept ==
  ASSUME PageInv, PageInv', KeptInv, (\E e \in ListKinds : StartList(e.n, e.tight)) \/ EndList
  PROVE  KeptInv'
<1>1. md \in Pages(LineSet) /\ md' \in Pages(LineSet) /\ width \in Nat
  BY PageIs, PageNextIs
<1>2. CASE \E e \in ListKinds : StartList(e.n, e.tight)
  <2>1. PICK e \in ListKinds : StartList(e.n, e.tight)
    BY <1>2
  <2>2. PICK number \in Int, tight \in BOOLEAN : number = e.n /\ tight = e.tight
    BY <2>1, DocumentAssumption
  <2>3. StartList(number, tight)
    BY <2>1, <2>2
  <2>4. PICK m : m = IF md.lists # <<>> /\ md.runs # <<>> THEN EmitPara(md) ELSE md
    OBVIOUS
  <2>5. md' = [m EXCEPT !.lists = Append(m.lists, number)] /\ StartBlock("list", tight)
    BY <2>3, <2>4 DEF StartList
  <2>6. SameShape(md, m)
    BY <1>1, <2>4, ParaShape DEF SameShape
  <2>7. ASSUME NEW c \in Letters PROVE m \in Pages(LineSet) /\ Carries(md, m, c)
    <3>1. Carries(md, EmitPara(md), c) /\ Carries(md, md, c)
      BY <1>1, EmitsPara, EmitsSame, EmitsCarries
    <3> QED
      BY <2>4, <3>1 DEF Carries
  <2>8. m \in Pages(LineSet)
    BY <1>1, <2>4, ParaShape
  <2>9. SameText(m, md') /\ SameShape(m, md')
    BY <2>5, <2>8, FieldsStay
  <2>10. \A c \in Plain : Carries(md, md', c)
    <3>1. ASSUME NEW c \in Letters PROVE Carries(md, md', c)
      BY <1>1, <2>7, <2>9, SameCarries, CarriesOn
    <3> QED
      BY <3>1 DEF Plain
  <2>11. SameShape(md, md')
    BY <2>6, <2>9 DEF SameShape
  <2>12. "list" \in {"heading", "para", "quote", "list"}
    OBVIOUS
  <2> QED
    BY <2>5, <2>10, <2>11, <2>12, BlockOpens, Zenon
<1>3. CASE EndList
  <2>1. PICK m : m = [md EXCEPT !.lists = Front(md.lists)]
    OBVIOUS
  <2>2. m \in Pages(LineSet)
    <3>1. Front(md.lists) \in Seq(Int)
      BY <1>1, FrontIn DEF Pages
    <3> QED
      BY <1>1, <2>1, <3>1 DEF Pages
  <2>3. SameText(md, m) /\ SameShape(md, m)
    BY <1>1, <2>1, FieldsStay
  <2>4. md' \in {m, BlankAfter(m)} /\ EndTag("list")
    BY <1>3, <2>1 DEF EndList
  <2>5. SameShape(m, md')
    <3>1. SameShape(m, m)
      BY DEF SameShape
    <3> QED
      BY <2>2, <2>4, <3>1, BlankShape
  <2>6. ASSUME NEW c \in Plain PROVE Carries(md, md', c)
    <3>1. Carries(md, m, c)
      BY <1>1, <2>2, <2>3, SameCarries
    <3>2. Carries(m, m, c) /\ Carries(m, BlankAfter(m), c)
      BY <2>2, EmitsSame, EmitsBlank, EmitsCarries
    <3> QED
      BY <1>1, <2>4, <3>1, <3>2, CarriesOn
  <2>7. SameShape(md, md')
    BY <2>3, <2>5 DEF SameShape
  <2>8. "list" \in {"heading", "para", "quote", "list", "item"} /\ ~("list" \in {"heading", "para", "item"})
    OBVIOUS
  <2> QED
    BY <2>4, <2>6, <2>7, <2>8, BlockCloses, Zenon
<1> QED
  BY <1>2, <1>3

LEMMA ItemKept == ASSUME PageInv, PageInv', KeptInv, StartItem \/ EndItem PROVE KeptInv'
<1>1. md \in Pages(LineSet) /\ md' \in Pages(LineSet) /\ width \in Nat
  BY PageIs, PageNextIs
<1>2. CASE StartItem
  <2>1. PICK v, ls : md' = [md EXCEPT !.marker = v, !.lists = ls]
    <3>1. PICK k, u, v : md' = [md EXCEPT !.marker = v, !.lists = [md.lists EXCEPT ![k] = u]]
      BY <1>1, <1>2 DEF StartItem, Pages
    <3> QED
      BY <3>1
  <2>2. SameText(md, md') /\ SameShape(md, md')
    BY <1>1, <2>1 DEF Pages, SameText, SameShape
  <2>3. \A c \in Plain : Carries(md, md', c)
    BY <1>1, <2>2, SameCarries
  <2>4. Top \in Tag
    <3>1. open \in Seq(Tag) /\ Len(open) >= 1
      BY DEF PageInv, Opened
    <3> QED
      BY <3>1 DEF Top, Last
  <2>5. PICK tight \in BOOLEAN : tight = Top.tight
    BY <2>4 DEF Tag
  <2>6. /\ StartTag("item", tight) /\ Top.k = "list" /\ ~finished /\ finished' = finished
        /\ width' = width /\ texts' = texts /\ celled' = celled /\ html' = html
    BY <1>2, <2>5 DEF StartItem, In
  <2>7. PICK k \in TagKinds : k = "item"
    BY DEF TagKinds
  <2>8. Top.k \in Parents(k) /\ k # "link" /\ k \in Flow
    BY <2>6, <2>7 DEF Parents, Flow
  <2>9. ShapedFor(k, md')
    <3>1. Held(open) = "list" /\ Held(open) \in Flow
      BY <2>6 DEF Held, Top, Flow
    <3>2. ShapedFor(Held(open), md)
      BY DEF KeptInv
    <3> QED
      BY <2>2, <2>8, <3>1, <3>2, ShapeStays
  <2>10. k = (IF k = "link" THEN Held(open) ELSE k)
    BY <2>8
  <2>11. StartTag(k, tight)
    BY <2>6, <2>7
  <2> QED
    BY <2>3, <2>6, <2>8, <2>9, <2>10, <2>11, OpenedKeeps
<1>3. CASE EndItem
  <2>1. md' = EmitPara(md) /\ EndTag("item")
    BY <1>3 DEF EndItem
  <2>2. ASSUME NEW c \in Letters PROVE Emits(md, md', c)
    BY <1>1, <2>1, EmitsPara
  <2>3. \A c \in Plain : Carries(md, md', c)
    BY <2>2, EmitsCarries DEF Plain
  <2>4. SameShape(md, md') /\ md'.runs = <<>>
    BY <1>1, <2>1, ParaShape
  <2>5. "item" \in {"heading", "para", "quote", "list", "item"}
    OBVIOUS
  <2> QED
    BY <2>1, <2>3, <2>4, <2>5, BlockCloses, Zenon
<1> QED
  BY <1>2, <1>3

LEMMA PlainNotUrl == ASSUME NEW c \in Plain PROVE Url \in Txt /\ CountIn(c, Url) = 0
<1>1. Url \in Txt
  BY DocumentAssumption, StringsAreTxt
<1> QED
  BY <1>1, CountNone DEF Plain

LEMMA LinkKept == ASSUME PageInv, PageInv', KeptInv, StartLink \/ EndLink PROVE KeptInv'
<1>1. md \in Pages(LineSet) /\ md' \in Pages(LineSet)
  BY PageIs, PageNextIs
<1>2. CASE StartLink
  <2>1. /\ ~md.link /\ Inline /\ StartTag("link", FALSE) /\ ~finished /\ finished' = finished
        /\ width' = width /\ texts' = texts /\ celled' = celled /\ html' = html /\ md' = [md EXCEPT !.link = TRUE]
    BY <1>2 DEF StartLink, InnerTag, In
  <2>2. Top.k \in {"para", "heading", "cell", "item"}
    <3>1. Top.k \in {"para", "heading", "cell", "link", "item"}
      BY <2>1 DEF Inline, In
    <3>2. Top.k # "link"
      BY <2>1 DEF KeptInv, Top
    <3> QED
      BY <3>1, <3>2
  <2>3. SameText(md, md') /\ SameShape(md, md') /\ md'.link
    BY <1>1, <2>1 DEF Pages, SameText, SameShape
  <2>4. \A c \in Plain : Carries(md, md', c)
    BY <1>1, <2>3, SameCarries
  <2>5. PICK k \in TagKinds : k = "link"
    BY DEF TagKinds
  <2>6. Top.k \in Parents(k)
    BY <2>2, <2>5 DEF Parents
  <2>7. ShapedFor(Held(open), md')
    BY <2>3, ShapeStays DEF KeptInv
  <2>8. Held(open) = (IF k = "link" THEN Held(open) ELSE k)
    BY <2>5
  <2>9. StartTag(k, FALSE)
    BY <2>1, <2>5
  <2>10. PICK tight \in BOOLEAN : StartTag(k, tight)
    BY <2>9
  <2> QED
    BY <2>1, <2>3, <2>4, <2>6, <2>7, <2>8, <2>10, OpenedKeeps
<1>3. CASE EndLink
  <2>1. md' = [md EXCEPT !.runs = md.runs \o Url] /\ EndTag("link")
    BY <1>3 DEF EndLink
  <2>2. \A c \in Plain : Carries(md, md', c)
    BY <1>1, <2>1, PlainNotUrl, OtherText
  <2>3. SameShape(md, md')
    BY <1>1, <2>1 DEF Pages, SameShape
  <2>4. ShapedFor(Held(open), md')
    BY <2>3, ShapeStays DEF KeptInv
  <2>5. PICK k \in TagKinds \ {"doc"} : k = "link"
    BY DEF TagKinds
  <2>6. EndTag(k) /\ ~(k \in {"heading", "para", "item"}) /\ k # "code"
    BY <2>1, <2>5
  <2>7. \A h \in Parents(k) : (k = "link" => h = Held(open)) => ShapedFor(h, md')
    BY <2>4, <2>5
  <2> QED
    BY <2>2, <2>6, <2>7, ClosedKeeps
<1> QED
  BY <1>2, <1>3

LEMMA CodeKept == ASSUME PageInv, PageInv', KeptInv, (\E lg \in {0, 4} : StartCode(lg)) \/ EndCode PROVE KeptInv'
<1>1. md \in Pages(LineSet) /\ md' \in Pages(LineSet) /\ width \in Nat
  BY PageIs, PageNextIs
<1>2. ShapedFor(Held(open), md)
  BY DEF KeptInv
<1>3. CASE \E lg \in {0, 4} : StartCode(lg)
  <2>1. PICK lg \in Int : StartCode(lg)
    BY <1>3
  <2>2. /\ Top.k \in {"doc", "quote", "item"} /\ ~finished /\ finished' = finished /\ StartTag("code", FALSE)
        /\ width' = width /\ texts' = texts /\ celled' = celled /\ html' = html
        /\ md' = [md EXCEPT !.inCode = TRUE, !.lang = lg, !.code = <<>>]
    BY <2>1 DEF StartCode, StartBlock, In
  <2>3. PICK k \in TagKinds : k = "code"
    BY DEF TagKinds
  <2>4. Top.k \in Parents(k) /\ k # "link"
    BY <2>2, <2>3 DEF Parents
  <2>5. Held(open) = Top.k
    BY <2>2, InBlock
  <2>6. ASSUME NEW c \in Plain PROVE Carries(md, md', c)
    <3>1. Placed(open, md, c) /\ Held(open) # "code"
      BY <2>2, <2>5 DEF KeptInv
    <3>2. Weight(TextHits(c), md.code) = 0
      BY <3>1 DEF Placed
    <3> QED
      BY <1>1, <2>2, <3>2, FreshCode
  <2>7. ShapedFor(k, md')
    <3>1. ~md.inTable /\ md.cell = <<>> /\ md.row = <<>> /\ (md.inHead => md.head = <<>>)
      BY <1>2, <2>2, <2>5 DEF ShapedFor, Tabular
    <3>2. /\ md'.inTable = md.inTable /\ md'.inCode = TRUE /\ md'.cell = md.cell /\ md'.row = md.row
          /\ md'.inHead = md.inHead /\ md'.head = md.head
      BY <1>1, <2>2 DEF Pages
    <3> QED
      BY <2>3, <3>1, <3>2 DEF ShapedFor, Tabular
  <2>8. k = (IF k = "link" THEN Held(open) ELSE k)
    BY <2>4
  <2>9. PICK tight \in BOOLEAN : StartTag(k, tight)
    BY <2>2, <2>3
  <2> QED
    BY <2>2, <2>4, <2>6, <2>7, <2>8, <2>9, OpenedKeeps
<1>4. CASE EndCode
  <2>1. PICK m : m = EmitCode(md)
    OBVIOUS
  <2>2. md' = [m EXCEPT !.inCode = FALSE] /\ EndTag("code") /\ Top.k = "code"
    BY <1>4, <2>1 DEF EndCode, EndTag, In
  <2>3. \A c : Emits(md, m, c) /\ m.code = <<>>
    BY <1>1, <2>1, EmitsCode
  <2>4. m \in Pages(LineSet) /\ SameShape(md, m)
    BY <2>3, EmitsShape DEF Emits
  <2>5. SameText(m, md') /\ md'.code = <<>>
    BY <2>2, <2>3, <2>4 DEF Pages, SameText
  <2>6. ASSUME NEW c \in Plain PROVE Carries(md, md', c)
    <3>1. Carries(md, m, c)
      BY <2>3, EmitsCarries
    <3>2. Carries(m, md', c)
      BY <1>1, <2>4, <2>5, SameCarries
    <3> QED
      BY <1>1, <3>1, <3>2, CarriesOn
  <2>7. PICK k \in TagKinds \ {"doc"} : k = "code"
    BY DEF TagKinds
  <2>8. Held(open) = "code"
    BY <2>2 DEF Top, Held
  <2>9. ASSUME NEW h \in Parents(k) PROVE ShapedFor(h, md')
    <3>1. h \in {"doc", "quote", "item"}
      BY <2>7 DEF Parents
    <3>2. ~md.inTable /\ md.cell = <<>> /\ md.row = <<>> /\ (md.inHead => md.head = <<>>)
      BY <1>2, <2>8 DEF ShapedFor, Tabular
    <3>3. /\ md'.inTable = m.inTable /\ md'.inCode = FALSE /\ md'.cell = m.cell /\ md'.row = m.row
          /\ md'.inHead = m.inHead /\ md'.head = m.head
      BY <2>2, <2>4 DEF Pages
    <3> QED
      BY <2>4, <3>1, <3>2, <3>3 DEF ShapedFor, Tabular, SameShape
  <2>10. EndTag(k) /\ ~(k \in {"heading", "para", "item"})
    BY <2>2, <2>7
  <2> QED
    BY <2>5, <2>6, <2>9, <2>10, ClosedKeeps
<1> QED
  BY <1>3, <1>4

LEMMA TableStartKept == ASSUME PageInv, PageInv', KeptInv, StartTable PROVE KeptInv'
<1>1. md \in Pages(LineSet) /\ md' \in Pages(LineSet)
  BY PageIs, PageNextIs
<1>2. ShapedFor(Held(open), md)
  BY DEF KeptInv
<1>3. /\ Top.k \in {"doc", "quote", "item"} /\ ~finished /\ finished' = finished /\ StartTag("table", FALSE)
      /\ width' = width /\ texts' = texts /\ celled' = celled /\ html' = html
      /\ md.head = <<>> /\ md' = [md EXCEPT !.inTable = TRUE, !.head = <<>>, !.rows = <<>>]
  BY DEF StartTable, StartBlock, In
<1>4. PICK k \in TagKinds : k = "table"
  BY DEF TagKinds
<1>5. Top.k \in Parents(k) /\ k # "link"
  BY <1>3, <1>4 DEF Parents
<1>6. Held(open) = Top.k
  BY <1>3, InBlock
<1>7. md.rows = <<>>
  BY <1>3 DEF PageInv, TableInv
<1>8. ~md.inTable /\ ~md.inCode /\ md.cell = <<>> /\ md.row = <<>>
  BY <1>2, <1>3, <1>6 DEF ShapedFor, Tabular
<1>9. \A c \in Plain : Carries(md, md', c)
  BY <1>1, <1>3, <1>7, <1>8, FreshTable
<1>10. ShapedFor(k, md')
  <2>1. /\ md'.inTable = TRUE /\ md'.inCode = md.inCode /\ md'.cell = md.cell /\ md'.row = md.row
        /\ md'.head = <<>>
    BY <1>1, <1>3 DEF Pages
  <2> QED
    BY <1>4, <1>8, <2>1 DEF ShapedFor, Tabular
<1>11. k = (IF k = "link" THEN Held(open) ELSE k)
  BY <1>5
<1>12. PICK tight \in BOOLEAN : StartTag(k, tight)
  BY <1>3, <1>4
<1> QED
  BY <1>3, <1>5, <1>9, <1>10, <1>11, <1>12, OpenedKeeps

LEMMA SpokenIs ==
  ASSUME NEW n \in Nat, n <= Len(Words), NEW hs
  PROVE  /\ Spoken(n, hs) \in Seq(Txt) /\ Len(Spoken(n, hs)) = n
         /\ \A i \in 1 .. n : Spoken(n, hs)[i] = IF i \in hs THEN <<>> ELSE Words[i]
<1>1. PICK len \in Nat : len = Len(Words) /\ n <= len
  BY WordsAreTexts
<1>2. \A i \in 1 .. len : Words[i] \in Txt
  BY <1>1, WordsAreTexts
<1>3. <<>> \in Txt
  BY DispEmpty
<1>4. PICK f : f = Spoken(n, hs)
  OBVIOUS
<1>5. f \in [1 .. n -> Txt] /\ \A i \in 1 .. n : f[i] = IF i \in hs THEN <<>> ELSE Words[i]
  BY <1>1, <1>2, <1>3, <1>4 DEF Spoken
<1>6. f \in Seq(Txt) /\ Len(f) = n
  BY <1>5
<1> QED
  BY <1>4, <1>5, <1>6

LEMMA SaidType == ASSUME KeptInv, PageInv, NEW c PROVE Said(texts, html, c) \in Nat
<1>1. texts \in Nat /\ texts <= Len(Words)
  BY DEF KeptInv, PageInv
<1>2. TextHits(c) \in [Txt -> Nat]
  BY HitsType
<1>3. Spoken(texts, html) \in Seq(Txt)
  BY <1>1, SpokenIs
<1> QED
  BY <1>2, <1>3, WeightType DEF Said

\* What the table does not show it says is missing.
LEMMA TableEndKept == ASSUME PageInv, PageInv', KeptInv, EndTable PROVE KeptInv'
<1>1. md \in Pages(LineSet) /\ md' \in Pages(LineSet) /\ width \in Nat
  BY PageIs, PageNextIs
<1>2. ShapedFor(Held(open), md) /\ Stacked(open)
  BY DEF KeptInv
<1>3. /\ md' = EmitTable(md) /\ md.head # <<>> /\ Rows(md.head, md.rows) /\ Last(open).k = "table"
      /\ open' = Front(open) /\ texts' = texts /\ celled' = celled /\ html' = html /\ ~finished /\ finished' = finished
  BY DEF EndTable, EndTag, In, Top, PageInv, TableInv
<1>4. Held(open) = "table"
  BY <1>3 DEF Held
<1>5. md.inTable /\ ~md.inCode /\ md.cell = <<>> /\ md.row = <<>> /\ (md.inHead => md.head = <<>>)
  BY <1>2, <1>4 DEF ShapedFor, Tabular
<1>6. PICK p : p = open'
  OBVIOUS
<1>7. Stacked(p) /\ Last(p).k \in Parents("table") /\ Held(p) = Last(p).k
  BY <1>2, <1>3, <1>6, StackPop
<1>8. Held(p) \in {"doc", "quote", "item"}
  BY <1>7 DEF Parents
<1>9. RunsHeld(open) => RunsHeld(p)
  BY <1>2, <1>3, <1>6, PopHolds
<1>10. /\ md'.out \in Seq(LineSet) /\ ~md'.inTable /\ md'.inCode = md.inCode /\ md'.cell = md.cell /\ md'.row = md.row
       /\ md'.inHead = md.inHead /\ md'.head = md.head
  <2>1. PICK b : b = [md EXCEPT !.out = md.out \o RenderTable(md.head, md.rows), !.inTable = FALSE]
    OBVIOUS
  <2>2. md' = BlankAfter(b)
    BY <1>3, <2>1 DEF EmitTable
  <2>3. md' \in {b, [b EXCEPT !.out = Append(b.out, BlankLine)]}
    BY <2>2 DEF BlankAfter
  <2>4. /\ md'.inTable = FALSE /\ md'.inCode = md.inCode /\ md'.cell = md.cell /\ md'.row = md.row
        /\ md'.inHead = md.inHead /\ md'.head = md.head
    BY <1>1, <2>1, <2>3 DEF Pages
  <2> QED
    BY <1>1, <2>4 DEF Pages
<1>11. ShapedFor(Held(p), md')
  BY <1>5, <1>8, <1>10 DEF ShapedFor, Tabular
<1>12. ASSUME NEW c \in Plain PROVE Placed(p, md', c) /\ Accounted(md', c, Said(texts, html, c), c \in celled)
  <2>1. Placed(open, md, c) /\ Accounted(md, c, Said(texts, html, c), c \in celled)
    BY DEF KeptInv
  <2>2. c \in Letters /\ Said(texts, html, c) \in Nat
    BY SaidType DEF Plain
  <2>3. /\ Accounted(md', c, Said(texts, html, c), c \in celled)
        /\ CountIn(c, md'.runs) <= CountIn(c, md.runs)
        /\ Weight(TextHits(c), md'.code) <= Weight(TextHits(c), md.code)
    BY <1>1, <1>3, <1>5, <2>1, <2>2, TableAccounts
  <2>4. Held(open) # "code"
    BY <1>4
  <2>5. Placed(p, md', c)
    BY <1>1, <1>9, <2>1, <2>3, <2>4, PlacedStays
  <2> QED
    BY <2>3, <2>5
<1>13. Last(p).k # "link"
  BY <1>7, <1>8
<1>14. texts' <= Len(Words) /\ html' \subseteq 1 .. texts'
  BY <1>3 DEF KeptInv
<1> QED
  BY <1>3, <1>6, <1>7, <1>11, <1>12, <1>13, <1>14 DEF KeptInv

LEMMA HeadKept == ASSUME PageInv, PageInv', KeptInv, StartHead \/ EndHead PROVE KeptInv'
<1>1. md \in Pages(LineSet) /\ md' \in Pages(LineSet)
  BY PageIs, PageNextIs
<1>2. ShapedFor(Held(open), md) /\ Stacked(open)
  BY DEF KeptInv
<1>3. CASE StartHead
  <2>1. /\ Top.k = "table" /\ last = "table" /\ ~finished /\ finished' = finished /\ StartTag("head", FALSE)
        /\ width' = width /\ texts' = texts /\ celled' = celled /\ html' = html /\ md' = [md EXCEPT !.inHead = TRUE]
    BY <1>3 DEF StartHead, InnerTag, In
  <2>2. PICK k \in TagKinds : k = "head"
    BY DEF TagKinds
  <2>3. Top.k \in Parents(k) /\ k # "link"
    BY <2>1, <2>2 DEF Parents
  <2>4. Held(open) = "table"
    BY <2>1 DEF Top, Held
  <2>5. md.inTable /\ ~md.inCode /\ md.cell = <<>> /\ md.row = <<>> /\ md.head = <<>>
    BY <1>2, <2>1, <2>4 DEF ShapedFor, Tabular, PageInv, TableInv
  <2>6. /\ md'.inTable = md.inTable /\ md'.inCode = md.inCode /\ md'.cell = md.cell /\ md'.row = md.row
        /\ md'.head = md.head /\ SameText(md, md')
    BY <1>1, <2>1 DEF Pages, SameText
  <2>7. \A c \in Plain : Carries(md, md', c)
    BY <1>1, <2>6, SameCarries
  <2>8. ShapedFor(k, md')
    BY <2>2, <2>5, <2>6 DEF ShapedFor, Tabular
  <2>9. k = (IF k = "link" THEN Held(open) ELSE k)
    BY <2>3
  <2>10. PICK tight \in BOOLEAN : StartTag(k, tight)
    BY <2>1, <2>2
  <2> QED
    BY <2>1, <2>3, <2>7, <2>8, <2>9, <2>10, OpenedKeeps
<1>4. CASE EndHead
  <2>1. /\ EndTag("head") /\ Last(open).k = "head"
        /\ md' = [md EXCEPT !.head = md.row, !.row = <<>>, !.inHead = FALSE]
    BY <1>4 DEF EndHead, EndTag, In, Top
  <2>2. Held(open) = "head" /\ Has(open, "head")
    <3>1. Has(open, Last(open).k)
      BY <1>2, StackTop
    <3> QED
      BY <2>1, <3>1 DEF Held
  <2>3. md.inTable /\ ~md.inCode /\ md.cell = <<>>
    BY <1>2, <2>2 DEF ShapedFor, Tabular
  <2>4. md.head = <<>> /\ md.rows = <<>>
    BY <2>2 DEF PageInv, TableInv
  <2>5. \A c \in Plain : Carries(md, md', c)
    BY <1>1, <2>1, <2>3, <2>4, HeadMoves
  <2>6. PICK k \in TagKinds \ {"doc"} : k = "head"
    BY DEF TagKinds
  <2>7. ASSUME NEW h \in Parents(k) PROVE ShapedFor(h, md')
    <3>1. h = "table"
      BY <2>6 DEF Parents
    <3>2. /\ md'.inTable = md.inTable /\ md'.inCode = md.inCode /\ md'.cell = md.cell /\ md'.row = <<>>
          /\ md'.inHead = FALSE
      BY <1>1, <2>1 DEF Pages
    <3> QED
      BY <2>3, <3>1, <3>2 DEF ShapedFor, Tabular
  <2>8. EndTag(k) /\ ~(k \in {"heading", "para", "item"}) /\ k # "code"
    BY <2>1, <2>6
  <2> QED
    BY <2>5, <2>7, <2>8, ClosedKeeps
<1> QED
  BY <1>3, <1>4

LEMMA RowKept == ASSUME PageInv, PageInv', KeptInv, StartRow \/ EndRow PROVE KeptInv'
<1>1. md \in Pages(LineSet) /\ md' \in Pages(LineSet)
  BY PageIs, PageNextIs
<1>2. ShapedFor(Held(open), md) /\ Stacked(open)
  BY DEF KeptInv
<1>3. CASE StartRow
  <2>1. /\ Top.k = "table" /\ ~finished /\ finished' = finished /\ StartTag("row", FALSE)
        /\ width' = width /\ texts' = texts /\ celled' = celled /\ html' = html /\ md' = [md EXCEPT !.row = <<>>]
    BY <1>3 DEF StartRow, InnerTag, In
  <2>2. PICK k \in TagKinds : k = "row"
    BY DEF TagKinds
  <2>3. Top.k \in Parents(k) /\ k # "link"
    BY <2>1, <2>2 DEF Parents
  <2>4. Held(open) = "table"
    BY <2>1 DEF Top, Held
  <2>5. md.inTable /\ ~md.inCode /\ md.cell = <<>> /\ md.row = <<>> /\ (md.inHead => md.head = <<>>)
    BY <1>2, <2>4 DEF ShapedFor, Tabular
  <2>6. /\ md'.inTable = md.inTable /\ md'.inCode = md.inCode /\ md'.cell = md.cell /\ md'.row = md.row
        /\ md'.head = md.head /\ md'.inHead = md.inHead /\ SameText(md, md')
    BY <1>1, <2>1, <2>5 DEF Pages, SameText
  <2>7. \A c \in Plain : Carries(md, md', c)
    BY <1>1, <2>6, SameCarries
  <2>8. ShapedFor(k, md')
    BY <2>2, <2>5, <2>6 DEF ShapedFor, Tabular
  <2>9. k = (IF k = "link" THEN Held(open) ELSE k)
    BY <2>3
  <2>10. PICK tight \in BOOLEAN : StartTag(k, tight)
    BY <2>1, <2>2
  <2> QED
    BY <2>1, <2>3, <2>7, <2>8, <2>9, <2>10, OpenedKeeps
<1>4. CASE EndRow
  <2>1. EndTag("row") /\ Last(open).k = "row"
    BY <1>4 DEF EndRow, EndTag, In, Top
  <2>2. Held(open) = "row" /\ Has(open, "row")
    <3>1. Has(open, Last(open).k)
      BY <1>2, StackTop
    <3> QED
      BY <2>1, <3>1 DEF Held
  <2>3. md.inTable /\ ~md.inCode /\ md.cell = <<>> /\ (md.inHead => md.head = <<>>)
    BY <1>2, <2>2 DEF ShapedFor, Tabular
  <2>4. ~md.inHead
    BY <2>2, <2>3 DEF PageInv, TableInv
  <2>5. md' = [md EXCEPT !.rows = Append(md.rows, md.row), !.row = <<>>]
    BY <1>4, <2>4 DEF EndRow
  <2>6. \A c \in Plain : Carries(md, md', c)
    BY <1>1, <2>3, <2>5, RowMoves
  <2>7. PICK k \in TagKinds \ {"doc"} : k = "row"
    BY DEF TagKinds
  <2>8. ASSUME NEW h \in Parents(k) PROVE ShapedFor(h, md')
    <3>1. h = "table"
      BY <2>7 DEF Parents
    <3>2. /\ md'.inTable = md.inTable /\ md'.inCode = md.inCode /\ md'.cell = md.cell /\ md'.row = <<>>
          /\ md'.inHead = md.inHead
      BY <1>1, <2>5 DEF Pages
    <3> QED
      BY <2>3, <2>4, <3>1, <3>2 DEF ShapedFor, Tabular
  <2>9. EndTag(k) /\ ~(k \in {"heading", "para", "item"}) /\ k # "code"
    BY <2>1, <2>7
  <2> QED
    BY <2>6, <2>8, <2>9, ClosedKeeps
<1> QED
  BY <1>3, <1>4

LEMMA CellKept == ASSUME PageInv, PageInv', KeptInv, StartCell \/ EndCell PROVE KeptInv'
<1>1. md \in Pages(LineSet) /\ md' \in Pages(LineSet)
  BY PageIs, PageNextIs
<1>2. ShapedFor(Held(open), md) /\ Stacked(open)
  BY DEF KeptInv
<1>3. CASE StartCell
  <2>1. /\ Top.k \in {"head", "row"} /\ ~finished /\ finished' = finished /\ StartTag("cell", FALSE)
        /\ width' = width /\ texts' = texts /\ celled' = celled /\ html' = html /\ md' = [md EXCEPT !.cell = <<>>]
    BY <1>3 DEF StartCell, InnerTag, In
  <2>2. PICK k \in TagKinds : k = "cell"
    BY DEF TagKinds
  <2>3. Top.k \in Parents(k) /\ k # "link"
    BY <2>1, <2>2 DEF Parents
  <2>4. Held(open) \in {"head", "row"}
    BY <2>1 DEF Top, Held
  <2>5. md.inTable /\ ~md.inCode /\ md.cell = <<>> /\ (md.inHead => md.head = <<>>)
    BY <1>2, <2>4 DEF ShapedFor, Tabular
  <2>6. /\ md'.inTable = md.inTable /\ md'.inCode = md.inCode /\ md'.cell = md.cell /\ md'.row = md.row
        /\ md'.head = md.head /\ md'.inHead = md.inHead /\ SameText(md, md')
    BY <1>1, <2>1, <2>5 DEF Pages, SameText
  <2>7. \A c \in Plain : Carries(md, md', c)
    BY <1>1, <2>6, SameCarries
  <2>8. ShapedFor(k, md')
    BY <2>2, <2>5, <2>6 DEF ShapedFor, Tabular
  <2>9. k = (IF k = "link" THEN Held(open) ELSE k)
    BY <2>3
  <2>10. PICK tight \in BOOLEAN : StartTag(k, tight)
    BY <2>1, <2>2
  <2> QED
    BY <2>1, <2>3, <2>7, <2>8, <2>9, <2>10, OpenedKeeps
<1>4. CASE EndCell
  <2>1. EndTag("cell") /\ Last(open).k = "cell" /\ md' = [md EXCEPT !.row = Append(md.row, md.cell), !.cell = <<>>]
    BY <1>4 DEF EndCell, EndTag, In, Top
  <2>2. Held(open) = "cell"
    BY <2>1 DEF Held
  <2>3. md.inTable /\ ~md.inCode /\ (md.inHead => md.head = <<>>)
    BY <1>2, <2>2 DEF ShapedFor, Tabular
  <2>4. \A c \in Plain : Carries(md, md', c)
    BY <1>1, <2>1, CellMoves
  <2>5. PICK k \in TagKinds \ {"doc"} : k = "cell"
    BY DEF TagKinds
  <2>6. ASSUME NEW h \in Parents(k) PROVE ShapedFor(h, md')
    <3>1. h \in {"head", "row"}
      BY <2>5 DEF Parents
    <3>2. /\ md'.inTable = md.inTable /\ md'.inCode = md.inCode /\ md'.cell = <<>>
          /\ md'.inHead = md.inHead /\ md'.head = md.head
      BY <1>1, <2>1 DEF Pages
    <3> QED
      BY <2>3, <3>1, <3>2 DEF ShapedFor, Tabular
  <2>7. EndTag(k) /\ ~(k \in {"heading", "para", "item"}) /\ k # "code"
    BY <2>1, <2>5
  <2> QED
    BY <2>4, <2>6, <2>7, ClosedKeeps
<1> QED
  BY <1>3, <1>4

LEMMA RuleKept == ASSUME PageInv, PageInv', KeptInv, Rule PROVE KeptInv'
<1>1. md \in Pages(LineSet) /\ width \in Nat
  BY PageIs
<1>2. PICK pre \in Int : pre = (IF width < 60 THEN width ELSE 60)
  <2>1. PICK w \in Nat : w = width
    BY <1>1
  <2> QED
    BY <2>1
<1>3. PICK e : e = Line("rule", pre, FALSE, <<>>)
  OBVIOUS
<1>4. e \in LineSet /\ e.body = <<>>
  <2>1. "rule" \in LineKinds
    BY DEF LineKinds
  <2> QED
    BY <1>3, <2>1, PlainLine, Zenon
<1>5. PICK b : b = BlankAfter(md)
  OBVIOUS
<1>6. PICK d : d = [b EXCEPT !.out = Append(@, e)]
  OBVIOUS
<1>7. md' = BlankAfter(d)
  BY <1>2, <1>3, <1>5, <1>6 DEF Rule
<1>8. ASSUME NEW c PROVE Emits(md, md', c)
  <2>1. Emits(md, b, c) /\ b \in Pages(LineSet)
    BY <1>1, <1>5, EmitsBlank DEF Emits
  <2>2. Emits(b, d, c) /\ d \in Pages(LineSet)
    BY <1>4, <1>6, <2>1, EmitsLine DEF Emits
  <2>3. Emits(d, md', c)
    BY <1>7, <2>2, EmitsBlank
  <2>4. Emits(md, d, c)
    BY <1>1, <2>1, <2>2, EmitsOn
  <2> QED
    BY <1>1, <2>3, <2>4, EmitsOn
<1>9. \A c \in Plain : Carries(md, md', c)
  BY <1>8, EmitsCarries
<1>10. SameShape(md, md') /\ md'.link = md.link
  BY <1>8, EmitsShape
<1>11. /\ open' = open /\ width' = width /\ texts' = texts /\ celled' = celled /\ html' = html /\ ~finished'
  BY DEF Rule, In
<1> QED
  BY <1>9, <1>10, <1>11, WrittenKeeps

LEMMA FinishKept == ASSUME PageInv, PageInv', KeptInv, Finish PROVE KeptInv'
<1>1. md \in Pages(LineSet)
  BY PageIs
<1>2. /\ md' = [md EXCEPT !.out = Trimmed(md.out)] /\ Last(open).k = "doc"
      /\ open' = open /\ width' = width /\ texts' = texts /\ celled' = celled /\ html' = html
  BY DEF Finish, In, Top
<1>3. \A c \in Plain : Carries(md, md', c)
  BY <1>1, <1>2, TrimmedCarries
<1>4. SameShape(md, md') /\ md'.link = md.link
  BY <1>1, <1>2 DEF Pages, SameShape
<1> QED
  BY <1>2, <1>3, <1>4, WrittenKeeps

LEMMA BreakKept == ASSUME PageInv, PageInv', KeptInv, SoftBreak PROVE KeptInv'
<1>1. md \in Pages(LineSet)
  BY PageIs
<1>2. PICK t : t = << Space >>
  OBVIOUS
<1>3. t \in Txt /\ \A c \in Plain : CountIn(c, t) = 0
  <2>1. Space \in Character /\ \A c \in Plain : Space # c
    BY DEF Space, Character, Plain, Letters
  <2>2. t = Append(<<>>, Space)
    BY <1>2
  <2>3. <<>> \in Txt
    BY DispEmpty
  <2>4. ASSUME NEW c \in Plain PROVE CountIn(c, t) = 0
    <3>1. CountIn(c, t) = CountIn(c, <<>>) + (IF Space = c THEN 1 ELSE 0)
      BY <2>1, <2>2, <2>3, CountAppend
    <3> QED
      BY <2>1, <3>1, CountEmpty
  <2>5. t \in Txt
    BY <2>1, <2>2, <2>3, CountAppend
  <2> QED
    BY <2>4, <2>5
<1>4. md' = [md EXCEPT !.runs = md.runs \o t]
  <2>1. Append(md.runs, Space) = md.runs \o t
    <3>1. PICK s \in Seq(Character) : s = md.runs
      BY <1>1 DEF Pages, Txt
    <3>2. Space \in Character
      BY DEF Space, Character
    <3> QED
      BY <1>2, <3>1, <3>2, AppendIsConcat
  <2> QED
    BY <2>1 DEF SoftBreak, Space
<1>5. \A c \in Plain : Carries(md, md', c)
  BY <1>1, <1>3, <1>4, OtherText
<1>6. SameShape(md, md') /\ md'.link = md.link
  BY <1>1, <1>4 DEF Pages, SameShape
<1>7. open' = open /\ width' = width /\ texts' = texts /\ celled' = celled /\ html' = html /\ ~finished'
  BY DEF SoftBreak, Inline, In
<1> QED
  BY <1>5, <1>6, <1>7, WrittenKeeps

LEMMA SaidGrows ==
  ASSUME NEW c, NEW n \in Nat, n < Len(Words), NEW hs, NEW ks, \A i \in 1 .. n : i \in hs <=> i \in ks
  PROVE  /\ Words[n + 1] \in Txt
         /\ n + 1 \in ks => Said(n + 1, ks, c) = Said(n, hs, c)
         /\ n + 1 \notin ks => Said(n + 1, ks, c) = Said(n, hs, c) + CountIn(c, Words[n + 1])
<1>1. PICK len \in Nat : len = Len(Words) /\ n < len
  BY WordsAreTexts
<1>2. PICK p \in 1 .. len : p = n + 1
  BY <1>1
<1>3. Words[p] \in Txt /\ <<>> \in Txt
  BY <1>1, WordsAreTexts, DispEmpty
<1>4. PICK s : s = Spoken(n, hs)
  OBVIOUS
<1>5. s \in Seq(Txt) /\ Len(s) = n /\ \A i \in 1 .. n : s[i] = IF i \in hs THEN <<>> ELSE Words[i]
  BY <1>1, <1>4, SpokenIs
<1>6. PICK x \in Txt : x = IF p \in ks THEN <<>> ELSE Words[p]
  BY <1>3
<1>7. Spoken(p, ks) = Append(s, x)
  <2>1. PICK f : f = Spoken(p, ks)
    OBVIOUS
  <2>2. f \in Seq(Txt) /\ Len(f) = p /\ \A i \in 1 .. p : f[i] = IF i \in ks THEN <<>> ELSE Words[i]
    BY <1>1, <1>2, <2>1, SpokenIs
  <2>3. PICK g : g = Append(s, x)
    OBVIOUS
  <2>4. g \in Seq(Txt) /\ Len(g) = p /\ g[p] = x /\ \A i \in 1 .. n : g[i] = s[i]
    BY <1>2, <1>5, <2>3
  <2>5. \A i \in 1 .. n : f[i] = g[i]
    BY <1>2, <1>5, <2>2, <2>4
  <2>6. f[p] = g[p]
    BY <1>6, <2>2, <2>4
  <2>7. \A i \in 1 .. p : f[i] = g[i]
    BY <1>2, <2>5, <2>6
  <2> QED
    BY <2>1, <2>2, <2>3, <2>4, <2>7
<1>8. Weight(TextHits(c), Append(s, x)) = Weight(TextHits(c), s) + CountIn(c, x)
  BY <1>5, TextsAppend
<1>9. Said(p, ks, c) = Said(n, hs, c) + CountIn(c, x)
  BY <1>4, <1>7, <1>8 DEF Said
<1>10. PICK y \in Nat : y = Said(n, hs, c)
  <2>1. TextHits(c) \in [Txt -> Nat]
    BY HitsType
  <2> QED
    BY <1>4, <1>5, <2>1, WeightType DEF Said
<1>11. CountIn(c, <<>>) = 0
  BY CountEmpty
<1>12. p \in ks => Said(p, ks, c) = y
  <2>1. p \in ks => x = <<>>
    BY <1>6
  <2> QED
    BY <1>9, <1>10, <1>11, <2>1
<1>13. p \notin ks => Said(p, ks, c) = y + CountIn(c, Words[p])
  <2>1. p \notin ks => x = Words[p]
    BY <1>6
  <2> QED
    BY <1>9, <1>10, <2>1
<1> QED
  BY <1>2, <1>3, <1>10, <1>12, <1>13

\* Text goes where the open tag sends it, and is counted there.
LEMMA TextKept == ASSUME PageInv, PageInv', KeptInv, Text PROVE KeptInv'
<1>1. md \in Pages(LineSet) /\ md' \in Pages(LineSet)
  BY PageIs, PageNextIs
<1>2. ShapedFor(Held(open), md) /\ Stacked(open) /\ (Last(open).k = "link" => md.link)
  BY DEF KeptInv
<1>3. texts \in Nat /\ texts < Len(Words) /\ texts <= Len(Words) /\ texts + 1 <= Len(Words)
  <2>1. texts \in Nat /\ texts < Len(Words)
    BY DEF Text, PageInv
  <2>2. Len(Words) \in Nat
    BY WordsAreTexts
  <2> QED
    BY <2>1, <2>2
<1>4. PICK w \in Txt : w = Words[texts + 1]
  <2>1. \A i \in 1 .. texts : i \in html <=> i \in html
    OBVIOUS
  <2> QED
    BY <1>3, <2>1, SaidGrows
<1>5. /\ md' = IF md.inCode THEN [md EXCEPT !.code = Append(md.code, w)]
               ELSE IF md.inTable THEN [md EXCEPT !.cell = md.cell \o w]
               ELSE [md EXCEPT !.runs = md.runs \o w]
      /\ celled' = IF md.inTable THEN celled \cup Range(w) ELSE celled
      /\ texts' = texts + 1 /\ open' = open /\ html' = html /\ finished' = finished /\ ~finished
      /\ Top.k \in {"para", "heading", "cell", "link", "item", "code"}
  BY <1>4 DEF Text, Inline, In
<1>6. Held(open) \in {"para", "heading", "cell", "item", "code"} /\ Has(open, Held(open))
  <2>1. /\ Has(open, Held(open))
        /\ Last(open).k = "link" => Held(open) \in Parents("link")
        /\ Last(open).k # "link" => Held(open) = Last(open).k
    BY <1>2, StackTop
  <2>2. Parents("link") = {"para", "heading", "cell", "item"}
    BY DEF Parents
  <2> QED
    BY <1>5, <2>1, <2>2 DEF Top
<1>7. ASSUME NEW c \in Plain, c \in celled PROVE c \in celled'
  BY <1>5, <1>7
<1>8. ASSUME NEW c \in Plain, NEW n \in Nat, n = CountIn(c, w), Grown(md, md', c, n),
             CellHits(md', c) # 0 => CellHits(md, c) # 0 \/ (n # 0 /\ c \in celled')
      PROVE  Accounted(md', c, Said(texts', html', c), c \in celled')
  <2>1. PICK said \in Nat : said = Said(texts, html, c)
    BY SaidType
  <2>2. Accounted(md, c, said, c \in celled)
    BY <2>1 DEF KeptInv
  <2>3. Accounted(md', c, said + n, c \in celled')
    BY <1>1, <1>7, <1>8, <2>2, GrownIsAccounted
  <2>4. Said(texts + 1, html, c) = said + n
    <3>1. \A i \in 1 .. texts : i \in html <=> i \in html
      OBVIOUS
    <3>2. texts + 1 \notin html
      BY <1>3 DEF KeptInv
    <3> QED
      BY <1>3, <1>4, <1>8, <2>1, <3>1, <3>2, SaidGrows
  <2> QED
    BY <1>5, <2>3, <2>4
<1>20. html' \subseteq 1 .. texts'
  <2>1. html \subseteq 1 .. texts
    BY DEF KeptInv
  <2>2. 1 .. texts \subseteq 1 .. texts + 1
    BY <1>3
  <2> QED
    BY <1>5, <2>1, <2>2
<1>9. CASE md.inCode
  <2>1. md' = [md EXCEPT !.code = Append(md.code, w)]
    BY <1>5, <1>9
  <2>2. Held(open) = "code"
    BY <1>2, <1>9 DEF ShapedFor
  <2>3. SameShape(md, md') /\ md'.link = md.link
    BY <1>1, <2>1 DEF Pages, SameShape
  <2>4. ASSUME NEW c \in Plain PROVE Placed(open, md', c) /\ Accounted(md', c, Said(texts', html', c), c \in celled')
    <3>1. PICK n \in Nat : n = CountIn(c, w)
      BY CountType
    <3>2. Grown(md, md', c, n) /\ CellHits(md', c) = CellHits(md, c) /\ md'.runs = md.runs
      BY <1>1, <2>1, <3>1, TextToCode
    <3>3. Placed(open, md, c)
      BY DEF KeptInv
    <3>4. Placed(open, md', c)
      BY <2>2, <3>2, <3>3 DEF Placed
    <3> QED
      BY <1>8, <3>1, <3>2, <3>4
  <2>5. ShapedFor(Held(open), md')
    BY <1>2, <2>3, ShapeStays
  <2> QED
    BY <1>2, <1>3, <1>5, <1>20, <2>3, <2>4, <2>5 DEF KeptInv
<1>10. CASE ~md.inCode /\ md.inTable
  <2>1. md' = [md EXCEPT !.cell = md.cell \o w] /\ celled' = celled \cup Range(w)
    BY <1>5, <1>10
  <2>2. Held(open) = "cell"
    BY <1>2, <1>6, <1>10 DEF ShapedFor, Tabular
  <2>3. /\ md'.inTable = md.inTable /\ md'.inCode = md.inCode /\ md'.row = md.row /\ md'.inHead = md.inHead
        /\ md'.head = md.head /\ md'.link = md.link
    BY <1>1, <2>1 DEF Pages
  <2>4. ASSUME NEW c \in Plain PROVE Placed(open, md', c) /\ Accounted(md', c, Said(texts', html', c), c \in celled')
    <3>1. PICK n \in Nat : n = CountIn(c, w)
      BY CountType
    <3>2. /\ Grown(md, md', c, n) /\ (CellHits(md', c) # 0 => CellHits(md, c) # 0 \/ n # 0)
          /\ md'.runs = md.runs /\ md'.code = md.code
      BY <1>1, <2>1, <3>1, TextToCell
    <3>3. Placed(open, md, c)
      BY DEF KeptInv
    <3>4. Placed(open, md', c)
      BY <3>2, <3>3 DEF Placed
    <3>5. n # 0 => c \in celled'
      BY <2>1, <3>1, CountNone
    <3> QED
      BY <1>8, <3>1, <3>2, <3>4, <3>5
  <2>5. ShapedFor(Held(open), md')
    BY <1>2, <2>2, <2>3 DEF ShapedFor
  <2> QED
    BY <1>2, <1>3, <1>5, <1>20, <2>3, <2>4, <2>5 DEF KeptInv
<1>11. CASE ~md.inCode /\ ~md.inTable
  <2>1. md' = [md EXCEPT !.runs = md.runs \o w] /\ celled' = celled /\ html' = html
    BY <1>5, <1>11
  <2>2. RunsHeld(open)
    <3>1. Held(open) \in {"para", "heading", "item"}
      BY <1>2, <1>6, <1>11 DEF ShapedFor, Tabular
    <3> QED
      BY <1>6, <3>1 DEF RunsHeld
  <2>3. SameShape(md, md') /\ md'.link = md.link
    BY <1>1, <2>1 DEF Pages, SameShape
  <2>4. ASSUME NEW c \in Plain PROVE Placed(open, md', c) /\ Accounted(md', c, Said(texts', html', c), c \in celled')
    <3>1. PICK n \in Nat : n = CountIn(c, w)
      BY CountType
    <3>2. Grown(md, md', c, n) /\ CellHits(md', c) = CellHits(md, c) /\ md'.code = md.code
      BY <1>1, <2>1, <3>1, TextToRuns
    <3>3. Placed(open, md, c)
      BY DEF KeptInv
    <3>4. Placed(open, md', c)
      BY <2>2, <3>2, <3>3 DEF Placed
    <3> QED
      BY <1>8, <3>1, <3>2, <3>4
  <2>5. ShapedFor(Held(open), md')
    BY <1>2, <2>3, ShapeStays
  <2> QED
    BY <1>2, <1>3, <1>5, <1>20, <2>3, <2>4, <2>5 DEF KeptInv
<1> QED
  BY <1>9, <1>10, <1>11

\* What is left out is not counted, and nothing else changes.
LEMMA HtmlKept == ASSUME PageInv, PageInv', KeptInv, InlineHtml \/ HtmlBlock PROVE KeptInv'
<1>1. texts \in Nat /\ texts < Len(Words) /\ texts <= Len(Words) /\ texts + 1 <= Len(Words)
  <2>1. texts \in Nat /\ texts < Len(Words)
    BY DEF InlineHtml, HtmlBlock, DropsHtml, PageInv
  <2>2. Len(Words) \in Nat
    BY WordsAreTexts
  <2> QED
    BY <2>1, <2>2
<1>2. /\ texts' = texts + 1 /\ html' = html \cup {texts + 1}
      /\ md' = md /\ open' = open /\ celled' = celled /\ finished' = finished
  BY DEF InlineHtml, HtmlBlock, DropsHtml
<1>3. html \subseteq 1 .. texts
  BY DEF KeptInv
<1>4. html' \subseteq 1 .. texts'
  <2>1. 1 .. texts \subseteq 1 .. texts + 1 /\ texts + 1 \in 1 .. texts + 1
    BY <1>1
  <2> QED
    BY <1>2, <1>3, <2>1
<1>5. ASSUME NEW c \in Plain PROVE Said(texts', html', c) = Said(texts, html, c)
  <2>1. \A i \in 1 .. texts : i \in html <=> i \in html'
    <3>1. \A i \in 1 .. texts : i # texts + 1
      BY <1>1
    <3> QED
      BY <1>2, <3>1
  <2>2. texts + 1 \in html'
    BY <1>2
  <2> QED
    BY <1>1, <1>2, <2>1, <2>2, SaidGrows
<1>6. ASSUME NEW c \in Plain PROVE Placed(open', md', c) /\ Accounted(md', c, Said(texts', html', c), c \in celled')
  <2>1. Placed(open, md, c) /\ Accounted(md, c, Said(texts, html, c), c \in celled)
    BY DEF KeptInv
  <2> QED
    BY <1>2, <1>5, <2>1
<1>7. texts' <= Len(Words)
  BY <1>1, <1>2
<1>8. /\ Stacked(open') /\ (finished' => Last(open').k = "doc")
      /\ ShapedFor(Held(open'), md') /\ (Last(open').k = "link" => md'.link)
  BY <1>2 DEF KeptInv
<1> QED
  BY <1>4, <1>6, <1>7, <1>8 DEF KeptInv

LEMMA KeptStutters == ASSUME KeptInv, UNCHANGED mdVars PROVE KeptInv'
  BY DEF KeptInv, mdVars

LEMMA KeptStepKeeps == ASSUME PageInv, PageInv', KeptInv, MdNext PROVE KeptInv'
  BY HeadingKept, ParaKept, CodeKept, QuoteKept, ListKept, ItemKept, LinkKept, TableStartKept, TableEndKept, HeadKept,
     RowKept, CellKept, TextKept, HtmlKept, BreakKept, RuleKept, FinishKept, Zenon DEF MdNext

LEMMA KeptInitEstablishes == ASSUME MdInit PROVE KeptInv
<1>1. PageInv
  BY PageInitEstablishes
<1>2. md = NewMd /\ texts = 0 /\ html = {} /\ finished = FALSE /\ md \in Pages(LineSet)
  BY <1>1, PageIs DEF MdInit
<1>3. PICK t \in Tag : t = [k |-> "doc", tight |-> FALSE]
  BY DEF Tag, TagKinds
<1>4. open = << t >> /\ t.k = "doc"
  BY <1>3 DEF MdInit
<1>5. Stacked(open) /\ Last(open).k = "doc" /\ Held(open) = "doc"
  <2>1. open \in Seq(Tag) /\ Len(open) = 1 /\ open[1] = t
    BY <1>4
  <2>2. Last(open) = t
    BY <2>1 DEF Last
  <2> QED
    BY <1>4, <2>1, <2>2 DEF Stacked, Held
<1>6. /\ md.out = <<>> /\ md.runs = <<>> /\ md.code = <<>> /\ md.cell = <<>> /\ md.row = <<>> /\ md.head = <<>>
      /\ md.rows = <<>> /\ md.inTable = FALSE /\ md.inCode = FALSE
  BY <1>2 DEF NewMd
<1>7. ShapedFor(Held(open), md)
  BY <1>5, <1>6 DEF ShapedFor, Tabular
<1>8. ASSUME NEW c \in Plain PROVE Placed(open, md, c) /\ Accounted(md, c, Said(texts, html, c), c \in celled)
  <2>1. CountIn(c, md.runs) = 0 /\ Weight(TextHits(c), md.code) = 0
    BY <1>6, CountEmpty, NoRowHits
  <2>2. Weight(LineHits(c), md.out) = 0
    <3>1. LineHits(c) \in [LineSet -> Nat]
      BY HitsType
    <3> QED
      BY <1>6, <3>1, WeightEmpty
  <2>3. Amount(md, c) = 0 + 0 + 0
    BY <2>1, <2>2 DEF Amount
  <2>4. CountIn(c, md.cell) = 0 /\ Weight(TextHits(c), md.row) = 0 /\ TableHits(md.head, md.rows, c) = 0 + 0
    BY <1>6, CountEmpty, NoRowHits DEF TableHits
  <2>5. Stock(md, c) = 0 /\ CellHits(md, c) = 0
    BY <1>6, <2>3, <2>4 DEF Stock, CellHits
  <2>6. Said(texts, html, c) = 0
    <3>1. Spoken(0, {}) = <<>>
      <4>1. 0 <= Len(Words)
        BY WordsAreTexts
      <4>2. Spoken(0, {}) \in Seq(Txt) /\ Len(Spoken(0, {})) = 0
        BY <4>1, SpokenIs
      <4> QED
        BY <4>2
    <3> QED
      BY <1>2, <3>1, NoRowHits DEF Said
  <2>7. Accounted(md, c, Said(texts, html, c), c \in celled)
    BY <2>5, <2>6 DEF Accounted
  <2> QED
    BY <2>1, <2>7 DEF Placed
<1>9. texts <= Len(Words) /\ html \subseteq 1 .. texts
  <2>1. Len(Words) \in Nat
    BY WordsAreTexts
  <2> QED
    BY <1>2, <2>1
<1>10. Last(open).k # "link"
  BY <1>5
<1> QED
  BY <1>2, <1>5, <1>7, <1>8, <1>9, <1>10 DEF KeptInv

\* A finished page holds nothing back.
LEMMA NothingWaits ==
  ASSUME PageInv, KeptInv, finished, NEW c \in Plain
  PROVE  /\ Occurrences(c) \in Nat /\ Said(texts, html, c) \in Nat /\ Occurrences(c) <= Said(texts, html, c)
         /\ Occurrences(c) # Said(texts, html, c) => c \in celled /\ Marked(md.out)
<1>1. md \in Pages(LineSet)
  BY PageIs
<1>2. Held(open) = "doc" /\ ~Has(open, "item") /\ ShapedFor(Held(open), md)
  BY StackBottom DEF KeptInv
<1>3. Placed(open, md, c) /\ Accounted(md, c, Said(texts, html, c), c \in celled)
  BY DEF KeptInv
<1>4. CountIn(c, md.runs) = 0 /\ Weight(TextHits(c), md.code) = 0
  BY <1>2, <1>3 DEF Placed, RunsHeld
<1>5. md.cell = <<>> /\ md.row = <<>> /\ ~md.inTable
  BY <1>2 DEF ShapedFor, Tabular
<1>6. PICK x \in Nat : x = Weight(LineHits(c), md.out)
  BY <1>1, LinesType DEF Pages
<1>7. Amount(md, c) = x
  BY <1>4, <1>6 DEF Amount
<1>8. CountIn(c, md.cell) = 0 /\ Weight(TextHits(c), md.row) = 0
  BY <1>5, CountEmpty, NoRowHits
<1>9. Stock(md, c) = x
  BY <1>5, <1>7, <1>8 DEF Stock
<1>10. Occurrences(c) = x
  BY <1>1, <1>6, OccurrencesAre DEF Pages
<1>11. Said(texts, html, c) \in Nat
  BY SaidType
<1> QED
  BY <1>3, <1>9, <1>10, <1>11 DEF Accounted

\* What a finished page shows of a character is what the document said of it;
\* or less, if it was said in a table and a row of it says that text is missing.
TextIsKept ==
  finished => \A c \in Plain :
    \/ Occurrences(c) = Said(texts, html, c)
    \/ /\ c \in celled /\ Occurrences(c) < Said(texts, html, c)
       /\ \E i \in DOMAIN md.out : /\ md.out[i].kind = "table"
                                   /\ md.out[i].mark \/ Contains(md.out[i].body, Dots)

LEMMA MarkIsSeen ==
  ASSUME PageInv, Marked(md.out)
  PROVE  \E i \in DOMAIN md.out : md.out[i].kind = "table" /\ (md.out[i].mark \/ Contains(md.out[i].body, Dots))
<1>1. PICK i \in 1 .. Len(md.out) : Warns(md.out[i])
  BY DEF Marked
<1>2. i \in DOMAIN md.out
  <2>1. md.out \in Seq(LineSet)
    BY PageIs DEF Pages
  <2> QED
    BY <2>1
<1> QED
  BY <1>1, <1>2 DEF Warns

LEMMA KeptTells == ASSUME PageInv, KeptInv PROVE TextIsKept
<1> SUFFICES ASSUME finished, NEW c \in Plain
             PROVE  \/ Occurrences(c) = Said(texts, html, c)
                    \/ /\ c \in celled /\ Occurrences(c) < Said(texts, html, c)
                       /\ \E i \in DOMAIN md.out : /\ md.out[i].kind = "table"
                                                   /\ md.out[i].mark \/ Contains(md.out[i].body, Dots)
  BY DEF TextIsKept
<1>1. PICK x \in Nat, y \in Nat : x = Occurrences(c) /\ y = Said(texts, html, c) /\ x <= y
  BY NothingWaits
<1>2. CASE x = y
  BY <1>1, <1>2
<1>3. CASE x # y
  <2>1. c \in celled /\ Marked(md.out)
    BY <1>1, <1>3, NothingWaits
  <2>2. x < y
    BY <1>1, <1>3
  <2> QED
    BY <1>1, <2>1, <2>2, MarkIsSeen
<1> QED
  BY <1>2, <1>3

\* A sequence that holds one term of weight one, and else nothing.
LEMMA WeightAlone ==
  ASSUME NEW S, NEW W \in [S -> Nat], NEW s \in Seq(S), NEW p \in 1 .. Len(s), W[s[p]] = 1,
         \A q \in 1 .. Len(s) : q # p => W[s[q]] = 0
  PROVE  Weight(W, s) = 1
<1>1. PICK n \in Nat : n = Len(s)
  OBVIOUS
<1>2. PICK a, b : a = SubSeq(s, 1, p - 1) /\ b = SubSeq(s, p + 1, Len(s))
  OBVIOUS
<1>3. a \in Seq(S) /\ b \in Seq(S) /\ Weight(W, s) = Weight(W, a) + W[s[p]] + Weight(W, b)
  BY <1>2, WeightAround
<1>4. Len(a) = p - 1 /\ \A j \in 1 .. p - 1 : a[j] = s[j]
  BY <1>1, <1>2
<1>5. Len(b) = n - p /\ \A j \in 1 .. n - p : b[j] = s[p + j]
  BY <1>1, <1>2
<1>6. \A j \in 1 .. Len(a) : W[a[j]] = 0
  <2>1. \A j \in 1 .. p - 1 : j \in 1 .. n /\ j # p
    BY <1>1
  <2> QED
    BY <1>1, <1>4, <2>1
<1>7. \A j \in 1 .. Len(b) : W[b[j]] = 0
  <2>1. \A j \in 1 .. n - p : p + j \in 1 .. n /\ p + j # p
    BY <1>1
  <2> QED
    BY <1>1, <1>5, <2>1
<1>8. Weight(W, a) = 0 /\ Weight(W, b) = 0
  BY <1>3, <1>6, <1>7, WeightNothing
<1> QED
  BY <1>3, <1>8

LEMMA LabelledIsSaidOnce ==
  ASSUME Labelled, NEW n \in Nat, n <= Len(Words), NEW k \in 1 .. n, NEW c \in Range(Words[k]), c # Space, NEW hs
  PROVE  c \in Plain /\ Said(n, hs, c) = IF k \in hs THEN 0 ELSE 1
<1>1. PICK len \in Nat : len = Len(Words) /\ DOMAIN Words = 1 .. len /\ n <= len
  BY WordsAreTexts
<1>2. \A q \in 1 .. len : Words[q] \in Txt
  BY <1>1, WordsAreTexts
<1>3. k \in 1 .. len /\ \A q \in 1 .. n : q \in 1 .. len
  BY <1>1
<1>4. PICK w \in Txt : w = Words[k]
  BY <1>2, <1>3
<1>5. w \in Seq(Character) /\ DOMAIN w = 1 .. Len(w)
  BY DEF Txt
<1>6. PICK i \in 1 .. Len(w) : w[i] = c
  BY <1>4, <1>5 DEF Range
<1>7. /\ \A l \in DOMAIN Words : \A j \in DOMAIN Words[l] : Words[l][j] = c => l = k /\ j = i
      /\ c # Dots /\ c \notin Range(Url)
  BY <1>1, <1>3, <1>4, <1>5, <1>6 DEF Labelled, Space
<1>8. c \in Character
  BY <1>5, <1>6
<1>9. c \in Plain
  BY <1>6, <1>7, <1>8 DEF Plain, Letters, Space
<1>10. CountIn(c, w) = 1
  <2>1. Hits(c) \in [Character -> Nat]
    BY HitsType
  <2>2. Hits(c)[w[i]] = 1
    BY <1>6, <1>8 DEF Hits
  <2>3. \A j \in 1 .. Len(w) : j # i => Hits(c)[w[j]] = 0
    <3>1. ASSUME NEW j \in 1 .. Len(w), j # i PROVE Hits(c)[w[j]] = 0
      <4>1. w[j] # c
        BY <1>1, <1>3, <1>4, <1>5, <1>7, <3>1
      <4>2. w[j] \in Character
        BY <1>5
      <4> QED
        BY <4>1, <4>2 DEF Hits
    <3> QED
      BY <3>1
  <2> QED
    BY <1>5, <2>1, <2>2, <2>3, WeightAlone DEF CountIn
<1>11. ASSUME NEW q \in 1 .. n, q # k PROVE CountIn(c, Words[q]) = 0
  <2>1. PICK v \in Txt : v = Words[q]
    BY <1>2, <1>3
  <2>2. c \notin Range(v)
    <3>1. ASSUME c \in Range(v) PROVE FALSE
      <4>1. PICK j \in DOMAIN v : v[j] = c
        BY <3>1 DEF Range
      <4> QED
        BY <1>1, <1>3, <1>7, <1>11, <2>1, <4>1
    <3> QED
      BY <3>1
  <2> QED
    BY <2>1, <2>2, CountNone
<1>12. PICK s : s = Spoken(n, hs)
  OBVIOUS
<1>13. TextHits(c) \in [Txt -> Nat] /\ \A x \in Txt : TextHits(c)[x] = CountIn(c, x)
  BY HitsType
<1>14. s \in Seq(Txt) /\ Len(s) = n /\ \A q \in 1 .. n : s[q] = IF q \in hs THEN <<>> ELSE Words[q]
  BY <1>12, SpokenIs
<1>15. \A q \in 1 .. n : TextHits(c)[s[q]] = IF q \in hs THEN 0 ELSE CountIn(c, Words[q])
  <2>1. CountIn(c, <<>>) = 0 /\ <<>> \in Txt
    BY CountEmpty, DispEmpty
  <2> QED
    BY <1>2, <1>3, <1>13, <1>14, <2>1
<1>16. \A q \in 1 .. Len(s) : q # k => TextHits(c)[s[q]] = 0
  BY <1>11, <1>14, <1>15
<1>17. k \in 1 .. Len(s)
  BY <1>14
<1>18. CASE k \notin hs
  <2>1. TextHits(c)[s[k]] = 1
    BY <1>4, <1>10, <1>15, <1>18
  <2>2. Weight(TextHits(c), s) = 1
    BY <1>13, <1>14, <1>16, <1>17, <2>1, WeightAlone
  <2> QED
    BY <1>9, <1>12, <1>18, <2>2 DEF Said
<1>19. CASE k \in hs
  <2>1. TextHits(c)[s[k]] = 0
    BY <1>15, <1>19
  <2>2. \A q \in 1 .. Len(s) : TextHits(c)[s[q]] = 0
    BY <1>16, <2>1
  <2>3. Weight(TextHits(c), s) = 0
    BY <1>13, <1>14, <2>2, WeightNothing
  <2> QED
    BY <1>9, <1>12, <1>19, <2>3 DEF Said
<1> QED
  BY <1>18, <1>19

LEMMA KeptMarks == ASSUME Labelled, PageInv, KeptInv PROVE LossIsMarked
<1> SUFFICES ASSUME finished, NEW k \in 1 .. texts, NEW c \in Range(Words[k]), c # Space
             PROVE  IF k \in html THEN Occurrences(c) = 0
                    ELSE \/ Occurrences(c) = 1
                         \/ /\ c \in celled /\ Occurrences(c) = 0
                            /\ \E i \in DOMAIN md.out : /\ md.out[i].kind = "table"
                                                        /\ md.out[i].mark \/ Contains(md.out[i].body, Dots)
  BY DEF LossIsMarked, Space
<1>1. texts \in Nat /\ texts <= Len(Words)
  BY DEF PageInv, KeptInv
<1>2. c \in Plain /\ Said(texts, html, c) = IF k \in html THEN 0 ELSE 1
  BY <1>1, LabelledIsSaidOnce
<1>3. PICK x \in Nat : x = Occurrences(c) /\ x <= Said(texts, html, c)
                      /\ (x # Said(texts, html, c) => c \in celled /\ Marked(md.out))
  BY <1>2, NothingWaits
<1>4. CASE k \in html
  <2>1. x = 0
    BY <1>2, <1>3, <1>4
  <2> QED
    BY <1>3, <1>4, <2>1
<1>5. CASE k \notin html /\ x = 1
  BY <1>3, <1>5
<1>6. CASE k \notin html /\ x # 1
  <2>1. x = 0
    BY <1>2, <1>3, <1>6
  <2> QED
    BY <1>2, <1>3, <1>6, <2>1, MarkIsSeen
<1> QED
  BY <1>4, <1>5, <1>6

\* Whatever the document, however narrow the pager: wrapping, the tables'
\* shrinking, cutting and dropping of columns, and the trimming of the page lose
\* and double no character of the text, but for what the rows of a table say is
\* missing; HTML, of which event() takes nothing, is no text
\* (markdown.rs wrap_runs, wrap_styled_code, render_table, finish).
THEOREM TextStaysKept == MdSpec => []TextIsKept
<1>1. MdInit => PageInv /\ KeptInv
  BY PageInitEstablishes, KeptInitEstablishes
<1>2. PageInv /\ KeptInv /\ [MdNext]_mdVars => PageInv' /\ KeptInv'
  BY PageStepKeeps, PageStutterKeeps, KeptStepKeeps, KeptStutters
<1>3. PageInv /\ KeptInv => TextIsKept
  BY KeptTells
<1> QED
  BY <1>1, <1>2, <1>3, PTL DEF MdSpec

\* The property of the run: each labelled character of the text is shown once, or
\* its table says that text is missing; one of a piece of HTML is never shown.
THEOREM LossStaysMarked == ASSUME Labelled PROVE MdSpec => []LossIsMarked
<1>1. MdInit => PageInv /\ KeptInv
  BY PageInitEstablishes, KeptInitEstablishes
<1>2. PageInv /\ KeptInv /\ [MdNext]_mdVars => PageInv' /\ KeptInv'
  BY PageStepKeeps, PageStutterKeeps, KeptStepKeeps, KeptStutters
<1>3. PageInv /\ KeptInv => LossIsMarked
  BY KeptMarks
<1> QED
  BY <1>1, <1>2, <1>3, PTL DEF MdSpec

=============================================================================
