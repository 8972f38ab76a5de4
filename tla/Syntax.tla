------------------------------- MODULE Syntax -------------------------------
(* The highlighter of code blocks (syntax.rs): one action per round of       *)
(* highlight's loop over one line. A character is its class, written as one  *)
(* of its members or by a name; "none" is no character.                      *)
EXTENDS Integers, Sequences

CONSTANTS
  Chars,     \* the characters a line is made of
  Keywords,  \* for each language, its keywords
  MaxLen     \* characters in a line

ASSUME LineAssumption == MaxLen \in Nat /\ "none" \notin Chars

VARIABLES text, lang, i, runs

synVars == <<text, lang, i, runs>>

N == Len(text)
CharAt(t, k) == IF k \in 1..Len(t) THEN t[k] ELSE "none"
Char(k) == CharAt(text, k)

(* A letter outside ASCII goes on with a word, but not with a number.        *)
DigitChars == {"1"}
Letters == {"a", "accented"}
WordChars == DigitChars \cup Letters \cup {"_"}
NumberChars == {"1", "a", "_", "."}
Quotes == {"quote", "'", "backtick"}

(* profile_for: how comments start; the keywords are the constant.           *)
CLike == {"rust", "js", "ts", "go", "c", "cpp"}
HashLike == {"python", "bash", "toml"}
LineComments == IF lang \in CLike THEN {<<"/", "/">>} ELSE IF lang \in HashLike THEN {<<"#">>} ELSE {}

StartsWith(k, pat) == k + Len(pat) - 1 <= N /\ \A m \in 1..Len(pat) : text[k + m - 1] = pat[m]

SynInit ==
  /\ text \in UNION {[1..n -> Chars] : n \in 0..MaxLen}
  /\ lang \in DOMAIN Keywords
  /\ i = 1 /\ runs = <<>>

(* The next run goes up to stop, which it leaves out; equal kinds coalesce. *)
Push(stop, kind) ==
  /\ LET s == SubSeq(text, i, stop - 1)
         n == Len(runs)
     IN runs' = IF n > 0 /\ runs[n].kind = kind THEN [runs EXCEPT ![n].text = @ \o s]
                ELSE Append(runs, [text |-> s, kind |-> kind])
  /\ i' = stop
  /\ UNCHANGED <<text, lang>>

AtLineComment == \E pat \in LineComments : StartsWith(i, pat)
AtBlockComment == lang \in CLike /\ StartsWith(i, <<"/", "*">>)

LineComment == i <= N /\ AtLineComment /\ Push(N + 1, "comment")

BlockEnd(from) ==
  LET ends == {k \in from..N : StartsWith(k, <<"*", "/">>)}
  IN IF ends = {} THEN N + 1 ELSE (CHOOSE k \in ends : \A m \in ends : k <= m) + 2
BlockComment == i <= N /\ ~AtLineComment /\ AtBlockComment /\ Push(BlockEnd(i + 2), "comment")

InCode == i <= N /\ ~AtLineComment /\ ~AtBlockComment

(* Mutant: a backslash skips nothing. *)
StringEnd_NoEscape(q, from) ==
  LET ends == {k \in from..N : text[k] = q}
  IN IF ends = {} THEN N + 1 ELSE (CHOOSE k \in ends : \A m \in ends : k <= m) + 1

(* Where the scan for q stands after n rounds, which is at q or past the end *)
(* when there is nothing more to do.                                         *)
StringScan(q, from) ==
  LET after[n \in Nat] ==
        IF n = 0 THEN from
        ELSE LET j == after[n - 1]
             IN IF j > N \/ text[j] = q THEN j
                ELSE IF text[j] = "backslash" THEN j + 2 ELSE j + 1
  IN after
StringEnd(q, from) ==
  LET j == StringScan(q, from)[N]
  IN IF j > N THEN N + 1 ELSE j + 1
StringRun == InCode /\ Char(i) \in Quotes /\ Push(StringEnd(Char(i), i + 1), "string")

(* The first position from `from` whose character is not in S. *)
EndOf(from, S) == CHOOSE k \in from..(N + 1) : Char(k) \notin S /\ \A m \in from..(k - 1) : Char(m) \in S

NumberRun == InCode /\ Char(i) \in DigitChars /\ Push(EndOf(i + 1, NumberChars), "number")

WordRun ==
  /\ InCode /\ Char(i) \in WordChars \ DigitChars
  /\ LET stop == EndOf(i + 1, WordChars)
     IN Push(stop, IF SubSeq(text, i, stop - 1) \in Keywords[lang] THEN "keyword" ELSE "plain")

OtherChar == InCode /\ Char(i) \notin WordChars \cup Quotes /\ Push(i + 1, "plain")

SynNext == LineComment \/ BlockComment \/ StringRun \/ NumberRun \/ WordRun \/ OtherChar

SynSpec == SynInit /\ [][SynNext]_synVars

-----------------------------------------------------------------------------
(* What the characters of a line t say: the mode a reader is in after the    *)
(* k-th, who takes one at a time and looks at the next. In a string, `by` is *)
(* its quotation mark.                                                       *)
Mode(m) == [in |-> m, by |-> "none"]

Begin(t, l, k) ==
  LET c == CharAt(t, k)
      next == CharAt(t, k + 1)
  IN CASE l \in CLike /\ c = "/" /\ next = "/" -> Mode("line")
       [] l \in CLike /\ c = "/" /\ next = "*" -> Mode("open")
       [] l \in HashLike /\ c = "#" -> Mode("line")
       [] c \in Quotes -> [in |-> "string", by |-> c]
       [] c \in DigitChars -> Mode("number")
       [] c \in WordChars \ DigitChars -> Mode("word")
       [] OTHER -> Mode("code")

Advance(t, l, m, k) ==
  LET c == CharAt(t, k)
  IN CASE m.in = "line" -> m
       [] m.in = "open" -> Mode("block")
       [] m.in = "block" -> IF c = "*" /\ CharAt(t, k + 1) = "/" THEN Mode("close") ELSE m
       [] m.in = "close" -> Mode("closed")
       [] m.in = "string" -> IF c = "backslash" THEN [m EXCEPT !.in = "escape"]
                             ELSE IF c = m.by THEN Mode("end") ELSE m
       [] m.in = "escape" -> [m EXCEPT !.in = "string"]
       [] m.in = "number" /\ c \in NumberChars -> m
       [] m.in = "word" /\ c \in WordChars -> m
       [] OTHER -> Begin(t, l, k)

ModeAfter(t, l) ==
  LET mode[k \in Nat] == IF k = 0 THEN Mode("code") ELSE Advance(t, l, mode[k - 1], k)
  IN mode

InWord(t, l, k) == k \in 1..Len(t) /\ ModeAfter(t, l)[k].in = "word"

(* The word that the character at k is in. *)
WordAt(t, l, k) ==
  LET from == CHOOSE a \in 1..k : ~InWord(t, l, a - 1) /\ \A m \in a..k : InWord(t, l, m)
      to == CHOOSE b \in k..Len(t) : ~InWord(t, l, b + 1) /\ \A m \in k..b : InWord(t, l, m)
  IN SubSeq(t, from, to)

KindOf(m) == IF m \in {"line", "open", "block", "close", "closed"} THEN "comment"
             ELSE IF m \in {"string", "escape", "end"} THEN "string"
             ELSE IF m = "number" THEN "number"
             ELSE "plain"
KindAt(t, l, k) == IF InWord(t, l, k) /\ WordAt(t, l, k) \in Keywords[l] THEN "keyword"
                   ELSE KindOf(ModeAfter(t, l)[k].in)

(* The texts of the first r runs, put together. *)
Written ==
  LET upTo[r \in 0..Len(runs)] == IF r = 0 THEN <<>> ELSE upTo[r - 1] \o runs[r].text
  IN upTo

(* "the run texts concatenate back to line exactly" (syntax.rs:199), each    *)
(* character is in a run of the kind a character-by-character reading gives  *)
(* it, and a run ends only where the kind changes.                           *)
RunsAreLexical ==
  i > N =>
    /\ Written[Len(runs)] = text
    /\ \A r \in DOMAIN runs : \A k \in Len(Written[r - 1]) + 1 .. Len(Written[r]) :
         runs[r].kind = KindAt(text, lang, k)
    /\ \A r \in 2..Len(runs) : runs[r].kind # runs[r - 1].kind
=============================================================================
