----------------------------- MODULE SseStream -----------------------------
(* The body of a streamed chat completion (openai_compat.rs): bytes come   *)
(* in chunks cut anywhere, events end at a blank line, and each `data: `   *)
(* line of an event carries one JSON chunk with text, pieces of tool calls *)
(* or the usage.  The text is handed on at once; the calls, assembled by   *)
(* their index, and the usage when the body has ended.                     *)
(*                                                                         *)
(* A byte is a symbol here: NL, DATA for the prefix `data: `, DONE for the *)
(* sentinel, a payload, which is the JSON of one chunk, or PLAIN.          *)
EXTENDS Integers, Sequences, Functions

CONSTANTS
    NL, DATA, DONE, PLAIN,
    Payloads,      \* the JSON chunks of the instance
    ChunkOf,       \* ChunkOf[p]: what the payload p parses to
    Pieces,        \* the byte strings one read may bring
    MaxIndex,      \* the largest `index` of a tool call
    Texts,         \* names, ids, pieces of arguments
    None,
    MaxBody        \* bound: bytes of one body

Bytes == {NL, DATA, DONE, PLAIN} \cup Payloads
Indices == 0 .. MaxIndex

\* StreamChunk with one choice: text or no text, a piece of a call or none,
\* the usage or none.
Deltas == [index : Indices, id : Texts \cup {None}, name : Texts \cup {None},
           args : Seq(Texts)]

ASSUME BodyAssumption ==
    /\ NL # DATA /\ DONE \notin Payloads
    /\ \A p \in Payloads : /\ ChunkOf[p].text \in Texts \cup {None}
                           /\ ChunkOf[p].delta \in Deltas \cup {None}
                           /\ ChunkOf[p].usage \in Nat \cup {None}
    /\ Pieces \subseteq Seq(Bytes) \ {<<>>}
    /\ MaxIndex \in Nat /\ MaxBody \in Nat

VARIABLES
    sent,      \* the bytes the server has sent so far
    buf,       \* the bytes not yet drained
    got,       \* what the lines so far brought: the texts yielded, in order,
               \* ToolCallAcc, last_usage, and whether all of them parsed
    handed,    \* the ToolCalls event, empty until it is yielded
    spent,     \* the Usage event, None until it is yielded
    body       \* reading, failed or ended

sseVars == <<sent, buf, got, handed, spent, body>>

\* An entry of ToolCallAcc that no piece has touched is the default one.
NoCall == [id |-> None, name |-> None, args |-> <<>>]
Nothing == [shown |-> <<>>, acc |-> [i \in Indices |-> NoCall], usage |-> None, fine |-> TRUE]

SseInit ==
    /\ sent = <<>> /\ buf = <<>>
    /\ got = Nothing
    /\ handed = <<>> /\ spent = None
    /\ body = "reading"

-----------------------------------------------------------------------------
(* ToolCallAcc *)

\* Mutant: a later piece replaces the arguments so far.
Merge_ReplacesArgs(a, d) ==
    [a EXCEPT ![d.index] =
        [id   |-> IF d.id = None THEN @.id ELSE d.id,
         name |-> IF d.name = None THEN @.name ELSE d.name,
         args |-> IF d.args = <<>> THEN @.args ELSE d.args]]

Merge(a, d) ==
    [a EXCEPT ![d.index] =
        [id   |-> IF d.id = None THEN @.id ELSE d.id,
         name |-> IF d.name = None THEN @.name ELSE d.name,
         args |-> @.args \o d.args]]

Complete(a, i) == a[i].id # None /\ a[i].name # None

\* In the order of the indices, without the calls that lack an id or a name.
Finalize(a) ==
    LET below[n \in Nat] ==
            IF n = 0 THEN <<>>
            ELSE IF Complete(a, n - 1) THEN Append(below[n - 1], a[n - 1]) ELSE below[n - 1]
    IN  below[MaxIndex + 1]

-----------------------------------------------------------------------------
(* Events and lines *)

IsSeparator(s, i) == s[i] = NL /\ s[i + 1] = NL
Separators(s) == {i \in 1 .. Len(s) - 1 : IsSeparator(s, i)}

\* find_separator: the first one.
FindSeparator(s) == CHOOSE i \in Separators(s) : \A j \in Separators(s) : i <= j

\* A line that begins at i with the prefix, and what stands behind the prefix.
IsDataLine(s, i) == s[i] = DATA /\ (i = 1 \/ s[i - 1] = NL)
Sentinel(s, i) == s[i + 1] = DONE /\ s[i + 2] = NL
Parses(s, i) == s[i + 1] \in Payloads /\ s[i + 2] = NL

Take(g, c) ==
    [g EXCEPT !.shown = IF c.text = None THEN @ ELSE Append(@, c.text),
              !.acc = IF c.delta = None THEN @ ELSE Merge(@, c.delta),
              !.usage = IF c.usage = None THEN @ ELSE c.usage]

\* One line: skip it, take its chunk, or fail, after which no line is read.
ReadLine(s, i, g) ==
    IF ~g.fine \/ ~IsDataLine(s, i) \/ Sentinel(s, i) THEN g
    ELSE IF Parses(s, i) THEN Take(g, ChunkOf[s[i + 1]])
    ELSE [g EXCEPT !.fine = FALSE]

\* The lines that begin in the first n bytes, one after the other.
Read(s, g) ==
    LET upTo[n \in Nat] == IF n = 0 THEN g ELSE ReadLine(s, n, upTo[n - 1])
    IN  upTo

-----------------------------------------------------------------------------
(* The stream *)

Drained == Separators(buf) = {}

\* Mutant: each read starts a new buffer.
Receive_DropsTail ==
    /\ body = "reading" /\ Drained
    /\ \E piece \in Pieces :
         /\ Len(sent) + Len(piece) <= MaxBody
         /\ sent' = sent \o piece
         /\ buf' = piece
    /\ UNCHANGED <<got, handed, spent, body>>

Receive ==
    /\ body = "reading" /\ Drained
    /\ \E piece \in Pieces :
         /\ Len(sent) + Len(piece) <= MaxBody
         /\ sent' = sent \o piece
         /\ buf' = buf \o piece
    /\ UNCHANGED <<got, handed, spent, body>>

\* One event is drained, and its lines are read.
Decode ==
    /\ body = "reading" /\ ~Drained
    /\ LET end == FindSeparator(buf) + 1
       IN  /\ got' = Read(SubSeq(buf, 1, end), got)[end]
           /\ buf' = SubSeq(buf, end + 1, Len(buf))
    /\ body' = IF got'.fine THEN "reading" ELSE "failed"
    /\ UNCHANGED <<sent, handed, spent>>

\* The transport reports an error.
Break ==
    /\ body = "reading" /\ Drained
    /\ body' = "failed"
    /\ UNCHANGED <<sent, buf, got, handed, spent>>

\* The body ends, wherever it ends: the bytes of an unfinished event are left.
End ==
    /\ body = "reading" /\ Drained
    /\ body' = "ended"
    /\ handed' = Finalize(got.acc)
    /\ spent' = got.usage
    /\ UNCHANGED <<sent, buf, got>>

SseNext == Receive \/ Decode \/ Break \/ End

SseSpec == SseInit /\ [][SseNext]_sseVars

-----------------------------------------------------------------------------
(* What the bytes mean, said of the whole body at once *)

\* A blank line comes somewhere after the byte at i.
Delivered(i) == \E j \in i + 1 .. Len(sent) - 1 : IsSeparator(sent, j)
DataLines == {i \in 1 .. Len(sent) : IsDataLine(sent, i) /\ Delivered(i)}
Spoiled == {i \in DataLines : ~Sentinel(sent, i) /\ ~Parses(sent, i)}

\* The lines that count, and what each of them says.
Counted == {i \in DataLines : Parses(sent, i) /\ \A j \in Spoiled : i < j}
Meant(i) == ChunkOf[sent[i + 1]]

Spoken == {n \in Counted : Meant(n).text # None}
Billed == {n \in Counted : Meant(n).usage # None}
PartsOf(i) == {n \in Counted : Meant(n).delta # None /\ Meant(n).delta.index = i}
NamedIn(i) == {n \in PartsOf(i) : Meant(n).delta.name # None}
IdentifiedIn(i) == {n \in PartsOf(i) : Meant(n).delta.id # None}

LastOf(S) == CHOOSE n \in S : \A m \in S : m <= n

\* The arguments of all parts of call i, put together.
Assembled(i) ==
    LET parts == PartsOf(i)
        upTo[n \in Nat] == IF n = 0 THEN <<>>
                           ELSE IF n \in parts THEN upTo[n - 1] \o Meant(n).delta.args
                           ELSE upTo[n - 1]
    IN  upTo

\* Call i as the server means it, if it gives it a name and an id.
MeantCall(i) == [id |-> Meant(LastOf(IdentifiedIn(i))).delta.id,
                 name |-> Meant(LastOf(NamedIn(i))).delta.name,
                 args |-> Assembled(i)[Len(sent)]]

Enumerates(place, S) == /\ Range(place) = S
                        /\ \A j, k \in DOMAIN place : j < k => place[j] < place[k]

-----------------------------------------------------------------------------
(* Properties *)

\* Wherever the reads cut the body, the text handed on is the text of its
\* delivered lines, and a line that does not parse ends the stream there.
TextAsSent ==
    Drained \/ body = "failed" =>
        /\ body # "failed" => Spoiled = {}
        /\ \E place \in [DOMAIN got.shown -> Spoken] :
              /\ Enumerates(place, Spoken)
              /\ \A k \in DOMAIN place : got.shown[k] = Meant(place[k]).text

\* A call handed to the agent has its arguments whole and in order, although
\* the pieces of several calls may come interleaved; calls that never got an
\* id or a name are left out, and the order is that of the indices.  The usage
\* is the last one sent.  Nothing is handed on before the body has ended, or
\* from one that broke.
CallsWhole ==
    IF body = "ended"
    THEN LET whole == {i \in Indices : NamedIn(i) # {} /\ IdentifiedIn(i) # {}}
         IN  /\ \E order \in [DOMAIN handed -> whole] :
                   /\ Enumerates(order, whole)
                   /\ \A k \in DOMAIN order : handed[k] = MeantCall(order[k])
             /\ spent = IF Billed = {} THEN None ELSE Meant(LastOf(Billed)).usage
    ELSE handed = <<>> /\ spent = None
=============================================================================
