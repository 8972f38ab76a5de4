------------------------------ MODULE ToolText ------------------------------
(* The text algorithms of the tools: finding and replacing a snippet        *)
(* (tool/edit.rs), salvaging a call's arguments (tool/repair.rs).           *)
(*                                                                          *)
(* A text is a sequence of lexemes; "LF" and "CRLF" end a line, "q" is a    *)
(* quotation mark and "b" a backslash.                                      *)
EXTENDS Integers, Sequences, SequencesExt, FiniteSets

-----------------------------------------------------------------------------
(* edit *)

At(s, sub, i) == i >= 1 /\ i + Len(sub) - 1 <= Len(s) /\ SubSeq(s, i, i + Len(sub) - 1) = sub

\* Every place where the snippet starts, overlapping ones included.
Occurrences(s, sub) == {i \in DOMAIN s : At(s, sub, i)}

\* str::matches, place by place: a match counts when it starts no earlier than
\* where the search goes on, which is behind the last one.
Matching(s, sub) ==
    LET to[n \in Nat] ==
            LET was == to[n - 1]
            IN IF n = 0 THEN [next |-> 1, count |-> 0]
               ELSE IF n >= was.next /\ At(s, sub, n) THEN [next |-> n + Len(sub), count |-> was.count + 1]
               ELSE was
    IN to
Count(s, sub) == Matching(s, sub)[Len(s)].count

\* The file's line ending is CRLF as soon as it has one.
HasCrlf(s) == "CRLF" \in Range(s)
NormalizeEol(s, crlf) ==
    [i \in DOMAIN s |-> IF s[i] \in {"LF", "CRLF"} THEN IF crlf THEN "CRLF" ELSE "LF" ELSE s[i]]

\* The first occurrence, replaced.
ReplaceFirst(s, old, new) ==
    LET i == CHOOSE i \in Occurrences(s, old) : \A j \in Occurrences(s, old) : i <= j
    IN SubSeq(s, 1, i - 1) \o new \o SubSeq(s, i + Len(old), Len(s))

-----------------------------------------------------------------------------
(* repair *)

Scan0 == [depth |-> 0, inStr |-> FALSE, escaped |-> FALSE, end |-> 0, at |-> 0]

\* One character of extract_first_json_object; it stops where depth is 0 again.
ScanStep(st, c) ==
    LET here == st.at + 1
        next == [st EXCEPT !.at = here]
    IN IF st.end # 0 THEN st
       ELSE IF st.inStr
       THEN [next EXCEPT !.escaped = ~st.escaped /\ c = "b", !.inStr = ~(~st.escaped /\ c = "q")]
       ELSE CASE c = "q" -> [next EXCEPT !.inStr = TRUE]
              [] c = "{" -> [next EXCEPT !.depth = st.depth + 1]
              [] c = "}" -> [next EXCEPT !.depth = st.depth - 1, !.end = IF st.depth = 1 THEN here ELSE 0]
              [] OTHER -> next

\* Where the scan is after each number of characters.
Scans(s) == LET st[n \in Nat] == IF n = 0 THEN Scan0 ELSE ScanStep(st[n - 1], s[n]) IN st

\* Mutant: braces inside strings count.
FirstJsonObject_NoStrings(s) ==
    LET opens == {i \in DOMAIN s : s[i] = "{"}
        start == CHOOSE i \in opens : \A j \in opens : i <= j
        tail == SubSeq(s, start, Len(s))
        bare == [i \in DOMAIN tail |-> IF tail[i] = "q" THEN "x" ELSE tail[i]]
        end == Scans(bare)[Len(bare)].end
    IN IF opens = {} THEN <<>> ELSE SubSeq(tail, 1, end)

\* The first balanced {...}, or nothing.
FirstJsonObject(s) ==
    LET opens == {i \in DOMAIN s : s[i] = "{"}
        start == CHOOSE i \in opens : \A j \in opens : i <= j
        tail == SubSeq(s, start, Len(s))
        end == Scans(tail)[Len(tail)].end
    IN IF opens = {} THEN <<>> ELSE SubSeq(tail, 1, end)

\* No text means no arguments; text that parses is taken as it is; otherwise
\* its first object, if that parses.  <<>> when nothing can be salvaged.
ParseToolArguments(raw, valid) ==
    IF raw = <<>> THEN <<<<"{", "}">>>>
    ELSE IF raw \in valid THEN <<raw>>
    ELSE IF FirstJsonObject(raw) \in valid THEN <<FirstJsonObject(raw)>> ELSE <<>>

\* For the properties: the text is what it should be, or some part of it, from
\* its first brace on, is an object.
IsObject(text) == text # <<>> /\ text[1] = "{" /\ text[Len(text)] = "}"
HoldsObject(raw, valid) ==
    \/ raw = <<>> \/ raw \in valid
    \/ \E i, j \in DOMAIN raw : /\ SubSeq(raw, i, j) \in valid /\ IsObject(SubSeq(raw, i, j))
                              /\ \A k \in 1 .. i - 1 : raw[k] # "{"

=============================================================================
