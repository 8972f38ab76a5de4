----------------------------- MODULE Completion -----------------------------
(***************************************************************************)
(* The completion popups of the modal editor: @-mentions of files, and the *)
(* pickers of /model and /mode (crates/orcarein/src/modal/mention.rs,      *)
(* model_picker.rs, mode_picker.rs).  When each is open, what it was asked *)
(* for, which candidates match, and the edit that accepts one.             *)
(***************************************************************************)
EXTENDS EditBuffer

CONSTANTS
    ModelPrefix,   \* the characters of "/model "
    ModePrefix     \* the characters of "/mode "

ASSUME PrefixAssumption == {ModelPrefix, ModePrefix} \subseteq Seq(STRING) \ {<<>>}

MentionSign == "@"
Kinds == {"mention", "model", "mode"}

Closed == [active |-> FALSE, at |-> Cursor(0, 0), query |-> <<>>,
           filtered |-> <<>>, selected |-> 0]

-----------------------------------------------------------------------------
\* Where the cursor stands: a request for completion, or none.

None == [active |-> FALSE]
Request(at, query) == [active |-> TRUE, at |-> at, query |-> query]

\* The nearest sign to the left with no blank in between; it must start a word.
MentionAsked(b) ==
    LET line  == Here(b)
        c     == Least(b.cursor.col, Len(line))
        signs == {i \in 0..(c - 1) : /\ line[i + 1] = MentionSign
                                     /\ i = 0 \/ line[i] = Blank
                                     /\ \A j \in (i + 1)..(c - 1) :
                                            line[j + 1] \notin {Blank, MentionSign}}
    IN  IF signs = {} THEN None
        ELSE LET i == CHOOSE s \in signs : TRUE
             IN  Request(Cursor(b.cursor.row, i), SubSeq(line, i + 2, c))

\* A command on the only line, the cursor in its blank-free argument.
ArgumentAsked(b, prefix) ==
    LET line == Here(b)
        arg  == SubSeq(line, Len(prefix) + 1, b.cursor.col)
    IN  IF /\ Len(b.lines) = 1
           /\ line = Front(prefix) \/ IsPrefix(prefix, line)
           /\ b.cursor.col \in Len(prefix)..Len(line)
           /\ ~Contains(arg, Blank)
        THEN Request(Cursor(0, Len(prefix)), arg)
        ELSE None

Asked(kind, b) ==
    CASE kind = "mention" -> MentionAsked(b)
      [] kind = "model" -> ArgumentAsked(b, ModelPrefix)
      [] kind = "mode" -> ArgumentAsked(b, ModePrefix)

-----------------------------------------------------------------------------
\* Which candidates match, best first.

\* The greedy match of query in name: how much is found, and between where.
GreedyMatch(query, name) ==
    FoldLeftDomain(LAMBDA m, i :
            IF m.found < Len(query) /\ name[i] = query[m.found + 1]
            THEN [found |-> m.found + 1,
                  first |-> IF m.found = 0 THEN i ELSE m.first, last |-> i]
            ELSE m,
        [found |-> 0, first |-> 0, last |-> 0], name)

OccursIn(query, name) ==
    \E i \in 0..(Len(name) - Len(query)) : SubSeq(name, i + 1, i + Len(query)) = query

\* Smaller is better: a substring before a scattered match, then the shorter
\* span, then the shorter name.
Score(query, name) ==
    LET m == GreedyMatch(query, name)
    IN  <<IF OccursIn(query, name) THEN 0 ELSE 1, m.last - m.first + 1, Len(name)>>

Better(s, t) ==
    \E k \in 1..3 : s[k] < t[k] /\ \A j \in 1..(k - 1) : s[j] = t[j]

Hit(query, name) == GreedyMatch(query, name).found = Len(query)

\* i goes before the first one of ranked that it is better than.
Rank(query, names, ranked, i) ==
    LET Beats(j) == Better(Score(query, names[i]), Score(query, names[j]))
        place == CHOOSE p \in 1..(Len(ranked) + 1) :
                    /\ p > Len(ranked) \/ Beats(ranked[p])
                    /\ \A k \in 1..(p - 1) : ~Beats(ranked[k])
    IN  InsertAt(ranked, place, i)

\* The hits among the first n names.  The candidates are listed in their
\* alphabetical order, which breaks ties.
Ranked(query, names) ==
    LET hits[n \in Nat] ==
            IF n = 0 THEN <<>>
            ELSE IF Hit(query, names[n]) THEN Rank(query, names, hits[n - 1], n) ELSE hits[n - 1]
    IN  hits

Filter(query, names) ==
    IF query = <<>> THEN [i \in 1..Len(names) |-> i] ELSE Ranked(query, names)[Len(names)]

\* The popup after the buffer changed; the selection stays where it can.
Refresh(popup, kind, b, names) ==
    LET asked == Asked(kind, b)
        hits  == Filter(asked.query, names)
    IN  IF ~asked.active THEN Closed
        ELSE [active |-> TRUE, at |-> asked.at, query |-> asked.query, filtered |-> hits,
              selected |-> Least(popup.selected, Most(Len(hits) - 1, 0))]

-----------------------------------------------------------------------------
\* Accepting: the typed request is replaced by the selected name and a blank.

Sign(kind) == IF kind = "mention" THEN <<MentionSign>> ELSE <<>>

\* The characters typed one by one.
Insert(b, text) ==
    LET typed[n \in 0..Len(text)] == IF n = 0 THEN b ELSE InsertChar(typed[n - 1], text[n])
    IN  typed[Len(text)]

\* Mutant: the sign of a mention is taken for a part of the name.
Accept_LeaveTyped(b, popup, kind, names) ==
    LET name == names[popup.filtered[popup.selected + 1]]
        end  == popup.at.col + Len(popup.query)
        gone == IF end > popup.at.col
                THEN DeleteRange(b, popup.at, Cursor(popup.at.row, end - 1))
                ELSE b
    IN  Insert(gone, Sign(kind) \o name \o <<Blank>>)
Accept(b, popup, kind, names) ==
    LET name == names[popup.filtered[popup.selected + 1]]
        end  == popup.at.col + Len(Sign(kind)) + Len(popup.query)
        gone == IF end > popup.at.col
                THEN DeleteRange(b, popup.at, Cursor(popup.at.row, end - 1))
                ELSE b
    IN  Insert(gone, Sign(kind) \o name \o <<Blank>>)
=============================================================================
