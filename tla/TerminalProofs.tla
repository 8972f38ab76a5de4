--------------------------- MODULE TerminalProofs ---------------------------
(***************************************************************************)
(* The modal editor, for any keys, history and candidates: undo and redo   *)
(* are what UndoHistory promises, and a popup's selection is one of its    *)
(* candidates.  A key works on the text or leaves it alone (Stage); what   *)
(* that means for the versions follows from how the history grows.         *)
(* Then the text itself: after each operation the cursor stands on a       *)
(* character (Calm, Sel), which the completion of a name and the frame     *)
(* rest on.  At the end, the highlighter: its runs are what a reader of    *)
(* one character at a time sees.                                           *)
(***************************************************************************)
EXTENDS Editor, Syntax, BasicLemmas, SequenceTheorems, FiniteSetTheorems

-----------------------------------------------------------------------------
\* Motions and edits

Fields == {"lines", "cursor", "mode", "anchor", "register", "desired", "undo", "redo"}

\* A buffer, whatever its text; and what working on one leaves alone.
BufShape(b) == DOMAIN b = Fields /\ b.register.linewise \in BOOLEAN
Works(b, c) == BufShape(c) /\ c.undo = b.undo /\ c.redo = b.redo
Moves(b, c) == Works(b, c) /\ c.lines = b.lines

\* Motions and modes.
LEMMA ClampMoves == ASSUME NEW b, BufShape(b) PROVE Moves(b, ClampCursor(b))
  BY DEF ClampCursor, BufShape, Works, Moves, Fields

\* A motion moves the cursor and keeps the text.
LEMMA SeekMoves == ASSUME NEW b, NEW c, BufShape(b) PROVE Moves(b, Seek(b, c))
<1> DEFINE b1 == [b EXCEPT !.cursor.col = c]
           b2 == ClampCursor(b1)
<1>1. Moves(b, b1)
  BY DEF BufShape, Works, Moves, Fields
<1>2. Moves(b1, b2)
  BY <1>1, ClampMoves DEF Moves, Works
<1> HIDE DEF b1, b2
<1>3. Moves(b2, [b2 EXCEPT !.desired = b2.cursor.col])
  BY <1>2 DEF BufShape, Works, Moves, Fields
<1>4. Seek(b, c) = [b2 EXCEPT !.desired = b2.cursor.col]
  BY DEF Seek, b1, b2
<1> QED
  BY <1>1, <1>2, <1>3, <1>4 DEF Moves, Works

LEMMA ToRowMoves == ASSUME NEW b, NEW r, BufShape(b) PROVE Moves(b, ToRow(b, r))
<1> DEFINE goal == Most(b.desired, b.cursor.col)
           b1 == [b EXCEPT !.desired = goal, !.cursor = Cursor(r, goal)]
<1>1. Moves(b, b1)
  BY DEF BufShape, Works, Moves, Fields
<1>2. ToRow(b, r) = ClampCursor(b1)
  BY DEF ToRow
<1> HIDE DEF b1
<1> QED
  BY <1>1, <1>2, ClampMoves DEF Moves, Works

LEMMA MoveMoves == ASSUME NEW b, NEW motion, BufShape(b) PROVE Moves(b, Move(b, motion))
<1>1. CASE motion \in {"Up", "Down"}
  <2>1. PICK r : Move(b, motion) = ToRow(b, r)
    BY <1>1 DEF Move
  <2> QED
    BY <2>1, ToRowMoves
<1>2. CASE motion \in {"BufferTop", "BufferBottom"}
  <2> DEFINE b1 == [b EXCEPT !.cursor.row = IF motion = "BufferTop" THEN 0 ELSE LastRow(b)]
  <2>1. Moves(b, b1)
    BY DEF BufShape, Works, Moves, Fields
  <2>2. Move(b, motion) = Seek(b1, 0)
    BY <1>2 DEF Move
  <2> HIDE DEF b1
  <2> QED
    BY <2>1, <2>2, SeekMoves DEF Moves, Works
<1>3. CASE motion \notin {"Up", "Down", "BufferTop", "BufferBottom"}
  BY <1>3, SeekMoves DEF Move
<1> QED
  BY <1>1, <1>2, <1>3

\* A mode is entered without a change of the text.
LEMMA EnterMoves == ASSUME NEW b, NEW mode, BufShape(b) PROVE Moves(b, Enter(b, mode))
<1> DEFINE b1 == [b EXCEPT !.mode = mode]
<1>1. Moves(b, b1)
  BY DEF BufShape, Works, Moves, Fields
<1>2. Enter(b, mode) = ClampCursor(b1)
  BY DEF Enter
<1> HIDE DEF b1
<1> QED
  BY <1>1, <1>2, ClampMoves DEF Moves, Works

\* One thing after another.
LEMMA MovesOn == ASSUME NEW b, NEW c, NEW d, Moves(b, c), Moves(c, d) PROVE Moves(b, d)
  BY DEF Moves, Works

LEMMA WorksOn == ASSUME NEW b, NEW c, NEW d, Works(b, c), Works(c, d) PROVE Works(b, d)
  BY DEF Works

LEMMA ShapeKept == ASSUME NEW b, NEW c, Works(b, c) PROVE BufShape(c)
  BY DEF Works

\* Single fields that are set.
LEMMA FieldMoves ==
  ASSUME NEW b, BufShape(b), NEW f \in {"cursor", "mode", "anchor", "desired"}, NEW v
  PROVE  Moves(b, [b EXCEPT ![f] = v])
  BY DEF BufShape, Works, Moves, Fields

LEMMA LinesWork == ASSUME NEW b, BufShape(b), NEW v PROVE Works(b, [b EXCEPT !.lines = v])
  BY DEF BufShape, Works, Fields

LEMMA RegisterMoves ==
  ASSUME NEW b, BufShape(b), NEW txt, NEW linewise \in BOOLEAN
  PROVE  Moves(b, SetRegister(b, txt, linewise))
  BY DEF SetRegister, BufShape, Works, Moves, Fields

\* Editing: a version is pushed, and the text worked on.
Commits(b, c) == Works(PushUndo(b), c)

LEMMA PushShapes == ASSUME NEW b, BufShape(b) PROVE BufShape(PushUndo(b))
  BY DEF PushUndo, BufShape, Fields

LEMMA CommitsOn == ASSUME NEW b, NEW c, NEW d, Commits(b, c), Works(c, d) PROVE Commits(b, d)
  BY WorksOn DEF Commits

\* Rows that are replaced.
LEMMA RowsWork == ASSUME NEW b, BufShape(b), NEW from, NEW to, NEW new PROVE Works(b, ReplaceRows(b, from, to, new))
  BY LinesWork DEF ReplaceRows

LEMMA HereWorks == ASSUME NEW b, BufShape(b), NEW line PROVE Works(b, SetHere(b, line))
  BY DEF SetHere, BufShape, Works, Fields

\* Typing pushes one version and works on the text.
LEMMA InsertsCommit ==
  ASSUME NEW b, BufShape(b)
  PROVE  /\ \A ch : Commits(b, InsertChar(b, ch))
         /\ Commits(b, InsertNewline(b))
         /\ Backspace(b) = b \/ Commits(b, Backspace(b))
<1>1. BufShape(PushUndo(b))
  BY PushShapes
<1>2. ASSUME NEW ch PROVE Commits(b, InsertChar(b, ch))
  <2> DEFINE c == b.cursor.col
             b1 == SetHere(PushUndo(b), Take(Here(b), c) \o <<ch>> \o Drop(Here(b), c))
  <2>1. Works(PushUndo(b), b1)
    BY <1>1, HereWorks
  <2>2. InsertChar(b, ch) = [b1 EXCEPT !.cursor.col = c + 1, !.desired = c + 1]
    BY DEF InsertChar
  <2> HIDE DEF b1
  <2>3. Works(b1, InsertChar(b, ch))
    BY <2>1, <2>2 DEF BufShape, Works, Fields
  <2> QED
    BY <2>1, <2>3, CommitsOn DEF Commits
<1>3. Commits(b, InsertNewline(b))
  <2> DEFINE r == b.cursor.row
             c == b.cursor.col
             b1 == ReplaceRows(PushUndo(b), r, r, <<Take(Here(b), c), Drop(Here(b), c)>>)
  <2>1. Works(PushUndo(b), b1)
    BY <1>1, RowsWork
  <2>2. InsertNewline(b) = [b1 EXCEPT !.cursor = Cursor(r + 1, 0), !.desired = 0]
    BY DEF InsertNewline
  <2> HIDE DEF b1
  <2>3. Works(b1, InsertNewline(b))
    BY <2>1, <2>2 DEF BufShape, Works, Fields
  <2> QED
    BY <2>1, <2>3, CommitsOn DEF Commits
<1>4. Backspace(b) = b \/ Commits(b, Backspace(b))
  <2> DEFINE r == b.cursor.row
             c == b.cursor.col
             above == LineAt(b, r - 1)
             b1 == SetHere(PushUndo(b), Take(Here(b), c - 1) \o Drop(Here(b), c))
             b2 == ReplaceRows(PushUndo(b), r - 1, r, <<above \o Here(b)>>)
             e1 == [b1 EXCEPT !.cursor.col = c - 1, !.desired = c - 1]
             e2 == [b2 EXCEPT !.cursor = Cursor(r - 1, Len(above)), !.desired = Len(above)]
  <2>1. Works(PushUndo(b), b1) /\ Works(PushUndo(b), b2)
    BY <1>1, HereWorks, RowsWork
  <2>2. Works(b1, e1) /\ Works(b2, e2)
    <3> HIDE DEF b1, b2
    <3> QED
      BY <2>1 DEF BufShape, Works, Fields
  <2>3. Backspace(b) \in {b, e1, e2}
    BY DEF Backspace
  <2> HIDE DEF b1, b2, e1, e2
  <2> QED
    BY <2>1, <2>2, <2>3, CommitsOn DEF Commits
<1> QED
  BY <1>2, <1>3, <1>4

\* So do the commands on whole lines and on a character,
LEMMA LinesCommit ==
  ASSUME NEW b, BufShape(b)
  PROVE  /\ \A r : Commits(b, OpenAt(b, r))
         /\ DeleteChar(b) = b \/ Commits(b, DeleteChar(b))
         /\ Commits(b, DeleteLine(b))
         /\ Commits(b, ChangeLine(b))
<1>1. BufShape(PushUndo(b))
  BY PushShapes
<1>2. ASSUME NEW r PROVE Commits(b, OpenAt(b, r))
  <2> DEFINE b0 == PushUndo(b)
             b1 == [b0 EXCEPT !.lines = InsertAt(@, r + 1, <<>>), !.cursor = Cursor(r, 0)]
  <2>1. Works(b0, b1)
    <3> HIDE DEF b0
    <3>1. BufShape(b0)
      BY <1>1 DEF b0
    <3> QED
      BY <3>1 DEF BufShape, Works, Fields
  <2>2. OpenAt(b, r) = Enter(b1, "insert")
    BY DEF OpenAt
  <2> HIDE DEF b0, b1
  <2>3. Works(b1, OpenAt(b, r))
    BY <2>1, <2>2, EnterMoves DEF Works, Moves
  <2> QED
    BY <2>1, <2>3, WorksOn DEF Commits, b0
<1>3. DeleteChar(b) = b \/ Commits(b, DeleteChar(b))
  <2> DEFINE c == b.cursor.col
             b1 == SetHere(PushUndo(b), Take(Here(b), c) \o Drop(Here(b), c + 1))
             b2 == Charwise(b1, << <<Here(b)[c + 1]>> >>)
             b3 == ClampCursor(b2)
  <2>1. Works(PushUndo(b), b1)
    BY <1>1, HereWorks
  <2>2. Works(b1, b2)
    <3> HIDE DEF b1
    <3> QED
      BY <2>1, RegisterMoves DEF Works, Moves, Charwise
  <2>3. Works(b2, b3)
    <3> HIDE DEF b2
    <3> QED
      BY <2>2, ClampMoves DEF Works, Moves
  <2>4. DeleteChar(b) \in {b, b3}
    BY DEF DeleteChar
  <2> HIDE DEF b1, b2, b3
  <2> QED
    BY <2>1, <2>2, <2>3, <2>4, CommitsOn DEF Commits
<1>4. Commits(b, DeleteLine(b))
  <2> DEFINE r == b.cursor.row
             b1 == ReplaceRows(PushUndo(b), r, r, <<>>)
             gone == KeepALine(b1)
             b3 == Linewise(gone, <<Here(b)>>)
             b4 == [b3 EXCEPT !.cursor.col = 0]
  <2>1. Works(PushUndo(b), b1)
    BY <1>1, RowsWork
  <2>2. Works(b1, gone)
    <3> HIDE DEF b1
    <3>1. BufShape(b1)
      BY <2>1 DEF Works
    <3>2. Works(b1, b1) /\ Works(b1, [b1 EXCEPT !.lines = EmptyText])
      BY <3>1, LinesWork DEF Works
    <3> QED
      BY <3>2 DEF KeepALine
  <2>3. Works(gone, b3)
    <3> HIDE DEF gone
    <3> QED
      BY <2>2, RegisterMoves DEF Works, Moves, Linewise
  <2>4. Works(b3, b4)
    <3> HIDE DEF b3
    <3> QED
      BY <2>3 DEF BufShape, Works, Fields
  <2>5. DeleteLine(b) = ClampCursor(b4)
    BY DEF DeleteLine
  <2> HIDE DEF b1, gone, b3, b4
  <2>6. Works(b4, DeleteLine(b))
    BY <2>4, <2>5, ClampMoves DEF Works, Moves
  <2> QED
    BY <2>1, <2>2, <2>3, <2>4, <2>6, CommitsOn DEF Commits
<1>5. Commits(b, ChangeLine(b))
  <2> DEFINE b1 == SetHere(PushUndo(b), <<>>)
             b2 == Linewise(b1, <<Here(b)>>)
             b3 == [b2 EXCEPT !.cursor.col = 0]
  <2>1. Works(PushUndo(b), b1)
    BY <1>1, HereWorks
  <2>2. Works(b1, b2)
    <3> HIDE DEF b1
    <3> QED
      BY <2>1, RegisterMoves DEF Works, Moves, Linewise
  <2>3. Works(b2, b3)
    <3> HIDE DEF b2
    <3> QED
      BY <2>2 DEF BufShape, Works, Fields
  <2>4. ChangeLine(b) = Enter(b3, "insert")
    BY DEF ChangeLine
  <2> HIDE DEF b1, b2, b3
  <2>5. Works(b3, ChangeLine(b))
    BY <2>3, <2>4, EnterMoves DEF Works, Moves
  <2> QED
    BY <2>1, <2>2, <2>3, <2>5, CommitsOn DEF Commits
<1> QED
  BY <1>2, <1>3, <1>4, <1>5

\* ranges,
LEMMA RangesWork ==
  ASSUME NEW b, BufShape(b)
  PROVE  /\ \A p, q : Works(b, DeleteRangeNoUndo(b, p, q))
         /\ \A p, q : Moves(b, YankRange(b, p, q))
         /\ \A r, c, txt : Works(b, SpliceCharwise(b, r, c, txt))
<1>1. ASSUME NEW p, NEW q PROVE Works(b, DeleteRangeNoUndo(b, p, q))
  <2> DEFINE lo == Low(p, q)
             hi == High(p, q)
             joined == Take(LineAt(b, lo.row), lo.col) \o Drop(LineAt(b, hi.row), hi.col + 1)
             b1 == ReplaceRows(b, lo.row, hi.row, <<joined>>)
             b2 == Charwise(b1, CollectRange(b, lo, hi))
             b3 == [b2 EXCEPT !.cursor = lo]
  <2>1. Works(b, b1)
    BY RowsWork
  <2>2. Works(b1, b2)
    <3> HIDE DEF b1
    <3> QED
      BY <2>1, RegisterMoves DEF Works, Moves, Charwise
  <2>3. Works(b2, b3)
    <3> HIDE DEF b2, lo
    <3> QED
      BY <2>2 DEF BufShape, Works, Fields
  <2>4. DeleteRangeNoUndo(b, p, q) = ClampCursor(b3)
    BY DEF DeleteRangeNoUndo
  <2> HIDE DEF b1, b2, b3
  <2>5. Works(b3, DeleteRangeNoUndo(b, p, q))
    BY <2>3, <2>4, ClampMoves DEF Works, Moves
  <2> QED
    BY <2>1, <2>2, <2>3, <2>5, WorksOn
<1>2. ASSUME NEW p, NEW q PROVE Moves(b, YankRange(b, p, q))
  BY RegisterMoves DEF YankRange, Charwise
<1>3. ASSUME NEW r, NEW c, NEW txt PROVE Works(b, SpliceCharwise(b, r, c, txt))
  <2>1. PICK woven, to : SpliceCharwise(b, r, c, txt) = [ReplaceRows(b, r, r, woven) EXCEPT !.cursor = to]
    BY DEF SpliceCharwise
  <2>2. PICK b1 : b1 = ReplaceRows(b, r, r, woven)
    OBVIOUS
  <2>3. Works(b, b1)
    BY <2>2, RowsWork
  <2>4. Works(b1, [b1 EXCEPT !.cursor = to])
    BY <2>3 DEF BufShape, Works, Fields
  <2> QED
    BY <2>1, <2>2, <2>3, <2>4, WorksOn
<1> QED
  BY <1>1, <1>2, <1>3

LEMMA RangeCommits == ASSUME NEW b, BufShape(b), NEW p, NEW q PROVE Commits(b, DeleteRange(b, p, q))
  BY PushShapes, RangesWork DEF Commits, DeleteRange

\* pasting,
LEMMA PasteCommits ==
  ASSUME NEW b, BufShape(b), NEW r, NEW c
  PROVE  Paste(b, r, c) = b \/ Commits(b, Paste(b, r, c))
<1> DEFINE reg == b.register
           b1 == ReplaceRows(PushUndo(b), r, r - 1, reg.text)
           b2 == [b1 EXCEPT !.cursor = Cursor(r, 0)]
           b3 == SpliceCharwise(PushUndo(b), b.cursor.row, c, reg.text)
<1>1. BufShape(PushUndo(b))
  BY PushShapes
<1>2. Works(PushUndo(b), b1) /\ Works(PushUndo(b), b3)
  BY <1>1, RowsWork, RangesWork
<1>3. Works(b1, b2)
  <2> HIDE DEF b1
  <2> QED
    BY <1>2 DEF BufShape, Works, Fields
<1>4. Works(b2, ClampCursor(b2)) /\ Works(b3, ClampCursor(b3))
  <2> HIDE DEF b1, b2, b3
  <2> QED
    BY <1>2, <1>3, ClampMoves DEF Works, Moves
<1>5. Paste(b, r, c) \in {b, ClampCursor(b2), ClampCursor(b3)}
  <2>1. reg.linewise \in BOOLEAN
    BY DEF BufShape
  <2> HIDE DEF b2, b3
  <2>2. CASE reg.text = EmptyText /\ ~reg.linewise
    BY <2>2 DEF Paste
  <2>3. CASE reg.linewise
    BY <2>3 DEF Paste, b2
  <2>4. CASE reg.text # EmptyText /\ ~reg.linewise
    BY <2>4 DEF Paste, b3
  <2> QED
    BY <2>1, <2>2, <2>3, <2>4
<1> HIDE DEF b1, b2, b3
<1> QED
  BY <1>2, <1>3, <1>4, <1>5, WorksOn DEF Commits

\* and the selection.
LEMMA SelectionWorks ==
  ASSUME NEW b, BufShape(b)
  PROVE  /\ Moves(b, YankSelection(b))
         /\ \A mode : Commits(b, EndSelection(b, mode))
<1>1. Moves(b, YankSelection(b))
  <2>1. PICK b1, b2 : /\ b1 = IF b.mode = "vline" THEN Linewise(b, SelectedRows(b))
                               ELSE YankRange(b, SelectionLow(b), SelectionHigh(b))
                      /\ b2 = [b1 EXCEPT !.anchor = NoAnchor]
    OBVIOUS
  <2>2. Moves(b, b1)
    BY <2>1, RegisterMoves, RangesWork DEF Linewise
  <2>3. Moves(b1, b2)
    BY <2>1, <2>2 DEF BufShape, Works, Moves, Fields
  <2>4. YankSelection(b) = Enter(b2, "normal")
    BY <2>1 DEF YankSelection
  <2>5. Moves(b2, YankSelection(b))
    BY <2>3, <2>4, EnterMoves DEF Works, Moves
  <2> QED
    BY <2>2, <2>3, <2>5, MovesOn
<1>2. ASSUME NEW a, BufShape(a) PROVE Works(a, DeleteSelectionInner(a))
  <2> DEFINE lo == SelectionLow(a)
             hi == SelectionHigh(a)
             b1 == ReplaceRows(a, lo.row, Least(hi.row, LastRow(a)), <<>>)
             b2 == KeepALine(b1)
             b3 == Linewise(b2, SelectedRows(a))
             b4 == [b3 EXCEPT !.cursor = Cursor(lo.row, 0)]
  <2>1. Works(a, b1)
    BY <1>2, RowsWork
  <2>2. Works(b1, b2)
    <3> HIDE DEF b1
    <3>1. BufShape(b1)
      BY <2>1 DEF Works
    <3>2. Works(b1, b1) /\ Works(b1, [b1 EXCEPT !.lines = EmptyText])
      BY <3>1, LinesWork DEF Works
    <3> QED
      BY <3>2 DEF KeepALine
  <2>3. Works(b2, b3)
    <3> HIDE DEF b2
    <3> QED
      BY <2>2, RegisterMoves DEF Works, Moves, Linewise
  <2>4. Works(b3, b4)
    <3> HIDE DEF b3, lo
    <3> QED
      BY <2>3 DEF BufShape, Works, Fields
  <2>5. Works(a, DeleteRangeNoUndo(a, lo, hi))
    BY <1>2, RangesWork
  <2>6. DeleteSelectionInner(a) = IF a.mode = "vline" THEN b4 ELSE DeleteRangeNoUndo(a, lo, hi)
    BY DEF DeleteSelectionInner
  <2> HIDE DEF b1, b2, b3, b4
  <2> QED
    BY <2>1, <2>2, <2>3, <2>4, <2>5, <2>6, WorksOn
<1>3. ASSUME NEW mode PROVE Commits(b, EndSelection(b, mode))
  <2>1. PICK b0, b1, b2 : /\ b0 = PushUndo(b) /\ b1 = DeleteSelectionInner(b0)
                          /\ b2 = [b1 EXCEPT !.anchor = NoAnchor]
    OBVIOUS
  <2>2. Works(b0, b1)
    BY <1>2, <2>1, PushShapes
  <2>3. Works(b1, b2)
    BY <2>1, <2>2 DEF BufShape, Works, Fields
  <2>4. EndSelection(b, mode) = Enter(b2, mode)
    BY <2>1 DEF EndSelection
  <2>5. Works(b2, EndSelection(b, mode))
    BY <2>3, <2>4, EnterMoves DEF Works, Moves
  <2> QED
    BY <2>1, <2>2, <2>3, <2>5, WorksOn DEF Commits
<1> QED
  BY <1>1, <1>3

\* The versions behind and before the text are sequences.
HasHistory(b) == \E S : b.undo \in Seq(S) /\ b.redo \in Seq(S)

\* r is q and more, and what comes first after q is of the text v.
Grown(S, q, r, v) ==
  /\ q \in Seq(S) /\ r \in Seq(S) /\ Len(q) < Len(r)
  /\ \A idx \in 1 .. Len(q) : r[idx] = q[idx]
  /\ r[Len(q) + 1].lines = v

\* An edit appends versions, the text as it was first, and nothing is to redo.
Edited(b, c) == /\ BufShape(c) /\ c.redo = <<>>
                /\ \E S : Grown(S, b.undo, c.undo, b.lines)

Stage(b, c) == Moves(b, c) \/ Edited(b, c)

\* A sequence over a set is one over a larger set.
LEMMA SeqWidens ==
  ASSUME NEW S, NEW V, S \subseteq V, NEW a \in Seq(S)
  PROVE  a \in Seq(V)
<1>1. PICK n \in Nat : n = Len(a) /\ a \in [1 .. n -> S]
  OBVIOUS
<1>2. a \in [1 .. n -> V]
  BY <1>1
<1> QED
  BY <1>2

\* Appending keeps what was there.
LEMMA GrowsByOne ==
  ASSUME NEW S, NEW q \in Seq(S), NEW x
  PROVE  LET V == S \cup {x}
         IN /\ q \in Seq(V) /\ Append(q, x) \in Seq(V) /\ Len(Append(q, x)) = Len(q) + 1 /\ Len(q) \in Nat
            /\ \A idx \in 1 .. Len(q) : Append(q, x)[idx] = q[idx]
            /\ Append(q, x)[Len(q) + 1] = x
<1> DEFINE V == S \cup {x}
<1>1. \A a \in Seq(S) : a \in Seq(V)
  BY SeqWidens
<1>2. x \in V
  OBVIOUS
<1> HIDE DEF V
<1>3. q \in Seq(V)
  BY <1>1
<1>4. /\ Append(q, x) \in Seq(V) /\ Len(Append(q, x)) = Len(q) + 1 /\ Len(q) \in Nat
      /\ \A idx \in 1 .. Len(q) : Append(q, x)[idx] = q[idx]
      /\ Append(q, x)[Len(q) + 1] = x
  BY <1>2, <1>3
<1> QED
  BY <1>3, <1>4 DEF V

\* What a commit leaves in the history.
LEMMA CommitPushes ==
  ASSUME NEW b, BufShape(b), NEW c, Commits(b, c)
  PROVE  /\ BufShape(c) /\ c.undo = Append(b.undo, Snapshot(b)) /\ c.redo = <<>>
         /\ Snapshot(b).lines = b.lines
<1>1. PICK d : d = PushUndo(b)
  OBVIOUS
<1>2. d.undo = Append(b.undo, Snapshot(b)) /\ d.redo = <<>>
  BY <1>1 DEF PushUndo, BufShape, Fields
<1> QED
  BY <1>1, <1>2 DEF Commits, Works, Snapshot

\* A commit is an edit.
LEMMA CommitEdits ==
  ASSUME NEW b, BufShape(b), HasHistory(b), NEW c, Commits(b, c)
  PROVE  Edited(b, c)
<1>1. PICK S : b.undo \in Seq(S)
  BY DEF HasHistory
<1>2. PICK q, x, V : q = b.undo /\ x = Snapshot(b) /\ V = S \cup {x}
  OBVIOUS
<1>3. /\ q \in Seq(V) /\ Append(q, x) \in Seq(V) /\ Len(Append(q, x)) = Len(q) + 1 /\ Len(q) \in Nat
      /\ \A idx \in 1 .. Len(q) : Append(q, x)[idx] = q[idx]
      /\ Append(q, x)[Len(q) + 1] = x
  BY <1>1, <1>2, GrowsByOne
<1>4. Grown(V, q, Append(q, x), x.lines)
  <2>1. Len(q) < Len(Append(q, x))
    BY <1>3
  <2> QED
    BY <1>3, <2>1 DEF Grown
<1> QED
  BY <1>2, <1>4, CommitPushes DEF Edited

\* Two edits are one.
LEMMA EditedMore ==
  ASSUME NEW b, NEW c, Edited(b, c), NEW d, Edited(c, d)
  PROVE  Edited(b, d)
<1>1. PICK S : Grown(S, b.undo, c.undo, b.lines)
  BY DEF Edited
<1>2. PICK T : Grown(T, c.undo, d.undo, c.lines)
  BY DEF Edited
<1>3. PICK p, q, r, v, U : p = b.undo /\ q = c.undo /\ r = d.undo /\ v = b.lines /\ U = S \cup T
  OBVIOUS
<1>4. Grown(S, p, q, v) /\ Grown(T, q, r, c.lines)
  BY <1>1, <1>2, <1>3
<1>5. p \in Seq(U) /\ r \in Seq(U)
  BY <1>3, <1>4, SeqWidens DEF Grown
<1>6. Len(p) \in Nat /\ Len(q) \in Nat /\ Len(r) \in Nat /\ Len(p) < Len(q) /\ Len(q) < Len(r)
  BY <1>4 DEF Grown
<1>7. Len(p) < Len(r) /\ Len(p) + 1 \in 1 .. Len(q) /\ \A idx \in 1 .. Len(p) : idx \in 1 .. Len(q)
  BY <1>6
<1>8. Grown(U, p, r, v)
  BY <1>4, <1>5, <1>7 DEF Grown
<1> QED
  BY <1>3, <1>8 DEF Edited

LEMMA EditedOn == ASSUME NEW b, NEW c, Edited(b, c), NEW d, Works(c, d) PROVE Edited(b, d)
  BY DEF Edited, Works

\* A stage keeps the shape that the next one needs.
LEMMA StageShapes ==
  ASSUME NEW b, HasHistory(b), NEW c, Stage(b, c)
  PROVE  BufShape(c) /\ HasHistory(c)
<1>1. CASE Moves(b, c)
  BY <1>1 DEF Moves, Works, HasHistory
<1>2. CASE Edited(b, c)
  <2>1. PICK S : c.undo \in Seq(S)
    BY <1>2 DEF Edited, Grown
  <2>2. <<>> \in Seq(S)
    OBVIOUS
  <2> QED
    BY <1>2, <2>1, <2>2 DEF Edited, HasHistory
<1> QED
  BY <1>1, <1>2 DEF Stage

\* After one stage another.
LEMMA StagesOn ==
  ASSUME NEW b, BufShape(b), NEW c, Stage(b, c), NEW d, Stage(c, d)
  PROVE  Stage(b, d)
<1>1. CASE Moves(b, c) /\ Moves(c, d)
  BY <1>1, MovesOn DEF Stage
<1>2. CASE Moves(b, c) /\ Edited(c, d)
  BY <1>2 DEF Moves, Works, Edited, Stage
<1>3. CASE Edited(b, c) /\ Moves(c, d)
  BY <1>3, EditedOn DEF Moves, Stage
<1>4. CASE Edited(b, c) /\ Edited(c, d)
  BY <1>4, EditedMore DEF Stage
<1> QED
  BY <1>1, <1>2, <1>3, <1>4 DEF Stage

-----------------------------------------------------------------------------
\* Commands with a count, and the parser that gives them

\* A step of a command with a count, or of a text that is typed.
Doing(how, x, idx, m) ==
  IF how = "delete" THEN DeleteLine(m) ELSE IF how = "type" THEN InsertChar(m, x[idx]) ELSE Move(m, x)
Again(g, n, b, how, x) ==
  g = [idx \in 0 .. n |-> IF idx = 0 THEN b ELSE Doing(how, x, idx, g[idx - 1])]

\* However often: there is a first time, and a next one.
LEMMA AgainIs ==
  ASSUME NEW n \in Nat, NEW b, NEW how, NEW x
  PROVE  \E g : Again(g, n, b, how, x)
<1> DEFINE P(k) == \E g : Again(g, k, b, how, x)
           T == {k \in 0 .. n : ~P(k)}
<1>1. P(0)
  <2> DEFINE g == [idx \in 0 .. 0 |-> b]
  <2>1. g = [idx \in 0 .. 0 |-> IF idx = 0 THEN b ELSE Doing(how, x, idx, g[idx - 1])]
    <3>1. \A idx \in 0 .. 0 : idx = 0
      OBVIOUS
    <3> QED
      BY <3>1
  <2> QED
    BY <2>1 DEF Again
<1>2. ASSUME NEW k \in Nat, P(k) PROVE P(k + 1)
  <2>1. PICK f : Again(f, k, b, how, x)
    BY <1>2
  <2> DEFINE g == [idx \in 0 .. k + 1 |-> IF idx = k + 1 THEN Doing(how, x, k + 1, f[k]) ELSE f[idx]]
  <2>2. \A idx \in 0 .. k : f[idx] = IF idx = 0 THEN b ELSE Doing(how, x, idx, f[idx - 1])
    <3> DEFINE h == [idx \in 0 .. k |-> IF idx = 0 THEN b ELSE Doing(how, x, idx, f[idx - 1])]
    <3>1. f = h
      BY <2>1 DEF Again
    <3>2. \A idx \in 0 .. k : h[idx] = IF idx = 0 THEN b ELSE Doing(how, x, idx, f[idx - 1])
      OBVIOUS
    <3> HIDE DEF h
    <3> QED
      BY <3>1, <3>2
  <2>3. ASSUME NEW idx \in 0 .. k + 1 PROVE g[idx] = IF idx = 0 THEN b ELSE Doing(how, x, idx, g[idx - 1])
    <3>1. CASE idx = k + 1
      <4>1. idx # 0 /\ idx - 1 = k /\ k \in 0 .. k + 1 /\ k # k + 1
        BY <3>1
      <4>2. g[k] = f[k] /\ g[idx] = Doing(how, x, k + 1, f[k])
        BY <3>1, <4>1
      <4> HIDE DEF g
      <4> QED
        BY <4>1, <4>2
    <3>2. CASE idx # k + 1
      <4>1. idx \in 0 .. k
        BY <3>2
      <4>2. g[idx] = f[idx]
        BY <3>2
      <4>3. idx = 0 \/ (idx - 1 \in 0 .. k + 1 /\ idx - 1 # k + 1)
        BY <3>2
      <4>4. idx = 0 \/ g[idx - 1] = f[idx - 1]
        BY <4>3
      <4> HIDE DEF g
      <4> QED
        BY <2>2, <4>1, <4>2, <4>4
    <3> QED
      BY <3>1, <3>2
  <2>4. g = [idx \in 0 .. k + 1 |-> IF idx = 0 THEN b ELSE Doing(how, x, idx, g[idx - 1])]
    <3>1. g = [idx \in 0 .. k + 1 |-> g[idx]]
      OBVIOUS
    <3> HIDE DEF g
    <3> QED
      BY <2>3, <3>1
  <2> HIDE DEF g
  <2> QED
    BY <2>4 DEF Again
<1> HIDE DEF P
<1>3. T = {}
  <2> SUFFICES ASSUME T # {} PROVE FALSE
    OBVIOUS
  <2>1. T \in SUBSET Nat
    OBVIOUS
  <2>2. PICK k \in T : \A j \in T : k <= j
    <3> HIDE DEF T
    <3> QED
      BY <2>1, LeastNumber
  <2>3. k \in 1 .. n /\ ~P(k)
    BY <1>1, <2>2
  <2>4. PICK m : m = k - 1
    OBVIOUS
  <2>5. m \in Nat /\ m + 1 = k /\ m \in 0 .. n /\ ~(k <= m)
    BY <2>3, <2>4
  <2>6. P(m)
    BY <2>2, <2>5
  <2> QED
    BY <1>2, <2>3, <2>5, <2>6
<1> QED
  BY <1>3 DEF P

\* A stage that is taken again and again is one.
LEMMA AgainStages ==
  ASSUME NEW n \in Nat, NEW b, BufShape(b), HasHistory(b), NEW how, NEW x,
         NEW g, Again(g, n, b, how, x)
  PROVE  Stage(b, g[n]) /\ (how = "move" => Moves(b, g[n]))
<1> DEFINE Fine(k) == Stage(b, g[k]) /\ (how = "move" => Moves(b, g[k]))
           T == {k \in 0 .. n : ~Fine(k)}
<1>1. \A idx \in 0 .. n : g[idx] = IF idx = 0 THEN b ELSE Doing(how, x, idx, g[idx - 1])
  <2> DEFINE h == [idx \in 0 .. n |-> IF idx = 0 THEN b ELSE Doing(how, x, idx, g[idx - 1])]
  <2>1. g = h
    BY DEF Again
  <2>2. \A idx \in 0 .. n : h[idx] = IF idx = 0 THEN b ELSE Doing(how, x, idx, g[idx - 1])
    OBVIOUS
  <2> HIDE DEF h
  <2> QED
    BY <2>1, <2>2
<1>2. Fine(0)
  <2>1. g[0] = b
    BY <1>1
  <2>2. Moves(b, b)
    BY DEF Moves, Works
  <2> QED
    BY <2>1, <2>2 DEF Stage
<1>3. ASSUME NEW k \in Nat, k + 1 \in 0 .. n, Fine(k) PROVE Fine(k + 1)
  <2>1. g[k + 1] = Doing(how, x, k + 1, g[k])
    <3>1. k + 1 # 0 /\ (k + 1) - 1 = k
      OBVIOUS
    <3>2. g[k + 1] = IF k + 1 = 0 THEN b ELSE Doing(how, x, k + 1, g[(k + 1) - 1])
      BY <1>1, <1>3
    <3> QED
      BY <3>1, <3>2
  <2>2. PICK c, d : c = g[k] /\ d = g[k + 1]
    OBVIOUS
  <2>3. Stage(b, c) /\ BufShape(c) /\ HasHistory(c) /\ d = Doing(how, x, k + 1, c)
    BY <1>3, <2>1, <2>2, StageShapes
  <2>4. CASE how \in {"delete", "type"}
    <3>1. Commits(c, d)
      BY <2>3, <2>4, LinesCommit, InsertsCommit DEF Doing
    <3>2. Stage(c, d)
      BY <2>3, <3>1, CommitEdits DEF Stage
    <3> QED
      BY <2>2, <2>3, <2>4, <3>2, StagesOn
  <2>5. CASE how \notin {"delete", "type"}
    <3>1. Moves(c, d)
      BY <2>2, <2>3, <2>5, MoveMoves DEF Doing
    <3>2. Stage(b, d)
      BY <2>3, <3>1, StagesOn DEF Stage
    <3>3. how = "move" => Moves(b, d)
      BY <1>3, <2>2, <3>1, MovesOn
    <3> QED
      BY <2>2, <3>2, <3>3
  <2> QED
    BY <2>4, <2>5
<1> HIDE DEF Fine
<1>4. T = {}
  <2> SUFFICES ASSUME T # {} PROVE FALSE
    OBVIOUS
  <2>1. T \in SUBSET Nat
    OBVIOUS
  <2>2. PICK k \in T : \A j \in T : k <= j
    <3> HIDE DEF T
    <3> QED
      BY <2>1, LeastNumber
  <2>3. k \in 1 .. n /\ ~Fine(k)
    BY <1>2, <2>2
  <2>4. PICK m : m = k - 1
    OBVIOUS
  <2>5. m \in Nat /\ m + 1 = k /\ m \in 0 .. n /\ ~(k <= m) /\ m + 1 \in 0 .. n
    BY <2>3, <2>4
  <2>6. Fine(m)
    BY <2>2, <2>5
  <2> QED
    BY <1>3, <2>3, <2>5, <2>6
<1> QED
  BY <1>4 DEF Fine

\* Commands with a count, and a text that is typed, are one stage.
LEMMA TimesStage ==
  ASSUME NEW n \in Nat, NEW b, BufShape(b), HasHistory(b)
  PROVE  /\ Stage(b, Times(n, b, DeleteLine))
         /\ \A motion : Moves(b, Moved(b, motion, n))
         /\ \A txt : Len(txt) = n => Stage(b, Insert(b, txt))
<1>1. Stage(b, Times(n, b, DeleteLine))
  <2> DEFINE g == CHOOSE after : after = [idx \in 0 .. n |-> IF idx = 0 THEN b ELSE DeleteLine(after[idx - 1])]
  <2>1. Times(n, b, DeleteLine) = g[n]
    BY DEF Times
  <2>2. \E after : after = [idx \in 0 .. n |-> IF idx = 0 THEN b ELSE DeleteLine(after[idx - 1])]
    <3>1. PICK after : Again(after, n, b, "delete", "none")
      BY AgainIs
    <3> QED
      BY <3>1 DEF Again, Doing
  <2>3. g = [idx \in 0 .. n |-> IF idx = 0 THEN b ELSE DeleteLine(g[idx - 1])]
    BY <2>2
  <2> HIDE DEF g
  <2>4. Again(g, n, b, "delete", "none")
    BY <2>3 DEF Again, Doing
  <2> QED
    BY <2>1, <2>4, AgainStages
<1>2. ASSUME NEW motion PROVE Moves(b, Moved(b, motion, n))
  <2> DEFINE g == CHOOSE after : after = [idx \in 0 .. n |-> IF idx = 0 THEN b ELSE Move(after[idx - 1], motion)]
  <2>1. Moved(b, motion, n) = g[n]
    BY DEF Moved, Times
  <2>2. \E after : after = [idx \in 0 .. n |-> IF idx = 0 THEN b ELSE Move(after[idx - 1], motion)]
    <3>1. PICK after : Again(after, n, b, "move", motion)
      BY AgainIs
    <3> QED
      BY <3>1 DEF Again, Doing
  <2>3. g = [idx \in 0 .. n |-> IF idx = 0 THEN b ELSE Move(g[idx - 1], motion)]
    BY <2>2
  <2> HIDE DEF g
  <2>4. Again(g, n, b, "move", motion)
    BY <2>3 DEF Again, Doing
  <2> QED
    BY <2>1, <2>4, AgainStages
<1>3. ASSUME NEW txt, Len(txt) = n PROVE Stage(b, Insert(b, txt))
  <2> DEFINE g == CHOOSE typed : typed = [idx \in 0 .. n |-> IF idx = 0 THEN b ELSE InsertChar(typed[idx - 1], txt[idx])]
  <2>1. Insert(b, txt) = g[n]
    BY <1>3 DEF Insert
  <2>2. \E typed : typed = [idx \in 0 .. n |-> IF idx = 0 THEN b ELSE InsertChar(typed[idx - 1], txt[idx])]
    <3>1. PICK typed : Again(typed, n, b, "type", txt)
      BY AgainIs
    <3> QED
      BY <3>1 DEF Again, Doing
  <2>3. g = [idx \in 0 .. n |-> IF idx = 0 THEN b ELSE InsertChar(g[idx - 1], txt[idx])]
    BY <2>2
  <2> HIDE DEF g
  <2>4. Again(g, n, b, "type", txt)
    BY <2>3 DEF Again, Doing
  <2> QED
    BY <2>1, <2>4, AgainStages
<1> QED
  BY <1>1, <1>2, <1>3

\* What the parser holds, and the commands it gives.
Operators == {"Delete", "Change", "Yank"}
Motions == {"Left", "Right", "Up", "Down", "WordFwd", "WordBack", "WordEnd", "LineStart", "LineEnd",
            "FirstNonBlank", "BufferTop", "BufferBottom"}
ParserShape(p) ==
  /\ DOMAIN p = {"count1", "op", "count2", "g", "hist"}
  /\ p.count1 \in Nat /\ p.count2 \in Nat /\ p.g \in BOOLEAN /\ p.op \in Operators \cup {"none"}
IsCommand(cmd) ==
  \/ cmd \in {Pending, Cancel}
  \/ \E motion \in Motions, count \in Nat : cmd = MotionCommand(motion, count)
  \/ \E op \in Operators, count \in Nat : cmd = OpLine(op, count)
  \/ \E op \in Operators, count \in Nat, motion \in Motions : cmd = OpMotion(op, motion, count)
FedShape(fed) == ParserShape(fed.parser) /\ IsCommand(fed.cmd)
FedFrom(p, fed) == FedShape(fed) /\ fed.parser.hist = p.hist

\* The parser of commands, key by key.
LEMMA TotalIsNat == ASSUME NEW p, ParserShape(p) PROVE TotalCount(p) \in Nat /\ Most(p.count1, 1) \in Nat
<1>1. Most(p.count1, 1) \in Nat /\ Most(p.count2, 1) \in Nat
  BY DEF ParserShape, Most
<1>2. \A m, n \in Nat : m * n \in Nat
  OBVIOUS
<1> QED
  BY <1>1, <1>2 DEF TotalCount

LEMMA ResetShaped == ASSUME NEW p, ParserShape(p) PROVE ParserShape(Reset(p)) /\ Reset(p).hist = p.hist
  BY DEF Reset, Idle, ParserShape

\* Every key that moves has a motion.
LEMMA KeysMove == \A c \in DOMAIN MotionFor : MotionFor[c] \in Motions
  BY DEF MotionFor, Motions

LEMMA FinishShaped ==
  ASSUME NEW p, ParserShape(p), NEW motion \in Motions
  PROVE  FedFrom(p, FinishMotion(p, motion))
<1>1. ParserShape(Reset(p)) /\ Reset(p).hist = p.hist /\ TotalCount(p) \in Nat /\ Most(p.count1, 1) \in Nat
  BY ResetShaped, TotalIsNat
<1>2. CASE p.op = "none"
  <2>1. FinishMotion(p, motion) = Fed(Reset(p), MotionCommand(motion, Most(p.count1, 1)))
    BY <1>2 DEF FinishMotion
  <2>2. IsCommand(MotionCommand(motion, Most(p.count1, 1)))
    BY <1>1 DEF IsCommand
  <2> QED
    BY <1>1, <2>1, <2>2 DEF FedFrom, FedShape, Fed
<1>3. CASE p.op # "none"
  <2>1. FinishMotion(p, motion) = Fed(Reset(p), OpMotion(p.op, motion, TotalCount(p)))
    BY <1>3 DEF FinishMotion
  <2>2. p.op \in Operators
    BY <1>3 DEF ParserShape
  <2>3. IsCommand(OpMotion(p.op, motion, TotalCount(p)))
    BY <1>1, <2>2 DEF IsCommand
  <2> QED
    BY <1>1, <2>1, <2>3 DEF FedFrom, FedShape, Fed
<1> QED
  BY <1>2, <1>3

LEMMA FeedShaped == ASSUME NEW p, ParserShape(p), NEW key PROVE FedFrom(p, Feed(p, key))
<1>1. FedFrom(p, Fed(Reset(p), Pending)) /\ FedFrom(p, Fed(Reset(p), Cancel))
  BY ResetShaped DEF FedFrom, FedShape, Fed, IsCommand
<1>2. ASSUME NEW q, ParserShape(q), q.hist = p.hist PROVE FedFrom(p, Fed(q, Pending))
  BY <1>2 DEF FedFrom, FedShape, Fed, IsCommand
<1>3. ASSUME NEW c \in Digits PROVE FedFrom(p, FeedDigit(p, c))
  <2> DEFINE slot == IF p.op = "none" THEN p.count1 ELSE p.count2
             grown == slot * 10 + DigitValue[c]
             q1 == [p EXCEPT !.count1 = grown]
             q2 == [p EXCEPT !.count2 = grown]
  <2>1. DigitValue[c] \in Nat
    BY DEF Digits, DigitValue
  <2>2. slot \in Nat
    BY DEF ParserShape
  <2>3. grown \in Nat
    <3> HIDE DEF slot
    <3> QED
      BY <2>1, <2>2
  <2> HIDE DEF grown
  <2>4. ParserShape(q1) /\ ParserShape(q2) /\ q1.hist = p.hist /\ q2.hist = p.hist
    BY <2>3 DEF ParserShape
  <2>5. FeedDigit(p, c) \in {FinishMotion(p, "LineStart"), Fed(q1, Pending), Fed(q2, Pending)}
    BY DEF FeedDigit, grown
  <2> HIDE DEF q1, q2
  <2> QED
    BY <1>2, <2>4, <2>5, FinishShaped DEF Motions
<1>4. ASSUME NEW op \in Operators PROVE FedFrom(p, FeedOperator(p, op))
  <2>1. ParserShape([p EXCEPT !.op = op]) /\ [p EXCEPT !.op = op].hist = p.hist
    BY DEF ParserShape
  <2>2. FedFrom(p, Fed(Reset(p), OpLine(op, TotalCount(p))))
    BY ResetShaped, TotalIsNat DEF FedFrom, FedShape, Fed, IsCommand
  <2>3. op # "none"
    BY DEF Operators
  <2>4. CASE p.op = "none"
    BY <1>2, <2>1, <2>3, <2>4 DEF FeedOperator
  <2>5. CASE p.op = op
    BY <2>2, <2>3, <2>5 DEF FeedOperator
  <2>6. CASE p.op \notin {"none", op}
    BY <1>1, <2>6 DEF FeedOperator
  <2> QED
    BY <2>4, <2>5, <2>6
<1>5. ASSUME NEW c PROVE FedFrom(p, FeedChar(p, c))
  <2> DEFINE pd == [p EXCEPT !.op = "Delete"]
             pc == [p EXCEPT !.op = "Change"]
             pg == [p EXCEPT !.g = TRUE]
  <2>1. /\ ParserShape(pd) /\ ParserShape(pc) /\ ParserShape(pg)
        /\ pd.hist = p.hist /\ pc.hist = p.hist /\ pg.hist = p.hist
    BY DEF ParserShape, Operators
  <2>2. FedFrom(p, Fed(Reset(p), OpLine("Yank", TotalCount(p))))
    BY ResetShaped, TotalIsNat DEF FedFrom, FedShape, Fed, IsCommand, Operators
  <2>3. c \in DOMAIN OpFor => OpFor[c] \in Operators
    BY DEF OpFor, Operators
  <2>4. \/ c \in Digits /\ FeedChar(p, c) = FeedDigit(p, c)
        \/ c \in DOMAIN OpFor /\ FeedChar(p, c) = FeedOperator(p, OpFor[c])
        \/ FeedChar(p, c) \in
             {Fed(Reset(p), OpLine("Yank", TotalCount(p))), FinishMotion(pd, "LineEnd"),
              FinishMotion(pc, "LineEnd"), Fed(pg, Pending), Fed(Reset(p), Pending)}
        \/ c \in DOMAIN MotionFor /\ FeedChar(p, c) = FinishMotion(p, MotionFor[c])
    BY DEF FeedChar
  <2>5. c \in DOMAIN MotionFor => MotionFor[c] \in Motions
    BY KeysMove
  <2>6. {"LineEnd"} \subseteq Motions
    BY DEF Motions
  <2> HIDE DEF pd, pc, pg
  <2> QED
    BY <1>1, <1>2, <1>3, <1>4, <2>1, <2>2, <2>3, <2>4, <2>5, <2>6, FinishShaped DEF FedFrom
<1>6. ASSUME NEW c PROVE FedFrom(p, FeedAfterG(p, c))
  <2>1. PICK q : q = [p EXCEPT !.g = FALSE]
    OBVIOUS
  <2>2. ParserShape(q) /\ q.hist = p.hist
    BY <2>1 DEF ParserShape
  <2>3. FedFrom(p, FinishMotion(q, "BufferTop"))
    BY <2>2, FinishShaped DEF FedFrom, Motions
  <2> QED
    BY <1>1, <2>1, <2>3 DEF FeedAfterG
<1>7. p.g \in BOOLEAN
  BY DEF ParserShape
<1>8. Feed(p, key) \in {Fed(Reset(p), Cancel), Fed(Reset(p), Pending), FeedAfterG(p, KeyChar(key)), FeedChar(p, KeyChar(key))}
  <2>1. CASE key = "Esc"
    BY <2>1 DEF Feed
  <2>2. CASE key # "Esc" /\ KeyChar(key) \in Named
    BY <2>2 DEF Feed
  <2>3. CASE key # "Esc" /\ KeyChar(key) \notin Named /\ p.g
    BY <2>3 DEF Feed
  <2>4. CASE key # "Esc" /\ KeyChar(key) \notin Named /\ ~p.g
    BY <2>4 DEF Feed
  <2> QED
    BY <1>7, <2>1, <2>2, <2>3, <2>4
<1> QED
  BY <1>1, <1>5, <1>6, <1>8

\* Every command of normal mode is one stage.
LEMMA ExecuteStages ==
  ASSUME NEW b, BufShape(b), HasHistory(b), NEW cmd, IsCommand(cmd)
  PROVE  Stage(b, Execute(b, cmd))
<1>0. Moves(b, b)
  BY DEF Moves, Works
<1>1. CASE cmd \in {Pending, Cancel}
  <2>1. cmd.kind \in {"pending", "cancel"}
    BY <1>1 DEF Pending, Cancel
  <2>2. Execute(b, cmd) = b
    BY <2>1 DEF Execute
  <2> QED
    BY <1>0, <2>2 DEF Stage
<1>2. ASSUME NEW motion \in Motions, NEW count \in Nat, cmd = MotionCommand(motion, count) PROVE Stage(b, Execute(b, cmd))
  <2>1. Execute(b, cmd) = Moved(b, motion, count)
    BY <1>2 DEF Execute, MotionCommand
  <2> QED
    BY <2>1, TimesStage DEF Stage
<1>3. ASSUME NEW op \in Operators, NEW count \in Nat, cmd = OpLine(op, count) PROVE Stage(b, Execute(b, cmd))
  <2>1. Execute(b, cmd) = OnLines(b, op, count)
    BY <1>3 DEF Execute, OpLine
  <2>2. CASE op = "Delete"
    BY <2>1, <2>2, TimesStage DEF OnLines
  <2>3. CASE op = "Change"
    <3>1. Execute(b, cmd) = ChangeLine(b)
      BY <2>1, <2>3 DEF OnLines
    <3> QED
      BY <3>1, LinesCommit, CommitEdits DEF Stage
  <2>4. CASE op = "Yank"
    <3>1. \E txt : Execute(b, cmd) = Linewise(b, txt)
      BY <2>1, <2>4 DEF OnLines
    <3> QED
      BY <3>1, RegisterMoves DEF Linewise, Stage
  <2> QED
    BY <2>2, <2>3, <2>4 DEF Operators
<1>4. ASSUME NEW op \in Operators, NEW count \in Nat, NEW motion, cmd = OpMotion(op, motion, count)
      PROVE  Stage(b, Execute(b, cmd))
  <2>1. Execute(b, cmd) = OnMotion(b, op, motion, count)
    BY <1>4 DEF Execute, OpMotion
  <2>2. PICK end : end = Moved(b, motion, count).cursor
    OBVIOUS
  <2>3. CASE op = "Delete"
    <3>1. Execute(b, cmd) = DeleteRange(b, b.cursor, end)
      BY <2>1, <2>2, <2>3 DEF OnMotion
    <3> QED
      BY <3>1, RangeCommits, CommitEdits DEF Stage
  <2>4. CASE op = "Change"
    <3>1. Execute(b, cmd) = InsertBefore(DeleteRange(b, b.cursor, end))
      BY <2>1, <2>2, <2>4 DEF OnMotion
    <3>2. PICK c : c = DeleteRange(b, b.cursor, end)
      OBVIOUS
    <3>3. Commits(b, c) /\ BufShape(c)
      BY <3>2, RangeCommits DEF Commits, Works
    <3>4. Works(c, Execute(b, cmd))
      BY <3>1, <3>2, <3>3, EnterMoves DEF InsertBefore, Moves
    <3> QED
      BY <3>3, <3>4, CommitsOn, CommitEdits DEF Stage
  <2>5. CASE op = "Yank"
    <3>1. Execute(b, cmd) = YankRange(b, b.cursor, end)
      BY <2>1, <2>2, <2>5 DEF OnMotion
    <3> QED
      BY <3>1, RangesWork DEF Stage
  <2> QED
    BY <2>3, <2>4, <2>5 DEF Operators
<1> QED
  BY <1>1, <1>2, <1>3, <1>4 DEF IsCommand

-----------------------------------------------------------------------------
\* Keys

LEMMA Stays == ASSUME NEW b, BufShape(b) PROVE Stage(b, b)
  BY DEF Stage, Moves, Works

\* So is every key of insert mode,
LEMMA InInsertStages == ASSUME NEW b, BufShape(b), HasHistory(b), NEW key PROVE Stage(b, InInsert(b, key))
<1>1. \/ InInsert(b, key) \in {b, InsertNewline(b), Backspace(b), LeaveInsert(b), InsertChar(b, key)}
      \/ \E motion : InInsert(b, key) = Move(b, motion)
  <2>1. key \in Named => key \in {"Enter", "Backspace", "Esc", "CtrlC", "CtrlD", "CtrlR", "Tab"} \cup DOMAIN ArrowKey
    BY DEF Named, ArrowKey
  <2> QED
    BY <2>1 DEF InInsert
<1>2. Stage(b, InsertNewline(b)) /\ Stage(b, Backspace(b)) /\ Stage(b, InsertChar(b, key)) /\ Stage(b, b)
  BY InsertsCommit, CommitEdits, Stays DEF Stage
<1>3. Stage(b, LeaveInsert(b)) /\ \A motion : Stage(b, Move(b, motion))
  BY EnterMoves, MoveMoves DEF LeaveInsert, Stage
<1> QED
  BY <1>1, <1>2, <1>3

\* every key of normal mode that the parser never sees, but u and Ctrl-r,
LEMMA OwnStages ==
  ASSUME NEW b, BufShape(b), HasHistory(b), NEW key \in OwnKeys
  PROVE  Stage(b, Own(b, key)) \/ Own(b, key) \in {Undo(b), Redo(b)}
<1>1. Own(b, key) \in {InsertBefore(b), InsertAfter(b), InsertAtLineStart(b), InsertAtLineEnd(b), OpenBelow(b),
                       OpenAbove(b), EnterVisual(b, "visual"), EnterVisual(b, "vline"), DeleteChar(b),
                       PasteAfter(b), PasteBefore(b), Undo(b), Redo(b)}
  BY DEF Own, OwnKeys
<1>2. Stage(b, InsertBefore(b))
  BY EnterMoves DEF InsertBefore, Stage
<1>3. Stage(b, InsertAfter(b)) /\ Stage(b, InsertAtLineEnd(b))
  <2>1. ASSUME NEW c, Moves(b, c) PROVE Stage(b, Enter(c, "insert"))
    BY <2>1, EnterMoves, MovesOn DEF Stage, Moves, Works
  <2>2. Moves(b, [b EXCEPT !.cursor.col = @ + 1]) /\ Moves(b, [b EXCEPT !.cursor.col = Len(Here(b))])
    BY DEF BufShape, Works, Moves, Fields
  <2> QED
    BY <2>1, <2>2 DEF InsertAfter, InsertAtLineEnd
<1>4. Stage(b, InsertAtLineStart(b))
  <2>1. PICK c : c = Move(b, "FirstNonBlank")
    OBVIOUS
  <2>2. Moves(b, c) /\ InsertAtLineStart(b) = Enter(c, "insert")
    BY <2>1, MoveMoves DEF InsertAtLineStart
  <2> QED
    BY <2>2, EnterMoves, MovesOn DEF Stage, Moves, Works
<1>5. Stage(b, OpenBelow(b)) /\ Stage(b, OpenAbove(b)) /\ Stage(b, DeleteChar(b))
  BY LinesCommit, CommitEdits, Stays DEF OpenBelow, OpenAbove, Stage
<1>6. \A mode : Stage(b, EnterVisual(b, mode))
  BY DEF EnterVisual, Stage, Moves, Works, BufShape, Fields
<1>7. Stage(b, PasteAfter(b)) /\ Stage(b, PasteBefore(b))
  BY PasteCommits, CommitEdits, Stays DEF PasteAfter, PasteBefore, Stage
<1> QED
  BY <1>1, <1>2, <1>3, <1>4, <1>5, <1>6, <1>7

\* and every key of the visual modes.
LEMMA SelectionStages ==
  ASSUME NEW b, BufShape(b), HasHistory(b), NEW key \in VisualKeys
  PROVE  Stage(b, OnSelection(b, key))
<1> DEFINE esc == [b EXCEPT !.mode = "normal", !.anchor = NoAnchor]
<1>1. OnSelection(b, key) \in {esc, DeleteSelection(b), YankSelection(b), ChangeSelection(b)}
  BY DEF OnSelection, VisualKeys
<1>2. Stage(b, esc)
  BY DEF Stage, Moves, Works, BufShape, Fields
<1> HIDE DEF esc
<1>3. Stage(b, DeleteSelection(b)) /\ Stage(b, ChangeSelection(b)) /\ Stage(b, YankSelection(b))
  BY SelectionWorks, CommitEdits DEF DeleteSelection, ChangeSelection, Stage
<1> QED
  BY <1>1, <1>2, <1>3

LEMMA ExtendStages ==
  ASSUME NEW b, BufShape(b), HasHistory(b), NEW p, ParserShape(p), NEW key
  PROVE  Stage(b, ExtendSelection(b, p, key).buf) /\ ParserShape(ExtendSelection(b, p, key).parser)
<1>1. PICK fed : fed = Feed(p, key)
  OBVIOUS
<1>2. FedShape(fed)
  BY <1>1, FeedShaped DEF FedFrom
<1>3. ExtendSelection(b, p, key).parser = fed.parser
  BY <1>1 DEF ExtendSelection
<1>4. ExtendSelection(b, p, key).buf = IF fed.cmd.kind = "motion" THEN Moved(b, fed.cmd.motion, fed.cmd.count) ELSE b
  BY <1>1 DEF ExtendSelection
<1>5. CASE fed.cmd.kind = "motion"
  <2>1. fed.cmd.count \in Nat
    <3>1. ASSUME NEW motion, NEW count \in Nat, fed.cmd = MotionCommand(motion, count) PROVE fed.cmd.count \in Nat
      BY <3>1 DEF MotionCommand
    <3>2. ASSUME fed.cmd \in {Pending, Cancel} PROVE FALSE
      BY <1>5, <3>2 DEF Pending, Cancel
    <3>3. ASSUME NEW op, NEW count, fed.cmd = OpLine(op, count) PROVE FALSE
      <4>1. OpLine(op, count).kind # "motion"
        BY DEF OpLine
      <4> QED
        BY <1>5, <3>3, <4>1
    <3>4. ASSUME NEW op, NEW count, NEW motion, fed.cmd = OpMotion(op, motion, count) PROVE FALSE
      <4>1. OpMotion(op, motion, count).kind # "motion"
        BY DEF OpMotion
      <4> QED
        BY <1>5, <3>4, <4>1
    <3> QED
      BY <1>2, <3>1, <3>2, <3>3, <3>4 DEF FedShape, IsCommand
  <2> QED
    BY <1>2, <1>3, <1>4, <1>5, <2>1, TimesStage DEF FedShape, Stage
<1>6. CASE fed.cmd.kind # "motion"
  BY <1>2, <1>3, <1>4, <1>6, Stays DEF FedShape
<1> QED
  BY <1>5, <1>6

\* A buffer whose history is yet to come.
Bare(b) == BufShape(b) /\ b.undo = <<>> /\ b.redo = <<>>

\* A new buffer and a recalled one have no history.
LEMMA NewIsBare == Bare(NewBuffer)
  BY DEF NewBuffer, Bare, BufShape, Fields

LEMMA RecalledIsBare == ASSUME NEW txt PROVE Bare(Recalled(txt))
<1>1. PICK b1 : b1 = FromText(txt)
  OBVIOUS
<1>2. Bare(b1)
  BY <1>1, NewIsBare DEF FromText, Bare, BufShape, Fields
<1>3. PICK to : Recalled(txt) = ClampCursor([b1 EXCEPT !.cursor = to])
  BY <1>1 DEF Recalled
<1>4. PICK b2 : b2 = [b1 EXCEPT !.cursor = to]
  OBVIOUS
<1>5. Moves(b1, b2)
  BY <1>2, <1>4 DEF Bare, BufShape, Moves, Works, Fields
<1>6. Moves(b2, ClampCursor(b2))
  BY <1>5, ClampMoves DEF Moves, Works
<1> QED
  BY <1>2, <1>3, <1>4, <1>5, <1>6 DEF Bare, Moves, Works

LEMMA BareHas == ASSUME NEW b, Bare(b) PROVE BufShape(b) /\ HasHistory(b)
<1>1. <<>> \in Seq({})
  OBVIOUS
<1> QED
  BY <1>1 DEF Bare, HasHistory

-----------------------------------------------------------------------------
\* Popups

LEMMA RankFits ==
  ASSUME NEW S, NEW r \in Seq(S), NEW idx \in S, NEW query, NEW names
  PROVE  Rank(query, names, r, idx) \in Seq(S)
<1> DEFINE Beats(j) == Better(Score(query, names[idx]), Score(query, names[j]))
           First(p) == /\ p > Len(r) \/ Beats(r[p])
                       /\ \A k \in 1 .. (p - 1) : ~Beats(r[k])
           T == {p \in 1 .. (Len(r) + 1) : p > Len(r) \/ Beats(r[p])}
           place == CHOOSE p \in 1 .. (Len(r) + 1) : First(p)
<1>1. Len(r) \in Nat
  OBVIOUS
<1>2. \E p \in 1 .. (Len(r) + 1) : First(p)
  <2>1. T \in SUBSET Nat /\ Len(r) + 1 \in T
    BY <1>1
  <2>2. PICK p \in T : \A q \in T : p <= q
    <3> HIDE DEF T
    <3> QED
      BY <2>1, LeastNumber
  <2>3. ASSUME NEW k \in 1 .. (p - 1) PROVE ~Beats(r[k])
    <3>1. k \in 1 .. (Len(r) + 1) /\ ~(p <= k)
      BY <1>1, <2>2
    <3> QED
      BY <2>2, <3>1
  <2> QED
    BY <2>2, <2>3
<1>3. place \in 1 .. (Len(r) + 1)
  BY <1>2
<1>4. Rank(query, names, r, idx) = SubSeq(r, 1, place - 1) \o <<idx>> \o SubSeq(r, place, Len(r))
  BY DEF Rank, InsertAt
<1> HIDE DEF place
<1>5. SubSeq(r, 1, place - 1) \in Seq(S) /\ SubSeq(r, place, Len(r)) \in Seq(S) /\ <<idx>> \in Seq(S)
  BY <1>1, <1>3
<1> QED
  BY <1>4, <1>5

\* The hits are positions in the list they were looked for in.
LEMMA FilterFits ==
  ASSUME NEW S, NEW names \in Seq(S), NEW query
  PROVE  Filter(query, names) \in Seq(1 .. Len(names))
<1> DEFINE One(n, r) == IF Hit(query, names[n]) THEN Rank(query, names, r, n) ELSE r
           P(h) == h = [n \in Nat |-> IF n = 0 THEN <<>> ELSE One(n, h[n - 1])]
           F == [n \in Nat |-> [r \in Seq(Nat) |-> One(n + 1, r)]]
           hits == CHOOSE h : P(h)
<1>1. F \in [Nat -> [Seq(Nat) -> Seq(Nat)]]
  <2>1. ASSUME NEW n \in Nat, NEW r \in Seq(Nat) PROVE One(n + 1, r) \in Seq(Nat)
    <3>1. Rank(query, names, r, n + 1) \in Seq(Nat)
      <4> HIDE DEF One, F, hits, P
      <4>1. n + 1 \in Nat
        OBVIOUS
      <4> QED
        BY <4>1, RankFits
    <3> QED
      BY <3>1
  <2> QED
    BY <2>1
<1>2. <<>> \in Seq(Nat)
  OBVIOUS
<1>3. PICK f : Iterated(f, Seq(Nat), <<>>, F)
  <2> HIDE DEF F
  <2> QED
    BY <1>1, <1>2, Iterates
<1>4. \A n \in Nat, r \in Seq(Nat) : F[n][r] = One(n + 1, r)
  BY DEF F
<1> HIDE DEF F, One
<1>5. P(f)
  <2>1. ASSUME NEW n \in Nat PROVE f[n] = IF n = 0 THEN <<>> ELSE One(n, f[n - 1])
    <3>1. CASE n = 0
      BY <1>3, <3>1 DEF Iterated
    <3>2. CASE n # 0
      <4>1. PICK m \in Nat : n = m + 1
        <5>1. n - 1 \in Nat /\ n = (n - 1) + 1
          BY <3>2
        <5> QED
          BY <5>1
      <4>2. f[m + 1] = F[m][f[m]] /\ f[m] \in Seq(Nat)
        BY <1>3 DEF Iterated
      <4>3. n - 1 = m
        BY <4>1
      <4> QED
        BY <1>4, <3>2, <4>1, <4>2, <4>3
    <3> QED
      BY <3>1, <3>2
  <2>2. f = [n \in Nat |-> f[n]]
    BY <1>3 DEF Iterated
  <2>3. f = [n \in Nat |-> IF n = 0 THEN <<>> ELSE One(n, f[n - 1])]
    BY <2>1, <2>2
  <2> QED
    BY <2>3
<1>6. P(hits)
  BY <1>5
<1>7. \A n \in Nat : hits[n] = IF n = 0 THEN <<>> ELSE One(n, hits[n - 1])
  <2> HIDE DEF hits
  <2> QED
    BY <1>6
<1>8. Ranked(query, names) = hits
  BY DEF Ranked, hits, P, One
<1> HIDE DEF hits, P
<1>9. ASSUME NEW n \in Nat PROVE hits[n] \in Seq(1 .. n)
  <2> DEFINE T == {m \in Nat : hits[m] \notin Seq(1 .. m)}
  <2>1. T = {}
    <3> SUFFICES ASSUME T # {} PROVE FALSE
      OBVIOUS
    <3>1. T \in SUBSET Nat
      OBVIOUS
    <3>2. PICK m \in T : \A k \in T : m <= k
      <4> HIDE DEF T
      <4> QED
        BY <3>1, LeastNumber
    <3>3. m # 0
      <4>1. hits[0] = <<>>
        BY <1>7
      <4>2. hits[0] \in Seq(1 .. 0)
        BY <4>1
      <4> QED
        BY <3>2, <4>2
    <3>4. PICK k : k = m - 1
      OBVIOUS
    <3>5. k \in Nat /\ m = k + 1 /\ ~(m <= k)
      BY <3>2, <3>3, <3>4
    <3>6. hits[k] \in Seq(1 .. k)
      BY <3>2, <3>5
    <3>7. hits[k] \in Seq(1 .. m) /\ m \in 1 .. m
      <4>1. PICK r, V, W : r = hits[k] /\ V = 1 .. k /\ W = 1 .. m
        OBVIOUS
      <4>2. r \in Seq(V) /\ V \subseteq W
        BY <3>5, <3>6, <4>1
      <4>3. r \in Seq(W)
        BY <4>2, SeqWidens
      <4> QED
        BY <3>5, <4>1, <4>3
    <3>8. hits[m] = One(m, hits[k])
      BY <1>7, <3>3, <3>4, <3>5
    <3>9. hits[m] \in Seq(1 .. m)
      BY <3>7, <3>8, RankFits DEF One
    <3> QED
      BY <3>2, <3>9
  <2> QED
    BY <2>1
<1>10. Len(names) \in Nat
  OBVIOUS
<1>11. CASE query = <<>>
  <2>1. PICK n \in Nat : n = Len(names)
    BY <1>10
  <2>2. [idx \in 1 .. n |-> idx] \in Seq(1 .. n)
    OBVIOUS
  <2> QED
    BY <1>11, <2>1, <2>2 DEF Filter
<1>12. CASE query # <<>>
  BY <1>8, <1>9, <1>10, <1>12 DEF Filter
<1> QED
  BY <1>11, <1>12

\* What a popup offers are candidates, and one of them is selected.
Offers(kind, p) ==
  /\ DOMAIN p = {"active", "at", "query", "filtered", "selected"}
  /\ p.filtered \in Seq(1 .. Len(Candidates[kind]))
  /\ p.selected \in Nat
  /\ p.filtered # <<>> => p.selected < Len(p.filtered)

LEMMA ClosedOffers == ASSUME NEW kind PROVE Offers(kind, Closed)
  BY DEF Offers, Closed

\* A refreshed popup offers candidates.
LEMMA RefreshOffers ==
  ASSUME NEW kind \in Kinds, NEW p, Offers(kind, p), NEW b
  PROVE  Offers(kind, Refresh(p, kind, b, Candidates[kind]))
<1>1. PICK asked, hits : asked = Asked(kind, b) /\ hits = Filter(asked.query, Candidates[kind])
  OBVIOUS
<1>2. PICK s : s = Least(p.selected, Most(Len(hits) - 1, 0))
  OBVIOUS
<1>3. hits \in Seq(1 .. Len(Candidates[kind]))
  <2>1. Candidates[kind] \in Seq(Seq(STRING))
    BY CandidatesAssumption
  <2> QED
    BY <1>1, <2>1, FilterFits
<1>4. Len(hits) \in Nat /\ (hits # <<>> => Len(hits) > 0)
  BY <1>3
<1>5. s \in Nat /\ (hits # <<>> => s < Len(hits))
  <2>1. p.selected \in Nat
    BY DEF Offers
  <2> QED
    BY <1>2, <1>4, <2>1 DEF Least, Most
<1>6. Refresh(p, kind, b, Candidates[kind]) \in
        {Closed, [active |-> TRUE, at |-> asked.at, query |-> asked.query, filtered |-> hits, selected |-> s]}
  BY <1>1, <1>2 DEF Refresh
<1>7. Offers(kind, [active |-> TRUE, at |-> asked.at, query |-> asked.query, filtered |-> hits, selected |-> s])
  BY <1>3, <1>5 DEF Offers
<1> QED
  BY <1>6, <1>7, ClosedOffers

\* Accepting types the selected name over what was asked.
LEMMA AcceptStages ==
  ASSUME NEW kind \in Kinds, NEW p, Offers(kind, p), p.filtered # <<>>,
         NEW b, BufShape(b), HasHistory(b)
  PROVE  Stage(b, Accept(b, p, kind, Candidates[kind]))
<1>1. PICK name, end : /\ name = Candidates[kind][p.filtered[p.selected + 1]]
                       /\ end = p.at.col + Len(Sign(kind)) + Len(p.query)
  OBVIOUS
<1>2. PICK gone : gone = IF end > p.at.col THEN DeleteRange(b, p.at, Cursor(p.at.row, end - 1)) ELSE b
  OBVIOUS
<1>3. PICK txt : txt = Sign(kind) \o name \o <<Blank>>
  OBVIOUS
<1>4. Accept(b, p, kind, Candidates[kind]) = Insert(gone, txt)
  BY <1>1, <1>2, <1>3 DEF Accept
<1>5. Len(txt) \in Nat
  <2>1. p.selected + 1 \in 1 .. Len(p.filtered) /\ p.filtered \in Seq(1 .. Len(Candidates[kind]))
    BY DEF Offers
  <2>2. p.filtered[p.selected + 1] \in 1 .. Len(Candidates[kind])
    BY <2>1
  <2>3. PICK V : V = STRING \cup {MentionSign, Blank}
    OBVIOUS
  <2>4. name \in Seq(V)
    <3>1. Candidates[kind] \in Seq(Seq(STRING))
      BY CandidatesAssumption
    <3>2. name \in Seq(STRING)
      BY <1>1, <2>2, <3>1
    <3> QED
      BY <2>3, <3>2, SeqWidens
  <2>5. Sign(kind) \in Seq(V) /\ <<Blank>> \in Seq(V)
    <3>1. MentionSign \in V /\ Blank \in V
      BY <2>3
    <3>2. Sign(kind) = <<MentionSign>> \/ Sign(kind) = <<>>
      BY DEF Sign
    <3>3. <<MentionSign>> \in Seq(V) /\ <<>> \in Seq(V) /\ <<Blank>> \in Seq(V)
      BY <3>1
    <3> QED
      BY <3>2, <3>3
  <2>6. txt \in Seq(V)
    BY <1>3, <2>4, <2>5
  <2> QED
    BY <2>6
<1>6. Stage(b, gone)
  BY <1>2, RangeCommits, CommitEdits, Stays DEF Stage
<1>7. BufShape(gone) /\ HasHistory(gone)
  BY <1>6, StageShapes
<1>8. Stage(gone, Insert(gone, txt))
  BY <1>5, <1>7, TimesStage
<1> QED
  BY <1>4, <1>6, <1>8, StagesOn

-----------------------------------------------------------------------------
\* Versions

LEMMA Joined ==
  ASSUME NEW S, NEW a \in Seq(S), NEW c \in Seq(S)
  PROVE  /\ a \o c \in Seq(S) /\ Len(a \o c) = Len(a) + Len(c) /\ Len(a) \in Nat /\ Len(c) \in Nat
         /\ \A idx \in 1 .. Len(a) : (a \o c)[idx] = a[idx]
         /\ \A idx \in 1 .. Len(c) : (a \o c)[Len(a) + idx] = c[idx]
  OBVIOUS

VersionLine(u, v, r) == TextsOf(u) \o <<v>> \o Reverse(TextsOf(r))

\* The versions are those to undo, the text, and those to redo, last one first.
TextsIn(S, L) == \A x \in S : x.lines \in L
IsVersionLine(q, L, u, v, r) ==
  /\ q \in Seq(L) /\ Len(u) \in Nat /\ Len(r) \in Nat
  /\ Len(q) = Len(u) + 1 + Len(r)
  /\ \A idx \in 1 .. Len(u) : q[idx] = u[idx].lines
  /\ q[Len(u) + 1] = v
  /\ \A idx \in 1 .. Len(r) : q[Len(u) + 1 + idx] = r[Len(r) - idx + 1].lines

LEMMA LineIs ==
  ASSUME NEW S, NEW L, TextsIn(S, L), NEW u \in Seq(S), NEW r \in Seq(S), NEW v \in L
  PROVE  IsVersionLine(VersionLine(u, v, r), L, u, v, r)
<1>1. PICK m \in Nat, n \in Nat : m = Len(u) /\ n = Len(r)
  OBVIOUS
<1>2. PICK a, c, d, q : a = TextsOf(u) /\ c = Reverse(TextsOf(r)) /\ d = <<v>> /\ q = TextsOf(r)
  OBVIOUS
<1>3. ASSUME NEW s \in Seq(S)
      PROVE  /\ TextsOf(s) \in Seq(L) /\ Len(TextsOf(s)) = Len(s)
             /\ \A idx \in 1 .. Len(s) : TextsOf(s)[idx] = s[idx].lines
  <2>1. PICK k \in Nat : k = Len(s) /\ s \in [1 .. k -> S]
    OBVIOUS
  <2>2. DOMAIN s = 1 .. k
    BY <2>1
  <2>3. TextsOf(s) = [idx \in 1 .. k |-> s[idx].lines]
    BY <2>2 DEF TextsOf
  <2>4. \A idx \in 1 .. k : s[idx].lines \in L
    BY <2>1 DEF TextsIn
  <2>5. [idx \in 1 .. k |-> s[idx].lines] \in Seq(L) /\ Len([idx \in 1 .. k |-> s[idx].lines]) = k
    BY <2>1, <2>4
  <2> QED
    BY <2>1, <2>3, <2>5
<1>4. a \in Seq(L) /\ Len(a) = m /\ \A idx \in 1 .. m : a[idx] = u[idx].lines
  BY <1>1, <1>2, <1>3
<1>5. q \in Seq(L) /\ Len(q) = n /\ \A idx \in 1 .. n : q[idx] = r[idx].lines
  BY <1>1, <1>2, <1>3
<1>6. c \in Seq(L) /\ Len(c) = n /\ \A idx \in 1 .. n : c[idx] = r[n - idx + 1].lines
  <2>1. c = [idx \in 1 .. n |-> q[(n - idx) + 1]]
    BY <1>2, <1>5 DEF Reverse
  <2>2. \A idx \in 1 .. n : (n - idx) + 1 \in 1 .. n
    BY <1>1
  <2>3. \A idx \in 1 .. n : q[(n - idx) + 1] \in L
    BY <1>5, <2>2
  <2>4. c \in Seq(L) /\ Len(c) = n
    BY <1>1, <2>1, <2>3
  <2> QED
    BY <1>5, <2>1, <2>2, <2>4
<1>7. d \in Seq(L) /\ Len(d) = 1 /\ d[1] = v
  BY <1>2
<1>8. PICK e : e = a \o d
  OBVIOUS
<1>9. e \in Seq(L) /\ Len(e) = m + 1 /\ e[m + 1] = v /\ \A idx \in 1 .. m : e[idx] = u[idx].lines
  <2>1. /\ e \in Seq(L) /\ Len(e) = Len(a) + Len(d)
        /\ \A idx \in 1 .. Len(a) : e[idx] = a[idx]
        /\ \A idx \in 1 .. Len(d) : e[Len(a) + idx] = d[idx]
    <3>1. a \in Seq(L) /\ d \in Seq(L)
      BY <1>4, <1>7
    <3> QED
      BY <1>8, <3>1, Joined
  <2>2. 1 \in 1 .. Len(d) /\ Len(e) = m + 1
    BY <1>4, <1>7, <2>1
  <2>3. e[m + 1] = v
    BY <1>4, <1>7, <2>1, <2>2
  <2> QED
    BY <1>4, <2>1, <2>2, <2>3
<1>10. VersionLine(u, v, r) = e \o c
  BY <1>2, <1>8 DEF VersionLine
<1>11. e \o c \in Seq(L) /\ Len(e \o c) = m + 1 + n
  <2>1. e \o c \in Seq(L) /\ Len(e \o c) = Len(e) + Len(c)
    BY <1>6, <1>9, Joined
  <2> QED
    BY <1>6, <1>9, <2>1
<1>12. /\ \A idx \in 1 .. m : (e \o c)[idx] = u[idx].lines
       /\ (e \o c)[m + 1] = v
  BY <1>1, <1>6, <1>9
<1>13. ASSUME NEW idx \in 1 .. n PROVE (e \o c)[m + 1 + idx] = r[n - idx + 1].lines
  BY <1>1, <1>6, <1>9
<1> QED
  BY <1>1, <1>10, <1>11, <1>12, <1>13 DEF IsVersionLine

\* Going one version back, or on, leaves the versions what they are.
LEMMA LineShifts ==
  ASSUME NEW S, NEW u \in Seq(S), NEW r \in Seq(S), NEW x \in S, NEW y \in S
  PROVE  VersionLine(Append(u, x), y.lines, r) = VersionLine(u, x.lines, Append(r, y))
<1>1. PICK L : L = {z.lines : z \in S}
  OBVIOUS
<1>2. PICK m \in Nat, n \in Nat : m = Len(u) /\ n = Len(r)
  OBVIOUS
<1>3. PICK a, c : a = Append(u, x) /\ c = Append(r, y)
  OBVIOUS
<1>4. /\ a \in Seq(S) /\ Len(a) = m + 1 /\ a[m + 1] = x /\ \A idx \in 1 .. m : a[idx] = u[idx]
      /\ c \in Seq(S) /\ Len(c) = n + 1 /\ c[n + 1] = y /\ \A idx \in 1 .. n : c[idx] = r[idx]
  BY <1>2, <1>3
<1>5. PICK p, q : p = VersionLine(a, y.lines, r) /\ q = VersionLine(u, x.lines, c)
  OBVIOUS
<1>7. /\ p \in Seq(L) /\ Len(p) = (m + 1) + 1 + n
      /\ \A idx \in 1 .. (m + 1) : p[idx] = a[idx].lines
      /\ p[(m + 1) + 1] = y.lines
      /\ \A idx \in 1 .. n : p[(m + 1) + 1 + idx] = r[n - idx + 1].lines
  <2>1. y.lines \in L /\ TextsIn(S, L)
    BY <1>1 DEF TextsIn
  <2>2. IsVersionLine(p, L, a, y.lines, r)
    BY <1>4, <1>5, <2>1, LineIs
  <2> QED
    BY <1>2, <1>4, <2>2 DEF IsVersionLine
<1>8. /\ q \in Seq(L) /\ Len(q) = m + 1 + (n + 1)
      /\ \A idx \in 1 .. m : q[idx] = u[idx].lines
      /\ q[m + 1] = x.lines
      /\ \A idx \in 1 .. (n + 1) : q[m + 1 + idx] = c[(n + 1) - idx + 1].lines
  <2>1. x.lines \in L /\ TextsIn(S, L)
    BY <1>1 DEF TextsIn
  <2>2. IsVersionLine(q, L, u, x.lines, c)
    BY <1>4, <1>5, <2>1, LineIs
  <2> QED
    BY <1>2, <1>4, <2>2 DEF IsVersionLine
<1>9. Len(p) = m + n + 2 /\ Len(q) = m + n + 2
  BY <1>7, <1>8
<1>10. ASSUME NEW idx \in 1 .. (m + n + 2) PROVE p[idx] = q[idx]
  <2>1. CASE idx \in 1 .. m
    <3>1. idx \in 1 .. (m + 1)
      BY <2>1
    <3>2. p[idx] = a[idx].lines /\ q[idx] = u[idx].lines /\ a[idx] = u[idx]
      BY <1>4, <1>7, <1>8, <2>1, <3>1
    <3> QED
      BY <3>2
  <2>2. CASE idx = m + 1
    <3>1. idx \in 1 .. (m + 1)
      BY <2>2
    <3> QED
      BY <1>4, <1>7, <1>8, <2>2, <3>1
  <2>3. CASE idx = m + 2
    <3>1. 1 \in 1 .. (n + 1) /\ (n + 1) - 1 + 1 = n + 1 /\ idx = m + 1 + 1 /\ idx = (m + 1) + 1
      BY <2>3
    <3> QED
      BY <1>4, <1>7, <1>8, <3>1
  <2>4. CASE idx > m + 2
    <3>1. PICK k : k = idx - (m + 2)
      OBVIOUS
    <3>2. k \in 1 .. n /\ k + 1 \in 1 .. (n + 1) /\ idx = (m + 1) + 1 + k /\ idx = m + 1 + (k + 1)
      BY <2>4, <3>1
    <3>3. PICK l : l = n - k + 1
      OBVIOUS
    <3>4. l \in 1 .. n /\ (n + 1) - (k + 1) + 1 = l
      BY <3>2, <3>3
    <3>5. p[idx] = r[l].lines
      BY <1>7, <3>2, <3>3
    <3>6. q[idx] = c[l].lines
      BY <1>8, <3>2, <3>4
    <3> QED
      BY <1>4, <3>4, <3>5, <3>6
  <2> QED
    BY <2>1, <2>2, <2>3, <2>4
<1>11. p = q
  BY <1>7, <1>8, <1>9, <1>10
<1> QED
  BY <1>3, <1>5, <1>11

Shown(b) == VersionLine(b.undo, b.lines, b.redo)
Present(b) == Len(b.undo) + 1

\* One version back, if there is one; one version on.
Back(b, c) == /\ Present(b) > 1 /\ Present(c) = Present(b) - 1
              /\ Shown(c) = Shown(b)
On(b, c) == /\ Present(b) < Len(Shown(b)) /\ Present(c) = Present(b) + 1
            /\ Shown(c) = Shown(b)

\* A sequence is its front and its last one.
LEMMA LastAndFront ==
  ASSUME NEW S, NEW q \in Seq(S), q # <<>>
  PROVE  /\ Len(q) \in Nat /\ Len(q) > 0 /\ Last(q) \in S /\ Front(q) \in Seq(S)
         /\ Len(Front(q)) = Len(q) - 1 /\ q = Append(Front(q), Last(q))
<1>1. PICK n \in Nat : n + 1 = Len(q)
  <2>1. Len(q) \in Nat /\ Len(q) # 0
    OBVIOUS
  <2>2. Len(q) - 1 \in Nat /\ (Len(q) - 1) + 1 = Len(q)
    BY <2>1
  <2> QED
    BY <2>2
<1>2. PICK f, x : f = SubSeq(q, 1, n) /\ x = q[n + 1]
  OBVIOUS
<1>3. f \in Seq(S) /\ Len(f) = n /\ x \in S /\ \A idx \in 1 .. n : f[idx] = q[idx]
  BY <1>1, <1>2
<1>4. PICK a : a = Append(f, x)
  OBVIOUS
<1>5. a \in Seq(S) /\ Len(a) = n + 1 /\ a[n + 1] = x /\ \A idx \in 1 .. n : a[idx] = f[idx]
  BY <1>3, <1>4
<1>6. \A idx \in 1 .. (n + 1) : a[idx] = q[idx]
  <2>1. ASSUME NEW idx \in 1 .. (n + 1), idx # n + 1 PROVE idx \in 1 .. n
    BY <2>1
  <2> QED
    BY <1>2, <1>3, <1>5, <2>1
<1>7. a = q
  BY <1>1, <1>5, <1>6
<1>8. (n + 1) - 1 = n
  OBVIOUS
<1>9. Front(q) = f /\ Last(q) = x
  BY <1>1, <1>2, <1>8 DEF Front, Last
<1>10. Len(q) \in Nat /\ Len(q) > 0 /\ n = Len(q) - 1
  BY <1>1
<1>11. q = Append(f, x)
  BY <1>4, <1>7
<1> QED
  BY <1>3, <1>9, <1>10, <1>11

\* Going to a version takes its text and leaves the history alone.
LEMMA RestoreGives ==
  ASSUME NEW b, BufShape(b), NEW snapshot
  PROVE  LET c == Restore(b, snapshot)
         IN  Works(b, c) /\ c.lines = snapshot.lines
<1>1. PICK b1 : b1 = [b EXCEPT !.lines = snapshot.lines, !.cursor = snapshot.cursor]
  OBVIOUS
<1>2. Works(b, b1) /\ b1.lines = snapshot.lines
  BY <1>1 DEF BufShape, Works, Fields
<1>3. Moves(b1, ClampCursor(b1))
  BY <1>2, ClampMoves DEF Works
<1>4. Restore(b, snapshot) = ClampCursor(b1)
  BY <1>1 DEF Restore
<1> QED
  BY <1>2, <1>3, <1>4 DEF Moves, Works

\* u goes one version back, Ctrl-r one on, or there is none.
LEMMA UndoGoesBack ==
  ASSUME NEW b, BufShape(b), HasHistory(b), b.undo # <<>>
  PROVE  BufShape(Undo(b)) /\ HasHistory(Undo(b)) /\ Back(b, Undo(b))
<1>1. PICK S : b.undo \in Seq(S) /\ b.redo \in Seq(S)
  BY DEF HasHistory
<1>2. PICK u, x, r, y, U : /\ u = Front(b.undo) /\ x = Last(b.undo) /\ r = b.redo
                           /\ y = Snapshot(b) /\ U = S \cup {y}
  OBVIOUS
<1>3. /\ u \in Seq(S) /\ x \in S /\ b.undo = Append(u, x) /\ Len(b.undo) \in Nat
      /\ Len(b.undo) > 0 /\ Len(u) = Len(b.undo) - 1
  BY <1>1, <1>2, LastAndFront
<1>4. u \in Seq(U) /\ r \in Seq(U) /\ x \in U /\ y \in U /\ Append(r, y) \in Seq(U)
  <2>1. u \in Seq(U) /\ r \in Seq(U)
    BY <1>1, <1>2, <1>3, SeqWidens
  <2> QED
    BY <1>2, <1>3, <2>1
<1>5. y.lines = b.lines
  BY <1>2 DEF Snapshot
<1>6. PICK b1 : b1 = [b EXCEPT !.undo = u, !.redo = Append(r, y)]
  OBVIOUS
<1>7. BufShape(b1) /\ b1.undo = u /\ b1.redo = Append(r, y)
  BY <1>6 DEF BufShape, Fields
<1>8. Undo(b) = Restore(b1, x)
  BY <1>2, <1>6 DEF Undo
<1>9. PICK c : c = Undo(b)
  OBVIOUS
<1>10. BufShape(c) /\ c.undo = u /\ c.redo = Append(r, y) /\ c.lines = x.lines
  BY <1>7, <1>8, <1>9, RestoreGives DEF Works
<1>11. Shown(c) = Shown(b)
  <2>1. VersionLine(Append(u, x), y.lines, r) = VersionLine(u, x.lines, Append(r, y))
    BY <1>4, LineShifts
  <2> QED
    BY <1>2, <1>3, <1>5, <1>10, <2>1 DEF Shown
<1>12. Present(b) > 1 /\ Present(c) = Present(b) - 1
  BY <1>3, <1>10 DEF Present
<1>13. HasHistory(c)
  BY <1>4, <1>10 DEF HasHistory
<1> QED
  BY <1>9, <1>10, <1>11, <1>12, <1>13 DEF Back

LEMMA RedoGoesOn ==
  ASSUME NEW b, BufShape(b), HasHistory(b), b.redo # <<>>
  PROVE  BufShape(Redo(b)) /\ HasHistory(Redo(b)) /\ On(b, Redo(b))
<1>1. PICK S : b.undo \in Seq(S) /\ b.redo \in Seq(S)
  BY DEF HasHistory
<1>2. PICK r, y, u, x, U : /\ r = Front(b.redo) /\ y = Last(b.redo) /\ u = b.undo
                           /\ x = Snapshot(b) /\ U = S \cup {x}
  OBVIOUS
<1>3. /\ r \in Seq(S) /\ y \in S /\ b.redo = Append(r, y) /\ Len(b.redo) \in Nat /\ Len(b.redo) > 0
  BY <1>1, <1>2, LastAndFront
<1>4. u \in Seq(U) /\ r \in Seq(U) /\ x \in U /\ y \in U /\ Append(u, x) \in Seq(U) /\ b.redo \in Seq(U)
  <2>1. u \in Seq(U) /\ r \in Seq(U) /\ b.redo \in Seq(U)
    BY <1>1, <1>2, <1>3, SeqWidens
  <2> QED
    BY <1>2, <1>3, <2>1
<1>5. x.lines = b.lines
  BY <1>2 DEF Snapshot
<1>6. PICK b1 : b1 = [b EXCEPT !.redo = r, !.undo = Append(u, x)]
  OBVIOUS
<1>7. BufShape(b1) /\ b1.redo = r /\ b1.undo = Append(u, x)
  BY <1>6 DEF BufShape, Fields
<1>8. Redo(b) = Restore(b1, y)
  BY <1>2, <1>6 DEF Redo
<1>9. PICK c : c = Redo(b)
  OBVIOUS
<1>10. BufShape(c) /\ c.redo = r /\ c.undo = Append(u, x) /\ c.lines = y.lines
  BY <1>7, <1>8, <1>9, RestoreGives DEF Works
<1>11. Shown(c) = Shown(b)
  <2>1. VersionLine(Append(u, x), y.lines, r) = VersionLine(u, x.lines, Append(r, y))
    BY <1>4, LineShifts
  <2> QED
    BY <1>2, <1>3, <1>5, <1>10, <2>1 DEF Shown
<1>12. Len(u) \in Nat /\ Len(c.undo) = Len(u) + 1
  BY <1>4, <1>10
<1>13. Len(Shown(b)) = Len(u) + 1 + Len(b.redo)
  <2>1. PICK L : L = {z.lines : z \in S} \cup {b.lines}
    OBVIOUS
  <2>2. b.lines \in L /\ TextsIn(S, L)
    BY <2>1 DEF TextsIn
  <2>3. IsVersionLine(VersionLine(b.undo, b.lines, b.redo), L, b.undo, b.lines, b.redo)
    BY <1>1, <2>2, LineIs
  <2> QED
    BY <1>2, <2>3 DEF Shown, IsVersionLine
<1>14. Present(b) < Len(Shown(b)) /\ Present(c) = Present(b) + 1
  <2>1. PICK l : l = Len(b.redo)
    OBVIOUS
  <2>2. Present(b) = Len(u) + 1 /\ Present(c) = (Len(u) + 1) + 1
    BY <1>2, <1>12 DEF Present
  <2>3. l \in Nat /\ l > 0 /\ Len(Shown(b)) = Len(u) + 1 + l
    BY <1>3, <1>13, <2>1
  <2> QED
    BY <1>12, <2>2, <2>3
<1>15. HasHistory(c)
  BY <1>4, <1>10 DEF HasHistory
<1> QED
  BY <1>9, <1>10, <1>11, <1>14, <1>15 DEF On

-----------------------------------------------------------------------------
\* What a round does to the versions

\* The present version grows to a later one, and what was before it is kept.
Further(b, c) == /\ Present(c) > Present(b) /\ Len(Shown(c)) = Present(c)
                 /\ SubSeq(Shown(c), 1, Present(b)) = SubSeq(Shown(b), 1, Present(b))

\* An edit keeps the versions up to the present one and goes further.
LEMMA EditedIsFurther == ASSUME NEW b, HasHistory(b), NEW c, Edited(b, c) PROVE Further(b, c)
<1>1. PICK S : Grown(S, b.undo, c.undo, b.lines)
  BY DEF Edited
<1>2. PICK T : b.undo \in Seq(T) /\ b.redo \in Seq(T)
  BY DEF HasHistory
<1>3. PICK U, L : U = S \cup T /\ L = {x.lines : x \in U} \cup {b.lines, c.lines}
  OBVIOUS
<1>4. PICK p, q, r, m, n : p = b.undo /\ q = c.undo /\ r = b.redo /\ m = Len(p) /\ n = Len(q)
  OBVIOUS
<1>5. p \in Seq(U) /\ q \in Seq(U) /\ r \in Seq(U) /\ <<>> \in Seq(U)
  BY <1>1, <1>2, <1>3, <1>4, SeqWidens DEF Grown
<1>6. m \in Nat /\ n \in Nat /\ m < n /\ q[m + 1].lines = b.lines /\ \A idx \in 1 .. m : q[idx] = p[idx]
  BY <1>1, <1>4 DEF Grown
<1>7. PICK v, w : v = Shown(b) /\ w = Shown(c)
  OBVIOUS
<1>8. TextsIn(U, L) /\ b.lines \in L /\ c.lines \in L
  BY <1>3 DEF TextsIn
<1>9. IsVersionLine(v, L, p, b.lines, r)
  BY <1>4, <1>5, <1>7, <1>8, LineIs DEF Shown
<1>10. IsVersionLine(w, L, q, c.lines, <<>>)
  <2>1. c.redo = <<>>
    BY DEF Edited
  <2> QED
    BY <1>4, <1>5, <1>7, <1>8, <2>1, LineIs DEF Shown
<1>11. Len(w) = n + 1
  BY <1>4, <1>10 DEF IsVersionLine
<1>12. Len(v) >= m + 1 /\ Len(w) >= m + 1
  <2>1. Len(r) \in Nat /\ Len(v) = m + 1 + Len(r)
    BY <1>4, <1>9 DEF IsVersionLine
  <2>2. PICK k \in Nat : Len(v) = m + 1 + k
    BY <2>1
  <2> QED
    BY <1>6, <1>11, <2>2
<1>13. ASSUME NEW idx \in 1 .. (m + 1) PROVE v[idx] = w[idx]
  <2>1. CASE idx \in 1 .. m
    <3>1. idx \in 1 .. n
      BY <1>6, <2>1
    <3>2. v[idx] = p[idx].lines /\ w[idx] = q[idx].lines /\ p[idx] = q[idx]
      BY <1>4, <1>6, <1>9, <1>10, <2>1, <3>1 DEF IsVersionLine
    <3> QED
      BY <3>2
  <2>2. CASE idx = m + 1
    <3>1. m + 1 \in 1 .. n
      BY <1>6
    <3>2. v[m + 1] = b.lines /\ w[m + 1] = q[m + 1].lines
      BY <1>4, <1>9, <1>10, <3>1 DEF IsVersionLine
    <3> QED
      BY <1>6, <2>2, <3>2
  <2> QED
    BY <1>6, <2>1, <2>2
<1>14. v \in Seq(L) /\ w \in Seq(L)
  BY <1>9, <1>10 DEF IsVersionLine
<1>15. SubSeq(w, 1, m + 1) = SubSeq(v, 1, m + 1)
  <2>1. PICK k \in Nat : k = m + 1
    BY <1>6
  <2>2. SubSeq(w, 1, k) = [idx \in 1 .. k |-> w[idx]] /\ SubSeq(v, 1, k) = [idx \in 1 .. k |-> v[idx]]
    BY <1>12, <1>14, <2>1
  <2>3. [idx \in 1 .. k |-> w[idx]] = [idx \in 1 .. k |-> v[idx]]
    BY <1>13, <2>1
  <2> QED
    BY <2>1, <2>2, <2>3
<1>16. Present(b) = m + 1 /\ Present(c) = n + 1
  BY <1>4 DEF Present
<1> QED
  BY <1>6, <1>7, <1>11, <1>15, <1>16 DEF Further

\* Without a history the text is the first version and the only one.
LEMMA BareIsFirst == ASSUME NEW b, Bare(b) PROVE Present(b) = 1 /\ Len(Shown(b)) = 1
<1>1. PICK L : L = {b.lines}
  OBVIOUS
<1>2. TextsIn({}, L) /\ b.lines \in L /\ <<>> \in Seq({})
  BY <1>1 DEF TextsIn
<1>3. b.undo = <<>> /\ b.redo = <<>>
  BY DEF Bare
<1>4. IsVersionLine(Shown(b), L, b.undo, b.lines, b.redo)
  <2>1. b.undo \in Seq({}) /\ b.redo \in Seq({})
    BY <1>2, <1>3
  <2> QED
    BY <1>2, <2>1, LineIs DEF Shown
<1>5. Len(b.undo) = 0 /\ Len(b.redo) = 0
  BY <1>3
<1> QED
  BY <1>4, <1>5 DEF IsVersionLine, Present

\* What becomes of a buffer in one round.
Turns(b, c) == Stage(b, c) \/ Bare(c) \/ c \in {Undo(b), Redo(b)}

Keeps(b, c) == Shown(c) = Shown(b) /\ Present(c) = Present(b)
Restarts(c) == Len(Shown(c)) = 1 /\ Present(c) = 1

\* What becomes of a buffer is a step of the abstract history, or none.
LEMMA TurnsAreSteps ==
  ASSUME NEW b, BufShape(b), HasHistory(b), NEW c, Turns(b, c)
  PROVE  /\ BufShape(c) /\ HasHistory(c)
         /\ Keeps(b, c) \/ Further(b, c) \/ Back(b, c) \/ On(b, c) \/ Restarts(c)
<1>1. CASE Moves(b, c)
  BY <1>1, StageShapes DEF Stage, Moves, Works, Keeps, Shown, Present
<1>2. CASE Edited(b, c)
  BY <1>2, StageShapes, EditedIsFurther DEF Stage
<1>3. CASE Bare(c)
  BY <1>3, BareHas, BareIsFirst DEF Restarts
<1>4. CASE c = Undo(b)
  <2>1. CASE b.undo = <<>>
    <3>1. c = b
      BY <1>4, <2>1 DEF Undo
    <3> QED
      BY <3>1 DEF Keeps
  <2>2. CASE b.undo # <<>>
    BY <1>4, <2>2, UndoGoesBack
  <2> QED
    BY <2>1, <2>2
<1>5. CASE c = Redo(b)
  <2>1. CASE b.redo = <<>>
    <3>1. c = b
      BY <1>5, <2>1 DEF Redo
    <3> QED
      BY <3>1 DEF Keeps
  <2>2. CASE b.redo # <<>>
    BY <1>5, <2>2, RedoGoesOn
  <2> QED
    BY <2>1, <2>2
<1> QED
  BY <1>1, <1>2, <1>3, <1>4, <1>5 DEF Turns, Stage

-----------------------------------------------------------------------------
\* The loop

PopupsOffer == /\ DOMAIN popup = Kinds
               /\ \A kind \in Kinds : Offers(kind, popup[kind])

EditorInv == BufShape(buf) /\ HasHistory(buf) /\ ParserShape(parser) /\ PopupsOffer

LEMMA HistKept == ASSUME NEW p, ParserShape(p), NEW idx PROVE ParserShape([p EXCEPT !.hist = idx])
  BY DEF ParserShape

\* A prompt starts without a history.
LEMMA InitTurns == Init => Bare(buf) /\ EditorInv
<1> SUFFICES ASSUME Init PROVE Bare(buf) /\ EditorInv
  OBVIOUS
<1>1. ParserShape(Idle)
  BY DEF Idle, ParserShape
<1>2. ASSUME buf = InsertBefore(NewBuffer), parser = Idle PROVE Bare(buf) /\ ParserShape(parser)
  <2>1. Moves(NewBuffer, buf)
    BY <1>2, NewIsBare, EnterMoves DEF Bare, InsertBefore
  <2> QED
    BY <1>1, <1>2, <2>1, NewIsBare DEF Bare, Moves, Works
<1>3. ASSUME NEW idx \in DOMAIN History, buf = Recalled(History[idx]), parser = [Idle EXCEPT !.hist = idx]
      PROVE  Bare(buf) /\ ParserShape(parser)
  BY <1>1, <1>3, RecalledIsBare, HistKept
<1>4. Bare(buf) /\ ParserShape(parser)
  BY <1>2, <1>3 DEF Init
<1>5. PopupsOffer
  BY ClosedOffers DEF Init, AllClosed, PopupsOffer
<1> QED
  BY <1>4, <1>5, BareHas DEF EditorInv

\* The refresh at the end of a round keeps the popups true.
LEMMA RefreshedOffers ==
  ASSUME PopupsOffer, NEW b
  PROVE  /\ DOMAIN Refreshed(b) = Kinds
         /\ \A kind \in Kinds : Offers(kind, Refreshed(b)[kind])
<1>1. DOMAIN Refreshed(b) = Kinds
  BY DEF Refreshed
<1>2. ASSUME NEW kind \in Kinds PROVE Offers(kind, Refreshed(b)[kind])
  <2>1. Refreshed(b)[kind] \in {Closed, Refresh(popup[kind], kind, b, Candidates[kind])}
    BY DEF Refreshed
  <2> QED
    BY <2>1, ClosedOffers, RefreshOffers DEF PopupsOffer
<1> QED
  BY <1>1, <1>2

\* A key that a popup intercepts.
LEMMA PopupKeys ==
  ASSUME EditorInv, NEW kind \in Kinds,
         Select(kind) \/ AcceptMatch(kind) \/ Dismiss(kind) \/ SubmitUnmatched(kind)
  PROVE  Turns(buf, buf') /\ ParserShape(parser') /\ PopupsOffer'
<1>1. BufShape(buf) /\ HasHistory(buf) /\ ParserShape(parser) /\ PopupsOffer /\ Offers(kind, popup[kind])
  BY DEF EditorInv, PopupsOffer
<1>2. Turns(buf, buf)
  BY <1>1, Stays DEF Turns
<1>3. ASSUME popup' = [popup EXCEPT ![kind] = Closed] PROVE PopupsOffer'
  BY <1>1, <1>3, ClosedOffers DEF PopupsOffer
<1>4. CASE Select(kind)
  <2>1. PICK s : /\ s \in {Most(popup[kind].selected - 1, 0),
                           Least(popup[kind].selected + 1, Most(Len(popup[kind].filtered) - 1, 0))}
                 /\ popup' = [popup EXCEPT ![kind].selected = s]
    BY <1>4 DEF Select
  <2>2. PICK p, l : p = popup[kind] /\ l = Len(p.filtered)
    OBVIOUS
  <2>3. Offers(kind, p) /\ p.selected \in Nat /\ l \in Nat /\ (p.filtered # <<>> => p.selected < l)
    BY <1>1, <2>2 DEF Offers
  <2>4. s \in {Most(p.selected - 1, 0), Least(p.selected + 1, Most(l - 1, 0))}
    BY <2>1, <2>2
  <2>5. s \in Nat /\ (p.filtered # <<>> => s < l)
    BY <2>3, <2>4 DEF Most, Least
  <2>6. PICK q : q = [p EXCEPT !.selected = s]
    OBVIOUS
  <2>7. Offers(kind, q)
    BY <2>2, <2>3, <2>5, <2>6 DEF Offers
  <2>8. popup' = [popup EXCEPT ![kind] = q]
    BY <2>1, <2>2, <2>6
  <2>9. PopupsOffer'
    BY <1>1, <2>7, <2>8 DEF PopupsOffer
  <2> QED
    BY <1>1, <1>2, <1>4, <2>9 DEF Select
<1>5. CASE AcceptMatch(kind)
  <2>1. Stage(buf, buf')
    BY <1>1, <1>5, AcceptStages DEF AcceptMatch
  <2> QED
    BY <1>1, <1>3, <1>5, <2>1 DEF AcceptMatch, Turns
<1>6. CASE Dismiss(kind)
  BY <1>1, <1>2, <1>3, <1>6 DEF Dismiss
<1>7. CASE SubmitUnmatched(kind)
  BY <1>1, <1>2, <1>7 DEF SubmitUnmatched, PopupsOffer
<1> QED
  BY <1>4, <1>5, <1>6, <1>7

\* A key that reaches the buffer.
LEMMA BufferKeys ==
  ASSUME EditorInv, EditKey
  PROVE  Turns(buf, buf') /\ ParserShape(parser') /\ PopupsOffer'
<1>1. BufShape(buf) /\ HasHistory(buf) /\ ParserShape(parser) /\ PopupsOffer
  BY DEF EditorInv
<1>2. PopupsOffer'
  <2>1. popup' = Refreshed(buf')
    BY DEF EditKey
  <2> QED
    BY <1>1, <2>1, RefreshedOffers DEF PopupsOffer
<1>3. ASSUME NEW key, InsertKey(key) PROVE Turns(buf, buf') /\ ParserShape(parser')
  BY <1>1, <1>3, InInsertStages DEF InsertKey, Turns
<1>4. ASSUME NEW key, RecallKey(key) PROVE Turns(buf, buf') /\ ParserShape(parser')
  BY <1>1, <1>4, RecalledIsBare, HistKept DEF RecallKey, Turns
<1>5. ASSUME NEW key, OwnKey(key) PROVE Turns(buf, buf') /\ ParserShape(parser')
  BY <1>1, <1>5, OwnStages, HistKept DEF OwnKey, Turns
<1>6. ASSUME NEW key, CommandKey(key) PROVE Turns(buf, buf') /\ ParserShape(parser')
  <2>1. PICK p, fed : p = [parser EXCEPT !.hist = 0] /\ fed = Feed(p, key)
    OBVIOUS
  <2>2. FedShape(fed)
    BY <1>1, <2>1, HistKept, FeedShaped DEF FedFrom
  <2>3. parser' = fed.parser /\ buf' = Execute(buf, fed.cmd)
    BY <1>6, <2>1 DEF CommandKey
  <2> QED
    BY <1>1, <2>2, <2>3, ExecuteStages DEF FedShape, Turns
<1>7. ASSUME NEW key, SelectionKey(key) PROVE Turns(buf, buf') /\ ParserShape(parser')
  BY <1>1, <1>7, SelectionStages DEF SelectionKey, Turns
<1>8. ASSUME NEW key, ExtendKey(key) PROVE Turns(buf, buf') /\ ParserShape(parser')
  <2>1. parser' = ExtendSelection(buf, parser, key).parser /\ buf' = ExtendSelection(buf, parser, key).buf
    BY <1>8 DEF ExtendKey
  <2> QED
    BY <1>1, <2>1, ExtendStages DEF Turns
<1> QED
  BY <1>2, <1>3, <1>4, <1>5, <1>6, <1>7, <1>8 DEF EditKey

\* The invariant is inductive, and every round turns the buffer.
LEMMA RoundTurns == EditorInv /\ [Next]_vars => Turns(buf, buf') /\ EditorInv'
<1> SUFFICES ASSUME EditorInv, [Next]_vars PROVE Turns(buf, buf') /\ EditorInv'
  OBVIOUS
<1>1. BufShape(buf) /\ HasHistory(buf) /\ ParserShape(parser) /\ PopupsOffer
  BY DEF EditorInv
<1>2. Turns(buf, buf)
  BY <1>1, Stays DEF Turns
<1>3. ASSUME UNCHANGED vars PROVE Turns(buf, buf') /\ ParserShape(parser') /\ PopupsOffer'
  BY <1>1, <1>2, <1>3 DEF vars, PopupsOffer
<1>4. ASSUME NEW key, EndKey(key) PROVE Turns(buf, buf') /\ ParserShape(parser') /\ PopupsOffer'
  BY <1>1, <1>2, <1>4 DEF EndKey, Ends, PopupsOffer
<1>5. ASSUME Next PROVE Turns(buf, buf') /\ ParserShape(parser') /\ PopupsOffer'
  BY <1>4, <1>5, PopupKeys, BufferKeys DEF Next, Key
<1>6. Turns(buf, buf') /\ ParserShape(parser') /\ PopupsOffer'
  BY <1>3, <1>5
<1>7. BufShape(buf') /\ HasHistory(buf')
  BY <1>1, <1>6, TurnsAreSteps
<1> QED
  BY <1>6, <1>7 DEF EditorInv

\* Every round of the loop is a step of UndoHistory or leaves it alone.
LEMMA StepRefines ==
  EditorInv /\ [Next]_vars =>
    [Versions!Next]_<<TextsOf(buf.undo) \o <<buf.lines>> \o Reverse(TextsOf(buf.redo)), Len(buf.undo) + 1>>
<1> SUFFICES ASSUME EditorInv, [Next]_vars
             PROVE  \/ Keeps(buf, buf')
                    \/ Versions!Next
  BY DEF Keeps, Shown, VersionLine, Present
<1>1. \/ Keeps(buf, buf') \/ Further(buf, buf') \/ Back(buf, buf') \/ On(buf, buf') \/ Restarts(buf')
  BY RoundTurns, TurnsAreSteps DEF EditorInv
<1>2. Further(buf, buf') => Versions!Edit
  BY DEF Further, Versions!Edit, Shown, VersionLine, Present
<1>3. Back(buf, buf') => Versions!Undo
  BY DEF Back, Versions!Undo, Shown, VersionLine, Present
<1>4. On(buf, buf') => Versions!Redo
  BY DEF On, Versions!Redo, Shown, VersionLine, Present
<1>5. Restarts(buf') => Versions!Recall
  BY DEF Restarts, Versions!Recall, Shown, VersionLine, Present
<1> QED
  BY <1>1, <1>2, <1>3, <1>4, <1>5 DEF Versions!Next

(***************************************************************************)
(* The modal editor implements UndoHistory: whatever keys are pressed, an  *)
(* edit forgets what was undone and appends versions, u and Ctrl-r come    *)
(* back to the exact texts, and only a recall starts over.                 *)
(***************************************************************************)
THEOREM EditorImplementsHistory == Spec => UndoIsHistory
<1>1. Init => EditorInv /\ Versions!Init
  BY InitTurns, BareIsFirst DEF Versions!Init, Shown, VersionLine, Present
<1>2. EditorInv /\ [Next]_vars => EditorInv'
  BY RoundTurns
<1>3. EditorInv /\ [Next]_vars =>
        [Versions!Next]_<<TextsOf(buf.undo) \o <<buf.lines>> \o Reverse(TextsOf(buf.redo)), Len(buf.undo) + 1>>
  BY StepRefines
<1> QED
  BY <1>1, <1>2, <1>3, PTL DEF Spec, UndoIsHistory, Versions!Spec

\* The name that Enter would accept is one of the hits, and a hit is one of the
\* candidates: accepting never looks past the end of either list.
SelectionInRange ==
  \A kind \in Kinds : popup[kind].filtered # <<>> =>
    /\ popup[kind].selected + 1 \in DOMAIN popup[kind].filtered
    /\ popup[kind].filtered[popup[kind].selected + 1] \in DOMAIN Candidates[kind]

\* Whatever is typed between the opening of a popup and its Enter, the name that
\* is selected exists (mention.rs, model_picker.rs and mode_picker.rs index it).
THEOREM SelectedNameExists == Spec => []SelectionInRange
<1>1. EditorInv => SelectionInRange
  <2> SUFFICES ASSUME EditorInv, NEW kind \in Kinds, popup[kind].filtered # <<>>
               PROVE  /\ popup[kind].selected + 1 \in DOMAIN popup[kind].filtered
                      /\ popup[kind].filtered[popup[kind].selected + 1] \in DOMAIN Candidates[kind]
    BY DEF SelectionInRange
  <2>1. Offers(kind, popup[kind])
    BY DEF EditorInv, PopupsOffer
  <2>2. popup[kind].selected + 1 \in 1 .. Len(popup[kind].filtered)
    BY <2>1 DEF Offers
  <2>3. popup[kind].filtered[popup[kind].selected + 1] \in 1 .. Len(Candidates[kind])
    BY <2>1, <2>2 DEF Offers
  <2>4. Candidates[kind] \in Seq(Seq(STRING))
    BY CandidatesAssumption
  <2>5. DOMAIN Candidates[kind] = 1 .. Len(Candidates[kind])
    BY <2>4
  <2>6. DOMAIN popup[kind].filtered = 1 .. Len(popup[kind].filtered)
    BY <2>1 DEF Offers
  <2> QED
    BY <2>2, <2>3, <2>5, <2>6
<1>2. Init => EditorInv
  BY InitTurns
<1>3. EditorInv /\ [Next]_vars => EditorInv'
  BY RoundTurns
<1> QED
  BY <1>1, <1>2, <1>3, PTL DEF Spec

-----------------------------------------------------------------------------
\* Where the cursor stands

\* A part of a sequence.
LEMMA PartOf ==
  ASSUME NEW V, NEW t \in Seq(V), NEW a \in Nat, NEW b \in Nat, a <= b, b <= Len(t)
  PROVE  /\ SubSeq(t, a + 1, b) \in Seq(V) /\ Len(SubSeq(t, a + 1, b)) = b - a
         /\ \A k \in 1 .. b - a : SubSeq(t, a + 1, b)[k] = t[a + k]
<1>1. PICK m \in Int : m = a + 1
  OBVIOUS
<1>2. \A k \in m .. b : t[k] \in V
  BY <1>1
<1>3. /\ SubSeq(t, m, b) \in Seq(V)
      /\ Len(SubSeq(t, m, b)) = IF m <= b THEN b - m + 1 ELSE 0
      /\ \A k \in 1 .. b - m + 1 : SubSeq(t, m, b)[k] = t[m + k - 1]
  BY <1>2, SubSeqProperties
<1>4. (IF m <= b THEN b - m + 1 ELSE 0) = b - a /\ b - m + 1 = b - a
  BY <1>1
<1>5. \A k \in 1 .. b - a : m + k - 1 = a + k
  BY <1>1
<1> QED
  BY <1>1, <1>3, <1>4, <1>5

\* Characters, lines and texts; a buffer of them.
Letter == STRING \cup Typed \cup {Blank, MentionSign}
Row == Seq(Letter)
Texts == Seq(Row) \ {<<>>}
Place == [row : Nat, col : Nat]
Version == [lines : Texts, cursor : Place]
Pasted == {reg \in [text : Seq(Row), linewise : BOOLEAN] : reg.linewise \/ reg.text # <<>>}
Modes == {"normal", "insert", "visual", "vline"}

Fits(b) ==
  /\ BufShape(b)
  /\ b.lines \in Texts /\ b.cursor \in Place /\ b.mode \in Modes
  /\ b.register \in Pasted /\ b.desired \in Nat
  /\ b.undo \in Seq(Version) /\ b.redo \in Seq(Version)

\* c is b with the cursor elsewhere, and nothing else that shows.
Walks(b, c) ==
  /\ Fits(c) /\ c.lines = b.lines /\ c.mode = b.mode /\ c.anchor = b.anchor
  /\ c.register = b.register /\ c.undo = b.undo /\ c.redo = b.redo

\* The cursor stands in the text, or at least in one of its rows.
Stands(b) == InText(b, b.cursor)
InRow(b) == b.cursor.row \in 0 .. LastRow(b)

\* The rows of a text.
LEMMA RowsAre ==
  ASSUME NEW lines \in Texts
  PROVE  /\ Len(lines) \in Nat \ {0} /\ lines \in Seq(Row)
         /\ \A r \in 0 .. Len(lines) - 1 : lines[r + 1] \in Row /\ Len(lines[r + 1]) \in Nat
<1>1. lines \in Seq(Row) /\ Len(lines) \in Nat \ {0}
  BY DEF Texts
<1>2. ASSUME NEW r \in 0 .. Len(lines) - 1 PROVE lines[r + 1] \in Row /\ Len(lines[r + 1]) \in Nat
  <2>1. r + 1 \in 1 .. Len(lines)
    BY <1>1
  <2>2. lines[r + 1] \in Row
    BY <1>1, <2>1
  <2>3. \A row \in Row : Len(row) \in Nat
    BY DEF Row
  <2> QED
    BY <2>2, <2>3
<1> QED
  BY <1>1, <1>2

\* The rows of a buffer and where the cursor may stand in them.
LEMMA LinesAre ==
  ASSUME NEW b, Fits(b)
  PROVE  /\ LastRow(b) \in Nat /\ Len(b.lines) = LastRow(b) + 1 /\ b.lines \in Seq(Row)
         /\ \A r \in 0 .. LastRow(b) : /\ LineAt(b, r) \in Row /\ Len(LineAt(b, r)) \in Nat
                                       /\ LastCol(b, LineAt(b, r)) \in Nat
<1>1. PICK lines \in Texts : lines = b.lines
  BY DEF Fits
<1>2. LastRow(b) \in Nat /\ Len(b.lines) = LastRow(b) + 1 /\ b.lines \in Seq(Row)
  BY <1>1, RowsAre DEF LastRow
<1>3. ASSUME NEW r \in 0 .. LastRow(b) PROVE LineAt(b, r) \in Row /\ Len(LineAt(b, r)) \in Nat
  BY <1>1, RowsAre DEF LastRow, LineAt
<1>4. ASSUME NEW r \in 0 .. LastRow(b) PROVE LastCol(b, LineAt(b, r)) \in Nat
  <2>1. PICK n \in Nat : n = Len(LineAt(b, r))
    BY <1>3
  <2> QED
    BY <2>1 DEF LastCol, Most
<1> QED
  BY <1>2, <1>3, <1>4

\* Clamping puts any cursor into the text, and leaves one that stands there.
LEMMA ClampStands ==
  ASSUME NEW b, Fits(b)
  PROVE  /\ Walks(b, ClampCursor(b)) /\ Stands(ClampCursor(b))
         /\ ClampCursor(b).desired = b.desired
         /\ Stands(b) => ClampCursor(b).cursor = b.cursor
         /\ InRow(b) => ClampCursor(b).cursor.row = b.cursor.row
<1>1. PICK last, row \in Nat, col \in Nat : last = LastRow(b) /\ row = b.cursor.row /\ col = b.cursor.col /\ last \in Nat
  BY LinesAre DEF Fits, Place
<1>2. PICK r : r = Least(row, last)
  OBVIOUS
<1>3. r \in 0 .. last /\ (row \in 0 .. last => r = row)
  BY <1>1, <1>2 DEF Least
<1>4. PICK most : most = LastCol(b, LineAt(b, r))
  OBVIOUS
<1>5. most \in Nat
  BY <1>1, <1>3, <1>4, LinesAre
<1>6. PICK c : c = Least(col, most)
  OBVIOUS
<1>7. c \in 0 .. most /\ (col \in 0 .. most => c = col)
  BY <1>1, <1>5, <1>6 DEF Least
<1>8. ClampCursor(b) = [b EXCEPT !.cursor = Cursor(r, c)]
  BY <1>1, <1>2, <1>4, <1>6 DEF ClampCursor
<1>9. PICK d : d = ClampCursor(b)
  OBVIOUS
<1>10. DOMAIN b = Fields /\ b.cursor \in Place
  BY DEF Fits, BufShape
<1>11. /\ DOMAIN d = Fields /\ d.cursor = Cursor(r, c) /\ d.lines = b.lines /\ d.mode = b.mode /\ d.anchor = b.anchor
       /\ d.register = b.register /\ d.undo = b.undo /\ d.redo = b.redo /\ d.desired = b.desired
  BY <1>8, <1>9, <1>10 DEF Fields
<1>12. Cursor(r, c) \in Place /\ Cursor(r, c).row = r /\ Cursor(r, c).col = c
  BY <1>1, <1>3, <1>5, <1>7 DEF Cursor, Place
<1>13. Walks(b, d)
  BY <1>11, <1>12 DEF Walks, Fits, BufShape
<1>14. LastRow(d) = last /\ \A q : LastCol(d, LineAt(d, q)) = LastCol(b, LineAt(b, q))
  BY <1>1, <1>11 DEF LastRow, LastCol, LineAt
<1>15. Stands(d)
  BY <1>3, <1>4, <1>7, <1>11, <1>12, <1>14 DEF Stands, InText
<1>16. ASSUME Stands(b) PROVE d.cursor = b.cursor
  <2>1. row \in 0 .. last /\ col \in 0 .. LastCol(b, LineAt(b, row))
    BY <1>1, <1>16 DEF Stands, InText
  <2>2. r = row /\ c = col
    BY <1>3, <1>4, <1>7, <2>1
  <2>3. Cursor(r, c) = b.cursor
    BY <1>1, <1>10, <2>2 DEF Cursor, Place
  <2> QED
    BY <1>11, <2>3
<1>17. InRow(b) => d.cursor.row = b.cursor.row
  BY <1>1, <1>3, <1>11, <1>12 DEF InRow
<1> QED
  BY <1>9, <1>11, <1>13, <1>15, <1>16, <1>17

\* The scan along a line stays on it, or where it began.
LEMMA ScanStays ==
  ASSUME NEW line \in Row, NEW a \in Nat, NEW goal
  PROVE  Scan(line, a, goal) \in Nat /\ Scan(line, a, goal) >= a
<1>1. PICK n \in Nat : n = Len(line)
  BY DEF Row
<1>2. CASE a >= n
  BY <1>1, <1>2 DEF Scan
<1>3. CASE a < n
  <2> DEFINE T == {j \in a .. n : j = n \/ j \in goal}
  <2>1. T \in SUBSET Nat /\ T # {}
    BY <1>3
  <2>2. PICK j \in T : \A k \in T : j <= k
    <3> HIDE DEF T
    <3> QED
      BY <2>1, LeastNumber
  <2>3. \A k \in a .. j - 1 : k \notin goal
    <3> SUFFICES ASSUME NEW k \in a .. j - 1, k \in goal PROVE FALSE
      OBVIOUS
    <3>1. k \in T /\ ~(j <= k)
      BY <1>1
    <3> QED
      BY <2>2, <3>1
  <2>4. \E e \in a .. n : (e = n \/ e \in goal) /\ \A k \in a .. (e - 1) : k \notin goal
    BY <2>3
  <2>5. PICK e : e = CHOOSE q \in a .. n : (q = n \/ q \in goal) /\ \A k \in a .. (q - 1) : k \notin goal
    OBVIOUS
  <2>6. e \in a .. n
    BY <2>4, <2>5
  <2>7. Scan(line, a, goal) = e
    BY <1>1, <1>3, <2>5 DEF Scan
  <2> QED
    BY <2>6, <2>7
<1> QED
  BY <1>1, <1>2, <1>3

\* The same for the way back.
LEMMA ScanBackStays ==
  ASSUME NEW a \in Nat, NEW goal
  PROVE  ScanBack(a, goal) \in 0 .. a
<1> DEFINE T == {d \in 0 .. a : a - d = 0 \/ a - d \in goal}
<1>1. T \in SUBSET Nat /\ T # {}
  <2>1. a \in T
    OBVIOUS
  <2> QED
    BY <2>1
<1>2. PICK d \in T : \A k \in T : d <= k
  <2> HIDE DEF T
  <2> QED
    BY <1>1, LeastNumber
<1>3. PICK j \in 0 .. a : j = a - d /\ (j = 0 \/ j \in goal)
  BY <1>2
<1>4. \A k \in (j + 1) .. a : k \notin goal
  <2> SUFFICES ASSUME NEW k \in (j + 1) .. a, k \in goal PROVE FALSE
    OBVIOUS
  <2>1. PICK e : e = a - k
    OBVIOUS
  <2>2. e \in 0 .. a /\ a - e = k /\ ~(d <= e)
    BY <1>2, <1>3, <2>1
  <2> QED
    BY <1>2, <2>2
<1>5. \E e \in 0 .. a : (e = 0 \/ e \in goal) /\ \A k \in (e + 1) .. a : k \notin goal
  BY <1>3, <1>4
<1> QED
  BY <1>5 DEF ScanBack

\* A motion within the row leads to a column.
LEMMA TargetIsCol ==
  ASSUME NEW line \in Row, NEW c \in Nat,
         NEW motion \in Motions \ {"Up", "Down", "BufferTop", "BufferBottom"}
  PROVE  TargetCol(line, c, motion) \in Nat
<1>1. PICK n \in Nat : n = Len(line)
  BY DEF Row
<1>2. FirstNonBlankCol(line) \in Nat
  BY ScanStays DEF FirstNonBlankCol
<1>3. WordForwardCol(line, c) \in Nat
  <2>1. PICK gap : gap = Scan(line, c, Blanks(line))
    OBVIOUS
  <2>2. gap \in Nat
    BY <2>1, ScanStays
  <2>3. PICK next : next = Scan(line, gap, Inked(line))
    OBVIOUS
  <2>4. next \in Nat
    BY <2>2, <2>3, ScanStays
  <2> QED
    BY <1>1, <2>1, <2>3, <2>4 DEF WordForwardCol, Most
<1>4. WordBackCol(line, c) \in Nat
  <2>1. CASE c = 0
    BY <2>1 DEF WordBackCol
  <2>2. CASE c # 0
    <3>1. PICK word : word = ScanBack(c - 1, Inked(line))
      OBVIOUS
    <3>2. c - 1 \in Nat
      BY <2>2
    <3>3. word \in Nat
      BY <3>1, <3>2, ScanBackStays
    <3>4. WordBackCol(line, c) = ScanBack(word, {j + 1 : j \in Blanks(line)})
      BY <2>2, <3>1 DEF WordBackCol
    <3>5. PICK goal : goal = {j + 1 : j \in Blanks(line)}
      OBVIOUS
    <3> QED
      BY <3>3, <3>4, <3>5, ScanBackStays
  <2> QED
    BY <2>1, <2>2
<1>5. WordEndCol(line, c) \in Nat
  <2>1. PICK word : word = Scan(line, c + 1, Inked(line))
    OBVIOUS
  <2>2. PICK from \in Nat : from = c + 1
    OBVIOUS
  <2>3. word \in Nat
    BY <2>1, <2>2, ScanStays
  <2>4. PICK end, goal : end = Scan(line, word, goal) /\ goal = {j - 1 : j \in Blanks(line)}
    OBVIOUS
  <2>5. end \in Nat
    BY <2>3, <2>4, ScanStays
  <2>6. WordEndCol(line, c) = IF word >= n THEN Most(n - 1, 0) ELSE IF end = n THEN n - 1 ELSE end
    BY <1>1, <2>1, <2>4 DEF WordEndCol
  <2> QED
    BY <1>1, <2>3, <2>5, <2>6 DEF Most
<1>6. Most(c - 1, 0) \in Nat
  BY DEF Most
<1>7. TargetCol(line, c, motion) \in {Most(c - 1, 0), c + 1, WordForwardCol(line, c), WordBackCol(line, c),
        WordEndCol(line, c), 0, n, FirstNonBlankCol(line)}
  BY <1>1 DEF TargetCol, Motions
<1> QED
  BY <1>2, <1>3, <1>4, <1>5, <1>6, <1>7

\* Two walks are one.
LEMMA WalksOn == ASSUME NEW b, NEW c, NEW d, Walks(b, c), Walks(c, d) PROVE Walks(b, d)
  BY DEF Walks

\* A motion within the row ends on a character of it.
LEMMA SeekStands ==
  ASSUME NEW b, Fits(b), NEW c \in Nat
  PROVE  Walks(b, Seek(b, c)) /\ Stands(Seek(b, c)) /\ (InRow(b) => Seek(b, c).cursor.row = b.cursor.row)
<1>1. PICK b1 : b1 = [b EXCEPT !.cursor.col = c]
  OBVIOUS
<1>2. b.cursor \in Place /\ DOMAIN b = Fields
  BY DEF Fits, BufShape
<1>3. Walks(b, b1) /\ b1.cursor.row = b.cursor.row
  BY <1>1, <1>2 DEF Fits, BufShape, Fields, Walks, Place
<1>4. PICK b2 : b2 = ClampCursor(b1)
  OBVIOUS
<1>5. Walks(b1, b2) /\ Stands(b2) /\ (InRow(b1) => b2.cursor.row = b1.cursor.row)
  BY <1>3, <1>4, ClampStands DEF Walks
<1>6. PICK b3 : b3 = [b2 EXCEPT !.desired = b2.cursor.col]
  OBVIOUS
<1>7. b2.cursor.col \in Nat /\ Fits(b2)
  BY <1>5 DEF Walks, Fits, Place
<1>8. Walks(b2, b3) /\ b3.cursor = b2.cursor
  BY <1>6, <1>7 DEF Walks, Fits, BufShape, Fields
<1>9. Stands(b3)
  BY <1>5, <1>8 DEF Stands, InText, Walks, LastRow, LastCol, LineAt
<1>10. Seek(b, c) = b3
  BY <1>1, <1>4, <1>6 DEF Seek
<1>11. InRow(b) => InRow(b1)
  BY <1>3 DEF InRow, LastRow, Walks
<1> QED
  BY <1>3, <1>5, <1>8, <1>9, <1>10, <1>11, WalksOn

\* Every motion ends on a character.
LEMMA MoveStands ==
  ASSUME NEW b, Fits(b), InRow(b), NEW motion \in Motions
  PROVE  Walks(b, Move(b, motion)) /\ Stands(Move(b, motion))
<1>1. PICK r \in Nat, last \in Nat, col \in Nat : r = b.cursor.row /\ last = LastRow(b) /\ col = b.cursor.col /\ r <= last
  BY LinesAre DEF Fits, Place, InRow
<1>2. CASE motion \in {"Up", "Down"}
  <2>1. PICK to, goal : to = (IF motion = "Up" THEN Most(r - 1, 0) ELSE Least(r + 1, last)) /\ goal = Most(b.desired, col)
    OBVIOUS
  <2>2. to \in Nat
    BY <1>1, <2>1 DEF Most, Least
  <2>3. goal \in Nat
    <3>1. b.desired \in Nat
      BY DEF Fits
    <3> QED
      BY <1>1, <2>1, <3>1 DEF Most
  <2>4. Move(b, motion) = ClampCursor([b EXCEPT !.desired = goal, !.cursor = Cursor(to, goal)])
    BY <1>1, <1>2, <2>1 DEF Move, ToRow
  <2>5. PICK c : c = [b EXCEPT !.desired = goal, !.cursor = Cursor(to, goal)]
    OBVIOUS
  <2>6. Cursor(to, goal) \in Place
    BY <2>2, <2>3 DEF Cursor, Place
  <2>7. Walks(b, c)
    BY <2>3, <2>5, <2>6 DEF Fits, BufShape, Fields, Walks
  <2>8. PICK d : d = ClampCursor(c)
    OBVIOUS
  <2>9. Walks(c, d) /\ Stands(d)
    <3>1. Fits(c)
      BY <2>7 DEF Walks
    <3> QED
      BY <2>8, <3>1, ClampStands
  <2> QED
    BY <2>4, <2>5, <2>7, <2>8, <2>9, WalksOn
<1>3. CASE motion \in {"BufferTop", "BufferBottom"}
  <2>1. PICK to : to = IF motion = "BufferTop" THEN 0 ELSE last
    OBVIOUS
  <2>2. to \in Nat
    BY <1>1, <2>1
  <2>3. PICK c : c = [b EXCEPT !.cursor.row = to]
    OBVIOUS
  <2>4. Walks(b, c)
    BY <2>2, <2>3 DEF Fits, BufShape, Fields, Walks, Place
  <2>5. Move(b, motion) = Seek(c, 0)
    BY <1>1, <1>3, <2>1, <2>3 DEF Move
  <2> QED
    BY <2>4, <2>5, SeekStands, WalksOn DEF Walks
<1>4. CASE motion \notin {"Up", "Down", "BufferTop", "BufferBottom"}
  <2>1. PICK line \in Row : line = Here(b)
    BY <1>1, LinesAre DEF Here
  <2>2. PICK to : to = TargetCol(line, col, motion)
    OBVIOUS
  <2>3. to \in Nat
    BY <1>4, <2>2, TargetIsCol
  <2>4. Move(b, motion) = Seek(b, to)
    BY <1>1, <1>4, <2>1, <2>2 DEF Move
  <2> QED
    BY <2>3, <2>4, SeekStands
<1> QED
  BY <1>2, <1>3, <1>4

\* Two sequences put together.
LEMMA Grows ==
  ASSUME NEW S, NEW a, NEW c, NEW w, a \in Seq(S), c \in Seq(S), w = a \o c
  PROVE  w \in Seq(S) /\ Len(w) = Len(a) + Len(c) /\ Len(a) \in Nat /\ Len(c) \in Nat
  BY Joined

\* A row is cut in two.
LEMMA CutsRow ==
  ASSUME NEW line \in Row, NEW n \in Nat, NEW w, w = Least(n, Len(line))
  PROVE  /\ Len(line) \in Nat /\ w \in 0 .. Len(line) /\ (n <= Len(line) => w = n)
         /\ Take(line, n) \in Row /\ Len(Take(line, n)) = w
         /\ Drop(line, n) \in Row /\ Len(Drop(line, n)) = Len(line) - w
         /\ Take(line, n) = SubSeq(line, 1, w) /\ Drop(line, n) = SubSeq(line, w + 1, Len(line))
<1>1. PICK m \in Nat : m = Len(line)
  BY DEF Row
<1>2. w \in 0 .. m /\ (n <= m => w = n) /\ w \in Nat
  BY <1>1 DEF Least
<1>3. /\ SubSeq(line, 0 + 1, w) \in Seq(Letter) /\ Len(SubSeq(line, 0 + 1, w)) = w - 0
      /\ SubSeq(line, w + 1, m) \in Seq(Letter) /\ Len(SubSeq(line, w + 1, m)) = m - w
  <2>1. line \in Seq(Letter) /\ 0 \in Nat /\ 0 <= w /\ w <= Len(line) /\ m <= Len(line)
    BY <1>1, <1>2 DEF Row
  <2> QED
    BY <1>2, <2>1, PartOf
<1>4. 0 + 1 = 1 /\ w - 0 = w
  BY <1>2
<1>5. Take(line, n) = SubSeq(line, 1, w) /\ Drop(line, n) = SubSeq(line, w + 1, m)
  BY <1>1 DEF Take, Drop
<1> QED
  BY <1>1, <1>2, <1>3, <1>4, <1>5 DEF Row

\* c is b with the lines given, and nothing else changed.
Laid(b, c, lines) ==
  /\ DOMAIN c = Fields /\ c.lines = lines /\ c.cursor = b.cursor /\ c.mode = b.mode /\ c.anchor = b.anchor
  /\ c.register = b.register /\ c.desired = b.desired /\ c.undo = b.undo /\ c.redo = b.redo

\* Other lines in the same buffer.
LEMMA LaidFits == ASSUME NEW b, Fits(b), NEW lines \in Texts, NEW c, Laid(b, c, lines) PROVE Fits(c)
  BY DEF Laid, Fits, BufShape

\* The lines with the rows from..upto-1 replaced by new.
RowsPut(old, from, upto, new, lines) ==
  /\ lines = SubSeq(old, 1, from) \o new \o SubSeq(old, upto + 1, Len(old))
  /\ lines \in Seq(Row) /\ Len(lines) = from + Len(new) + (Len(old) - upto)

\* Rows are put in the place of the rows from..upto - 1.
LEMMA PutsRows ==
  ASSUME NEW b, Fits(b), NEW from \in Nat, NEW upto \in Nat, from <= upto, upto <= Len(b.lines), NEW new \in Seq(Row),
         NEW to \in Int, to = upto - 1, NEW c, c = ReplaceRows(b, from, to, new)
  PROVE  Laid(b, c, c.lines) /\ RowsPut(b.lines, from, upto, new, c.lines)
<1>1. PICK old \in Seq(Row), n \in Nat : old = b.lines /\ n = Len(old)
  BY LinesAre
<1>2. PICK p, q : p = SubSeq(old, 0 + 1, from) /\ q = SubSeq(old, upto + 1, n)
  OBVIOUS
<1>3. p \in Seq(Row) /\ Len(p) = from - 0 /\ q \in Seq(Row) /\ Len(q) = n - upto
  <2>1. 0 \in Nat /\ 0 <= from /\ from <= Len(old) /\ n <= Len(old) /\ upto <= n
    BY <1>1
  <2> QED
    BY <1>1, <1>2, <2>1, PartOf
<1>4. p \o new \o q \in Seq(Row) /\ Len(p \o new \o q) = from + Len(new) + (n - upto)
  <2>1. PICK pn : pn = p \o new
    OBVIOUS
  <2>2. pn \in Seq(Row) /\ Len(pn) = Len(p) + Len(new) /\ Len(new) \in Nat
    <3>1. p \in Seq(Row) /\ new \in Seq(Row)
      BY <1>3
    <3> QED
      BY <2>1, <3>1, Grows
  <2>3. PICK pnq : pnq = pn \o q
    OBVIOUS
  <2>4. pnq \in Seq(Row) /\ Len(pnq) = Len(pn) + Len(q)
    <3>1. q \in Seq(Row) /\ pn \in Seq(Row)
      BY <1>3, <2>2
    <3> QED
      BY <2>3, <3>1, Grows
  <2> QED
    BY <1>1, <1>3, <2>1, <2>2, <2>3, <2>4
<1>5. 0 + 1 = 1 /\ to + 2 = upto + 1
  OBVIOUS
<1>6. PICK laid : laid = p \o new \o q
  OBVIOUS
<1>7. c = [b EXCEPT !.lines = laid]
  BY <1>1, <1>2, <1>5, <1>6 DEF ReplaceRows
<1>8. Laid(b, c, laid) /\ c.lines = laid
  BY <1>7 DEF Laid, Fits, BufShape, Fields
<1> QED
  BY <1>1, <1>2, <1>4, <1>5, <1>6, <1>8 DEF RowsPut

\* Saving a version changes nothing that shows.
Saves(b, c) ==
  Fits(c) /\ c.lines = b.lines /\ c.cursor = b.cursor /\ c.mode = b.mode /\ c.anchor = b.anchor
  /\ c.register = b.register

\* Saving a version changes nothing that shows.
LEMMA PushSaves == ASSUME NEW b, Fits(b) PROVE Saves(b, PushUndo(b))
<1>1. Snapshot(b) \in Version
  BY DEF Snapshot, Version, Fits
<1>2. PICK u : u = Append(b.undo, Snapshot(b))
  OBVIOUS
<1>3. u \in Seq(Version)
  BY <1>1, <1>2 DEF Fits
<1>4. PushUndo(b) = [b EXCEPT !.undo = u, !.redo = <<>>]
  BY <1>2 DEF PushUndo, Fits, BufShape, Fields
<1>5. <<>> \in Seq(Version)
  OBVIOUS
<1> QED
  BY <1>3, <1>4, <1>5 DEF Saves, Fits, BufShape, Fields

\* No selection is being made.
Calm(b) == Fits(b) /\ Stands(b) /\ b.mode \in {"normal", "insert"} /\ b.anchor = NoAnchor

\* A version that comes back is clamped.
LEMMA RestoreStands ==
  ASSUME NEW b, Fits(b), NEW v \in Version
  PROVE  /\ Fits(Restore(b, v)) /\ Stands(Restore(b, v))
         /\ Restore(b, v).mode = b.mode /\ Restore(b, v).anchor = b.anchor
<1>1. PICK c : c = [b EXCEPT !.lines = v.lines, !.cursor = v.cursor]
  OBVIOUS
<1>2. v.lines \in Texts /\ v.cursor \in Place
  BY DEF Version
<1>3. Fits(c) /\ c.mode = b.mode /\ c.anchor = b.anchor
  BY <1>1, <1>2 DEF Fits, BufShape, Fields
<1>4. Restore(b, v) = ClampCursor(c)
  BY <1>1 DEF Restore
<1> QED
  BY <1>3, <1>4, ClampStands DEF Walks

\* u and Ctrl-r.
LEMMA UndoCalm == ASSUME NEW b, Calm(b) PROVE Calm(Undo(b)) /\ Calm(Redo(b))
<1>1. ASSUME NEW q \in Seq(Version), q # <<>> PROVE Front(q) \in Seq(Version) /\ Last(q) \in Version
  <2>1. PICK n \in Nat : n = Len(q) - 1 /\ n <= Len(q) /\ n + 1 = Len(q)
    BY <1>1
  <2>2. SubSeq(q, 0 + 1, n) \in Seq(Version)
    <3>1. 0 \in Nat /\ 0 <= n
      OBVIOUS
    <3> QED
      BY <2>1, <3>1, PartOf
  <2>3. 0 + 1 = 1
    OBVIOUS
  <2> QED
    BY <2>1, <2>2, <2>3 DEF Front, Last
<1>2. Snapshot(b) \in Version /\ Fits(b)
  BY DEF Calm, Fits, Snapshot, Version
<1>3. Calm(Undo(b))
  <2>1. CASE b.undo = <<>>
    BY <2>1 DEF Undo
  <2>2. CASE b.undo # <<>>
    <3>1. PICK u, r, v : u = Front(b.undo) /\ r = Append(b.redo, Snapshot(b)) /\ v = Last(b.undo)
      OBVIOUS
    <3>2. u \in Seq(Version) /\ v \in Version /\ r \in Seq(Version)
      BY <1>1, <1>2, <2>2, <3>1 DEF Fits
    <3>3. PICK c : c = [b EXCEPT !.undo = u, !.redo = r]
      OBVIOUS
    <3>4. Undo(b) = Restore(c, v)
      BY <1>2, <2>2, <3>1, <3>3 DEF Undo, Fits, BufShape, Fields
    <3>5. Fits(c) /\ c.mode = b.mode /\ c.anchor = b.anchor
      BY <1>2, <3>2, <3>3 DEF Fits, BufShape, Fields
    <3> QED
      BY <3>2, <3>4, <3>5, RestoreStands DEF Calm
  <2> QED
    BY <2>1, <2>2
<1>4. Calm(Redo(b))
  <2>1. CASE b.redo = <<>>
    BY <2>1 DEF Redo
  <2>2. CASE b.redo # <<>>
    <3>1. PICK u, r, v : r = Front(b.redo) /\ u = Append(b.undo, Snapshot(b)) /\ v = Last(b.redo)
      OBVIOUS
    <3>2. u \in Seq(Version) /\ v \in Version /\ r \in Seq(Version)
      BY <1>1, <1>2, <2>2, <3>1 DEF Fits
    <3>3. PICK c : c = [b EXCEPT !.redo = r, !.undo = u]
      OBVIOUS
    <3>4. Redo(b) = Restore(c, v)
      BY <1>2, <2>2, <3>1, <3>3 DEF Redo, Fits, BufShape, Fields
    <3>5. Fits(c) /\ c.mode = b.mode /\ c.anchor = b.anchor
      BY <1>2, <3>2, <3>3 DEF Fits, BufShape, Fields
    <3> QED
      BY <3>2, <3>4, <3>5, RestoreStands DEF Calm
  <2> QED
    BY <2>1, <2>2
<1> QED
  BY <1>3, <1>4

\* Entering normal or insert mode clamps.
LEMMA EnterCalm ==
  ASSUME NEW b, Fits(b), b.anchor = NoAnchor, NEW mode \in {"normal", "insert"}
  PROVE  /\ Calm(Enter(b, mode)) /\ Enter(b, mode).mode = mode /\ Enter(b, mode).lines = b.lines
         /\ Enter(b, mode).register = b.register
<1>1. PICK c : c = [b EXCEPT !.mode = mode]
  OBVIOUS
<1>2. Fits(c) /\ c.mode = mode /\ c.anchor = NoAnchor /\ c.lines = b.lines /\ c.register = b.register
  BY <1>1 DEF Fits, BufShape, Fields, Modes
<1>3. Enter(b, mode) = ClampCursor(c)
  BY <1>1 DEF Enter
<1> QED
  BY <1>2, <1>3, ClampStands DEF Calm, Walks

\* What insert mode does.
LEMMA InsertCalm ==
  ASSUME NEW b, Calm(b), b.mode = "insert", NEW ch \in Letter
  PROVE  /\ Calm(InsertChar(b, ch)) /\ InsertChar(b, ch).mode = "insert"
         /\ InsertChar(b, ch).cursor = Cursor(b.cursor.row, b.cursor.col + 1)
         /\ LET c == b.cursor.col
            IN  InsertChar(b, ch).lines = [b.lines EXCEPT ![b.cursor.row + 1] =
                  Take(Here(b), c) \o <<ch>> \o Drop(Here(b), c)]
<1>1. PICK a : a = PushUndo(b)
  OBVIOUS
<1>2. Saves(b, a) /\ Fits(b) /\ Stands(b)
  BY <1>1, PushSaves DEF Calm
<1>3. PICK r \in Nat, c \in Nat : b.cursor = Cursor(r, c) /\ b.cursor.row = r /\ b.cursor.col = c
  BY <1>2 DEF Fits, Place, Cursor
<1>4. PICK line \in Row : line = Here(b) /\ line = b.lines[r + 1]
  BY <1>2, <1>3, LinesAre DEF Stands, InText, Here, LineAt
<1>5. r \in 0 .. LastRow(b) /\ c \in 0 .. Len(line) /\ Len(line) \in Nat
  BY <1>2, <1>3, <1>4 DEF Calm, Stands, InText, LastCol, Row, Here
<1>6. PICK t, d : t = Take(line, c) /\ d = Drop(line, c)
  OBVIOUS
<1>7. t \in Row /\ Len(t) = c /\ d \in Row /\ Len(d) = Len(line) - c
  <2>1. PICK w : w = Least(c, Len(line))
    OBVIOUS
  <2>2. c <= Len(line)
    BY <1>5
  <2>3. w = c /\ t \in Row /\ Len(t) = w /\ d \in Row /\ Len(d) = Len(line) - w
    BY <1>6, <2>1, <2>2, CutsRow
  <2> QED
    BY <2>3
<1>8. PICK new : new = t \o <<ch>> \o d
  OBVIOUS
<1>9. new \in Row /\ Len(new) = Len(line) + 1
  <2>1. PICK m : m = <<ch>>
    OBVIOUS
  <2>2. m \in Seq(Letter) /\ Len(m) = 1
    BY <2>1
  <2>3. PICK tm : tm = t \o m
    OBVIOUS
  <2>4. t \in Seq(Letter) /\ d \in Seq(Letter)
    BY <1>7 DEF Row
  <2>5. tm \in Seq(Letter) /\ Len(tm) = Len(t) + Len(m)
    BY <2>2, <2>3, <2>4, Grows
  <2>6. new = tm \o d
    BY <1>8, <2>1, <2>3
  <2>7. new \in Seq(Letter) /\ Len(new) = Len(tm) + Len(d)
    <3>1. tm \in Seq(Letter) /\ d \in Seq(Letter)
      BY <2>4, <2>5
    <3> QED
      BY <2>6, <3>1, Grows
  <2>8. Len(new) = Len(line) + 1
    BY <1>5, <1>7, <2>2, <2>5, <2>7
  <2> QED
    BY <2>7, <2>8 DEF Row
<1>10. PICK z : z = InsertChar(b, ch)
  OBVIOUS
<1>11. z = [[a EXCEPT !.lines[a.cursor.row + 1] = new] EXCEPT !.cursor.col = c + 1, !.desired = c + 1]
  BY <1>1, <1>3, <1>4, <1>6, <1>8, <1>10 DEF InsertChar, SetHere
<1>12. DOMAIN a = Fields /\ a.cursor = b.cursor /\ a.lines = b.lines
  BY <1>2 DEF Saves, Fits, BufShape
<1>13. PICK lines : lines = [b.lines EXCEPT ![r + 1] = new]
  OBVIOUS
<1>14. lines \in Texts /\ Len(lines) = Len(b.lines) /\ lines[r + 1] = new
  <2>1. b.lines \in Seq(Row) /\ r + 1 \in 1 .. Len(b.lines) /\ Len(b.lines) \in Nat
    BY <1>2, <1>5, LinesAre
  <2> QED
    BY <1>9, <1>13, <2>1 DEF Texts
<1>15. z = [a EXCEPT !.lines = lines, !.cursor = Cursor(r, c + 1), !.desired = c + 1]
  <2>1. [a EXCEPT !.lines[a.cursor.row + 1] = new] = [a EXCEPT !.lines = lines]
    BY <1>3, <1>12, <1>13
  <2>2. z = [[a EXCEPT !.lines = lines] EXCEPT !.cursor.col = c + 1, !.desired = c + 1]
    BY <1>11, <2>1
  <2>3. [a EXCEPT !.lines = lines].cursor = Cursor(r, c)
    BY <1>3, <1>12 DEF Fields
  <2>4. [Cursor(r, c) EXCEPT !.col = c + 1] = Cursor(r, c + 1)
    BY DEF Cursor
  <2>5. z = [[a EXCEPT !.lines = lines] EXCEPT !.cursor = Cursor(r, c + 1), !.desired = c + 1]
    BY <2>2, <2>3, <2>4
  <2> QED
    BY <2>5
<1>16. /\ Fits(z) /\ z.mode = "insert" /\ z.anchor = NoAnchor /\ z.lines = lines /\ z.cursor = Cursor(r, c + 1)
  <2>1. Cursor(r, c + 1) \in Place
    BY DEF Cursor, Place
  <2> QED
    BY <1>2, <1>14, <1>15, <2>1 DEF Saves, Calm, Fits, BufShape, Fields
<1>17. Stands(z)
  <2>1. LastRow(z) = LastRow(b) /\ LineAt(z, r) = new
    BY <1>14, <1>16 DEF LastRow, LineAt
  <2>2. z.cursor.row = r /\ z.cursor.col = c + 1
    BY <1>16 DEF Cursor
  <2> QED
    BY <1>5, <1>9, <1>16, <2>1, <2>2 DEF Stands, InText, LastCol
<1> QED
  BY <1>3, <1>4, <1>6, <1>8, <1>10, <1>13, <1>16, <1>17 DEF Calm

\* Enter in insert mode: the cursor is at the head of the new row.
LEMMA NewlineCalm ==
  ASSUME NEW b, Calm(b), b.mode = "insert"
  PROVE  Calm(InsertNewline(b))
<1>1. PICK a : a = PushUndo(b)
  OBVIOUS
<1>2. Saves(b, a) /\ Fits(b) /\ Stands(b)
  BY <1>1, PushSaves DEF Calm
<1>3. PICK r \in Nat, c \in Nat : b.cursor.row = r /\ b.cursor.col = c
  BY <1>2 DEF Fits, Place
<1>4. PICK line \in Row : line = Here(b)
  BY <1>2, <1>3, LinesAre DEF Stands, InText, Here
<1>5. r \in 0 .. LastRow(b) /\ LastRow(b) \in Nat /\ Len(a.lines) = LastRow(b) + 1
  BY <1>2, <1>3, LinesAre DEF Stands, InText, Saves
<1>6. PICK new : new = <<Take(line, c), Drop(line, c)>>
  OBVIOUS
<1>7. new \in Seq(Row) /\ Len(new) = 2
  <2>1. PICK w : w = Least(c, Len(line))
    OBVIOUS
  <2>2. Take(line, c) \in Row /\ Drop(line, c) \in Row
    BY <2>1, CutsRow
  <2> QED
    BY <1>6, <2>2
<1>8. PICK e, lines : e = ReplaceRows(a, r, r, new) /\ lines = e.lines
  OBVIOUS
<1>9. Laid(a, e, lines) /\ lines \in Texts /\ Len(lines) = LastRow(b) + 2
  <2>1. PICK u \in Nat : u = r + 1 /\ r = u - 1 /\ r \in Int
    OBVIOUS
  <2>2. Fits(a) /\ r <= u /\ u <= Len(a.lines) /\ new \in Seq(Row) /\ r = u - 1 /\ e = ReplaceRows(a, r, r, new)
    BY <1>2, <1>5, <1>7, <1>8, <2>1 DEF Saves
  <2>3. Laid(a, e, lines) /\ RowsPut(a.lines, r, u, new, lines)
    BY <1>8, <2>1, <2>2, PutsRows
  <2>4. lines \in Seq(Row) /\ Len(lines) = r + Len(new) + (Len(a.lines) - u)
    BY <2>3 DEF RowsPut
  <2>5. Len(lines) = LastRow(b) + 2
    BY <1>5, <1>7, <2>1, <2>4
  <2>6. lines # <<>>
    BY <1>5, <2>5
  <2> QED
    BY <2>3, <2>4, <2>5, <2>6 DEF Texts
<1>10. PICK z : z = InsertNewline(b)
  OBVIOUS
<1>11. z = [e EXCEPT !.cursor = Cursor(r + 1, 0), !.desired = 0]
  BY <1>1, <1>3, <1>4, <1>6, <1>8, <1>10 DEF InsertNewline
<1>12. Fits(e) /\ e.mode = "insert" /\ e.anchor = NoAnchor
  BY <1>2, <1>9, LaidFits DEF Saves, Calm, Laid
<1>13. Fits(z) /\ z.mode = "insert" /\ z.anchor = NoAnchor /\ z.lines = lines /\ z.cursor = Cursor(r + 1, 0)
  <2>1. Cursor(r + 1, 0) \in Place /\ lines = e.lines
    BY <1>8 DEF Cursor, Place
  <2> QED
    BY <1>11, <1>12, <2>1 DEF Fits, BufShape, Fields
<1>14. z.cursor.row = r + 1 /\ z.cursor.col = 0 /\ LastRow(z) = LastRow(b) + 1
  BY <1>5, <1>9, <1>13 DEF Cursor, LastRow
<1>15. Stands(z)
  BY <1>5, <1>13, <1>14, LinesAre DEF Stands, InText
<1> QED
  BY <1>10, <1>13, <1>15 DEF Calm

\* What stands where in two sequences put together.
LEMMA Placed ==
  ASSUME NEW S, NEW a, NEW c, NEW w, NEW m, NEW n, a \in Seq(S), c \in Seq(S), w = a \o c, m = Len(a), n = Len(c)
  PROVE  /\ w \in Seq(S) /\ Len(w) = m + n /\ m \in Nat /\ n \in Nat
         /\ \A j \in 1 .. m : w[j] = a[j]
         /\ \A j \in 1 .. n : w[m + j] = c[j]
  BY Joined

\* Where the rows of such lines come from.
Came(old, from, upto, new, lines) ==
  /\ \A j \in 1 .. from : lines[j] = old[j]
  /\ \A j \in 1 .. Len(new) : lines[from + j] = new[j]
  /\ \A j \in 1 .. Len(old) - upto : lines[from + Len(new) + j] = old[upto + j]

\* Each row is an old one before the place, a new one, or an old one behind it.
LEMMA RowsOf ==
  ASSUME NEW old \in Seq(Row), NEW from \in Nat, NEW upto \in Nat, from <= upto, upto <= Len(old), NEW new \in Seq(Row),
         NEW lines, RowsPut(old, from, upto, new, lines)
  PROVE  Came(old, from, upto, new, lines)
<1>1. PICK n \in Nat, k \in Nat : n = Len(old) /\ k = Len(new)
  OBVIOUS
<1>2. PICK p, q : p = SubSeq(old, 0 + 1, from) /\ q = SubSeq(old, upto + 1, n)
  OBVIOUS
<1>3. p \in Seq(Row) /\ Len(p) = from - 0 /\ q \in Seq(Row) /\ Len(q) = n - upto
      /\ (\A j \in 1 .. from - 0 : p[j] = old[0 + j]) /\ \A j \in 1 .. n - upto : q[j] = old[upto + j]
  <2>1. 0 \in Nat /\ 0 <= from /\ from <= Len(old) /\ n <= Len(old) /\ upto <= n
    BY <1>1
  <2> QED
    BY <1>1, <1>2, <2>1, PartOf
<1>4. PICK pn : pn = p \o new
  OBVIOUS
<1>5. pn \in Seq(Row) /\ Len(pn) = from + k /\ (\A j \in 1 .. from : pn[j] = p[j]) /\ \A j \in 1 .. k : pn[from + j] = new[j]
  <2>1. p \in Seq(Row) /\ new \in Seq(Row) /\ from = Len(p) /\ k = Len(new)
    BY <1>1, <1>3
  <2> QED
    BY <1>4, <2>1, Placed
<1>6. lines = pn \o q
  <2>1. 0 + 1 = 1
    OBVIOUS
  <2> QED
    BY <1>1, <1>2, <1>4, <2>1 DEF RowsPut
<1>7. (\A j \in 1 .. from + k : lines[j] = pn[j]) /\ \A j \in 1 .. n - upto : lines[from + k + j] = q[j]
  <2>1. PICK f, g : f = from + k /\ g = n - upto
    OBVIOUS
  <2>2. pn \in Seq(Row) /\ q \in Seq(Row) /\ f = Len(pn) /\ g = Len(q)
    BY <1>3, <1>5, <2>1
  <2>3. (\A j \in 1 .. f : lines[j] = pn[j]) /\ \A j \in 1 .. g : lines[f + j] = q[j]
    BY <1>6, <2>2, Placed
  <2> QED
    BY <2>1, <2>3
<1>8. ASSUME NEW j \in 1 .. from PROVE lines[j] = old[j]
  BY <1>1, <1>3, <1>5, <1>7
<1>9. ASSUME NEW j \in 1 .. k PROVE lines[from + j] = new[j]
  <2>1. from + j \in 1 .. from + k
    OBVIOUS
  <2> QED
    BY <1>5, <1>7, <2>1
<1>10. ASSUME NEW j \in 1 .. n - upto PROVE lines[from + k + j] = old[upto + j]
  BY <1>3, <1>7
<1> QED
  BY <1>1, <1>8, <1>9, <1>10 DEF Came

\* One row is set: the one of the cursor.
HereAt(b, r) == b.cursor.row = r /\ r \in 0 .. LastRow(b)
RowSet(b, r, line, c) ==
  Laid(b, c, c.lines) /\ LastRow(c) = LastRow(b) /\ LineAt(c, r) = line /\ c.lines = [b.lines EXCEPT ![r + 1] = line]

\* One row is changed in its place.
LEMMA SetsRow ==
  ASSUME NEW b, Fits(b), NEW r \in Nat, HereAt(b, r), NEW line \in Row, NEW c, c = SetHere(b, line)
  PROVE  Fits(c) /\ RowSet(b, r, line, c)
<1>1. PICK lines : lines = [b.lines EXCEPT ![r + 1] = line]
  OBVIOUS
<1>2. lines \in Texts /\ Len(lines) = Len(b.lines) /\ lines[r + 1] = line
  <2>1. b.lines \in Seq(Row) /\ r + 1 \in 1 .. Len(b.lines) /\ Len(b.lines) \in Nat
    BY LinesAre DEF HereAt
  <2> QED
    BY <1>1, <2>1 DEF Texts
<1>3. c = [b EXCEPT !.lines = lines]
  BY <1>1 DEF SetHere, HereAt
<1>4. Laid(b, c, lines) /\ c.lines = lines
  BY <1>3 DEF Laid, Fits, BufShape, Fields
<1>5. Fits(c)
  BY <1>2, <1>4, LaidFits
<1> QED
  BY <1>1, <1>2, <1>4, <1>5 DEF LastRow, LineAt, RowSet

\* The cursor is put somewhere.
PutAt(e, p, k) == [e EXCEPT !.cursor = p, !.desired = k]
Poised(e, p, z) ==
  z.lines = e.lines /\ z.mode = e.mode /\ z.anchor = e.anchor /\ z.cursor = p /\ z.register = e.register

\* The cursor is put somewhere else.
LEMMA PutsCursor ==
  ASSUME NEW e, Fits(e), NEW p \in Place, NEW k \in Nat, NEW z, z = PutAt(e, p, k)
  PROVE  Fits(z) /\ Poised(e, p, z) /\ (InText(e, p) => Stands(z))
<1>1. Fits(z) /\ Poised(e, p, z)
  BY DEF Fits, BufShape, Fields, PutAt, Poised
<1> QED
  BY <1>1 DEF Stands, InText, LastRow, LineAt, LastCol, Poised

\* A row is cut at one of its columns.
LEMMA CutsAt ==
  ASSUME NEW line \in Row, NEW n \in Nat, n <= Len(line)
  PROVE  Take(line, n) \in Row /\ Len(Take(line, n)) = n /\ Drop(line, n) \in Row /\ Len(Drop(line, n)) = Len(line) - n
<1>1. PICK w : w = Least(n, Len(line))
  OBVIOUS
<1>2. w = n /\ Take(line, n) \in Row /\ Len(Take(line, n)) = w /\ Drop(line, n) \in Row /\ Len(Drop(line, n)) = Len(line) - w
  BY <1>1, CutsRow
<1> QED
  BY <1>2

\* Backspace, within a row and at its head.
LEMMA BackspaceCalm ==
  ASSUME NEW b, Calm(b), b.mode = "insert"
  PROVE  Calm(Backspace(b))
<1>1. PICK a : a = PushUndo(b)
  OBVIOUS
<1>2. Saves(b, a) /\ Fits(b) /\ Stands(b) /\ Fits(a)
  BY <1>1, PushSaves DEF Calm, Saves
<1>3. PICK r \in Nat, c \in Nat : b.cursor = Cursor(r, c) /\ b.cursor.row = r /\ b.cursor.col = c
  BY <1>2 DEF Fits, Place, Cursor
<1>4. PICK line \in Row : line = Here(b)
  BY <1>2, <1>3, LinesAre DEF Stands, InText, Here, LineAt
<1>5. r \in 0 .. LastRow(b) /\ c \in 0 .. Len(line) /\ Len(line) \in Nat /\ LastRow(b) \in Nat /\ Len(a.lines) = LastRow(b) + 1
      /\ LastRow(a) = LastRow(b) /\ a.cursor = b.cursor /\ a.mode = "insert" /\ a.anchor = NoAnchor
  BY <1>2, <1>3, <1>4, LinesAre DEF Calm, Saves, Stands, InText, LastCol, Row, Here, LastRow
<1>6. PICK z : z = Backspace(b)
  OBVIOUS
<1>7. CASE r = 0 /\ c = 0
  BY <1>3, <1>7 DEF Backspace
<1>8. CASE c > 0
  <2>1. PICK u \in Nat : u = c - 1
    BY <1>8
  <2> DEFINE t == Take(line, u)
         d == Drop(line, c)
  <2>3. u <= Len(line) /\ c <= Len(line)
    BY <1>5, <2>1
  <2>4. t \in Row /\ d \in Row /\ Len(t) = u /\ Len(d) = Len(line) - c
    BY <2>3, CutsAt
  <2> HIDE DEF t, d
  <2>5. PICK new : new = t \o d
    OBVIOUS
  <2>6. new \in Row /\ Len(new) = Len(line) - 1
    <3>1. t \in Seq(Letter) /\ d \in Seq(Letter)
      BY <2>4 DEF Row
    <3>2. new \in Seq(Letter) /\ Len(new) = Len(t) + Len(d)
      BY <2>5, <3>1, Grows
    <3>3. Len(new) = Len(line) - 1
      BY <1>5, <2>1, <2>4, <3>2
    <3> QED
      BY <3>2, <3>3 DEF Row
  <2>7. PICK e : e = SetHere(a, new)
    OBVIOUS
  <2>8. Laid(a, e, e.lines) /\ Fits(e) /\ LastRow(e) = LastRow(a) /\ LineAt(e, r) = new
    <3>1. HereAt(a, r) /\ Fits(a) /\ new \in Row
      BY <1>2, <1>3, <1>5, <2>6 DEF HereAt
    <3>2. Fits(e) /\ RowSet(a, r, new, e)
      BY <2>7, <3>1, SetsRow
    <3> QED
      BY <3>2 DEF RowSet
  <2>9. z = [e EXCEPT !.cursor.col = u, !.desired = u]
    BY <1>1, <1>3, <1>4, <1>6, <1>8, <2>1, <2>5, <2>7 DEF Backspace, t, d
  <2>10. PICK p : p = Cursor(r, u)
    OBVIOUS
  <2>11. p \in Place /\ p.row = r /\ p.col = u
    BY <2>10 DEF Place, Cursor
  <2>12. z = PutAt(e, p, u)
    <3>1. e.cursor = Cursor(r, c)
      BY <1>3, <1>5, <2>8 DEF Laid
    <3>2. [Cursor(r, c) EXCEPT !.col = u] = p
      BY <2>10 DEF Cursor
    <3> QED
      BY <2>9, <3>1, <3>2 DEF PutAt
  <2>13. InText(e, p)
    <3>1. e.mode = "insert" /\ u \in 0 .. Len(new)
      BY <1>5, <2>1, <2>6, <2>8 DEF Laid
    <3> QED
      BY <1>5, <2>8, <2>11, <3>1 DEF InText, LastCol
  <2>14. p \in Place /\ Fits(e)
    BY <2>8, <2>11
  <2>15. Fits(z) /\ Stands(z) /\ Poised(e, p, z)
    BY <2>12, <2>13, <2>14, PutsCursor
  <2> QED
    BY <1>5, <1>6, <2>8, <2>15 DEF Calm, Laid, Poised
<1>9. CASE r > 0 /\ c = 0
  <2>1. PICK f \in Nat, u \in Nat : f = r - 1 /\ u = r + 1
    BY <1>9
  <2>2. PICK above \in Row : above = LineAt(b, f)
    BY <1>2, <1>5, <1>9, <2>1, LinesAre
  <2>3. PICK glued, new : glued = above \o line /\ new = <<glued>>
    OBVIOUS
  <2>4. glued \in Row /\ Len(glued) = Len(above) + Len(line) /\ Len(above) \in Nat
    <3>1. above \in Seq(Letter) /\ line \in Seq(Letter)
      BY DEF Row
    <3>2. glued \in Seq(Letter) /\ Len(glued) = Len(above) + Len(line) /\ Len(above) \in Nat
      BY <2>3, <3>1, Grows
    <3> QED
      BY <3>2 DEF Row
  <2>5. new \in Seq(Row) /\ Len(new) = 1 /\ new[1] = glued
    BY <2>3, <2>4
  <2>6. PICK e, lines : e = ReplaceRows(a, f, r, new) /\ lines = e.lines
    OBVIOUS
  <2>7. Laid(a, e, lines) /\ RowsPut(a.lines, f, u, new, lines)
    <3>1. r \in Int /\ r = u - 1 /\ f <= u /\ u <= Len(a.lines)
      BY <1>5, <2>1
    <3> QED
      BY <1>2, <2>5, <2>6, <3>1, PutsRows
  <2>8. lines \in Texts /\ Len(lines) = LastRow(b) /\ lines[r] = glued
    <3>1. lines \in Seq(Row) /\ Len(lines) = f + Len(new) + (Len(a.lines) - u)
      BY <2>7 DEF RowsPut
    <3>2. Len(lines) = LastRow(b)
      BY <1>5, <2>1, <2>5, <3>1
    <3>3. f <= u /\ u <= Len(a.lines) /\ a.lines \in Seq(Row)
      BY <1>2, <1>5, <2>1, LinesAre
    <3>4. \A j \in 1 .. Len(new) : lines[f + j] = new[j]
      <4>1. PICK old : old = a.lines
        OBVIOUS
      <4>2. f <= u /\ u <= Len(old) /\ old \in Seq(Row) /\ RowsPut(old, f, u, new, lines) /\ new \in Seq(Row)
        BY <2>5, <2>7, <3>3, <4>1
      <4>3. Came(old, f, u, new, lines)
        BY <4>2, RowsOf
      <4> QED
        BY <4>3 DEF Came
    <3> QED
      BY <1>5, <1>9, <2>1, <2>5, <3>1, <3>2, <3>4 DEF Texts
  <2>9. Fits(e) /\ e.mode = "insert" /\ e.anchor = NoAnchor
    BY <1>2, <1>5, <2>7, <2>8, LaidFits DEF Laid
  <2>10. PICK k \in Nat : k = Len(above)
    BY <2>4
  <2> DEFINE p == Cursor(f, k)
  <2>11. p \in Place /\ p.row = f /\ p.col = k
    BY <2>10 DEF Place, Cursor
  <2>12. z = PutAt(e, p, k)
    BY <1>1, <1>3, <1>4, <1>6, <1>9, <2>1, <2>2, <2>3, <2>6, <2>10 DEF Backspace, PutAt
  <2>13. InText(e, p)
    <3>1. LineAt(e, f) = glued /\ LastRow(e) = LastRow(b) - 1
      BY <1>5, <2>1, <2>6, <2>8 DEF LineAt, LastRow
    <3> QED
      BY <1>5, <1>9, <2>1, <2>4, <2>9, <2>10, <2>11, <3>1 DEF InText, LastCol
  <2>14. p \in Place /\ Fits(e)
    BY <2>9, <2>11
  <2> HIDE DEF p
  <2>15. Fits(z) /\ Stands(z) /\ Poised(e, p, z)
    BY <2>12, <2>13, <2>14, PutsCursor
  <2> QED
    BY <1>6, <2>9, <2>15 DEF Calm, Poised
<1> QED
  BY <1>7, <1>8, <1>9

\* What a command builds before the cursor is clamped; c has the text, mode and selection of b.
Ready(b) == Fits(b) /\ b.anchor = NoAnchor /\ b.mode \in {"normal", "insert"}
Kept(b, c) == c.lines = b.lines /\ c.mode = b.mode /\ c.anchor = b.anchor /\ c.register = b.register

\* The clamp makes it calm.
LEMMA ClampCalm ==
  ASSUME NEW b, Ready(b), NEW c, c = ClampCursor(b)
  PROVE  Calm(c) /\ Kept(b, c)
<1>1. Fits(b)
  BY DEF Ready
<1>2. Walks(b, c) /\ Stands(c)
  BY <1>1, ClampStands
<1> QED
  BY <1>2 DEF Ready, Calm, Walks, Kept

\* So does entering a mode.
LEMMA EntersCalm ==
  ASSUME NEW b, Fits(b), b.anchor = NoAnchor, NEW mode \in {"normal", "insert"}, NEW c, c = Enter(b, mode)
  PROVE  Calm(c) /\ c.mode = mode /\ c.lines = b.lines /\ c.register = b.register
  BY EnterCalm

ColPut(b, k) == [b EXCEPT !.cursor.col = k]
PlacePut(b, p) == [b EXCEPT !.cursor = p]

\* A column or a place for the cursor that no text need have, before a clamp.
LEMMA PutsPlace ==
  ASSUME NEW b, Fits(b)
  PROVE  /\ \A k \in Nat : Fits(ColPut(b, k)) /\ Kept(b, ColPut(b, k))
         /\ \A p \in Place : Fits(PlacePut(b, p)) /\ Kept(b, PlacePut(b, p)) /\ PlacePut(b, p).cursor = p
<1>1. b.cursor \in Place /\ DOMAIN b = Fields
  BY DEF Fits, BufShape
<1>2. ASSUME NEW k \in Nat PROVE Fits(ColPut(b, k)) /\ Kept(b, ColPut(b, k))
  <2>1. PICK p : p = [b.cursor EXCEPT !.col = k]
    OBVIOUS
  <2>2. p \in Place
    BY <1>1, <2>1 DEF Place
  <2>3. ColPut(b, k) = [b EXCEPT !.cursor = p]
    BY <1>1, <2>1 DEF ColPut, Fields
  <2> QED
    BY <2>2, <2>3 DEF Fits, BufShape, Fields, Kept
<1>3. ASSUME NEW p \in Place PROVE Fits(PlacePut(b, p)) /\ Kept(b, PlacePut(b, p)) /\ PlacePut(b, p).cursor = p
  BY DEF Fits, BufShape, Fields, Kept, PlacePut
<1> QED
  BY <1>2, <1>3

\* What is yanked.
Registered(b, txt, how, c) ==
  /\ c.register = [text |-> txt, linewise |-> how]
  /\ c.lines = b.lines /\ c.mode = b.mode /\ c.anchor = b.anchor /\ c.cursor = b.cursor

\* The register is set.
LEMMA SetsRegister ==
  ASSUME NEW b, Fits(b), NEW txt \in Seq(Row), NEW how \in BOOLEAN, how \/ txt # <<>>, NEW c, c = SetRegister(b, txt, how)
  PROVE  Fits(c) /\ Registered(b, txt, how, c)
<1>1. [text |-> txt, linewise |-> how] \in Pasted
  BY DEF Pasted
<1> QED
  BY <1>1 DEF SetRegister, Fits, BufShape, Fields, Registered

\* The rest of one row behind the beginning of another.
LEMMA PiecedRow ==
  ASSUME NEW line \in Row, NEW other \in Row, NEW m \in Nat, NEW n \in Nat
  PROVE  Take(line, m) \o Drop(other, n) \in Row
<1>1. PICK v, w : v = Least(m, Len(line)) /\ w = Least(n, Len(other))
  OBVIOUS
<1>2. Take(line, m) \in Row
  BY <1>1, CutsRow
<1>3. Drop(other, n) \in Row
  BY <1>1, CutsRow
<1> QED
  BY <1>2, <1>3 DEF Row

\* The row of the cursor, saved and about to be worked on.
Begins(b, a, r, c, line) ==
  /\ a = PushUndo(b) /\ Fits(a) /\ Ready(a) /\ HereAt(a, r) /\ a.cursor = b.cursor /\ a.lines = b.lines /\ a.mode = b.mode
  /\ LastRow(a) = LastRow(b)
  /\ b.cursor.row = r /\ b.cursor.col = c /\ line = Here(b)

\* How a command that edits the cursor's row begins.
LEMMA BeginsWork ==
  ASSUME NEW b, Calm(b)
  PROVE  \E a : \E r \in Nat, c \in Nat, line \in Row : Begins(b, a, r, c, line)
<1>1. PICK a : a = PushUndo(b)
  OBVIOUS
<1>2. Saves(b, a) /\ Fits(b) /\ Stands(b)
  BY <1>1, PushSaves DEF Calm
<1>3. PICK r \in Nat, c \in Nat : b.cursor.row = r /\ b.cursor.col = c
  BY <1>2 DEF Fits, Place
<1>4. PICK line \in Row : line = Here(b)
  BY <1>2, <1>3, LinesAre DEF Stands, InText, Here, LineAt
<1>5. Begins(b, a, r, c, line)
  BY <1>1, <1>2, <1>3, <1>4 DEF Begins, Saves, Ready, Calm, HereAt, Stands, InText, LastRow
<1> QED
  BY <1>5

\* x
LEMMA DeleteCharCalm == ASSUME NEW b, Calm(b) PROVE Calm(DeleteChar(b))
<1>1. PICK a : \E r \in Nat, c \in Nat, line \in Row : Begins(b, a, r, c, line)
  BY BeginsWork
<1>2. PICK r \in Nat, c \in Nat, line \in Row : Begins(b, a, r, c, line)
  BY <1>1
<1>3. CASE c >= Len(line)
  BY <1>2, <1>3 DEF DeleteChar, Begins
<1>4. CASE ~(c >= Len(line))
  <2>1. PICK n \in Nat, k \in Nat : n = Len(line) /\ k = c + 1
    BY DEF Row
  <2>2. PICK new : new = Take(line, c) \o Drop(line, k)
    OBVIOUS
  <2>3. new \in Row
    BY <2>2, PiecedRow
  <2>4. PICK e : e = SetHere(a, new)
    OBVIOUS
  <2>5. Fits(a) /\ HereAt(a, r)
    BY <1>2 DEF Begins
  <2>6. Fits(e) /\ RowSet(a, r, new, e)
    BY <2>3, <2>4, <2>5, SetsRow
  <2>7. PICK txt : txt = << <<line[c + 1]>> >>
    OBVIOUS
  <2>8. txt \in Seq(Row) /\ txt # <<>>
    <3>1. c + 1 \in 1 .. Len(line) /\ line \in Seq(Letter)
      BY <1>4, <2>1 DEF Row
    <3>2. line[c + 1] \in Letter
      BY <3>1
    <3>3. <<line[c + 1]>> \in Row
      BY <3>2 DEF Row
    <3> QED
      BY <2>7, <3>3
  <2>9. PICK d : d = SetRegister(e, txt, FALSE)
    OBVIOUS
  <2>10. FALSE \in BOOLEAN /\ (FALSE \/ txt # <<>>)
    BY <2>8
  <2>11. Fits(d) /\ Registered(e, txt, FALSE, d)
    BY <2>6, <2>8, <2>9, <2>10, SetsRegister
  <2>12. Ready(d)
    BY <1>2, <2>6, <2>11 DEF Ready, Registered, RowSet, Laid, Begins
  <2>13. DeleteChar(b) = ClampCursor(d)
    BY <1>2, <1>4, <2>1, <2>2, <2>4, <2>7, <2>9 DEF DeleteChar, Begins, Charwise
  <2> QED
    BY <2>12, <2>13, ClampCalm
<1> QED
  BY <1>3, <1>4

\* A text is not left without a row.
LEMMA KeepsALine ==
  ASSUME NEW a, Fits(a), NEW lines \in Seq(Row), NEW e, Laid(a, e, lines), NEW k, k = KeepALine(e)
  PROVE  Fits(k) /\ Laid(a, k, k.lines) /\ k.lines = IF lines = <<>> THEN EmptyText ELSE lines
<1>1. EmptyText \in Texts
  <2>1. <<>> \in Row
    BY DEF Row
  <2> QED
    BY <2>1 DEF EmptyText, Texts
<1>2. PICK v \in Texts : v = IF lines = <<>> THEN EmptyText ELSE lines
  BY <1>1 DEF Texts
<1>3. Laid(a, k, v)
  BY <1>2 DEF KeepALine, Laid, Fields
<1>4. Fits(k)
  BY <1>3, LaidFits
<1> QED
  BY <1>2, <1>3, <1>4 DEF Laid

\* dd, down to the last row of the text.
LEMMA DeleteLineCalm == ASSUME NEW b, Calm(b) PROVE Calm(DeleteLine(b))
<1>1. PICK a : \E r \in Nat, c \in Nat, line \in Row : Begins(b, a, r, c, line)
  BY BeginsWork
<1>2. PICK r \in Nat, c \in Nat, line \in Row : Begins(b, a, r, c, line)
  BY <1>1
<1>3. PICK u \in Nat : u = r + 1
  OBVIOUS
<1>4. PICK none : none = <<>>
  OBVIOUS
<1>5. PICK e, lines : e = ReplaceRows(a, r, r, none) /\ lines = e.lines
  OBVIOUS
<1>6. Fits(a) /\ Ready(a)
  BY <1>2 DEF Begins
<1>7. none \in Seq(Row) /\ r <= u /\ u <= Len(a.lines) /\ r \in Int /\ r = u - 1
  <2>1. r \in 0 .. LastRow(a) /\ LastRow(a) \in Nat /\ Len(a.lines) = LastRow(a) + 1
    BY <1>2, <1>6, LinesAre DEF Begins, HereAt
  <2> QED
    BY <1>3, <1>4, <2>1
<1>8. Laid(a, e, lines) /\ RowsPut(a.lines, r, u, none, lines)
  BY <1>5, <1>6, <1>7, PutsRows
<1>9. lines \in Seq(Row)
  BY <1>8 DEF RowsPut
<1>10. PICK k : k = KeepALine(e)
  OBVIOUS
<1>11. Fits(k) /\ Laid(a, k, k.lines)
  BY <1>6, <1>8, <1>9, <1>10, KeepsALine
<1>12. PICK txt : txt = <<line>>
  OBVIOUS
<1>13. txt \in Seq(Row) /\ TRUE \in BOOLEAN /\ (TRUE \/ txt # <<>>)
  BY <1>12
<1>14. PICK d : d = SetRegister(k, txt, TRUE)
  OBVIOUS
<1>15. Fits(d) /\ Registered(k, txt, TRUE, d)
  BY <1>11, <1>13, <1>14, SetsRegister
<1>16. Fits(ColPut(d, 0)) /\ Kept(d, ColPut(d, 0))
  BY <1>15, PutsPlace
<1>17. PICK z : z = ColPut(d, 0)
  OBVIOUS
<1>18. Ready(z)
  BY <1>6, <1>11, <1>15, <1>16, <1>17 DEF Ready, Registered, Laid, Kept
<1>19. DeleteLine(b) = ClampCursor(z)
  BY <1>2, <1>4, <1>5, <1>10, <1>12, <1>14, <1>17 DEF DeleteLine, Linewise, Begins, ColPut
<1> QED
  BY <1>18, <1>19, ClampCalm

\* cc
LEMMA ChangeLineCalm == ASSUME NEW b, Calm(b) PROVE Calm(ChangeLine(b))
<1>1. PICK a : \E r \in Nat, c \in Nat, line \in Row : Begins(b, a, r, c, line)
  BY BeginsWork
<1>2. PICK r \in Nat, c \in Nat, line \in Row : Begins(b, a, r, c, line)
  BY <1>1
<1>3. PICK none : none = <<>>
  OBVIOUS
<1>4. none \in Row
  BY <1>3 DEF Row
<1>5. PICK e : e = SetHere(a, none)
  OBVIOUS
<1>6. Fits(a) /\ HereAt(a, r)
  BY <1>2 DEF Begins
<1>7. Fits(e) /\ RowSet(a, r, none, e)
  BY <1>4, <1>5, <1>6, SetsRow
<1>8. PICK txt : txt = <<line>>
  OBVIOUS
<1>9. txt \in Seq(Row) /\ TRUE \in BOOLEAN /\ (TRUE \/ txt # <<>>)
  BY <1>8
<1>10. PICK d : d = SetRegister(e, txt, TRUE)
  OBVIOUS
<1>11. Fits(d) /\ Registered(e, txt, TRUE, d)
  BY <1>7, <1>9, <1>10, SetsRegister
<1>12. Fits(ColPut(d, 0)) /\ Kept(d, ColPut(d, 0))
  BY <1>11, PutsPlace
<1>13. PICK z : z = ColPut(d, 0)
  OBVIOUS
<1>14. Fits(z) /\ z.anchor = NoAnchor
  BY <1>2, <1>7, <1>11, <1>12, <1>13 DEF Ready, Registered, RowSet, Laid, Kept, Begins
<1>15. ChangeLine(b) = Enter(z, "insert") /\ "insert" \in {"normal", "insert"}
  BY <1>2, <1>3, <1>5, <1>8, <1>10, <1>13 DEF ChangeLine, Linewise, Begins, ColPut
<1> QED
  BY <1>14, <1>15, EntersCalm

\* Rows are a text when there is one.
LEMMA IsText == ASSUME NEW lines \in Seq(Row), Len(lines) > 0 PROVE lines \in Texts
  BY DEF Texts

\* o and O.
LEMMA OpenCalm ==
  ASSUME NEW b, Calm(b), NEW r \in 0 .. LastRow(b) + 1
  PROVE  Calm(OpenAt(b, r))
<1>1. PICK a : \E s \in Nat, c \in Nat, line \in Row : Begins(b, a, s, c, line)
  BY BeginsWork
<1>2. PICK s \in Nat, c \in Nat, line \in Row : Begins(b, a, s, c, line)
  BY <1>1
<1>3. PICK new : new = << <<>> >>
  OBVIOUS
<1>4. new \in Seq(Row)
  <2>1. <<>> \in Row
    BY DEF Row
  <2> QED
    BY <1>3, <2>1
<1>5. Fits(a) /\ Ready(a) /\ LastRow(a) = LastRow(b)
  BY <1>2 DEF Begins
<1>6. LastRow(a) \in Nat /\ Len(a.lines) = LastRow(a) + 1 /\ a.lines \in Seq(Row)
  BY <1>5, LinesAre
<1>7. PICK from \in Nat, to \in Int : from = r /\ to = from - 1 /\ from <= Len(a.lines) /\ from <= from
  BY <1>5, <1>6
<1>8. PICK e, lines : e = ReplaceRows(a, from, to, new) /\ lines = e.lines
  OBVIOUS
<1>9. Laid(a, e, lines) /\ RowsPut(a.lines, from, from, new, lines)
  BY <1>4, <1>5, <1>7, <1>8, PutsRows
<1>10. lines \in Texts
  <2>1. lines \in Seq(Row) /\ Len(lines) = from + Len(new) + (Len(a.lines) - from)
    BY <1>9 DEF RowsPut
  <2>2. Len(lines) > 0
    BY <1>3, <1>6, <1>7, <2>1
  <2> QED
    BY <2>1, <2>2, IsText
<1>11. Fits(e)
  BY <1>5, <1>9, <1>10, LaidFits
<1>12. PICK p : p = Cursor(from, 0)
  OBVIOUS
<1>13. p \in Place
  BY <1>12 DEF Cursor, Place
<1>14. PICK z : z = PlacePut(e, p)
  OBVIOUS
<1>15. Fits(z) /\ z.anchor = NoAnchor
  BY <1>5, <1>9, <1>11, <1>13, <1>14, PutsPlace DEF Ready, Laid, Kept
<1>16. OpenAt(b, r) = Enter(z, "insert") /\ "insert" \in {"normal", "insert"}
  <2>1. e = [a EXCEPT !.lines = InsertAt(@, r + 1, <<>>)]
    <3>1. PICK q \in Nat : q = r + 1 /\ q - 1 = from /\ to + 2 = q
      BY <1>7
    <3>2. e = [a EXCEPT !.lines = SubSeq(a.lines, 1, from) \o new \o SubSeq(a.lines, q, Len(a.lines))]
      BY <1>8, <3>1 DEF ReplaceRows
    <3>3. InsertAt(a.lines, q, <<>>) = SubSeq(a.lines, 1, from) \o new \o SubSeq(a.lines, q, Len(a.lines))
      BY <1>3, <3>1 DEF InsertAt
    <3>4. e = [a EXCEPT !.lines = InsertAt(a.lines, q, <<>>)]
      BY <3>2, <3>3
    <3> QED
      BY <3>1, <3>4
  <2> QED
    BY <1>2, <1>7, <1>12, <1>14, <2>1 DEF OpenAt, PlacePut, Begins
<1> QED
  BY <1>15, <1>16, EntersCalm

\* A range of the text: from a place to a later one.
Spans(b, lo, hi) == lo \in Place /\ hi \in Place /\ lo.row <= hi.row /\ hi.row <= LastRow(b)
\* What it takes from row r.
Part(b, lo, hi, r) ==
  IF r = lo.row /\ r = hi.row THEN Drop(Take(LineAt(b, r), hi.col + 1), lo.col)
  ELSE IF r = lo.row THEN Drop(LineAt(b, r), lo.col)
  ELSE IF r = hi.row THEN Take(LineAt(b, r), hi.col + 1) ELSE LineAt(b, r)

\* Both ends of a row are rows.
LEMMA RowIsCut ==
  ASSUME NEW line \in Row, NEW n \in Nat
  PROVE  Take(line, n) \in Row /\ Drop(line, n) \in Row
<1>1. PICK w : w = Least(n, Len(line))
  OBVIOUS
<1> QED
  BY <1>1, CutsRow

\* The text of a range, row by row.
LEMMA CollectIs ==
  ASSUME NEW b, Fits(b), NEW lo, NEW hi, Spans(b, lo, hi), NEW txt, txt = CollectRange(b, lo, hi)
  PROVE  /\ txt \in Seq(Row) /\ txt # <<>> /\ Len(txt) = hi.row - lo.row + 1
         /\ \A r \in lo.row .. hi.row : txt[r - lo.row + 1] = Part(b, lo, hi, r)
<1>1. PICK low \in Nat, high \in Nat, left \in Nat, right \in Nat :
        low = lo.row /\ high = hi.row /\ left = lo.col /\ right = hi.col + 1 /\ low <= high /\ high <= LastRow(b)
  BY DEF Spans, Place
<1>2. PICK first \in Row, last \in Row : first = LineAt(b, low) /\ last = LineAt(b, high)
  BY <1>1, LinesAre
<1>3. CASE low = high
  <2>1. PICK t, u : t = Take(last, right) /\ u = Drop(t, left)
    OBVIOUS
  <2>2. t \in Row
    BY <2>1, RowIsCut
  <2>3. u \in Row
    BY <2>1, <2>2, RowIsCut
  <2>4. txt = <<u>>
    BY <1>1, <1>2, <1>3, <2>1 DEF CollectRange
  <2>5. ASSUME NEW r \in low .. high PROVE txt[r - low + 1] = Part(b, lo, hi, r)
    <3>1. r = low /\ r = high /\ r - low + 1 = 1
      BY <1>3
    <3>2. txt[1] = u
      BY <2>4
    <3>3. Part(b, lo, hi, r) = u
      BY <1>1, <1>2, <2>1, <3>1 DEF Part
    <3> QED
      BY <3>1, <3>2, <3>3
  <2>6. high - low + 1 = 1
    BY <1>3
  <2> QED
    BY <1>1, <2>3, <2>4, <2>5, <2>6
<1>4. CASE low # high
  <2>1. PICK t, u : t = Drop(first, left) /\ u = Take(last, right)
    OBVIOUS
  <2>2. t \in Row /\ u \in Row
    BY <2>1, RowIsCut
  <2>3. PICK from \in Nat : from = low + 1
    OBVIOUS
  <2> DEFINE v == SubSeq(b.lines, from + 1, high)
  <2>4. PICK k \in Nat : k = high - from
    BY <1>1, <1>4, <2>3
  <2>5. v \in Seq(Row) /\ Len(v) = k /\ \A j \in 1 .. k : v[j] = b.lines[from + j]
    <3>1. PICK old : old = b.lines
      OBVIOUS
    <3>2. old \in Seq(Row) /\ from <= high /\ high <= Len(old)
      BY <1>1, <1>4, <2>3, <3>1, LinesAre
    <3>3. SubSeq(old, from + 1, high) \in Seq(Row) /\ Len(SubSeq(old, from + 1, high)) = high - from
          /\ \A j \in 1 .. high - from : SubSeq(old, from + 1, high)[j] = old[from + j]
      BY <3>2, PartOf
    <3> QED
      BY <2>4, <3>1, <3>3
  <2> HIDE DEF v
  <2>6. PICK tv, ft, lt : tv = ft \o v /\ ft = <<t>> /\ lt = <<u>>
    OBVIOUS
  <2>7. ft \in Seq(Row) /\ Len(ft) = 1 /\ ft[1] = t /\ lt \in Seq(Row) /\ Len(lt) = 1 /\ lt[1] = u
    BY <2>2, <2>6
  <2>8. tv \in Seq(Row) /\ Len(tv) = 1 + k /\ tv[1] = t /\ \A j \in 1 .. k : tv[1 + j] = v[j]
    <3>1. ft \in Seq(Row) /\ v \in Seq(Row) /\ 1 = Len(ft) /\ k = Len(v)
      BY <2>5, <2>7
    <3>2. tv \in Seq(Row) /\ Len(tv) = 1 + k /\ (\A j \in 1 .. 1 : tv[j] = ft[j]) /\ \A j \in 1 .. k : tv[1 + j] = v[j]
      BY <2>6, <3>1, Placed
    <3> QED
      BY <2>7, <3>2
  <2>9. txt = tv \o lt
    <3>1. from + 1 = low + 2
      BY <2>3
    <3> QED
      BY <1>1, <1>2, <1>4, <2>1, <2>3, <2>6, <3>1 DEF CollectRange, v
  <2>10. PICK n \in Nat : n = 1 + k
    OBVIOUS
  <2>11. txt \in Seq(Row) /\ Len(txt) = n + 1 /\ (\A j \in 1 .. n : txt[j] = tv[j]) /\ txt[n + 1] = u
    <3>1. PICK one : one = 1
      OBVIOUS
    <3>2. tv \in Seq(Row) /\ lt \in Seq(Row) /\ n = Len(tv) /\ one = Len(lt)
      BY <2>7, <2>8, <2>10, <3>1
    <3>3. txt \in Seq(Row) /\ Len(txt) = n + one /\ (\A j \in 1 .. n : txt[j] = tv[j]) /\ \A j \in 1 .. one : txt[n + j] = lt[j]
      BY <2>9, <3>2, Placed
    <3>4. txt[n + 1] = lt[1]
      BY <3>1, <3>3
    <3> QED
      BY <2>7, <3>1, <3>3, <3>4
  <2>12. n + 1 = high - low + 1 /\ txt # <<>>
    BY <2>3, <2>4, <2>10, <2>11
  <2>13. ASSUME NEW r \in low .. high PROVE txt[r - low + 1] = Part(b, lo, hi, r)
    <3>1. PICK j \in Nat : j = r - low + 1
      OBVIOUS
    <3>2. CASE r = low
      <4>1. j = 1 /\ 1 \in 1 .. n /\ r # high
        BY <1>4, <2>10, <3>1, <3>2
      <4> QED
        BY <1>1, <1>2, <2>1, <2>8, <2>11, <3>1, <3>2, <4>1 DEF Part
    <3>3. CASE r = high
      <4>1. j = n + 1 /\ r # low
        BY <1>4, <2>3, <2>4, <2>10, <3>1, <3>3
      <4> QED
        BY <1>1, <1>2, <2>1, <2>11, <3>1, <3>3, <4>1 DEF Part
    <3>4. CASE r # low /\ r # high
      <4>1. PICK l \in Nat : l = r - low
        OBVIOUS
      <4>2. l \in 1 .. k /\ 1 + l = j /\ j \in 1 .. n /\ from + l = r + 1
        BY <2>3, <2>4, <2>10, <3>1, <3>4, <4>1
      <4>3. txt[j] = b.lines[r + 1]
        BY <2>5, <2>8, <2>11, <4>2
      <4> QED
        BY <1>1, <3>1, <3>4, <4>3 DEF Part, LineAt
    <3> QED
      BY <3>2, <3>3, <3>4
  <2> QED
    BY <1>1, <2>11, <2>12, <2>13
<1> QED
  BY <1>3, <1>4

\* The range from lo to hi is taken out of b, and b becomes c; joined is what stays of its rows.
LeftOver(b, lo, hi) == Take(LineAt(b, lo.row), lo.col) \o Drop(LineAt(b, hi.row), hi.col + 1)
Taken(b, lo, hi, c) ==
  /\ LeftOver(b, lo, hi) \in Row /\ RowsPut(b.lines, lo.row, hi.row + 1, <<LeftOver(b, lo, hi)>>, c.lines)
  /\ c.register.text = CollectRange(b, lo, hi)
SameMode(b, c) == c.mode = b.mode /\ c.anchor = b.anchor

\* Its removal: the rows of the range become the one row of what is left.
LEMMA RangeGoes ==
  ASSUME NEW b, Fits(b), NEW lo, NEW hi, Spans(b, lo, hi), Low(lo, hi) = lo, High(lo, hi) = hi, NEW c, c = DeleteRangeNoUndo(b, lo, hi)
  PROVE  /\ Fits(c) /\ Stands(c) /\ Taken(b, lo, hi, c) /\ SameMode(b, c)
         /\ InText(c, lo) => c.cursor = lo
<1>1. PICK low \in Nat, high \in Nat, left \in Nat, right \in Nat :
        low = lo.row /\ high = hi.row /\ left = lo.col /\ right = hi.col + 1 /\ low <= high /\ high <= LastRow(b)
  BY DEF Spans, Place
<1>2. PICK first \in Row, last \in Row : first = LineAt(b, low) /\ last = LineAt(b, high)
  BY <1>1, LinesAre
<1>3. PICK joined : joined = Take(first, left) \o Drop(last, right)
  OBVIOUS
<1>4. joined \in Row
  BY <1>3, PiecedRow
<1>5. PICK new : new = <<joined>>
  OBVIOUS
<1>6. PICK u \in Nat : u = high + 1
  OBVIOUS
<1>7. PICK e, lines : e = ReplaceRows(b, low, high, new) /\ lines = e.lines
  OBVIOUS
<1>8. new \in Seq(Row) /\ low <= u /\ u <= Len(b.lines) /\ high \in Int /\ high = u - 1 /\ Len(new) = 1
  BY <1>6, <1>1, <1>4, <1>5, LinesAre
<1>9. Laid(b, e, lines) /\ RowsPut(b.lines, low, u, new, lines)
  BY <1>7, <1>8, PutsRows
<1>10. lines \in Texts
  <2>1. lines \in Seq(Row) /\ Len(lines) = low + Len(new) + (Len(b.lines) - u)
    BY <1>9 DEF RowsPut
  <2>2. PICK n \in Nat : n = Len(b.lines)
    BY LinesAre
  <2>3. Len(lines) = low + 1 + (n - u) /\ u <= n
    BY <1>8, <2>1, <2>2
  <2>4. Len(lines) > 0
    BY <2>3
  <2> QED
    BY <2>1, <2>4, IsText
<1>11. Fits(e)
  BY <1>9, <1>10, LaidFits
<1>12. PICK txt : txt = CollectRange(b, lo, hi)
  OBVIOUS
<1>13. txt \in Seq(Row) /\ txt # <<>>
  BY <1>12, CollectIs
<1>14. FALSE \in BOOLEAN /\ (FALSE \/ txt # <<>>)
  BY <1>13
<1>15. PICK d : d = SetRegister(e, txt, FALSE)
  OBVIOUS
<1>16. Fits(d) /\ Registered(e, txt, FALSE, d)
  BY <1>11, <1>13, <1>14, <1>15, SetsRegister
<1>17. lo \in Place
  BY DEF Spans
<1>18. PICK z : z = PlacePut(d, lo)
  OBVIOUS
<1>19. Fits(z) /\ Kept(d, z) /\ z.cursor = lo
  BY <1>16, <1>17, <1>18, PutsPlace
<1>20. c = ClampCursor(z)
  BY <1>1, <1>2, <1>3, <1>5, <1>7, <1>12, <1>15, <1>18 DEF DeleteRangeNoUndo, Charwise, PlacePut
<1>21. Walks(z, c) /\ Stands(c) /\ (Stands(z) => c.cursor = z.cursor)
  BY <1>19, <1>20, ClampStands
<1>22. c.lines = lines /\ c.register = [text |-> txt, linewise |-> FALSE] /\ c.mode = b.mode /\ c.anchor = b.anchor
  BY <1>9, <1>16, <1>19, <1>21, <1>7 DEF Laid, Registered, Kept, Walks
<1>23. Taken(b, lo, hi, c)
  <2>1. c.register.text = txt
    BY <1>22
  <2>2. RowsPut(b.lines, low, high + 1, <<joined>>, c.lines)
    BY <1>6, <1>5, <1>9, <1>22
  <2>3. joined = LeftOver(b, lo, hi)
    BY <1>1, <1>2, <1>3 DEF LeftOver
  <2>4. RowsPut(b.lines, lo.row, hi.row + 1, <<LeftOver(b, lo, hi)>>, c.lines)
    BY <1>1, <2>2, <2>3
  <2> QED
    BY <1>4, <1>12, <2>1, <2>3, <2>4 DEF Taken
<1>24. SameMode(b, c)
  BY <1>22 DEF SameMode
<1>25. InText(c, lo) => Stands(z)
  BY <1>19, <1>21 DEF Walks, Stands, InText, LastRow, LineAt, LastCol
<1> QED
  BY <1>19, <1>21, <1>23, <1>25, <1>24 DEF Walks

\* The ends of a range in the order of the text.
LEMMA InOrder ==
  ASSUME NEW p \in Place, NEW q \in Place, NEW lo, NEW hi, lo = Low(p, q), hi = High(p, q)
  PROVE  /\ lo \in Place /\ hi \in Place /\ lo \in {p, q} /\ hi \in {p, q} /\ lo.row <= hi.row
         /\ lo.row = hi.row => lo.col <= hi.col
         /\ Low(lo, hi) = lo /\ High(lo, hi) = hi
<1>1. CASE Before(p, q)
  BY <1>1 DEF Low, High, Before, Place
<1>2. CASE ~Before(p, q)
  <2>1. lo = q /\ hi = p
    BY <1>2 DEF Low, High
  <2>2. Before(q, p)
    BY <1>2 DEF Before, Place
  <2> QED
    BY <2>1, <2>2 DEF Low, High, Before, Place
<1> QED
  BY <1>1, <1>2

\* A place whose row is one of the text's.
InRows(b, p) == p \in Place /\ p.row <= LastRow(b)

\* Two places in the text are the ends of a range.
LEMMA SpansFrom ==
  ASSUME NEW b, NEW p, NEW q, InRows(b, p), InRows(b, q), NEW lo, NEW hi, lo = Low(p, q), hi = High(p, q)
  PROVE  Spans(b, lo, hi) /\ Low(lo, hi) = lo /\ High(lo, hi) = hi
<1>1. p \in Place /\ q \in Place
  BY DEF InRows
<1>2. /\ lo \in Place /\ hi \in Place /\ lo \in {p, q} /\ hi \in {p, q} /\ lo.row <= hi.row
      /\ Low(lo, hi) = lo /\ High(lo, hi) = hi
  BY <1>1, InOrder
<1> QED
  BY <1>2 DEF Spans, InRows

\* The removal from either end.
LEMMA RangeGone ==
  ASSUME NEW b, Fits(b), NEW p, NEW q, InRows(b, p), InRows(b, q), NEW lo, NEW hi, lo = Low(p, q), hi = High(p, q),
         NEW c, c = DeleteRangeNoUndo(b, p, q)
  PROVE  /\ Fits(c) /\ Stands(c) /\ Spans(b, lo, hi) /\ Taken(b, lo, hi, c) /\ SameMode(b, c)
         /\ InText(c, lo) => c.cursor = lo
<1>1. Spans(b, lo, hi) /\ Low(lo, hi) = lo /\ High(lo, hi) = hi
  BY SpansFrom
<1>2. c = DeleteRangeNoUndo(b, lo, hi)
  BY <1>1 DEF DeleteRangeNoUndo
<1> QED
  BY <1>1, <1>2, RangeGoes

\* d with a motion.
LEMMA DeleteRangeCalm ==
  ASSUME NEW b, Calm(b), NEW p, NEW q, InRows(b, p), InRows(b, q)
  PROVE  Calm(DeleteRange(b, p, q))
<1>1. PICK a, c, lo, hi : a = PushUndo(b) /\ c = DeleteRangeNoUndo(a, p, q) /\ lo = Low(p, q) /\ hi = High(p, q)
  OBVIOUS
<1>2. Saves(b, a) /\ Fits(a) /\ InRows(a, p) /\ InRows(a, q)
  BY <1>1, PushSaves DEF Calm, Saves, InRows, LastRow
<1>3. Fits(c) /\ Stands(c) /\ SameMode(a, c)
  BY <1>1, <1>2, RangeGone
<1>4. DeleteRange(b, p, q) = c
  BY <1>1 DEF DeleteRange
<1> QED
  BY <1>2, <1>3, <1>4 DEF Calm, SameMode, Saves

\* y with a motion keeps the text.
LEMMA YankRangeFits ==
  ASSUME NEW b, Fits(b), NEW p, NEW q, InRows(b, p), InRows(b, q), NEW c, c = YankRange(b, p, q)
  PROVE  Fits(c) /\ c.lines = b.lines /\ c.mode = b.mode /\ c.anchor = b.anchor /\ c.cursor = b.cursor
<1>1. PICK lo, hi, txt : lo = Low(p, q) /\ hi = High(p, q) /\ txt = CollectRange(b, lo, hi)
  OBVIOUS
<1>2. Spans(b, lo, hi)
  BY <1>1, SpansFrom
<1>3. txt \in Seq(Row) /\ txt # <<>>
  BY <1>1, <1>2, CollectIs
<1>4. FALSE \in BOOLEAN /\ (FALSE \/ txt # <<>>)
  BY <1>3
<1>5. c = SetRegister(b, txt, FALSE)
  BY <1>1 DEF YankRange, Charwise
<1>6. Fits(c) /\ Registered(b, txt, FALSE, c)
  BY <1>3, <1>4, <1>5, SetsRegister
<1> QED
  BY <1>6 DEF Registered

\* A buffer with the same text and cursor stands where the other does.
LEMMA SameCalm ==
  ASSUME NEW b, Calm(b), NEW c, Fits(c), c.lines = b.lines, c.mode = b.mode, c.anchor = b.anchor, c.cursor = b.cursor
  PROVE  Calm(c)
  BY DEF Calm, Stands, InText, LastRow, LineAt, LastCol

\* And the cursor with it.
LEMMA YankRangeCalm ==
  ASSUME NEW b, Calm(b), NEW p, NEW q, InRows(b, p), InRows(b, q)
  PROVE  Calm(YankRange(b, p, q))
<1>1. PICK c : c = YankRange(b, p, q)
  OBVIOUS
<1>2. Fits(b)
  BY DEF Calm
<1>3. Fits(c) /\ c.lines = b.lines /\ c.mode = b.mode /\ c.anchor = b.anchor /\ c.cursor = b.cursor
  BY <1>1, <1>2, YankRangeFits
<1> QED
  BY <1>1, <1>3, SameCalm

\* The text woven into a row.
Woven(b, r, c, text1) ==
  LET first == <<Take(LineAt(b, r), c) \o text1[1]>> \o Tail(text1)
  IN  [first EXCEPT ![Len(text1)] = @ \o Drop(LineAt(b, r), c)]

\* It is rows, as many as the register has.
LEMMA WovenIs ==
  ASSUME NEW b, Fits(b), NEW r \in 0 .. LastRow(b), NEW c \in Nat, NEW txt \in Seq(Row), txt # <<>>, NEW w, w = Woven(b, r, c, txt)
  PROVE  w \in Seq(Row) /\ Len(w) = Len(txt)
<1>1. PICK line \in Row : line = LineAt(b, r)
  BY LinesAre
<1>2. PICK t, d : t = Take(line, c) /\ d = Drop(line, c)
  OBVIOUS
<1>3. t \in Row /\ d \in Row
  BY <1>2, RowIsCut
<1>4. PICK n \in Nat : n = Len(txt)
  OBVIOUS
<1>5. n > 0 /\ txt[1] \in Row
  BY <1>4
<1>6. PICK h : h = t \o txt[1]
  OBVIOUS
<1>7. h \in Row
  BY <1>3, <1>5, <1>6 DEF Row
<1>8. PICK tl : tl = Tail(txt)
  OBVIOUS
<1>9. tl \in Seq(Row) /\ Len(tl) = n - 1
  BY <1>4, <1>5, <1>8
<1>10. PICK one : one = <<h>>
  OBVIOUS
<1>11. one \in Seq(Row) /\ Len(one) = 1
  BY <1>7, <1>10
<1>12. PICK first : first = one \o tl
  OBVIOUS
<1>13. first \in Seq(Row) /\ Len(first) = n
  <2>1. one \in Seq(Row) /\ tl \in Seq(Row)
    BY <1>9, <1>11
  <2>2. first \in Seq(Row) /\ Len(first) = Len(one) + Len(tl)
    BY <1>12, <2>1, Grows
  <2> QED
    BY <1>9, <1>11, <2>2
<1>14. first[n] \in Row
  BY <1>5, <1>13
<1>15. PICK g : g = first[n] \o d
  OBVIOUS
<1>16. g \in Row
  BY <1>3, <1>14, <1>15 DEF Row
<1>17. w = [first EXCEPT ![n] = g]
  BY <1>1, <1>2, <1>4, <1>6, <1>8, <1>10, <1>12, <1>15 DEF Woven
<1> QED
  BY <1>4, <1>13, <1>16, <1>17

\* p and P: the rows are put in, or the text is woven into the cursor's row.
LEMMA PasteCalm ==
  ASSUME NEW b, Calm(b), NEW r \in 0 .. LastRow(b) + 1, NEW c \in Nat
  PROVE  Calm(Paste(b, r, c))
<1>1. PICK a : \E s \in Nat, col \in Nat, line \in Row : Begins(b, a, s, col, line)
  BY BeginsWork
<1>2. PICK s \in Nat, col \in Nat, line \in Row : Begins(b, a, s, col, line)
  BY <1>1
<1>3. Fits(a) /\ Ready(a) /\ LastRow(a) = LastRow(b) /\ a = PushUndo(b) /\ b.cursor.row = s /\ s \in 0 .. LastRow(a)
  BY <1>2 DEF Begins, HereAt
<1>4. LastRow(a) \in Nat /\ Len(a.lines) = LastRow(a) + 1 /\ a.lines \in Seq(Row)
  BY <1>3, LinesAre
<1>5. PICK reg : reg = b.register
  OBVIOUS
<1>6. reg \in Pasted
  BY <1>5 DEF Calm, Fits
<1>7. PICK txt : txt = reg.text
  OBVIOUS
<1>8. txt \in Seq(Row) /\ reg.linewise \in BOOLEAN /\ (reg.linewise \/ txt # <<>>)
  BY <1>6, <1>7 DEF Pasted
<1>9. CASE txt = EmptyText /\ ~reg.linewise
  BY <1>5, <1>7, <1>9 DEF Paste
<1>10. CASE reg.linewise
  <2>1. PICK from \in Nat : from = r
    BY <1>3, <1>4
  <2>2. PICK to \in Int : to = from - 1
    OBVIOUS
  <2>3. from <= from /\ from <= Len(a.lines)
    BY <1>3, <1>4, <2>1
  <2>4. PICK e, lines : e = ReplaceRows(a, from, to, txt) /\ lines = e.lines
    OBVIOUS
  <2>5. Laid(a, e, lines) /\ RowsPut(a.lines, from, from, txt, lines)
    BY <1>3, <1>8, <2>2, <2>3, <2>4, PutsRows
  <2>6. lines \in Texts
    <3>1. lines \in Seq(Row) /\ Len(lines) = from + Len(txt) + (Len(a.lines) - from)
      BY <2>5 DEF RowsPut
    <3>2. PICK n \in Nat, k \in Nat : n = Len(a.lines) /\ n > 0 /\ k = Len(txt)
      BY <1>4, <1>8
    <3>3. from + k + (n - from) = k + n
      OBVIOUS
    <3>4. n > 0
      BY <3>2
    <3>5. k + n > 0
      BY <3>4
    <3>6. Len(lines) = k + n
      BY <3>1, <3>2, <3>3
    <3>7. Len(lines) > 0
      BY <3>5, <3>6
    <3> QED
      BY <3>1, <3>7, IsText
  <2>7. Fits(e)
    BY <1>3, <2>5, <2>6, LaidFits
  <2>8. PICK p : p = Cursor(from, 0)
    OBVIOUS
  <2>9. p \in Place
    BY <2>8 DEF Place, Cursor
  <2>10. PICK z : z = PlacePut(e, p)
    OBVIOUS
  <2>11. Fits(z) /\ Kept(e, z)
    BY <2>7, <2>9, <2>10, PutsPlace
  <2>12. Ready(z)
    BY <1>3, <2>5, <2>11 DEF Ready, Kept, Laid
  <2>13. Paste(b, r, c) = ClampCursor(z)
    BY <1>3, <1>5, <1>7, <1>10, <2>1, <2>2, <2>4, <2>8, <2>10 DEF Paste, PlacePut
  <2> QED
    BY <2>12, <2>13, ClampCalm
<1>11. CASE txt # EmptyText /\ ~reg.linewise
  <2>1. txt # <<>>
    BY <1>8, <1>11
  <2>2. PICK n \in Nat : n = Len(txt) /\ n > 0
    BY <1>8, <2>1
  <2>3. PICK w : w = Woven(a, s, c, txt)
    OBVIOUS
  <2>4. w \in Seq(Row) /\ Len(w) = n
    BY <1>3, <1>8, <2>1, <2>2, <2>3, WovenIs
  <2>5. PICK e, lines : e = ReplaceRows(a, s, s, w) /\ lines = e.lines
    OBVIOUS
  <2>6. PICK u \in Nat : u = s + 1
    OBVIOUS
  <2>7. s \in Int /\ s = u - 1 /\ s <= u /\ u <= Len(a.lines)
    BY <1>3, <1>4, <2>6
  <2>8. Laid(a, e, lines) /\ RowsPut(a.lines, s, u, w, lines)
    BY <1>3, <2>4, <2>5, <2>7, PutsRows
  <2>9. lines \in Texts
    <3>1. lines \in Seq(Row) /\ Len(lines) = s + Len(w) + (Len(a.lines) - u)
      BY <2>8 DEF RowsPut
    <3>2. PICK m \in Nat : m = Len(a.lines)
      BY <1>4
    <3>3. Len(lines) = s + n + (m - u) /\ u <= m
      BY <2>4, <2>7, <3>1, <3>2
    <3>4. Len(lines) > 0
      BY <2>2, <3>3
    <3> QED
      BY <3>1, <3>4, IsText
  <2>10. Fits(e)
    BY <1>3, <2>8, <2>9, LaidFits
  <2>11. PICK last : last = Most(Len(txt[n]) - 1, 0)
    OBVIOUS
  <2>12. last \in Nat
    <3>1. txt[n] \in Seq(Letter)
      BY <1>8, <2>2 DEF Row
    <3>2. PICK k \in Nat : k = Len(txt[n])
      BY <3>1
    <3> QED
      BY <2>11, <3>2 DEF Most
  <2>13. PICK p : p = Cursor(s + n - 1, IF n = 1 THEN c + last ELSE last)
    OBVIOUS
  <2>14. p \in Place
    <3>1. PICK x, y : x = s + n - 1 /\ y = IF n = 1 THEN c + last ELSE last
      OBVIOUS
    <3>2. x \in Nat /\ y \in Nat
      BY <2>2, <2>12, <3>1
    <3> QED
      BY <2>13, <3>1, <3>2 DEF Place, Cursor
  <2>15. PICK z : z = PlacePut(e, p)
    OBVIOUS
  <2>16. Fits(z) /\ Kept(e, z)
    BY <2>10, <2>14, <2>15, PutsPlace
  <2>17. Ready(z)
    BY <1>3, <2>8, <2>16 DEF Ready, Kept, Laid
  <2>18. z = SpliceCharwise(a, s, c, txt)
    BY <2>2, <2>3, <2>5, <2>11, <2>13, <2>15 DEF SpliceCharwise, PlacePut, Woven
  <2>19. Paste(b, r, c) = ClampCursor(z)
    BY <1>3, <1>5, <1>7, <1>11, <2>18 DEF Paste
  <2> QED
    BY <2>17, <2>19, ClampCalm
<1> QED
  BY <1>8, <1>9, <1>10, <1>11

\* A selection is being made.
Sel(b) == Fits(b) /\ Stands(b) /\ b.mode \in {"visual", "vline"} /\ b.anchor \in Place /\ InText(b, b.anchor)
Sound(b) == Calm(b) \/ Sel(b)

\* A sound buffer is what an editor promises.
LEMMA SoundStands == ASSUME NEW b, Sound(b) PROVE Fits(b) /\ Stands(b) /\ InRow(b) /\ WellPlaced(b)
<1>1. Fits(b) /\ Stands(b)
  BY DEF Sound, Calm, Sel
<1>2. InRow(b) /\ InText(b, b.cursor) /\ b.lines # <<>>
  BY <1>1 DEF Stands, InText, InRow, Fits, Texts
<1>3. b.anchor = NoAnchor <=> ~IsVisual(b.mode)
  <2>1. NoAnchor \notin Place
    BY DEF NoAnchor, Place
  <2> QED
    BY <2>1 DEF Sound, Calm, Sel, IsVisual
<1>4. IsVisual(b.mode) => InText(b, b.anchor)
  BY DEF Sound, Calm, Sel, IsVisual
<1> QED
  BY <1>1, <1>2, <1>3, <1>4 DEF WellPlaced

\* A walk keeps what is being done.
LEMMA WalkSound ==
  ASSUME NEW b, NEW c, Walks(b, c), Stands(c)
  PROVE  (Calm(b) => Calm(c)) /\ (Sel(b) => Sel(c))
  BY DEF Walks, Calm, Sel, InText, LastRow, LineAt, LastCol

\* The keys that enter insert mode and the one that leaves it.
LEMMA EnteringCalm == ASSUME NEW b, Calm(b)
  PROVE Calm(InsertBefore(b)) /\ Calm(InsertAfter(b)) /\ Calm(InsertAtLineStart(b)) /\ Calm(InsertAtLineEnd(b)) /\ Calm(LeaveInsert(b))
<1>1. Fits(b) /\ b.anchor = NoAnchor /\ "insert" \in {"normal", "insert"} /\ "normal" \in {"normal", "insert"}
  BY DEF Calm
<1>2. Calm(InsertBefore(b)) /\ Calm(LeaveInsert(b))
  BY <1>1, EntersCalm DEF InsertBefore, LeaveInsert
<1>3. Calm(InsertAfter(b))
  <2>1. PICK k \in Nat : k = b.cursor.col + 1
    BY <1>1 DEF Fits, Place
  <2>2. PICK c : c = ColPut(b, k)
    OBVIOUS
  <2>3. Fits(c) /\ c.anchor = NoAnchor
    BY <1>1, <2>2, PutsPlace DEF Kept
  <2>4. InsertAfter(b) = Enter(c, "insert")
    BY <2>1, <2>2 DEF InsertAfter, ColPut
  <2> QED
    BY <1>1, <2>3, <2>4, EntersCalm
<1>4. Calm(InsertAtLineStart(b))
  <2>1. PICK c : c = Move(b, "FirstNonBlank")
    OBVIOUS
  <2>2. InRow(b) /\ "FirstNonBlank" \in Motions
    BY SoundStands DEF Sound, Motions
  <2>3. Walks(b, c)
    BY <1>1, <2>1, <2>2, MoveStands
  <2>4. Fits(c) /\ c.anchor = NoAnchor
    BY <1>1, <2>3 DEF Walks
  <2>5. InsertAtLineStart(b) = Enter(c, "insert")
    BY <2>1 DEF InsertAtLineStart
  <2> QED
    BY <1>1, <2>4, <2>5, EntersCalm
<1>5. Calm(InsertAtLineEnd(b))
  <2>1. Here(b) \in Row
    BY <1>1, SoundStands, LinesAre DEF Sound, InRow, Here
  <2>2. PICK k \in Nat : k = Len(Here(b))
    BY <2>1 DEF Row
  <2>3. PICK c : c = ColPut(b, k)
    OBVIOUS
  <2>4. Fits(c) /\ c.anchor = NoAnchor
    BY <1>1, <2>3, PutsPlace DEF Kept
  <2>5. InsertAtLineEnd(b) = Enter(c, "insert")
    BY <2>2, <2>3 DEF InsertAtLineEnd, ColPut
  <2> QED
    BY <1>1, <2>4, <2>5, EntersCalm
<1> QED
  BY <1>2, <1>3, <1>4, <1>5

\* v and V: the selection begins at the cursor.
LEMMA EnterVisualSel ==
  ASSUME NEW b, Calm(b), b.mode = "normal", NEW mode \in {"visual", "vline"}
  PROVE  Sel(EnterVisual(b, mode))
<1>1. PICK c : c = EnterVisual(b, mode)
  OBVIOUS
<1>2. b.cursor \in Place /\ DOMAIN b = Fields
  BY DEF Calm, Fits, BufShape
<1>3. Fits(c) /\ c.lines = b.lines /\ c.cursor = b.cursor /\ c.mode = mode /\ c.anchor = b.cursor
  BY <1>1, <1>2 DEF EnterVisual, Calm, Fits, BufShape, Fields, Modes
<1>4. Stands(c) /\ InText(c, c.anchor)
  BY <1>3 DEF Calm, Stands, InText, LastRow, LineAt, LastCol
<1> QED
  BY <1>1, <1>2, <1>3, <1>4 DEF Sel

\* What is done again and again, one time after the other.
LEMMA AgainGoes ==
  ASSUME NEW n \in Nat, NEW b, NEW how, NEW x, NEW g, Again(g, n, b, how, x)
  PROVE  g[0] = b /\ \A k \in Nat : k < n => g[k + 1] = Doing(how, x, k + 1, g[k])
<1> DEFINE h == [idx \in 0 .. n |-> IF idx = 0 THEN b ELSE Doing(how, x, idx, g[idx - 1])]
<1>1. g = h
  BY DEF Again
<1>2. \A idx \in 0 .. n : h[idx] = IF idx = 0 THEN b ELSE Doing(how, x, idx, g[idx - 1])
  OBVIOUS
<1> HIDE DEF h
<1>3. ASSUME NEW k \in Nat, k < n PROVE g[k + 1] = Doing(how, x, k + 1, g[k])
  <2>1. PICK idx \in 0 .. n : idx = k + 1 /\ idx # 0 /\ idx - 1 = k
    BY <1>3
  <2>2. g[idx] = Doing(how, x, idx, g[idx - 1])
    BY <1>1, <1>2, <2>1
  <2> QED
    BY <2>1, <2>2
<1>4. g[0] = b
  BY <1>1, <1>2
<1> QED
  BY <1>3, <1>4

\* A motion with a count.
LEMMA MovedIs ==
  ASSUME NEW n \in Nat, NEW b, NEW motion
  PROVE  \E g : Again(g, n, b, "move", motion) /\ Moved(b, motion, n) = g[n]
<1> DEFINE g == CHOOSE after : after = [idx \in 0 .. n |-> IF idx = 0 THEN b ELSE Move(after[idx - 1], motion)]
<1>1. Moved(b, motion, n) = g[n]
  BY DEF Moved, Times
<1>2. \E after : after = [idx \in 0 .. n |-> IF idx = 0 THEN b ELSE Move(after[idx - 1], motion)]
  <2>1. PICK after : Again(after, n, b, "move", motion)
    BY AgainIs
  <2> QED
    BY <2>1 DEF Again, Doing
<1>3. g = [idx \in 0 .. n |-> IF idx = 0 THEN b ELSE Move(g[idx - 1], motion)]
  BY <1>2
<1> HIDE DEF g
<1>4. Again(g, n, b, "move", motion)
  BY <1>3 DEF Again, Doing
<1> QED
  BY <1>1, <1>4

\* dd with a count.
LEMMA DeletedIs ==
  ASSUME NEW n \in Nat, NEW b
  PROVE  \E g : Again(g, n, b, "delete", "none") /\ Times(n, b, DeleteLine) = g[n]
<1> DEFINE g == CHOOSE after : after = [idx \in 0 .. n |-> IF idx = 0 THEN b ELSE DeleteLine(after[idx - 1])]
<1>1. Times(n, b, DeleteLine) = g[n]
  BY DEF Times
<1>2. \E after : after = [idx \in 0 .. n |-> IF idx = 0 THEN b ELSE DeleteLine(after[idx - 1])]
  <2>1. PICK after : Again(after, n, b, "delete", "none")
    BY AgainIs
  <2> QED
    BY <2>1 DEF Again, Doing
<1>3. g = [idx \in 0 .. n |-> IF idx = 0 THEN b ELSE DeleteLine(g[idx - 1])]
  BY <1>2
<1> HIDE DEF g
<1>4. Again(g, n, b, "delete", "none")
  BY <1>3 DEF Again, Doing
<1> QED
  BY <1>1, <1>4

\* It ends on a character.
LEMMA MovedStands ==
  ASSUME NEW b, Fits(b), Stands(b), NEW motion \in Motions, NEW n \in Nat, NEW c, c = Moved(b, motion, n)
  PROVE  Walks(b, c) /\ Stands(c)
<1>1. PICK g : Again(g, n, b, "move", motion) /\ Moved(b, motion, n) = g[n]
  BY MovedIs
<1>2. g[0] = b /\ \A k \in Nat : k < n => g[k + 1] = Doing("move", motion, k + 1, g[k])
  BY <1>1, AgainGoes
<1> DEFINE T == {k \in Nat : Walks(b, g[k]) /\ Stands(g[k])}
<1>3. 0 \in T
  BY <1>2 DEF Walks
<1>4. ASSUME NEW k \in Nat, k < n, k \in T PROVE k + 1 \in T
  <2>1. PICK m, d : m = g[k] /\ d = g[k + 1]
    OBVIOUS
  <2>2. d = Move(m, motion)
    BY <1>2, <1>4, <2>1 DEF Doing
  <2>3. Walks(b, m) /\ Stands(m)
    BY <1>4, <2>1
  <2>4. Fits(m) /\ InRow(m)
    BY <2>3 DEF Walks, Stands, InText, InRow
  <2>5. Walks(m, d) /\ Stands(d)
    BY <2>2, <2>4, MoveStands
  <2>6. Walks(b, d)
    BY <2>3, <2>5, WalksOn
  <2> QED
    BY <2>1, <2>5, <2>6
<1>5. 0 .. n \subseteq T
  <2> HIDE DEF T
  <2> QED
    BY <1>3, <1>4, Reaches
<1>6. n \in T
  BY <1>5
<1> QED
  BY <1>1, <1>6

\* However many rows dd is told to take.
LEMMA DeleteLinesCalm ==
  ASSUME NEW b, Calm(b), NEW n \in Nat
  PROVE  Calm(Times(n, b, DeleteLine))
<1>1. PICK g : Again(g, n, b, "delete", "none") /\ Times(n, b, DeleteLine) = g[n]
  BY DeletedIs
<1>2. g[0] = b /\ \A k \in Nat : k < n => g[k + 1] = Doing("delete", "none", k + 1, g[k])
  BY <1>1, AgainGoes
<1> DEFINE T == {k \in Nat : Calm(g[k])}
<1>3. 0 \in T
  BY <1>2
<1>4. ASSUME NEW k \in Nat, k < n, k \in T PROVE k + 1 \in T
  <2>1. PICK m, d : m = g[k] /\ d = g[k + 1]
    OBVIOUS
  <2>2. d = DeleteLine(m)
    BY <1>2, <1>4, <2>1 DEF Doing
  <2>3. Calm(m)
    BY <1>4, <2>1
  <2>4. Calm(d)
    BY <2>2, <2>3, DeleteLineCalm
  <2> QED
    BY <2>1, <2>4
<1>5. 0 .. n \subseteq T
  <2> HIDE DEF T
  <2> QED
    BY <1>3, <1>4, Reaches
<1>6. n \in T
  BY <1>5
<1> QED
  BY <1>1, <1>6

\* Commands.
LEMMA CursorInRows == ASSUME NEW b, Fits(b), Stands(b), NEW c, c.lines = b.lines PROVE InRows(c, b.cursor)
<1>1. b.cursor \in Place /\ LastRow(b) \in Nat /\ LastRow(c) = LastRow(b)
  BY LinesAre DEF Fits, LastRow
<1> QED
  BY <1>1 DEF InRows, Stands, InText, Place

\* An operator on whole rows.
LEMMA OnLinesCalm ==
  ASSUME NEW b, Calm(b), NEW op \in Operators, NEW count \in Nat
  PROVE  Calm(OnLines(b, op, count))
<1>1. CASE op = "Delete"
  BY <1>1, DeleteLinesCalm DEF OnLines
<1>2. CASE op = "Change"
  BY <1>2, ChangeLineCalm DEF OnLines
<1>3. CASE op = "Yank"
  <2>1. PICK r \in Nat : r = b.cursor.row /\ r \in 0 .. LastRow(b)
    BY SoundStands DEF Sound, InRow, Fits, Place
  <2>2. PICK n \in Nat : n = Len(b.lines) /\ r < n
    BY <2>1, LinesAre DEF Calm
  <2>3. PICK u : u = Least(r + count, n)
    OBVIOUS
  <2>4. u \in Nat /\ r <= u /\ u <= n
    BY <2>2, <2>3 DEF Least
  <2>5. PICK old, txt : old = b.lines /\ txt = SubSeq(old, r + 1, u)
    OBVIOUS
  <2>6. old \in Seq(Row) /\ r <= u /\ u <= Len(old)
    BY <2>2, <2>4, <2>5, LinesAre DEF Calm
  <2>7. txt \in Seq(Row)
    BY <2>4, <2>5, <2>6, PartOf
  <2>8. PICK c : c = SetRegister(b, txt, TRUE)
    OBVIOUS
  <2>9. TRUE \in BOOLEAN /\ (TRUE \/ txt # <<>>) /\ Fits(b)
    BY DEF Calm
  <2>10. Fits(c) /\ Registered(b, txt, TRUE, c)
    BY <2>7, <2>8, <2>9, SetsRegister
  <2>11. OnLines(b, op, count) = c
    BY <1>3, <2>1, <2>2, <2>3, <2>5, <2>8 DEF OnLines, Linewise
  <2> QED
    BY <2>10, <2>11, SameCalm DEF Registered
<1> QED
  BY <1>1, <1>2, <1>3 DEF Operators

\* An operator with a motion.
LEMMA OnMotionCalm ==
  ASSUME NEW b, Calm(b), NEW op \in Operators, NEW motion \in Motions, NEW count \in Nat
  PROVE  Calm(OnMotion(b, op, motion, count))
<1>1. PICK m, end : m = Moved(b, motion, count) /\ end = m.cursor
  OBVIOUS
<1>2. Fits(b) /\ Stands(b)
  BY DEF Calm
<1>3. Walks(b, m) /\ Stands(m)
  BY <1>1, <1>2, MovedStands
<1>4. Fits(m) /\ b.lines = m.lines
  BY <1>3 DEF Walks
<1>5. InRows(b, end)
  BY <1>1, <1>3, <1>4, CursorInRows
<1>6. InRows(b, b.cursor)
  BY <1>2, CursorInRows
<1>7. PICK p : p = b.cursor
  OBVIOUS
<1>8. Calm(DeleteRange(b, p, end)) /\ Calm(YankRange(b, p, end))
  BY <1>5, <1>6, <1>7, DeleteRangeCalm, YankRangeCalm
<1>9. Calm(InsertBefore(DeleteRange(b, p, end)))
  BY <1>8, EnteringCalm
<1> QED
  BY <1>1, <1>7, <1>8, <1>9 DEF OnMotion, Operators

\* Whatever command the parser gives.
LEMMA ExecuteCalm ==
  ASSUME NEW b, Calm(b), NEW cmd, IsCommand(cmd)
  PROVE  Calm(Execute(b, cmd))
<1>1. CASE cmd \in {Pending, Cancel}
  <2>1. cmd.kind \in {"pending", "cancel"}
    BY <1>1 DEF Pending, Cancel
  <2> QED
    BY <2>1 DEF Execute
<1>2. ASSUME NEW motion \in Motions, NEW count \in Nat, cmd = MotionCommand(motion, count) PROVE Calm(Execute(b, cmd))
  <2>1. PICK m : m = Moved(b, motion, count)
    OBVIOUS
  <2>2. Fits(b) /\ Stands(b)
    BY DEF Calm
  <2>3. Walks(b, m) /\ Stands(m)
    BY <2>1, <2>2, MovedStands
  <2>4. Execute(b, cmd) = m
    BY <1>2, <2>1 DEF Execute, MotionCommand
  <2> QED
    BY <2>3, <2>4, WalkSound
<1>3. ASSUME NEW op \in Operators, NEW count \in Nat, cmd = OpLine(op, count) PROVE Calm(Execute(b, cmd))
  <2>1. Execute(b, cmd) = OnLines(b, op, count)
    BY <1>3 DEF Execute, OpLine
  <2> QED
    BY <2>1, OnLinesCalm
<1>4. ASSUME NEW op \in Operators, NEW count \in Nat, NEW motion \in Motions, cmd = OpMotion(op, motion, count)
      PROVE  Calm(Execute(b, cmd))
  <2>1. Execute(b, cmd) = OnMotion(b, op, motion, count)
    BY <1>4 DEF Execute, OpMotion
  <2> QED
    BY <2>1, OnMotionCalm
<1> QED
  BY <1>1, <1>2, <1>3, <1>4 DEF IsCommand

\* Insert mode: the keys are characters, or have names.
LEMMA InInsertCalm ==
  ASSUME NEW b, Calm(b), b.mode = "insert", NEW key \in Typed \cup Named
  PROVE  Calm(InInsert(b, key))
<1>1. CASE key \in DOMAIN ArrowKey
  <2>1. PICK motion : motion = MotionFor[ArrowKey[key]]
    OBVIOUS
  <2>2. /\ ArrowKey[key] \in DOMAIN MotionFor /\ key \in Named
        /\ key \notin {"Enter", "Backspace", "Esc", "CtrlC", "CtrlD", "CtrlR", "Tab"}
    BY <1>1 DEF ArrowKey, MotionFor, Named
  <2>3. motion \in Motions
    BY <2>1, <2>2, KeysMove
  <2>4. PICK m : m = Move(b, motion)
    OBVIOUS
  <2>5. Fits(b) /\ InRow(b)
    BY SoundStands DEF Sound
  <2>6. Walks(b, m) /\ Stands(m)
    BY <2>3, <2>4, <2>5, MoveStands
  <2>7. InInsert(b, key) = m
    BY <1>1, <2>1, <2>2, <2>4 DEF InInsert
  <2> QED
    BY <2>6, <2>7, WalkSound
<1>2. CASE key \in Named \ DOMAIN ArrowKey
  <2>1. key \in {"Enter", "Backspace", "Esc", "CtrlC", "CtrlD", "CtrlR", "Tab"}
    BY <1>2 DEF Named, ArrowKey
  <2>2. key \notin DOMAIN ArrowKey /\ key \in Named
    BY <1>2
  <2>3. key = "Enter" => InInsert(b, key) = InsertNewline(b)
    BY <2>2 DEF InInsert
  <2>4. key = "Backspace" => InInsert(b, key) = Backspace(b)
    BY <2>2 DEF InInsert
  <2>5. key = "Esc" => InInsert(b, key) = LeaveInsert(b)
    BY <2>2 DEF InInsert
  <2>6. key \in {"CtrlC", "CtrlD", "CtrlR", "Tab"} => InInsert(b, key) = b
    BY <2>2 DEF InInsert
  <2> QED
    BY <2>1, <2>3, <2>4, <2>5, <2>6, NewlineCalm, BackspaceCalm, EnteringCalm
<1>3. CASE key \notin Named
  <2>1. key \in Letter
    BY <1>3 DEF Letter
  <2>2. key \notin {"Enter", "Backspace", "Esc", "CtrlC", "CtrlD", "CtrlR", "Tab"} \cup DOMAIN ArrowKey
    BY <1>3 DEF Named, ArrowKey
  <2>3. InInsert(b, key) = InsertChar(b, key)
    BY <1>3, <2>2 DEF InInsert
  <2> QED
    BY <2>1, <2>3, InsertCalm
<1> QED
  BY <1>1, <1>2, <1>3 DEF ArrowKey, Named

\* The keys that the parser never sees.
LEMMA OwnSound ==
  ASSUME NEW b, Calm(b), b.mode = "normal", NEW key \in OwnKeys
  PROVE  Sound(Own(b, key))
<1>1. Own(b, key) \in {InsertBefore(b), InsertAfter(b), InsertAtLineStart(b), InsertAtLineEnd(b), OpenBelow(b),
                       OpenAbove(b), EnterVisual(b, "visual"), EnterVisual(b, "vline"), DeleteChar(b),
                       PasteAfter(b), PasteBefore(b), Undo(b), Redo(b)}
  BY DEF Own, OwnKeys
<1>2. PICK r \in Nat, c \in Nat : r = b.cursor.row /\ c = b.cursor.col /\ r \in 0 .. LastRow(b) /\ LastRow(b) \in Nat
  BY SoundStands, LinesAre DEF Sound, InRow, Fits, Place, Calm
<1>3. r \in 0 .. LastRow(b) + 1 /\ r + 1 \in 0 .. LastRow(b) + 1
  BY <1>2
<1>4. Calm(OpenBelow(b)) /\ Calm(OpenAbove(b))
  BY <1>2, <1>3, OpenCalm DEF OpenBelow, OpenAbove
<1>5. Calm(PasteAfter(b)) /\ Calm(PasteBefore(b))
  <2>1. PICK d \in Nat : d = IF Here(b) = <<>> THEN 0 ELSE c + 1
    OBVIOUS
  <2>2. PasteAfter(b) = Paste(b, r + 1, d) /\ PasteBefore(b) = Paste(b, r, c)
    BY <1>2, <2>1 DEF PasteAfter, PasteBefore
  <2>3. PICK u : u = r + 1 /\ u \in 0 .. LastRow(b) + 1
    BY <1>3
  <2>4. Calm(Paste(b, u, d)) /\ Calm(Paste(b, r, c))
    BY <1>3, <2>3, PasteCalm
  <2> QED
    BY <2>2, <2>3, <2>4
<1>6. Sel(EnterVisual(b, "visual")) /\ Sel(EnterVisual(b, "vline"))
  BY EnterVisualSel
<1>7. Calm(Undo(b)) /\ Calm(Redo(b)) /\ Calm(DeleteChar(b))
  BY UndoCalm, DeleteCharCalm
<1>8. Calm(InsertBefore(b)) /\ Calm(InsertAfter(b)) /\ Calm(InsertAtLineStart(b)) /\ Calm(InsertAtLineEnd(b))
  BY EnteringCalm
<1> QED
  BY <1>1, <1>4, <1>5, <1>6, <1>7, <1>8 DEF Sound

SelectionEnds(b, lo, hi) == lo = SelectionLow(b) /\ hi = SelectionHigh(b)

\* The ends of a selection stand in the text.
LEMMA SelectionSpans ==
  ASSUME NEW b, Sel(b), NEW lo, NEW hi, SelectionEnds(b, lo, hi)
  PROVE  /\ Spans(b, lo, hi) /\ InText(b, lo) /\ InText(b, hi) /\ lo = Low(b.anchor, b.cursor) /\ hi = High(b.anchor, b.cursor)
         /\ Low(lo, hi) = lo /\ High(lo, hi) = hi /\ (lo.row = hi.row => lo.col <= hi.col)
         /\ InRows(b, b.anchor) /\ InRows(b, b.cursor)
<1>1. PICK p \in Place, q \in Place : p = b.anchor /\ q = b.cursor
  BY DEF Sel, Fits
<1>2. p # NoAnchor
  BY DEF NoAnchor, Place
<1>3. lo = Low(p, q) /\ hi = High(p, q)
  BY <1>1, <1>2 DEF SelectionEnds, SelectionLow, SelectionHigh
<1>4. InText(b, p) /\ InText(b, q) /\ LastRow(b) \in Nat
  BY <1>1, LinesAre DEF Sel, Stands
<1>5. InRows(b, p) /\ InRows(b, q)
  BY <1>4 DEF InRows, InText, Place
<1>6. Spans(b, lo, hi) /\ Low(lo, hi) = lo /\ High(lo, hi) = hi
  BY <1>3, <1>5, SpansFrom
<1>7. lo \in {p, q} /\ hi \in {p, q} /\ (lo.row = hi.row => lo.col <= hi.col)
  BY <1>3, InOrder
<1> QED
  BY <1>1, <1>3, <1>4, <1>5, <1>6, <1>7

\* What the selection takes when it goes: whole rows, or a range.
Gone(b, lo, hi, c) ==
  IF b.mode = "vline"
  THEN /\ c.register.text = SubSeq(b.lines, lo.row + 1, hi.row + 1)
       /\ \E lines : /\ RowsPut(b.lines, lo.row, hi.row + 1, <<>>, lines)
                     /\ c.lines = IF lines = <<>> THEN EmptyText ELSE lines
  ELSE Taken(b, lo, hi, c)

Unanchored(b) == [b EXCEPT !.anchor = NoAnchor]

\* The selection ends.
LEMMA Unanchors ==
  ASSUME NEW b, Fits(b), NEW c, c = Unanchored(b)
  PROVE  Fits(c) /\ c.anchor = NoAnchor /\ c.lines = b.lines /\ c.register = b.register
  BY DEF Unanchored, Fits, BufShape, Fields

\* The rows that a selection of rows takes.
LEMMA SelectedIs ==
  ASSUME NEW b, Sel(b), NEW lo, NEW hi, SelectionEnds(b, lo, hi), NEW txt, txt = SelectedRows(b)
  PROVE  /\ txt = SubSeq(b.lines, lo.row + 1, hi.row + 1) /\ txt \in Seq(Row) /\ Len(txt) = hi.row - lo.row + 1
         /\ \A r \in lo.row .. hi.row : txt[r - lo.row + 1] = LineAt(b, r)
<1>1. Spans(b, lo, hi) /\ Fits(b)
  BY SelectionSpans DEF Sel
<1>2. PICK low \in Nat, high \in Nat : low = lo.row /\ high = hi.row /\ low <= high /\ high <= LastRow(b)
  BY <1>1 DEF Spans, Place
<1>3. Least(high, LastRow(b)) = high
  BY <1>1, <1>2, LinesAre DEF Least
<1>4. PICK u \in Nat : u = high + 1
  OBVIOUS
<1>5. PICK old : old = b.lines
  OBVIOUS
<1>6. txt = SubSeq(old, low + 1, u)
  BY <1>2, <1>3, <1>4, <1>5 DEF SelectedRows, SelectionEnds
<1>7. old \in Seq(Row) /\ low <= u /\ u <= Len(old)
  BY <1>1, <1>2, <1>4, <1>5, LinesAre
<1>8. txt \in Seq(Row) /\ Len(txt) = u - low /\ \A j \in 1 .. u - low : txt[j] = old[low + j]
  BY <1>6, <1>7, PartOf
<1>9. ASSUME NEW r \in low .. high PROVE txt[r - low + 1] = LineAt(b, r)
  <2>1. PICK j \in Nat : j = r - low + 1
    OBVIOUS
  <2>2. j \in 1 .. u - low /\ low + j = r + 1
    BY <1>4, <2>1
  <2>3. txt[j] = old[r + 1]
    BY <1>8, <2>2
  <2> QED
    BY <1>5, <2>1, <2>3 DEF LineAt
<1>10. u - low = high - low + 1
  BY <1>4
<1> QED
  BY <1>2, <1>4, <1>5, <1>6, <1>8, <1>9, <1>10

\* The removal of a selection.
LEMMA SelectionGoes ==
  ASSUME NEW b, Sel(b), NEW lo, NEW hi, SelectionEnds(b, lo, hi), NEW mode \in {"normal", "insert"}, NEW c, c = EndSelection(b, mode)
  PROVE  Calm(c) /\ Gone(b, lo, hi, c)
<1>1. PICK a : a = PushUndo(b)
  OBVIOUS
<1>2. Saves(b, a) /\ Fits(a) /\ Fits(b)
  BY <1>1, PushSaves DEF Sel, Saves
<1>3. Sel(a) /\ SelectionEnds(a, lo, hi)
  BY <1>2 DEF Saves, Sel, Stands, InText, LastRow, LineAt, LastCol, SelectionEnds, SelectionLow, SelectionHigh
<1>4. a.lines = b.lines /\ a.mode = b.mode
  BY <1>2 DEF Saves
<1>5. PICK d : d = DeleteSelectionInner(a)
  OBVIOUS
<1>6. Spans(a, lo, hi) /\ InRows(a, a.anchor) /\ InRows(a, a.cursor) /\ lo = Low(a.anchor, a.cursor) /\ hi = High(a.anchor, a.cursor)
      /\ Low(lo, hi) = lo /\ High(lo, hi) = hi
  BY <1>3, SelectionSpans
<1>7. Fits(d) /\ Gone(b, lo, hi, d)
  <2>1. CASE b.mode = "vline"
    <3>1. PICK low \in Nat, high \in Nat : low = lo.row /\ high = hi.row /\ low <= high /\ high <= LastRow(a)
      BY <1>6 DEF Spans, Place
    <3>2. Least(high, LastRow(a)) = high
      BY <1>2, <3>1, LinesAre DEF Least
    <3>3. PICK u \in Nat : u = high + 1
      OBVIOUS
    <3>4. PICK none : none = <<>>
      OBVIOUS
    <3>5. PICK e, lines : e = ReplaceRows(a, low, high, none) /\ lines = e.lines
      OBVIOUS
    <3>6. none \in Seq(Row) /\ high \in Int /\ high = u - 1 /\ low <= u /\ u <= Len(a.lines)
      BY <1>2, <3>1, <3>3, <3>4, LinesAre
    <3>7. Laid(a, e, lines) /\ RowsPut(a.lines, low, u, none, lines)
      BY <1>2, <3>5, <3>6, PutsRows
    <3>8. lines \in Seq(Row)
      BY <3>7 DEF RowsPut
    <3>9. PICK k : k = KeepALine(e)
      OBVIOUS
    <3>10. Fits(k) /\ Laid(a, k, k.lines) /\ k.lines = IF lines = <<>> THEN EmptyText ELSE lines
      BY <1>2, <3>7, <3>8, <3>9, KeepsALine
    <3>11. PICK txt : txt = SelectedRows(a)
      OBVIOUS
    <3>12. txt = SubSeq(a.lines, lo.row + 1, hi.row + 1) /\ txt \in Seq(Row)
      BY <1>3, <3>11, SelectedIs
    <3>13. TRUE \in BOOLEAN /\ (TRUE \/ txt # <<>>)
      OBVIOUS
    <3>14. PICK f : f = SetRegister(k, txt, TRUE)
      OBVIOUS
    <3>15. Fits(f) /\ Registered(k, txt, TRUE, f)
      BY <3>10, <3>12, <3>13, <3>14, SetsRegister
    <3>16. PICK p : p = Cursor(low, 0)
      OBVIOUS
    <3>17. p \in Place
      BY <3>16 DEF Cursor, Place
    <3>18. d = PlacePut(f, p)
      BY <1>3, <1>4, <1>5, <2>1, <3>1, <3>2, <3>4, <3>5, <3>9, <3>11, <3>14, <3>16
         DEF DeleteSelectionInner, PlacePut, Linewise, SelectionEnds
    <3>19. Fits(d) /\ Kept(f, d)
      BY <3>15, <3>17, <3>18, PutsPlace
    <3>20. d.register.text = txt /\ d.lines = k.lines
      BY <3>15, <3>19 DEF Kept, Registered
    <3>21. RowsPut(b.lines, lo.row, hi.row + 1, <<>>, lines)
      BY <1>4, <3>1, <3>3, <3>4, <3>7
    <3>22. d.register.text = SubSeq(b.lines, lo.row + 1, hi.row + 1)
      BY <1>4, <3>12, <3>20
    <3>23. d.lines = IF lines = <<>> THEN EmptyText ELSE lines
      BY <3>10, <3>20
    <3> QED
      BY <2>1, <3>19, <3>21, <3>22, <3>23 DEF Gone
  <2>2. CASE b.mode # "vline"
    <3>1. d = DeleteRangeNoUndo(a, lo, hi)
      BY <1>3, <1>4, <1>5, <2>2 DEF DeleteSelectionInner, SelectionEnds
    <3>2. Fits(d) /\ Taken(a, lo, hi, d)
      BY <1>2, <1>6, <3>1, RangeGoes
    <3>3. Taken(b, lo, hi, d)
      <4>1. CollectRange(a, lo, hi) = CollectRange(b, lo, hi) /\ LeftOver(a, lo, hi) = LeftOver(b, lo, hi)
        BY <1>4 DEF LineAt, CollectRange, LeftOver
      <4> QED
        BY <1>4, <3>2, <4>1 DEF Taken
    <3> QED
      BY <2>2, <3>2, <3>3 DEF Gone
  <2> QED
    BY <2>1, <2>2
<1>8. PICK z : z = Unanchored(d)
  OBVIOUS
<1>9. Fits(z) /\ z.anchor = NoAnchor /\ z.lines = d.lines /\ z.register = d.register
  BY <1>7, <1>8, Unanchors
<1>10. c = Enter(z, mode)
  BY <1>1, <1>5, <1>8 DEF EndSelection, Unanchored
<1>11. Calm(c) /\ c.lines = z.lines /\ c.register = z.register
  BY <1>9, <1>10, EntersCalm
<1> QED
  BY <1>7, <1>9, <1>11 DEF Gone, Taken

\* y on a selection.
LEMMA YankSelectionCalm == ASSUME NEW b, Sel(b) PROVE Calm(YankSelection(b))
<1>1. PICK lo, hi : SelectionEnds(b, lo, hi)
  BY DEF SelectionEnds
<1>2. Spans(b, lo, hi) /\ InRows(b, lo) /\ InRows(b, hi) /\ Fits(b)
  <2>1. Spans(b, lo, hi) /\ Fits(b) /\ LastRow(b) \in Nat
    BY <1>1, SelectionSpans, LinesAre DEF Sel
  <2> QED
    BY <2>1 DEF Spans, InRows, Place
<1>3. PICK y : y = IF b.mode = "vline" THEN Linewise(b, SelectedRows(b)) ELSE YankRange(b, lo, hi)
  OBVIOUS
<1>4. Fits(y)
  <2>1. CASE b.mode = "vline"
    <3>1. PICK txt : txt = SelectedRows(b)
      OBVIOUS
    <3>2. txt \in Seq(Row) /\ TRUE \in BOOLEAN /\ (TRUE \/ txt # <<>>)
      BY <1>1, <3>1, SelectedIs
    <3>3. y = SetRegister(b, txt, TRUE)
      BY <1>3, <2>1, <3>1 DEF Linewise
    <3> QED
      BY <1>2, <3>2, <3>3, SetsRegister
  <2>2. CASE b.mode # "vline"
    <3>1. y = YankRange(b, lo, hi)
      BY <1>3, <2>2
    <3> QED
      BY <1>2, <3>1, YankRangeFits
  <2> QED
    BY <2>1, <2>2
<1>5. PICK z : z = Unanchored(y)
  OBVIOUS
<1>6. Fits(z) /\ z.anchor = NoAnchor /\ "normal" \in {"normal", "insert"}
  BY <1>4, <1>5, Unanchors
<1>7. YankSelection(b) = Enter(z, "normal")
  BY <1>1, <1>3, <1>5 DEF YankSelection, Unanchored, SelectionEnds
<1> QED
  BY <1>6, <1>7, EntersCalm

\* The keys that end a selection.
LEMMA OnSelectionCalm ==
  ASSUME NEW b, Sel(b), NEW key \in VisualKeys
  PROVE  Calm(OnSelection(b, key))
<1>1. PICK esc : esc = [b EXCEPT !.mode = "normal", !.anchor = NoAnchor]
  OBVIOUS
<1>2. OnSelection(b, key) \in {esc, DeleteSelection(b), YankSelection(b), ChangeSelection(b)}
  BY <1>1 DEF OnSelection, VisualKeys
<1>3. Calm(esc)
  <2>1. Fits(esc) /\ esc.mode = "normal" /\ esc.anchor = NoAnchor /\ esc.lines = b.lines /\ esc.cursor = b.cursor
    BY <1>1 DEF Sel, Fits, BufShape, Fields, Modes
  <2>2. Stands(esc)
    BY <2>1 DEF Sel, Stands, InText, LastRow, LineAt, LastCol
  <2> QED
    BY <2>1, <2>2 DEF Calm
<1>4. Calm(DeleteSelection(b)) /\ Calm(ChangeSelection(b))
  <2>1. PICK lo, hi : SelectionEnds(b, lo, hi)
    BY DEF SelectionEnds
  <2>2. PICK c, d : c = EndSelection(b, "normal") /\ d = EndSelection(b, "insert")
    OBVIOUS
  <2>3. "normal" \in {"normal", "insert"} /\ "insert" \in {"normal", "insert"}
    OBVIOUS
  <2>4. Calm(c) /\ Calm(d)
    BY <2>1, <2>2, <2>3, SelectionGoes
  <2> QED
    BY <2>2, <2>4 DEF DeleteSelection, ChangeSelection
<1> QED
  BY <1>2, <1>3, <1>4, YankSelectionCalm

\* The keys that extend it.
LEMMA ExtendSel ==
  ASSUME NEW b, Sel(b), NEW p, ParserShape(p), NEW key
  PROVE  Sel(ExtendSelection(b, p, key).buf) /\ ExtendSelection(b, p, key).parser.hist = p.hist
<1>1. PICK fed : fed = Feed(p, key)
  OBVIOUS
<1>2. IsCommand(fed.cmd) /\ fed.parser.hist = p.hist
  BY <1>1, FeedShaped DEF FedFrom, FedShape
<1>3. PICK c : c = ExtendSelection(b, p, key).buf
  OBVIOUS
<1>4. c = IF fed.cmd.kind = "motion" THEN Moved(b, fed.cmd.motion, fed.cmd.count) ELSE b
  BY <1>1, <1>3 DEF ExtendSelection
<1>5. CASE fed.cmd.kind = "motion"
  <2>1. PICK motion \in Motions, count \in Nat : fed.cmd = MotionCommand(motion, count)
    <3>1. Pending.kind # "motion" /\ Cancel.kind # "motion"
      BY DEF Pending, Cancel
    <3>2. \A op, count : OpLine(op, count).kind # "motion"
      BY DEF OpLine
    <3>3. \A op, motion, count : OpMotion(op, motion, count).kind # "motion"
      BY DEF OpMotion
    <3> QED
      BY <1>2, <1>5, <3>1, <3>2, <3>3, Zenon DEF IsCommand
  <2>2. c = Moved(b, motion, count)
    BY <1>4, <1>5, <2>1 DEF MotionCommand
  <2>3. Fits(b) /\ Stands(b)
    BY DEF Sel
  <2>4. Walks(b, c) /\ Stands(c)
    BY <2>2, <2>3, MovedStands
  <2>5. Sel(c)
    BY <2>4, WalkSound
  <2> QED
    BY <1>1, <1>2, <1>3, <2>5 DEF ExtendSelection
<1>6. CASE fed.cmd.kind # "motion"
  <2>1. c = b
    BY <1>4, <1>6
  <2> QED
    BY <1>1, <1>2, <1>3, <2>1 DEF ExtendSelection
<1> QED
  BY <1>5, <1>6

\* A new buffer, and one of an earlier input.
LEMMA NewFits ==
  ASSUME NEW txt \in Texts
  PROVE  Fits(FromText(txt)) /\ FromText(txt).anchor = NoAnchor /\ FromText(txt).mode = "normal" /\ FromText(txt).lines = txt
<1>1. EmptyText \in Texts
  <2>1. <<>> \in Row
    BY DEF Row
  <2> QED
    BY <2>1 DEF EmptyText, Texts
<1>2. EmptyText \in Seq(Row) /\ EmptyText # <<>>
  BY <1>1 DEF Texts
<1>3. [text |-> EmptyText, linewise |-> FALSE] \in Pasted
  BY <1>2 DEF Pasted
<1>4. Cursor(0, 0) \in Place
  BY DEF Cursor, Place
<1>5. <<>> \in Seq(Version)
  OBVIOUS
<1>6. PICK reg, at : reg = [text |-> EmptyText, linewise |-> FALSE] /\ at = Cursor(0, 0)
  OBVIOUS
<1>7. reg \in Pasted /\ at \in Place /\ reg.linewise \in BOOLEAN
  BY <1>3, <1>4, <1>6
<1>8. PICK c : c = FromText(txt)
  OBVIOUS
<1>9. c = [lines |-> txt, cursor |-> at, mode |-> "normal", anchor |-> NoAnchor, register |-> reg,
           desired |-> 0, undo |-> <<>>, redo |-> <<>>]
  BY <1>6, <1>8 DEF FromText, NewBuffer
<1> QED
  BY <1>5, <1>7, <1>8, <1>9 DEF Fits, BufShape, Fields, Modes

\* The prompt a call starts with.
LEMMA NewCalm == Calm(InsertBefore(NewBuffer))
<1>1. EmptyText \in Texts
  <2>1. <<>> \in Row
    BY DEF Row
  <2> QED
    BY <2>1 DEF EmptyText, Texts
<1>2. FromText(EmptyText) = NewBuffer
  <2>1. PICK txt, reg, at : txt = EmptyText /\ reg = [text |-> EmptyText, linewise |-> FALSE] /\ at = Cursor(0, 0)
    OBVIOUS
  <2>2. NewBuffer = [lines |-> txt, cursor |-> at, mode |-> "normal", anchor |-> NoAnchor, register |-> reg,
                     desired |-> 0, undo |-> <<>>, redo |-> <<>>]
    BY <2>1 DEF NewBuffer
  <2>3. [NewBuffer EXCEPT !.lines = txt] = NewBuffer
    BY <2>2
  <2> QED
    BY <2>1, <2>3 DEF FromText
<1>3. Fits(NewBuffer) /\ NewBuffer.anchor = NoAnchor /\ "insert" \in {"normal", "insert"}
  BY <1>1, <1>2, NewFits
<1> QED
  BY <1>3, EntersCalm DEF InsertBefore

\* An earlier input that is recalled.
LEMMA RecalledCalm ==
  ASSUME NEW idx \in 1 .. Len(History)
  PROVE  Calm(Recalled(History[idx])) /\ Recalled(History[idx]).mode = "normal"
<1>1. PICK txt : txt = History[idx]
  OBVIOUS
<1>2. txt \in Seq(Seq(STRING)) \ {<<>>}
  BY <1>1, HistoryAssumption
<1>3. txt \in Texts
  <2>1. \A line \in Seq(STRING) : line \in Row
    BY DEF Row, Letter
  <2>2. PICK n \in Nat : n = Len(txt)
    BY <1>2
  <2>3. \A j \in 1 .. n : txt[j] \in Row
    BY <1>2, <2>1, <2>2
  <2>4. txt = [j \in 1 .. n |-> txt[j]]
    BY <1>2, <2>2
  <2>5. [j \in 1 .. n |-> txt[j]] \in Seq(Row)
    BY <2>3
  <2> QED
    BY <1>2, <2>4, <2>5 DEF Texts
<1>4. PICK b : b = FromText(txt)
  OBVIOUS
<1>5. Fits(b) /\ b.anchor = NoAnchor /\ b.mode = "normal" /\ b.lines = txt
  BY <1>3, <1>4, NewFits
<1>6. PICK k \in Nat : k = Len(txt[Len(txt)])
  <2>1. txt \in Seq(Row) /\ Len(txt) \in 1 .. Len(txt)
    BY <1>2, <1>3 DEF Texts
  <2>2. txt[Len(txt)] \in Row
    BY <2>1
  <2> QED
    BY <2>2 DEF Row
<1>7. PICK p : p = Cursor(LastRow(b), k)
  OBVIOUS
<1>8. p \in Place
  BY <1>5, <1>7, LinesAre DEF Place, Cursor
<1>9. PICK z : z = PlacePut(b, p)
  OBVIOUS
<1>10. Fits(z) /\ Kept(b, z)
  BY <1>5, <1>8, <1>9, PutsPlace
<1>11. Ready(z) /\ z.mode = "normal"
  BY <1>5, <1>10 DEF Ready, Kept
<1>12. PICK c : c = ClampCursor(z)
  OBVIOUS
<1>13. Calm(c) /\ Kept(z, c)
  BY <1>11, <1>12, ClampCalm
<1>14. Recalled(txt) = c
  BY <1>4, <1>6, <1>7, <1>9, <1>12 DEF Recalled, PlacePut
<1> QED
  BY <1>1, <1>11, <1>13, <1>14 DEF Kept

-----------------------------------------------------------------------------
\* What a completion puts in the text

\* A row is cut where it was put together.
Halves(w, n, p, q) == Take(w, n) = p /\ Drop(w, n) = q

\* Two rows put together come apart where they met.
LEMMA CutsBack ==
  ASSUME NEW p \in Row, NEW q \in Row, NEW w, w = p \o q, NEW n, n = Len(p)
  PROVE  w \in Row /\ Halves(w, n, p, q) /\ n \in Nat /\ n <= Len(w)
<1>1. PICK m \in Nat, k \in Nat : m = Len(p) /\ k = Len(q)
  BY DEF Row
<1>2. w \in Seq(Letter) /\ Len(w) = m + k /\ (\A j \in 1 .. m : w[j] = p[j]) /\ (\A j \in 1 .. k : w[m + j] = q[j])
  <2>1. p \in Seq(Letter) /\ q \in Seq(Letter)
    BY DEF Row
  <2> QED
    BY <1>1, <2>1, Placed
<1>3. w \in Row
  BY <1>2 DEF Row
<1>4. PICK at : at = Least(n, Len(w))
  OBVIOUS
<1>5. at = m
  BY <1>1, <1>2, <1>4 DEF Least
<1>6. Take(w, n) = SubSeq(w, 0 + 1, m) /\ Drop(w, n) = SubSeq(w, m + 1, m + k)
  <2>1. 0 + 1 = 1
    OBVIOUS
  <2> QED
    BY <1>2, <1>4, <1>5, <2>1 DEF Take, Drop
<1>7. PICK s, t : s = SubSeq(w, 0 + 1, m) /\ t = SubSeq(w, m + 1, m + k)
  OBVIOUS
<1>8. s \in Seq(Letter) /\ Len(s) = m - 0 /\ \A j \in 1 .. m - 0 : s[j] = w[0 + j]
  <2>1. 0 \in Nat /\ 0 <= m /\ m <= Len(w)
    BY <1>2
  <2> QED
    BY <1>2, <1>7, <2>1, PartOf
<1>9. t \in Seq(Letter) /\ Len(t) = (m + k) - m /\ \A j \in 1 .. (m + k) - m : t[j] = w[m + j]
  <2>1. PICK e \in Nat : e = m + k
    OBVIOUS
  <2>2. m <= e /\ e <= Len(w)
    BY <1>2, <2>1
  <2>3. t = SubSeq(w, m + 1, e)
    BY <1>7, <2>1
  <2>4. t \in Seq(Letter) /\ Len(t) = e - m /\ \A j \in 1 .. e - m : t[j] = w[m + j]
    <3>1. w \in Seq(Letter)
      BY <1>2
    <3> QED
      BY <2>2, <2>3, <3>1, PartOf
  <2> QED
    BY <2>1, <2>4
<1>10. s = p
  <2>1. p \in Seq(Letter) /\ Len(s) = Len(p) /\ \A j \in 1 .. Len(s) : s[j] = p[j]
    BY <1>1, <1>2, <1>8 DEF Row
  <2> QED
    BY <1>8, <2>1, SeqEqual
<1>11. t = q
  <2>1. (m + k) - m = k
    OBVIOUS
  <2>2. q \in Seq(Letter) /\ Len(t) = Len(q) /\ \A j \in 1 .. Len(t) : t[j] = q[j]
    BY <1>1, <1>2, <1>9, <2>1 DEF Row
  <2> QED
    BY <1>9, <2>2, SeqEqual
<1>12. Take(w, n) = p /\ Drop(w, n) = q
  BY <1>6, <1>7, <1>10, <1>11
<1>13. n \in Nat /\ n <= Len(w)
  BY <1>1, <1>2
<1> QED
  BY <1>3, <1>12, <1>13 DEF Halves

\* The row with the first k characters of a text between its halves.
Half(a, d, txt, k, w) == w = a \o SubSeq(txt, 1, k) \o d

\* The character that is typed into such a row.
LEMMA TypesOne ==
  ASSUME NEW a \in Row, NEW d \in Row, NEW txt \in Row, NEW k \in Nat, k < Len(txt), NEW s, s = SubSeq(txt, 1, k), NEW ch, ch = txt[k + 1],
         NEW w, Half(a, d, txt, k, w), NEW n, n = Len(a) + k
  PROVE  w \in Row /\ ch \in Letter /\ Half(a, d, txt, k + 1, Take(w, n) \o <<ch>> \o Drop(w, n))
<1>1. PICK m \in Nat, l \in Nat : m = Len(a) /\ l = Len(txt)
  BY DEF Row
<1>2. s \in Row /\ Len(s) = k
  <2>1. 0 \in Nat /\ 0 <= k /\ k <= Len(txt) /\ txt \in Seq(Letter) /\ 0 + 1 = 1
    BY <1>1 DEF Row
  <2>2. SubSeq(txt, 0 + 1, k) \in Seq(Letter) /\ Len(SubSeq(txt, 0 + 1, k)) = k - 0
    BY <2>1, PartOf
  <2> QED
    BY <2>1, <2>2 DEF Row
<1>3. PICK p : p = a \o s
  OBVIOUS
<1>4. p \in Row /\ Len(p) = n
  <2>1. a \in Seq(Letter) /\ s \in Seq(Letter)
    BY <1>2 DEF Row
  <2>2. p \in Seq(Letter) /\ Len(p) = Len(a) + Len(s)
    BY <1>3, <2>1, Grows
  <2> QED
    BY <1>2, <2>2 DEF Row
<1>5. w = p \o d
  BY <1>3 DEF Half
<1>6. w \in Row /\ Take(w, n) = p /\ Drop(w, n) = d
  <2>1. n = Len(p) /\ p \in Row
    BY <1>4
  <2>2. w \in Row /\ Halves(w, n, p, d)
    BY <1>5, <2>1, CutsBack
  <2> QED
    BY <2>2 DEF Halves
<1>7. ch \in Letter
  <2>1. k + 1 \in 1 .. Len(txt) /\ txt \in Seq(Letter)
    BY <1>1 DEF Row
  <2> QED
    BY <2>1
<1>8. PICK one : one = <<ch>>
  OBVIOUS
<1>9. SubSeq(txt, 1, k + 1) = s \o one
  <2>1. PICK u \in Nat : u = k + 1
    OBVIOUS
  <2>2. 1 \in 1 .. Len(txt) /\ u \in 1 .. Len(txt) /\ txt \in Seq(Letter) /\ u - 1 = k
    BY <1>1, <2>1 DEF Row
  <2>3. SubSeq(txt, 1, u) = SubSeq(txt, 1, u - 1) \o <<txt[u]>>
    BY <2>2, SubSeqRecursiveSecond
  <2> QED
    BY <1>8, <2>1, <2>2, <2>3
<1>10. (a \o s) \o one = a \o (s \o one)
  <2>1. one \in Seq(Letter)
    BY <1>7, <1>8
  <2>2. a \in Seq(Letter) /\ s \in Seq(Letter) /\ one \in Seq(Letter)
    BY <1>2, <2>1 DEF Row
  <2>3. PICK V : V = Letter
    OBVIOUS
  <2>4. \A x, y, v \in Seq(V) : (x \o y) \o v = x \o (y \o v)
    BY ConcatAssociative
  <2>5. a \in Seq(V) /\ s \in Seq(V) /\ one \in Seq(V)
    BY <2>2, <2>3
  <2> QED
    BY <2>4, <2>5, Zenon
<1> QED
  BY <1>3, <1>6, <1>7, <1>8, <1>9, <1>10 DEF Half

Inserted(b, r, c, line, ch, e) ==
  /\ Calm(e) /\ e.mode = "insert" /\ e.cursor = Cursor(r, c + 1)
  /\ e.lines = [b.lines EXCEPT ![r + 1] = Take(line, c) \o <<ch>> \o Drop(line, c)]

\* One character is typed.
LEMMA InsertIs ==
  ASSUME NEW b, Calm(b), b.mode = "insert", NEW ch \in Letter, NEW r, NEW c, b.cursor = Cursor(r, c), NEW line, line = Here(b),
         NEW e, e = InsertChar(b, ch)
  PROVE  Inserted(b, r, c, line, ch, e)
<1>1. b.cursor.row = r /\ b.cursor.col = c
  BY DEF Cursor
<1> QED
  BY <1>1, InsertCalm DEF Inserted

\* c is b with the k first characters of a text typed at the cursor.
Typing(b, r, c, a, d, txt, k, z) ==
  /\ Calm(z) /\ z.mode = "insert" /\ z.cursor = Cursor(r, c + k)
  /\ z.lines = [b.lines EXCEPT ![r + 1] = a \o SubSeq(txt, 1, k) \o d]

\* The next one.
LEMMA TypesOn ==
  ASSUME NEW b, Calm(b), NEW r \in 0 .. LastRow(b), NEW c \in Nat, NEW a \in Row, NEW d \in Row, Len(a) = c,
         NEW txt \in Row, NEW k \in Nat, k < Len(txt), NEW z, Typing(b, r, c, a, d, txt, k, z), NEW e, e = InsertChar(z, txt[k + 1])
  PROVE  Typing(b, r, c, a, d, txt, k + 1, e)
<1>1. PICK s : s = SubSeq(txt, 1, k)
  OBVIOUS
<1>2. PICK w : w = a \o s \o d
  OBVIOUS
<1>3. PICK n : n = Len(a) + k
  OBVIOUS
<1>4. PICK ch : ch = txt[k + 1]
  OBVIOUS
<1>5. PICK new : new = Take(w, n) \o <<ch>> \o Drop(w, n)
  OBVIOUS
<1>6. Half(a, d, txt, k, w)
  BY <1>1, <1>2 DEF Half
<1>7. w \in Row /\ ch \in Letter /\ Half(a, d, txt, k + 1, new)
  BY <1>1, <1>3, <1>4, <1>5, <1>6, TypesOne
<1>8. Calm(z) /\ z.mode = "insert" /\ z.cursor = Cursor(r, n) /\ z.lines = [b.lines EXCEPT ![r + 1] = w]
  BY <1>1, <1>2, <1>3 DEF Typing
<1>9. Here(z) = w
  <2>1. b.lines \in Seq(Row) /\ r + 1 \in 1 .. Len(b.lines)
    BY LinesAre DEF Calm
  <2> QED
    BY <1>8, <2>1 DEF Here, LineAt, Cursor
<1>10. e = InsertChar(z, ch) /\ w = Here(z)
  BY <1>4, <1>9
<1>11. Calm(e) /\ e.mode = "insert" /\ e.cursor = Cursor(r, n + 1) /\ e.lines = [z.lines EXCEPT ![r + 1] = new]
  <2>1. ch \in Letter /\ Calm(z) /\ z.mode = "insert" /\ z.cursor = Cursor(r, n) /\ w = Here(z) /\ e = InsertChar(z, ch)
    BY <1>7, <1>8, <1>10
  <2>2. /\ Calm(e) /\ e.mode = "insert" /\ e.cursor = Cursor(r, n + 1)
        /\ e.lines = [z.lines EXCEPT ![r + 1] = Take(w, n) \o <<ch>> \o Drop(w, n)]
    <3>1. Inserted(z, r, n, w, ch, e)
      BY <2>1, InsertIs
    <3> QED
      BY <3>1 DEF Inserted
  <2> QED
    BY <1>5, <2>2
<1>12. e.lines = [b.lines EXCEPT ![r + 1] = new]
  BY <1>8, <1>11
<1>13. n + 1 = c + (k + 1)
  BY <1>3
<1> QED
  BY <1>7, <1>11, <1>12, <1>13 DEF Typing, Half

\* Typing a text is typing its characters.
LEMMA InsertedIs ==
  ASSUME NEW n \in Nat, NEW b, NEW txt, Len(txt) = n
  PROVE  \E g : Again(g, n, b, "type", txt) /\ Insert(b, txt) = g[n]
<1> DEFINE g == CHOOSE typed : typed = [idx \in 0 .. n |-> IF idx = 0 THEN b ELSE InsertChar(typed[idx - 1], txt[idx])]
<1>1. Insert(b, txt) = g[n]
  BY DEF Insert
<1>2. \E typed : typed = [idx \in 0 .. n |-> IF idx = 0 THEN b ELSE InsertChar(typed[idx - 1], txt[idx])]
  <2>1. PICK typed : Again(typed, n, b, "type", txt)
    BY AgainIs
  <2> QED
    BY <2>1 DEF Again, Doing
<1>3. g = [idx \in 0 .. n |-> IF idx = 0 THEN b ELSE InsertChar(g[idx - 1], txt[idx])]
  BY <1>2
<1> HIDE DEF g
<1>4. Again(g, n, b, "type", txt)
  BY <1>3 DEF Again, Doing
<1> QED
  BY <1>1, <1>4

Spelled(b, r, c, txt, e) ==
  Calm(e) /\ e.lines = [b.lines EXCEPT ![r + 1] = Take(Here(b), c) \o txt \o Drop(Here(b), c)]

\* A text typed at the cursor stands between what was before it and behind it.
LEMMA TypesText ==
  ASSUME NEW b, Calm(b), b.mode = "insert", NEW r \in Nat, NEW c \in Nat, b.cursor = Cursor(r, c), NEW txt \in Row,
         NEW e, e = Insert(b, txt)
  PROVE  Spelled(b, r, c, txt, e)
<1>1. PICK n \in Nat : n = Len(txt)
  BY DEF Row
<1>2. PICK g : Again(g, n, b, "type", txt) /\ e = g[n]
  BY <1>1, InsertedIs
<1>3. g[0] = b /\ \A k \in Nat : k < n => g[k + 1] = Doing("type", txt, k + 1, g[k])
  BY <1>2, AgainGoes
<1>4. Fits(b) /\ Stands(b) /\ b.cursor.row = r /\ b.cursor.col = c
  BY DEF Calm, Cursor
<1>5. PICK line \in Row : line = Here(b) /\ line = b.lines[r + 1]
  BY <1>4, LinesAre DEF Stands, InText, Here, LineAt
<1>6. r \in 0 .. LastRow(b) /\ c <= Len(line)
  BY <1>4, <1>5, LinesAre DEF Stands, InText, LastCol, Here
<1>7. PICK a, d : a = Take(line, c) /\ d = Drop(line, c)
  OBVIOUS
<1>8. a \in Row /\ Len(a) = c /\ d \in Row
  BY <1>6, <1>7, CutsAt
<1> DEFINE T == {k \in Nat : Typing(b, r, c, a, d, txt, k, g[k])}
<1>9. 0 \in T
  <2>1. Typing(b, r, c, a, d, txt, 0, b)
    <3>1. SubSeq(txt, 1, 0) = <<>>
      BY SubSeqEmpty
    <3>2. a \o <<>> \o d = line
      <4>1. a \o <<>> = a
        BY <1>8, ConcatEmptySeq DEF Row
      <4>2. PICK m \in Nat : m = Len(line)
        BY DEF Row
      <4>3. PICK w : w = a \o d
        OBVIOUS
      <4>4. w \in Seq(Letter) /\ Len(w) = Len(a) + Len(d) /\ (\A j \in 1 .. Len(a) : w[j] = a[j])
            /\ \A j \in 1 .. Len(d) : w[Len(a) + j] = d[j]
        <5>1. a \in Seq(Letter) /\ d \in Seq(Letter)
          BY <1>8 DEF Row
        <5>2. PICK an, dn : an = Len(a) /\ dn = Len(d)
          OBVIOUS
        <5>3. w \in Seq(Letter) /\ Len(w) = an + dn /\ (\A j \in 1 .. an : w[j] = a[j]) /\ \A j \in 1 .. dn : w[an + j] = d[j]
          BY <4>3, <5>1, <5>2, Placed
        <5> QED
          BY <5>2, <5>3
      <4>5. a = SubSeq(line, 0 + 1, c) /\ d = SubSeq(line, c + 1, m)
        <5>1. Least(c, m) = c /\ 0 + 1 = 1
          BY <1>6, <4>2 DEF Least
        <5> QED
          BY <1>7, <4>2, <5>1 DEF Take, Drop
      <4>6. Len(a) = c - 0 /\ \A j \in 1 .. c - 0 : a[j] = line[0 + j]
        <5>1. 0 \in Nat /\ 0 <= c /\ line \in Seq(Letter)
          BY DEF Row
        <5> QED
          BY <1>6, <4>5, <5>1, PartOf
      <4>7. Len(d) = m - c /\ \A j \in 1 .. m - c : d[j] = line[c + j]
        <5>1. c <= m /\ m <= Len(line) /\ line \in Seq(Letter)
          BY <1>6, <4>2 DEF Row
        <5> QED
          BY <4>5, <5>1, PartOf
      <4>8. Len(w) = m
        BY <1>8, <4>4, <4>7
      <4>9. ASSUME NEW j \in 1 .. m PROVE w[j] = line[j]
        <5>1. CASE j <= c
          BY <1>8, <4>4, <4>6, <5>1
        <5>2. CASE j > c
          <6>1. PICK l \in Nat : l = j - c
            BY <5>2
          <6>2. l \in 1 .. m - c /\ c + l = j
            BY <5>2, <6>1
          <6>3. w[c + l] = d[l] /\ d[l] = line[c + l]
            BY <1>8, <4>4, <4>7, <6>2
          <6> QED
            BY <6>2, <6>3
        <5> QED
          BY <5>1, <5>2
      <4>10. w = line
        <5>1. line \in Seq(Letter) /\ Len(w) = Len(line) /\ \A j \in 1 .. Len(w) : w[j] = line[j]
          BY <4>2, <4>8, <4>9 DEF Row
        <5> QED
          BY <4>4, <5>1, SeqEqual
      <4> QED
        BY <4>1, <4>3, <4>10
    <3>3. b.lines = [b.lines EXCEPT ![r + 1] = line]
      <4>1. b.lines \in Seq(Row) /\ r + 1 \in 1 .. Len(b.lines)
        BY <1>4, <1>6, LinesAre
      <4> QED
        BY <1>5, <4>1
    <3>4. c + 0 = c
      OBVIOUS
    <3> QED
      BY <3>1, <3>2, <3>3, <3>4 DEF Typing
  <2> QED
    BY <1>3, <2>1
<1>10. ASSUME NEW k \in Nat, k < n, k \in T PROVE k + 1 \in T
  <2>1. PICK m, z : m = g[k] /\ z = g[k + 1]
    OBVIOUS
  <2>2. z = InsertChar(m, txt[k + 1])
    BY <1>3, <1>10, <2>1 DEF Doing
  <2>3. Typing(b, r, c, a, d, txt, k, m) /\ k < Len(txt)
    BY <1>1, <1>10, <2>1
  <2>4. Typing(b, r, c, a, d, txt, k + 1, z)
    BY <1>6, <1>8, <2>2, <2>3, TypesOn
  <2> QED
    BY <2>1, <2>4
<1>11. 0 .. n \subseteq T
  <2> HIDE DEF T
  <2> QED
    BY <1>9, <1>10, Reaches
<1>12. n \in T
  BY <1>11
<1>13. SubSeq(txt, 1, n) = txt
  BY <1>1, SubSeqFull DEF Row
<1> QED
  BY <1>2, <1>5, <1>7, <1>12, <1>13 DEF Typing, Spelled

\* What a popup was asked for stands before the cursor.
Means(kind, b, at, query) ==
  /\ at \in Place /\ at.row = b.cursor.row /\ query \in Row
  /\ at.col + Len(Sign(kind)) + Len(query) = b.cursor.col
  /\ Drop(Take(Here(b), b.cursor.col), at.col) = Sign(kind) \o query

\* The characters of a row between two of its columns.
IsCut(line, from, c, s) == s \in Row /\ s = SubSeq(line, from + 1, c) /\ Len(s) = c - from

LEMMA CutsTwice ==
  ASSUME NEW line \in Row, NEW from \in Nat, NEW c \in Nat, from <= c, c <= Len(line), NEW s, s = Drop(Take(line, c), from)
  PROVE  IsCut(line, from, c, s)
<1>1. PICK m \in Nat : m = Len(line)
  BY DEF Row
<1>2. PICK t : t = Take(line, c)
  OBVIOUS
<1>3. t \in Row /\ Len(t) = c
  BY <1>2, CutsAt
<1>4. t = SubSeq(line, 0 + 1, c)
  <2>1. Least(c, m) = c /\ 0 + 1 = 1
    BY <1>1 DEF Least
  <2> QED
    BY <1>1, <1>2, <2>1 DEF Take
<1>5. line \in Seq(Letter) /\ t \in Seq(Letter)
  BY <1>3 DEF Row
<1>6. \A j \in 1 .. c - 0 : t[j] = line[0 + j]
  <2>1. 0 \in Nat /\ 0 <= c
    OBVIOUS
  <2> QED
    BY <1>4, <1>5, <2>1, PartOf
<1>7. s = SubSeq(t, from + 1, c)
  <2>1. Least(from, c) = from
    BY DEF Least
  <2> QED
    BY <1>2, <1>3, <2>1 DEF Drop
<1>8. s \in Seq(Letter) /\ Len(s) = c - from /\ \A j \in 1 .. c - from : s[j] = t[from + j]
  <2>1. c <= Len(t)
    BY <1>3
  <2> QED
    BY <1>5, <1>7, <2>1, PartOf
<1>9. PICK u : u = SubSeq(line, from + 1, c)
  OBVIOUS
<1>10. u \in Seq(Letter) /\ Len(u) = c - from /\ \A j \in 1 .. c - from : u[j] = line[from + j]
  BY <1>5, <1>9, PartOf
<1>11. s = u
  <2>1. \A j \in 1 .. Len(s) : s[j] = u[j]
    <3> SUFFICES ASSUME NEW j \in 1 .. Len(s) PROVE s[j] = u[j]
      OBVIOUS
    <3>1. PICK k \in Nat : k = from + j
      OBVIOUS
    <3>2. j \in 1 .. c - from /\ k \in 1 .. c - 0 /\ 0 + k = k
      BY <1>8, <3>1
    <3>3. s[j] = t[k] /\ u[j] = line[k] /\ t[k] = line[0 + k]
      BY <1>6, <1>8, <1>10, <3>1, <3>2
    <3> QED
      BY <3>2, <3>3
  <2>2. Len(s) = Len(u)
    BY <1>8, <1>10
  <2> QED
    BY <1>8, <1>10, <2>1, <2>2, SeqEqual
<1> QED
  BY <1>8, <1>9, <1>11 DEF Row, IsCut

\* What a popup asks the text for is what stands before the cursor.
LEMMA AskedMeans ==
  ASSUME NEW b, Calm(b), b.mode = "insert", NEW kind \in Kinds, Asked(kind, b).active, NEW at, NEW query,
         at = Asked(kind, b).at, query = Asked(kind, b).query
  PROVE  Means(kind, b, at, query)
<1>1. Fits(b) /\ Stands(b)
  BY DEF Calm
<1>2. PICK r \in Nat : r = b.cursor.row
  BY <1>1 DEF Fits, Place
<1>3. PICK c \in Nat : c = b.cursor.col
  BY <1>1 DEF Fits, Place
<1>4. PICK line \in Row : line = Here(b)
  BY <1>1, LinesAre DEF Stands, InText, Here
<1>5. PICK m \in Nat : m = Len(line)
  BY DEF Row
<1>6. c <= m /\ r \in 0 .. LastRow(b)
  BY <1>1, <1>2, <1>3, <1>4, <1>5, LinesAre DEF Stands, InText, LastCol, Here
<1>7. line \in Seq(Letter)
  BY DEF Row
<1>8. ~None.active
  BY DEF None
<1>9. CASE kind = "mention"
  <2>1. Asked(kind, b) = MentionAsked(b)
    BY <1>9 DEF Asked
  <2> DEFINE signs == {from \in 0..(c - 1) :
                       /\ line[from + 1] = MentionSign
                       /\ from = 0 \/ line[from] = Blank
                       /\ \A j \in (from + 1)..(c - 1) :
                                            line[j + 1] \notin {Blank, MentionSign}}
  <2>2. Least(c, m) = c
    BY <1>6 DEF Least
  <2>3. MentionAsked(b) = IF signs = {} THEN None
        ELSE LET from == CHOOSE s \in signs : TRUE
             IN  Request(Cursor(r, from), SubSeq(line, from + 2, c))
    BY <1>2, <1>3, <1>4, <1>5, <2>2 DEF MentionAsked
  <2>4. signs # {}
    BY <1>8, <2>1, <2>3
  <2>5. PICK from : from = CHOOSE s \in signs : TRUE
    OBVIOUS
  <2>6. from \in signs
    BY <2>4, <2>5
  <2>7. from \in 0 .. c - 1 /\ line[from + 1] = MentionSign
    BY <2>6
  <2>8. Asked(kind, b) = Request(Cursor(r, from), SubSeq(line, from + 2, c))
    BY <2>1, <2>3, <2>4, <2>5
  <2> HIDE DEF signs
  <2>9. at = Cursor(r, from) /\ query = SubSeq(line, from + 2, c)
    <3>1. PICK p, q : p = Cursor(r, from) /\ q = SubSeq(line, from + 2, c)
      OBVIOUS
    <3>2. Asked(kind, b) = Request(p, q)
      BY <2>8, <3>1
    <3>3. at = p /\ query = q
      BY <3>2 DEF Request
    <3> QED
      BY <3>1, <3>3
  <2>10. PICK s : s = Drop(Take(line, c), from)
    OBVIOUS
  <2>11. from \in Nat /\ from <= c /\ c <= Len(line)
    BY <1>5, <1>6, <2>7
  <2>12. s \in Row /\ s = SubSeq(line, from + 1, c) /\ Len(s) = c - from
    <3>1. IsCut(line, from, c, s)
      BY <2>10, <2>11, CutsTwice
    <3> QED
      BY <3>1 DEF IsCut
  <2>13. PICK u \in Nat : u = from + 1
    BY <2>11
  <2>14. u \in 1 .. Len(line) /\ c \in u .. Len(line) /\ u + 1 = from + 2
    BY <1>5, <1>6, <2>7, <2>13
  <2>15. SubSeq(line, u, c) = <<line[u]>> \o SubSeq(line, u + 1, c)
    BY <1>7, <2>14, SubSeqRecursiveFirst
  <2>16. s = <<MentionSign>> \o query
    BY <2>7, <2>9, <2>12, <2>13, <2>14, <2>15
  <2>17. query \in Row /\ Len(query) = c - u
    <3>1. u \in Nat /\ u <= c /\ c <= Len(line)
      BY <2>14
    <3>2. query = SubSeq(line, u + 1, c)
      BY <2>9, <2>14
    <3>3. query \in Seq(Letter) /\ Len(query) = c - u
      BY <1>7, <3>1, <3>2, PartOf
    <3> QED
      BY <3>3 DEF Row
  <2>18. Sign(kind) = <<MentionSign>> /\ Len(Sign(kind)) = 1
    BY <1>9 DEF Sign
  <2>19. at \in Place /\ at.row = r /\ at.col = from
    BY <2>9, <2>11 DEF Cursor, Place
  <2>20. from + 1 + Len(query) = c
    BY <2>11, <2>13, <2>17
  <2>21. Drop(Take(Here(b), b.cursor.col), at.col) = Sign(kind) \o query
    BY <1>3, <1>4, <2>10, <2>16, <2>18, <2>19
  <2> QED
    BY <1>2, <1>3, <2>17, <2>18, <2>19, <2>20, <2>21 DEF Means
<1>10. CASE kind # "mention"
  <2>1. PICK prefix \in {ModelPrefix, ModePrefix} : Asked(kind, b) = ArgumentAsked(b, prefix)
    BY <1>10 DEF Asked, Kinds
  <2>2. PICK n \in Nat : n = Len(prefix)
    <3>1. prefix \in Seq(STRING)
      BY PrefixAssumption
    <3> QED
      BY <3>1
  <2>3. PICK arg : arg = SubSeq(line, n + 1, c)
    OBVIOUS
  <2>4. ArgumentAsked(b, prefix) \in {Request(Cursor(0, n), arg), None}
    BY <1>3, <1>4, <2>2, <2>3 DEF ArgumentAsked
  <2>5. ArgumentAsked(b, prefix) = Request(Cursor(0, n), arg)
    BY <1>8, <2>1, <2>4
  <2>6. Len(b.lines) = 1 /\ c \in n .. m
    <3>1. ASSUME ~(Len(b.lines) = 1 /\ c \in n .. m) PROVE ArgumentAsked(b, prefix) = None
      BY <1>3, <1>4, <1>5, <2>2, <3>1 DEF ArgumentAsked
    <3> QED
      BY <1>8, <2>1, <3>1
  <2>7. at = Cursor(0, n) /\ query = arg
    BY <2>1, <2>5 DEF Request
  <2>8. r = 0
    BY <1>6, <2>6 DEF LastRow
  <2>9. PICK s : s = Drop(Take(line, c), n)
    OBVIOUS
  <2>10. n <= c /\ c <= Len(line)
    BY <1>5, <2>6
  <2>11. s \in Row /\ s = SubSeq(line, n + 1, c) /\ Len(s) = c - n
    <3>1. IsCut(line, n, c, s)
      BY <2>9, <2>10, CutsTwice
    <3> QED
      BY <3>1 DEF IsCut
  <2>12. s = query /\ query \in Row
    BY <2>3, <2>7, <2>11
  <2>13. Sign(kind) = <<>>
    BY <1>10 DEF Sign
  <2>14. Sign(kind) \o query = query /\ Len(Sign(kind)) = 0
    BY <2>12, <2>13, ConcatEmptySeq DEF Row
  <2>15. at \in Place /\ at.row = r /\ at.col = n
    BY <2>7, <2>8 DEF Cursor, Place
  <2>16. n + 0 + Len(query) = c
    BY <2>10, <2>11, <2>12
  <2>17. Drop(Take(Here(b), b.cursor.col), at.col) = Sign(kind) \o query
    BY <1>3, <1>4, <2>9, <2>12, <2>14, <2>15
  <2> QED
    BY <1>2, <1>3, <2>12, <2>14, <2>15, <2>16, <2>17 DEF Means
<1> QED
  BY <1>9, <1>10

\* The row of the cursor without the characters from column c up to the cursor.
Without(b, c, e) ==
  /\ Calm(e) /\ e.mode = "insert" /\ e.cursor = Cursor(b.cursor.row, c)
  /\ e.lines = [b.lines EXCEPT ![b.cursor.row + 1] = Take(Here(b), c) \o Drop(Here(b), b.cursor.col)]

RowPut(old, u, line, lines) == lines = [old EXCEPT ![u] = line]

\* One row put for one is a change of that row.
LEMMA RowReplaced ==
  ASSUME NEW old \in Texts, NEW r \in 0 .. Len(old) - 1, NEW u \in Nat, u = r + 1, NEW line \in Row, NEW lines, RowsPut(old, r, u, <<line>>, lines)
  PROVE  RowPut(old, u, line, lines)
<1>1. PICK n \in Nat : n = Len(old) /\ old \in Seq(Row) /\ r \in Nat /\ r + 1 <= n
  BY RowsAre
<1>2. PICK one : one = <<line>>
  OBVIOUS
<1>3. one \in Seq(Row) /\ Len(one) = 1 /\ one[1] = line
  BY <1>2
<1>4. RowsPut(old, r, u, one, lines) /\ r <= u /\ u <= Len(old)
  BY <1>1, <1>2
<1>5. Came(old, r, u, one, lines)
  BY <1>1, <1>3, <1>4, RowsOf
<1>6. /\ \A j \in 1 .. r : lines[j] = old[j]
      /\ \A j \in 1 .. 1 : lines[r + j] = one[j]
      /\ \A j \in 1 .. n - u : lines[r + 1 + j] = old[u + j]
  BY <1>1, <1>3, <1>5 DEF Came
<1>7. lines \in Seq(Row) /\ Len(lines) = n
  <2>1. lines \in Seq(Row) /\ Len(lines) = r + Len(one) + (Len(old) - u)
    BY <1>4 DEF RowsPut
  <2> QED
    BY <1>1, <1>3, <2>1
<1>8. PICK new : new = [old EXCEPT ![u] = line]
  OBVIOUS
<1>9. new \in Seq(Row) /\ Len(new) = n /\ \A j \in 1 .. n : new[j] = IF j = u THEN line ELSE old[j]
  BY <1>1, <1>8
<1>10. ASSUME NEW j \in 1 .. n PROVE lines[j] = new[j]
  <2>1. CASE j <= r
    BY <1>1, <1>6, <1>9, <2>1
  <2>2. CASE j = u
    <3>1. lines[r + 1] = one[1]
      BY <1>6
    <3> QED
      BY <1>3, <1>9, <2>2, <3>1
  <2>3. CASE j > u
    <3>1. PICK k \in Nat : k = j - u
      BY <2>3
    <3>2. k \in 1 .. n - u /\ r + 1 + k = j /\ u + k = j
      BY <1>1, <2>3, <3>1
    <3>3. lines[r + 1 + k] = old[u + k]
      BY <1>6, <3>2
    <3> QED
      BY <1>9, <2>3, <3>2, <3>3
  <2> QED
    BY <1>1, <2>1, <2>2, <2>3
<1>11. Len(lines) = Len(new) /\ \A j \in 1 .. Len(lines) : lines[j] = new[j]
  BY <1>7, <1>9, <1>10
<1> QED
  BY <1>7, <1>8, <1>9, <1>11, SeqEqual DEF RowPut

\* The characters from a place up to the cursor go.
LEMMA DropsTyped ==
  ASSUME NEW b, Calm(b), b.mode = "insert", NEW at \in Place, at.row = b.cursor.row, at.col < b.cursor.col,
         NEW e, e = DeleteRange(b, at, Cursor(at.row, b.cursor.col - 1))
  PROVE  Without(b, at.col, e)
<1>1. Fits(b) /\ Stands(b)
  BY DEF Calm
<1>2. PICK r \in Nat : r = b.cursor.row
  BY <1>1 DEF Fits, Place
<1>3. PICK c \in Nat : c = b.cursor.col
  BY <1>1 DEF Fits, Place
<1>4. PICK from \in Nat : from = at.col
  BY DEF Place
<1>5. PICK line \in Row : line = Here(b) /\ line = LineAt(b, r)
  BY <1>1, <1>2, LinesAre DEF Stands, InText, Here
<1>6. r \in 0 .. LastRow(b) /\ c <= Len(line) /\ from < c
  BY <1>1, <1>2, <1>3, <1>4, <1>5, LinesAre DEF Stands, InText, LastCol, Here
<1>7. PICK hi : hi = Cursor(r, c - 1)
  OBVIOUS
<1>8. hi \in Place /\ hi.row = r /\ hi.col = c - 1
  BY <1>6, <1>7 DEF Cursor, Place
<1>9. PICK a : a = PushUndo(b)
  OBVIOUS
<1>10. Saves(b, a) /\ Fits(a)
  BY <1>1, <1>9, PushSaves DEF Saves
<1>11. InRows(a, at) /\ InRows(a, hi)
  BY <1>2, <1>6, <1>8, <1>10 DEF InRows, Saves, LastRow
<1>12. at = Low(at, hi) /\ hi = High(at, hi)
  <2>1. Before(at, hi)
    BY <1>2, <1>4, <1>6, <1>8 DEF Before
  <2> QED
    BY <2>1 DEF Low, High
<1>13. e = DeleteRangeNoUndo(a, at, hi)
  BY <1>2, <1>3, <1>7, <1>9 DEF DeleteRange
<1>14. Fits(e) /\ Stands(e) /\ Taken(a, at, hi, e) /\ SameMode(a, e) /\ (InText(e, at) => e.cursor = at)
  BY <1>10, <1>11, <1>12, <1>13, RangeGone
<1>15. e.mode = "insert" /\ e.anchor = NoAnchor
  BY <1>10, <1>14 DEF SameMode, Saves, Calm
<1>16. PICK new : new = Take(line, from) \o Drop(line, c)
  OBVIOUS
<1>17. new = LeftOver(a, at, hi) /\ new \in Row
  <2>1. LineAt(a, r) = line /\ at.row = r
    BY <1>2, <1>5, <1>10 DEF LineAt, Saves
  <2>2. hi.col + 1 = c
    BY <1>8
  <2>3. new = LeftOver(a, at, hi)
    BY <1>4, <1>8, <1>16, <2>1, <2>2 DEF LeftOver
  <2> QED
    BY <1>14, <2>3 DEF Taken
<1>18. PICK u \in Nat : u = r + 1
  OBVIOUS
<1>19. e.lines = [b.lines EXCEPT ![u] = new]
  <2>1. RowsPut(b.lines, r, u, <<new>>, e.lines)
    BY <1>2, <1>8, <1>10, <1>14, <1>17, <1>18 DEF Taken, Saves
  <2>2. b.lines \in Texts /\ r \in 0 .. Len(b.lines) - 1
    BY <1>1, <1>6, LinesAre DEF Fits
  <2> QED
    <3>1. RowPut(b.lines, u, new, e.lines)
      BY <1>17, <1>18, <2>1, <2>2, RowReplaced
    <3> QED
      BY <3>1 DEF RowPut
<1>20. LineAt(e, r) = new /\ LastRow(e) = LastRow(b)
  <2>1. b.lines \in Seq(Row) /\ r + 1 \in 1 .. Len(b.lines)
    BY <1>1, <1>6, LinesAre
  <2> QED
    BY <1>18, <1>19, <2>1 DEF LineAt, LastRow
<1>21. Len(new) >= from
  <2>1. PICK s, d : s = Take(line, from) /\ d = Drop(line, c)
    OBVIOUS
  <2>2. from <= Len(line) /\ Len(line) \in Nat
    BY <1>6 DEF Row
  <2>3. s \in Row /\ Len(s) = from /\ d \in Row
    BY <1>6, <2>1, <2>2, CutsAt
  <2>4. s \in Seq(Letter) /\ d \in Seq(Letter) /\ new = s \o d
    BY <1>16, <2>1, <2>3 DEF Row
  <2>5. Len(new) = Len(s) + Len(d) /\ Len(d) \in Nat
    BY <2>4, Grows
  <2> QED
    BY <2>3, <2>5
<1>22. InText(e, at)
  <2>1. LastCol(e, new) = Len(new)
    BY <1>15 DEF LastCol
  <2>2. Len(new) \in Nat
    BY <1>17 DEF Row
  <2> QED
    BY <1>2, <1>4, <1>6, <1>20, <1>21, <2>1, <2>2 DEF InText
<1>23. e.cursor = Cursor(r, from)
  <2>1. at = Cursor(r, from)
    BY <1>2, <1>4 DEF Cursor, Place
  <2> QED
    BY <1>14, <1>22, <2>1
<1>24. Calm(e)
  BY <1>14, <1>15 DEF Calm
<1> QED
  BY <1>2, <1>3, <1>4, <1>5, <1>15, <1>16, <1>18, <1>19, <1>23, <1>24 DEF Without

\* What accepting leaves: the sign, the name and a blank in the place of what was typed.
Completed(kind, b, at, name) ==
  [b.lines EXCEPT ![b.cursor.row + 1] =
     Take(Here(b), at.col) \o Sign(kind) \o name \o <<Blank>> \o Drop(Here(b), b.cursor.col)]

\* The name that is selected.
SelectedName(kind, p) == Candidates[kind][p.filtered[p.selected + 1]]

\* It is a row of characters.
LEMMA NameIsRow ==
  ASSUME NEW kind \in Kinds, NEW p, Offers(kind, p), p.filtered # <<>>
  PROVE  SelectedName(kind, p) \in Row
<1>1. p.selected + 1 \in 1 .. Len(p.filtered) /\ p.filtered \in Seq(1 .. Len(Candidates[kind]))
  BY DEF Offers
<1>2. p.filtered[p.selected + 1] \in 1 .. Len(Candidates[kind])
  BY <1>1
<1>3. Candidates[kind] \in Seq(Seq(STRING))
  BY CandidatesAssumption
<1>4. SelectedName(kind, p) \in Seq(STRING)
  BY <1>2, <1>3 DEF SelectedName
<1>5. PICK V : V = Letter
  OBVIOUS
<1>6. \A x \in STRING : x \in V
  BY <1>5 DEF Letter
<1>7. PICK name : name = SelectedName(kind, p)
  OBVIOUS
<1>8. name \in Seq(V)
  <2>1. PICK n \in Nat : n = Len(name)
    BY <1>4, <1>7
  <2>2. \A j \in 1 .. n : name[j] \in V
    <3>1. name \in Seq(STRING)
      BY <1>4, <1>7
    <3>2. \A j \in 1 .. n : name[j] \in STRING
      BY <2>1, <3>1
    <3> QED
      BY <1>6, <3>2
  <2>3. name = [j \in 1 .. n |-> name[j]]
    BY <1>4, <1>7, <2>1
  <2>4. [j \in 1 .. n |-> name[j]] \in Seq(V)
    BY <2>2
  <2> QED
    BY <2>3, <2>4
<1> QED
  BY <1>5, <1>7, <1>8 DEF Row

\* Accepting it: what was typed goes and the name, its sign and a blank come.
LEMMA AcceptsName ==
  ASSUME NEW kind \in Kinds, NEW p, Offers(kind, p), p.filtered # <<>>, NEW b, Calm(b), b.mode = "insert",
         Means(kind, b, p.at, p.query), NEW e, e = Accept(b, p, kind, Candidates[kind]), NEW name, name = SelectedName(kind, p)
  PROVE  Calm(e) /\ e.lines = Completed(kind, b, p.at, name)
<1>1. name \in Row
  BY NameIsRow
<1>2. Fits(b) /\ Stands(b)
  BY DEF Calm
<1>3. PICK r \in Nat : r = b.cursor.row
  BY <1>2 DEF Fits, Place
<1>4. PICK c \in Nat : c = b.cursor.col
  BY <1>2 DEF Fits, Place
<1>5. PICK at \in Place, from \in Nat : at = p.at /\ from = at.col /\ at.row = r
  <2>1. p.at \in Place /\ p.at.row = r
    BY <1>3 DEF Means
  <2> QED
    BY <2>1 DEF Place
<1>6. PICK line \in Row : line = Here(b)
  BY <1>2, LinesAre DEF Stands, InText, Here
<1>7. PICK end : end = p.at.col + Len(Sign(kind)) + Len(p.query)
  OBVIOUS
<1>8. end = c /\ from <= c
  <2>1. end = c /\ p.query \in Row
    BY <1>4, <1>7 DEF Means
  <2>2. Len(p.query) \in Nat
    BY <2>1 DEF Row
  <2>3. Len(Sign(kind)) \in Nat
    BY DEF Sign
  <2> QED
    BY <1>5, <1>7, <2>1, <2>2, <2>3
<1>9. r \in 0 .. LastRow(b) /\ c <= Len(line) /\ b.cursor = Cursor(r, c)
  BY <1>2, <1>3, <1>4, <1>6, LinesAre DEF Calm, Fits, Place, Cursor, Stands, InText, LastCol, Here
<1>10. PICK t, d : t = Take(line, from) /\ d = Drop(line, c)
  OBVIOUS
<1>11. t \in Row /\ Len(t) = from /\ d \in Row
  <2>1. from <= Len(line) /\ Len(line) \in Nat
    BY <1>8, <1>9 DEF Row
  <2>2. t \in Row /\ Len(t) = from
    BY <1>10, <2>1, CutsAt
  <2>3. d \in Row
    BY <1>9, <1>10, CutsAt
  <2> QED
    BY <2>2, <2>3
<1>12. PICK gone : gone = IF end > p.at.col THEN DeleteRange(b, p.at, Cursor(p.at.row, end - 1)) ELSE b
  OBVIOUS
<1>13. /\ Calm(gone) /\ gone.mode = "insert" /\ gone.cursor = Cursor(r, from)
       /\ Take(Here(gone), from) = t /\ Drop(Here(gone), from) = d
       /\ \A row : [gone.lines EXCEPT ![r + 1] = row] = [b.lines EXCEPT ![r + 1] = row]
  <2>1. CASE end > from
    <3>1. gone = DeleteRange(b, at, Cursor(at.row, b.cursor.col - 1))
      BY <1>4, <1>5, <1>8, <1>12, <2>1
    <3>2. at.row = b.cursor.row /\ at.col < b.cursor.col
      BY <1>3, <1>4, <1>5, <1>8, <2>1
    <3>3. Without(b, at.col, gone)
      BY <3>1, <3>2, DropsTyped
    <3>4. PICK w : w = t \o d
      OBVIOUS
    <3>5. Calm(gone) /\ gone.mode = "insert" /\ gone.cursor = Cursor(r, from) /\ gone.lines = [b.lines EXCEPT ![r + 1] = w]
      BY <1>3, <1>4, <1>5, <1>6, <1>10, <3>3, <3>4 DEF Without
    <3>6. Halves(w, from, t, d)
      BY <1>11, <3>4, CutsBack
    <3>7. b.lines \in Seq(Row) /\ r + 1 \in 1 .. Len(b.lines)
      BY <1>2, <1>9, LinesAre
    <3>8. Here(gone) = w
      BY <3>5, <3>7 DEF Here, LineAt, Cursor
    <3>9. \A row : [gone.lines EXCEPT ![r + 1] = row] = [b.lines EXCEPT ![r + 1] = row]
      BY <3>5, <3>7
    <3> QED
      BY <3>5, <3>6, <3>8, <3>9 DEF Halves
  <2>2. CASE ~(end > from)
    <3>1. gone = b /\ from = c
      BY <1>5, <1>8, <1>12, <2>2
    <3> QED
      BY <1>6, <1>9, <1>10, <3>1
  <2> QED
    BY <2>1, <2>2
<1>14. PICK sign : sign = Sign(kind)
  OBVIOUS
<1>15. PICK blank : blank = <<Blank>>
  OBVIOUS
<1>16. sign \in Seq(Letter) /\ name \in Seq(Letter) /\ blank \in Seq(Letter) /\ t \in Seq(Letter)
  <2>1. MentionSign \in Letter /\ Blank \in Letter
    BY DEF Letter
  <2>2. sign = <<MentionSign>> \/ sign = <<>>
    BY <1>14 DEF Sign
  <2>3. <<MentionSign>> \in Seq(Letter) /\ <<>> \in Seq(Letter) /\ blank \in Seq(Letter)
    BY <1>15, <2>1
  <2>4. name \in Seq(Letter) /\ t \in Seq(Letter)
    BY <1>1, <1>11 DEF Row
  <2> QED
    BY <2>2, <2>3, <2>4
<1>17. PICK sn : sn = sign \o name
  OBVIOUS
<1>18. PICK txt : txt = sn \o blank
  OBVIOUS
<1>19. sn \in Seq(Letter) /\ txt \in Seq(Letter)
  BY <1>16, <1>17, <1>18
<1>20. t \o txt = t \o sign \o name \o blank
  <2>1. PICK V : V = Letter
    OBVIOUS
  <2>2. \A x, y, v \in Seq(V) : (x \o y) \o v = x \o (y \o v)
    BY ConcatAssociative
  <2>3. t \in Seq(V) /\ sign \in Seq(V) /\ name \in Seq(V) /\ blank \in Seq(V) /\ sn \in Seq(V)
    BY <1>16, <1>19, <2>1
  <2>4. (t \o sn) \o blank = t \o (sn \o blank)
    <3>1. t \in Seq(V) /\ sn \in Seq(V) /\ blank \in Seq(V)
      BY <2>3
    <3> HIDE <1>17, <1>18
    <3> QED
      BY <2>2, <3>1, Zenon
  <2>5. (t \o sign) \o name = t \o (sign \o name)
    BY <2>2, <2>3, Zenon
  <2> QED
    BY <1>17, <1>18, <2>4, <2>5
<1>21. Accept(b, p, kind, Candidates[kind]) = Insert(gone, txt)
  BY <1>7, <1>12, <1>14, <1>15, <1>17, <1>18 DEF Accept, SelectedName
<1>22. Calm(e) /\ e.lines = [gone.lines EXCEPT ![r + 1] = t \o txt \o d]
  <2>1. txt \in Row /\ e = Insert(gone, txt) /\ Calm(gone) /\ gone.mode = "insert" /\ gone.cursor = Cursor(r, from)
    BY <1>13, <1>19, <1>21 DEF Row
  <2>2. Calm(e) /\ e.lines = [gone.lines EXCEPT ![r + 1] = Take(Here(gone), from) \o txt \o Drop(Here(gone), from)]
    <3>1. Spelled(gone, r, from, txt, e)
      BY <2>1, TypesText
    <3> QED
      BY <3>1 DEF Spelled
  <2> QED
    BY <1>13, <2>2
<1>23. e.lines = [b.lines EXCEPT ![r + 1] = t \o sign \o name \o blank \o d]
  BY <1>13, <1>20, <1>22
<1> QED
  BY <1>3, <1>4, <1>5, <1>6, <1>10, <1>14, <1>15, <1>22, <1>23 DEF Completed

\* Popups are open in insert mode, one at most, and what they hold stands
\* before the cursor.
MeansNow(kind, p, b) ==
  /\ p.active \in BOOLEAN
  /\ p.active => b.mode = "insert" /\ Means(kind, b, p.at, p.query)
  /\ p.filtered # <<>> => p.active
OneOpen(pops) == \A kind, other \in Kinds : pops[kind].active /\ pops[other].active => kind = other
PopupsMean(pops, b) == OneOpen(pops) /\ \A kind \in Kinds : MeansNow(kind, pops[kind], b)

HistIn(p) == p.hist \in 0 .. Len(History)

SoundInv == EditorInv /\ Sound(buf) /\ PopupsMean(popup, buf) /\ HistIn(parser)

\* A popup that is closed asks for nothing.
LEMMA ClosedMeans == ASSUME NEW kind, NEW b PROVE MeansNow(kind, Closed, b) /\ ~Closed.active
  BY DEF MeansNow, Closed

\* A popup that was refreshed fits the text it was refreshed for.
LEMMA RefreshMeans ==
  ASSUME NEW kind \in Kinds, NEW p, NEW b, Sound(b), b.mode = "insert", NEW q, q = Refresh(p, kind, b, Candidates[kind])
  PROVE  MeansNow(kind, q, b)
<1>1. Calm(b)
  BY DEF Sound, Sel
<1>2. PICK asked, hits : asked = Asked(kind, b) /\ hits = Filter(asked.query, Candidates[kind])
  OBVIOUS
<1>3. CASE ~asked.active
  BY <1>2, <1>3, ClosedMeans DEF Refresh
<1>4. CASE asked.active
  <2>1. PICK at, query : at = asked.at /\ query = asked.query
    OBVIOUS
  <2>2. Means(kind, b, at, query)
    BY <1>1, <1>2, <1>4, <2>1, AskedMeans
  <2>3. q.active = TRUE /\ q.at = at /\ q.query = query
    BY <1>2, <1>4, <2>1 DEF Refresh
  <2> QED
    BY <2>2, <2>3 DEF MeansNow
<1> QED
  BY <1>3, <1>4

\* A popup before the others have their say.
Fresh(pops, b, kind) == IF b.mode = "insert" THEN Refresh(pops[kind], kind, b, Candidates[kind]) ELSE Closed

\* All of them do, and one of them at most is open.
LEMMA RefreshedMeans ==
  ASSUME NEW b, Sound(b), NEW pops, pops = Refreshed(b)
  PROVE  PopupsMean(pops, b)
<1> DEFINE Ahead == [mention |-> {}, model |-> {"mention"}, mode |-> {"mention", "model"}]
<1>1. \A kind \in Kinds : pops[kind] = IF \E other \in Ahead[kind] : Fresh(popup, b, other).active THEN Closed ELSE Fresh(popup, b, kind)
  BY DEF Refreshed, Fresh
<1>2. ASSUME NEW kind \in Kinds PROVE MeansNow(kind, Fresh(popup, b, kind), b)
  <2>1. CASE b.mode = "insert"
    <3>1. PICK p, q : p = popup[kind] /\ q = Refresh(p, kind, b, Candidates[kind])
      OBVIOUS
    <3>2. MeansNow(kind, q, b)
      BY <2>1, <3>1, RefreshMeans
    <3> QED
      BY <2>1, <3>1, <3>2 DEF Fresh
  <2>2. CASE b.mode # "insert"
    BY <2>2, ClosedMeans DEF Fresh
  <2> QED
    BY <2>1, <2>2
<1>3. \A kind \in Kinds : MeansNow(kind, pops[kind], b)
  BY <1>1, <1>2, ClosedMeans
<1>4. OneOpen(pops)
  <2>1. PICK m, l, k : m = Fresh(popup, b, "mention").active /\ l = Fresh(popup, b, "model").active /\ k = Fresh(popup, b, "mode").active
    OBVIOUS
  <2>2. Ahead["mention"] = {} /\ Ahead["model"] = {"mention"} /\ Ahead["mode"] = {"mention", "model"}
    OBVIOUS
  <2>3. pops["mention"].active => m
    BY <1>1, <2>1, <2>2, ClosedMeans DEF Kinds
  <2>4. pops["model"].active => ~m /\ l
    BY <1>1, <2>1, <2>2, ClosedMeans DEF Kinds
  <2>5. pops["mode"].active => ~m /\ ~l
    BY <1>1, <2>1, <2>2, ClosedMeans DEF Kinds
  <2> HIDE DEF Ahead
  <2> QED
    BY <2>3, <2>4, <2>5 DEF OneOpen, Kinds
<1> QED
  BY <1>3, <1>4 DEF PopupsMean

\* Closing a popup.
LEMMA ClosesPopup ==
  ASSUME NEW pops, DOMAIN pops = Kinds, NEW b, PopupsMean(pops, b), NEW kind \in Kinds, NEW new, new = [pops EXCEPT ![kind] = Closed]
  PROVE  /\ PopupsMean(new, b)
         /\ pops[kind].active => \A c : PopupsMean(new, c)
<1>1. new[kind] = Closed /\ \A other \in Kinds : other # kind => new[other] = pops[other]
  OBVIOUS
<1>2. \A k \in Kinds : new[k].active => pops[k].active /\ k # kind
  BY <1>1, ClosedMeans
<1>3. OneOpen(new)
  BY <1>2 DEF OneOpen, PopupsMean
<1>4. ASSUME NEW k \in Kinds PROVE MeansNow(k, new[k], b)
  BY <1>1, ClosedMeans DEF PopupsMean
<1>5. ASSUME pops[kind].active, NEW c, NEW k \in Kinds PROVE MeansNow(k, new[k], c)
  <2>1. CASE k = kind
    BY <1>1, <2>1, ClosedMeans
  <2>2. CASE k # kind
    <3>1. new[k] = pops[k] /\ ~pops[k].active
      BY <1>1, <1>5, <2>2 DEF PopupsMean, OneOpen
    <3>2. MeansNow(k, pops[k], b)
      BY DEF PopupsMean
    <3> QED
      BY <3>1, <3>2 DEF MeansNow
  <2> QED
    BY <2>1, <2>2
<1> QED
  BY <1>3, <1>4, <1>5 DEF PopupsMean

\* A key that a popup intercepts.
LEMMA PopupKeySound ==
  ASSUME SoundInv, NEW kind \in Kinds,
         Select(kind) \/ AcceptMatch(kind) \/ Dismiss(kind) \/ SubmitUnmatched(kind)
  PROVE  Sound(buf') /\ PopupsMean(popup', buf') /\ HistIn(parser')
<1>1. Sound(buf) /\ PopupsMean(popup, buf) /\ HistIn(parser) /\ DOMAIN popup = Kinds /\ Offers(kind, popup[kind])
  BY DEF SoundInv, EditorInv, PopupsOffer
<1>2. CASE Select(kind)
  <2>1. PICK s : popup' = [popup EXCEPT ![kind].selected = s]
    BY <1>2 DEF Select
  <2>2. PICK p, q : p = popup[kind] /\ q = [p EXCEPT !.selected = s]
    OBVIOUS
  <2>3. q.active = p.active /\ q.at = p.at /\ q.query = p.query /\ q.filtered = p.filtered
    BY <2>2
  <2>4. popup'[kind] = q /\ \A other \in Kinds : other # kind => popup'[other] = popup[other]
    BY <1>1, <2>1, <2>2
  <2>5. \A k \in Kinds : popup'[k].active = popup[k].active
    BY <2>2, <2>3, <2>4
  <2>6. OneOpen(popup')
    BY <1>1, <2>5 DEF PopupsMean, OneOpen
  <2>7. ASSUME NEW k \in Kinds PROVE MeansNow(k, popup'[k], buf)
    <3>1. MeansNow(k, popup[k], buf)
      BY <1>1 DEF PopupsMean
    <3> QED
      BY <2>2, <2>3, <2>4, <3>1 DEF MeansNow
  <2>8. PopupsMean(popup', buf)
    BY <2>6, <2>7 DEF PopupsMean
  <2>9. buf' = buf /\ parser' = parser
    BY <1>2 DEF Select
  <2> QED
    BY <1>1, <2>8, <2>9
<1>3. CASE AcceptMatch(kind)
  <2>1. PICK p, b, e : p = popup[kind] /\ b = buf /\ e = buf'
    OBVIOUS
  <2>2. p.active /\ p.filtered # <<>> /\ e = Accept(b, p, kind, Candidates[kind]) /\ popup' = [popup EXCEPT ![kind] = Closed] /\ parser' = parser
    BY <1>3, <2>1 DEF AcceptMatch, Open
  <2>3. Sound(b) /\ b.mode = "insert" /\ Means(kind, b, p.at, p.query) /\ Offers(kind, p)
    BY <1>1, <2>1, <2>2 DEF PopupsMean, MeansNow
  <2>4. Calm(b)
    BY <2>3 DEF Sound, Sel
  <2>5. PICK name : name = SelectedName(kind, p)
    OBVIOUS
  <2>6. Calm(e)
    BY <2>2, <2>3, <2>4, <2>5, AcceptsName
  <2>7. PopupsMean(popup', e)
    BY <1>1, <2>1, <2>2, ClosesPopup
  <2> QED
    BY <1>1, <2>1, <2>2, <2>6, <2>7 DEF Sound
<1>4. CASE Dismiss(kind)
  <2>1. buf' = buf /\ parser' = parser /\ popup' = [popup EXCEPT ![kind] = Closed]
    BY <1>4 DEF Dismiss
  <2> QED
    BY <1>1, <2>1, ClosesPopup
<1>5. CASE SubmitUnmatched(kind)
  BY <1>1, <1>5 DEF SubmitUnmatched
<1> QED
  BY <1>2, <1>3, <1>4, <1>5

\* The mode tells which of the two it is.
LEMMA SoundCalm == ASSUME NEW b, Sound(b) PROVE /\ b.mode \in {"normal", "insert"} => Calm(b)
                                                /\ IsVisual(b.mode) => Sel(b)
  BY DEF Sound, Calm, Sel, IsVisual

\* k and j stay within the history.
LEMMA RecallsIn ==
  ASSUME NEW p, HistIn(p), History # <<>>, NEW key, KeyChar(key) \in {"k", "j"}
  PROVE  RecallIndex(p, key, History) \in 1 .. Len(History)
<1>1. PICK n \in Nat : n = Len(History) /\ n >= 1
  BY HistoryAssumption
<1>2. PICK h : h = p.hist /\ h \in 0 .. n
  BY <1>1 DEF HistIn
<1>3. RecallIndex(p, key, History) = IF h = 0 THEN n ELSE IF KeyChar(key) = "k" THEN Most(h - 1, 1) ELSE Least(h + 1, n)
  BY <1>1, <1>2 DEF RecallIndex
<1> QED
  BY <1>1, <1>2, <1>3 DEF Most, Least

\* A key that reaches the buffer.
LEMMA BufferKeySound ==
  ASSUME SoundInv, EditKey
  PROVE  Sound(buf') /\ PopupsMean(popup', buf') /\ HistIn(parser')
<1>1. Sound(buf) /\ HistIn(parser) /\ ParserShape(parser)
  BY DEF SoundInv, EditorInv
<1>2. \A p : HistIn([p EXCEPT !.hist = 0]) \/ "hist" \notin DOMAIN p
  <2>1. Len(History) \in Nat
    BY HistoryAssumption
  <2> QED
    BY <2>1 DEF HistIn
<1>3. "hist" \in DOMAIN parser
  BY <1>1 DEF ParserShape
<1>4. ASSUME NEW key \in Typed \cup Named, InsertKey(key) PROVE Sound(buf') /\ HistIn(parser')
  <2>1. PICK b : b = buf
    OBVIOUS
  <2>2. Calm(b) /\ b.mode = "insert" /\ buf' = InInsert(b, key) /\ parser' = parser
    BY <1>1, <1>4, <2>1, SoundCalm DEF InsertKey
  <2>3. Calm(InInsert(b, key))
    BY <2>2, InInsertCalm
  <2> QED
    BY <1>1, <2>2, <2>3 DEF Sound
<1>5. ASSUME NEW key, RecallKey(key) PROVE Sound(buf') /\ HistIn(parser')
  <2>1. PICK idx : idx = RecallIndex(parser, key, History)
    OBVIOUS
  <2>2. parser' = [parser EXCEPT !.hist = idx] /\ buf' = Recalled(History[parser'.hist])
    BY <1>5, <2>1 DEF RecallKey
  <2>3. parser'.hist = idx
    BY <1>3, <2>2
  <2>4. idx \in 1 .. Len(History)
    BY <1>1, <1>5, <2>1, RecallsIn DEF RecallKey, IsRecallKey
  <2>5. Calm(Recalled(History[idx]))
    BY <2>4, RecalledCalm
  <2>6. Len(History) \in Nat
    BY HistoryAssumption
  <2> QED
    BY <2>2, <2>3, <2>4, <2>5, <2>6 DEF Sound, HistIn
<1>6. ASSUME NEW key, OwnKey(key) PROVE Sound(buf') /\ HistIn(parser')
  <2>1. PICK b : b = buf
    OBVIOUS
  <2>2. Calm(b) /\ b.mode = "normal" /\ key \in OwnKeys /\ buf' = Own(b, key) /\ parser' = [parser EXCEPT !.hist = 0]
    BY <1>1, <1>6, <2>1, SoundCalm DEF OwnKey
  <2>3. Sound(Own(b, key))
    BY <2>2, OwnSound
  <2> QED
    BY <1>2, <1>3, <2>2, <2>3
<1>7. ASSUME NEW key, CommandKey(key) PROVE Sound(buf') /\ HistIn(parser')
  <2>1. PICK b : b = buf
    OBVIOUS
  <2>2. PICK p : p = [parser EXCEPT !.hist = 0]
    OBVIOUS
  <2>3. PICK fed : fed = Feed(p, key)
    OBVIOUS
  <2>4. ParserShape(p) /\ HistIn(p)
    BY <1>1, <1>2, <1>3, <2>2, HistKept
  <2>5. FedFrom(p, fed)
    BY <2>3, <2>4, FeedShaped
  <2>6. IsCommand(fed.cmd) /\ fed.parser.hist = p.hist
    BY <2>5 DEF FedFrom, FedShape
  <2>7. buf.mode = "normal" /\ parser' = fed.parser /\ buf' = Execute(buf, fed.cmd)
    BY <1>7, <2>2, <2>3 DEF CommandKey
  <2>8. Calm(b)
    BY <1>1, <2>1, <2>7, SoundCalm
  <2>9. PICK cmd : cmd = fed.cmd
    OBVIOUS
  <2>10. Calm(Execute(b, cmd))
    BY <2>6, <2>8, <2>9, ExecuteCalm
  <2> QED
    BY <2>1, <2>4, <2>6, <2>7, <2>9, <2>10 DEF Sound, HistIn
<1>8. ASSUME NEW key, SelectionKey(key) PROVE Sound(buf') /\ HistIn(parser')
  <2>1. PICK b : b = buf
    OBVIOUS
  <2>2. Sel(b) /\ key \in VisualKeys /\ buf' = OnSelection(b, key) /\ parser' = parser
    BY <1>1, <1>8, <2>1, SoundCalm DEF SelectionKey
  <2>3. Calm(OnSelection(b, key))
    BY <2>2, OnSelectionCalm
  <2> QED
    BY <1>1, <2>2, <2>3 DEF Sound
<1>9. ASSUME NEW key, ExtendKey(key) PROVE Sound(buf') /\ HistIn(parser')
  <2>1. PICK b : b = buf
    OBVIOUS
  <2>2. PICK p : p = parser
    OBVIOUS
  <2>3. PICK x : x = ExtendSelection(b, p, key)
    OBVIOUS
  <2>4. Sel(b) /\ ParserShape(p) /\ parser' = x.parser /\ buf' = x.buf
    BY <1>1, <1>9, <2>1, <2>2, <2>3, SoundCalm DEF ExtendKey
  <2>5. Sel(ExtendSelection(b, p, key).buf) /\ ExtendSelection(b, p, key).parser.hist = p.hist
    BY <2>4, ExtendSel
  <2> QED
    BY <1>1, <2>2, <2>3, <2>4, <2>5 DEF Sound, HistIn
<1>10. Sound(buf') /\ HistIn(parser')
  BY <1>4, <1>5, <1>6, <1>7, <1>8, <1>9 DEF EditKey
<1>11. PopupsMean(popup', buf')
  <2>1. PICK c, pops : c = buf' /\ pops = Refreshed(c)
    OBVIOUS
  <2>2. popup' = pops
    BY <2>1 DEF EditKey
  <2>3. Sound(c)
    BY <1>10, <2>1
  <2>4. PopupsMean(pops, c)
    BY <2>1, <2>3, RefreshedMeans
  <2> QED
    BY <2>1, <2>2, <2>4
<1> QED
  BY <1>10, <1>11

\* A call starts sound.
LEMMA InitSound == Init => SoundInv
<1> SUFFICES ASSUME Init PROVE SoundInv
  OBVIOUS
<1>1. EditorInv
  BY InitTurns
<1>2. Len(History) \in Nat /\ DOMAIN History = 1 .. Len(History)
  BY HistoryAssumption
<1>3. ASSUME buf = InsertBefore(NewBuffer), parser = Idle PROVE Sound(buf) /\ HistIn(parser)
  BY <1>2, <1>3, NewCalm DEF Sound, HistIn, Idle
<1>4. ASSUME NEW idx \in DOMAIN History, buf = Recalled(History[idx]), parser = [Idle EXCEPT !.hist = idx]
      PROVE  Sound(buf) /\ HistIn(parser)
  <2>1. idx \in 1 .. Len(History)
    BY <1>2
  <2>2. parser.hist = idx
    BY <1>4 DEF Idle
  <2>3. Calm(Recalled(History[idx]))
    BY <2>1, RecalledCalm
  <2> QED
    BY <1>2, <1>4, <2>1, <2>2, <2>3 DEF Sound, HistIn
<1>5. PopupsMean(popup, buf)
  <2>1. \A kind \in Kinds : popup[kind] = Closed
    BY DEF Init, AllClosed
  <2> QED
    BY <2>1, ClosedMeans DEF PopupsMean, OneOpen
<1> QED
  BY <1>1, <1>3, <1>4, <1>5 DEF Init, SoundInv

\* And every round keeps it so.
LEMMA RoundSound == SoundInv /\ [Next]_vars => SoundInv'
<1> SUFFICES ASSUME SoundInv, [Next]_vars PROVE SoundInv'
  OBVIOUS
<1>1. EditorInv /\ EditorInv'
  BY RoundTurns DEF SoundInv
<1>2. Sound(buf) /\ PopupsMean(popup, buf) /\ HistIn(parser)
  BY DEF SoundInv
<1>3. ASSUME UNCHANGED vars PROVE Sound(buf') /\ PopupsMean(popup', buf') /\ HistIn(parser')
  BY <1>2, <1>3 DEF vars
<1>4. ASSUME NEW key, EndKey(key) PROVE Sound(buf') /\ PopupsMean(popup', buf') /\ HistIn(parser')
  BY <1>2, <1>4 DEF EndKey, Ends
<1>5. ASSUME Next PROVE Sound(buf') /\ PopupsMean(popup', buf') /\ HistIn(parser')
  BY <1>4, <1>5, PopupKeySound, BufferKeySound DEF Next, Key
<1>6. Sound(buf') /\ PopupsMean(popup', buf') /\ HistIn(parser')
  BY <1>3, <1>5
<1> QED
  BY <1>1, <1>6 DEF SoundInv

\* Accepting a completion is exact: what the popup was asked for is what stands
\* before the cursor at that moment, and the name with its sign and a blank
\* replaces these characters and no others (the accept functions of mention.rs, model_picker.rs and mode_picker.rs).
THEOREM CompletionIsExact == Spec => CompletionReplacesTyped
<1>1. ASSUME SoundInv, NEW kind \in Kinds, AcceptMatch(kind)
      PROVE  LET p    == popup[kind]
                 line == Here(buf)
                 name == Candidates[kind][p.filtered[p.selected + 1]]
             IN  /\ Drop(Take(line, buf.cursor.col), p.at.col) = Sign(kind) \o p.query
                 /\ buf'.lines = [buf.lines EXCEPT ![buf.cursor.row + 1] =
                         Take(line, p.at.col) \o Sign(kind) \o name \o <<Blank>>
                         \o Drop(line, buf.cursor.col)]
  <2>1. Sound(buf) /\ PopupsMean(popup, buf) /\ Offers(kind, popup[kind])
    BY <1>1 DEF SoundInv, EditorInv, PopupsOffer
  <2>2. PICK p, b, e : p = popup[kind] /\ b = buf /\ e = buf'
    OBVIOUS
  <2>3. p.active /\ p.filtered # <<>> /\ e = Accept(b, p, kind, Candidates[kind])
    BY <1>1, <2>2 DEF AcceptMatch, Open
  <2>4. Sound(b) /\ b.mode = "insert" /\ Means(kind, b, p.at, p.query) /\ Offers(kind, p)
    BY <2>1, <2>2, <2>3 DEF PopupsMean, MeansNow
  <2>5. Calm(b)
    BY <2>4, SoundCalm
  <2>6. PICK name : name = SelectedName(kind, p)
    OBVIOUS
  <2>7. e.lines = Completed(kind, b, p.at, name)
    BY <2>3, <2>4, <2>5, <2>6, AcceptsName
  <2>8. Drop(Take(Here(b), b.cursor.col), p.at.col) = Sign(kind) \o p.query
    BY <2>4 DEF Means
  <2> QED
    BY <2>2, <2>6, <2>7, <2>8 DEF Completed, SelectedName
<1>2. SoundInv /\ [Next]_vars =>
        [\A kind \in Kinds : AcceptMatch(kind) =>
            LET p    == popup[kind]
                line == Here(buf)
                name == Candidates[kind][p.filtered[p.selected + 1]]
            IN  /\ Drop(Take(line, buf.cursor.col), p.at.col) = Sign(kind) \o p.query
                /\ buf'.lines = [buf.lines EXCEPT ![buf.cursor.row + 1] =
                        Take(line, p.at.col) \o Sign(kind) \o name \o <<Blank>>
                        \o Drop(line, buf.cursor.col)]]_vars
  BY <1>1
<1> QED
  BY <1>2, InitSound, RoundSound, PTL DEF Spec, CompletionReplacesTyped

-----------------------------------------------------------------------------
\* What the frame shows

\* The cursor's line and the selected name are drawn.
LEMMA CursorIsShown == SoundInv => CursorShown
<1> SUFFICES ASSUME SoundInv PROVE CursorShown
  OBVIOUS
<1>1. Sound(buf) /\ PopupsMean(popup, buf) /\ \A kind \in Kinds : Offers(kind, popup[kind])
  BY DEF SoundInv, EditorInv, PopupsOffer
<1>2. PICK n \in Nat, r \in Nat : n = Len(buf.lines) /\ r = buf.cursor.row /\ r < n
  <2>1. PICK b : b = buf
    OBVIOUS
  <2>2. Fits(b) /\ InRow(b)
    BY <1>1, <2>1, SoundStands
  <2>3. LastRow(b) \in Nat /\ Len(b.lines) = LastRow(b) + 1 /\ b.cursor.row \in 0 .. LastRow(b)
    BY <2>2, LinesAre DEF InRow
  <2> QED
    BY <2>1, <2>3
<1>3. PICK cap \in Nat : cap = MaxRows /\ cap >= 3
  BY FrameAssumption
<1>4. PICK pr : pr = PopupRows(popup)
  OBVIOUS
<1>5. PICK tall : tall = Most(n + pr + 1, 2)
  OBVIOUS
<1>6. PICK H : H = Least(tall, cap)
  OBVIOUS
<1>7. FrameHeight = H
  BY <1>2, <1>3, <1>4, <1>5, <1>6 DEF FrameHeight
<1>8. PICK txt : txt = Most(H - 1 - pr, 1)
  OBVIOUS
<1>9. TextRows = txt
  BY <1>4, <1>7, <1>8 DEF TextRows
<1>10. ASSUME ~AnyOpen PROVE buf.cursor.row - Scroll \in 0 .. (TextRows - 1)
  <2>1. pr = 0
    <3>1. {k \in Kinds : popup[k].active} = {}
      BY <1>10 DEF AnyOpen
    <3> QED
      BY <1>4, <3>1 DEF PopupRows
  <2>2. H \in Nat /\ H >= 2
    <3>1. tall \in Nat /\ tall >= 2
      BY <1>5, <2>1 DEF Most
    <3> QED
      BY <1>3, <1>6, <3>1 DEF Least
  <2>3. PICK rows : rows = Most(H - 1, 1)
    OBVIOUS
  <2>4. rows = H - 1 /\ txt = rows /\ rows \in Nat /\ rows >= 1
    BY <1>8, <2>1, <2>2, <2>3 DEF Most
  <2>5. RenderedRows = rows
    BY <1>7, <2>3 DEF RenderedRows
  <2>6. PICK over : over = IF r >= rows THEN r + 1 - rows ELSE 0
    OBVIOUS
  <2>7. PICK rest : rest = Most(n - rows, 0)
    OBVIOUS
  <2>8. PICK least : least = Least(rest, r)
    OBVIOUS
  <2>9. Scroll = Least(over, least)
    BY <1>2, <2>5, <2>6, <2>7, <2>8 DEF Scroll
  <2>10. over \in Nat /\ rest \in Nat /\ over <= rest /\ over <= r
    BY <1>2, <2>4, <2>6, <2>7 DEF Most
  <2>11. least \in Nat /\ over <= least
    BY <2>8, <2>10 DEF Least
  <2>12. Scroll = over
    BY <2>9, <2>10, <2>11 DEF Least
  <2>13. r - over \in 0 .. rows - 1
    BY <2>4, <2>6
  <2> QED
    BY <1>2, <1>9, <2>4, <2>12, <2>13
<1>11. ASSUME NEW kind \in Kinds, popup[kind].filtered # <<>>
       PROVE  popup[kind].selected - BandTop(popup[kind]) \in 0 .. (BandRows - 1)
  <2>1. PICK p : p = popup[kind]
    OBVIOUS
  <2>2. p.active /\ Offers(kind, p)
    BY <1>1, <1>11, <2>1 DEF PopupsMean, MeansNow
  <2>3. {k \in Kinds : popup[k].active} = {kind}
    BY <1>1, <2>1, <2>2 DEF PopupsMean, OneOpen
  <2>4. PICK l \in Nat, s \in Nat : l = Len(p.filtered) /\ s = p.selected /\ l >= 1
    <3>1. p.filtered \in Seq(1 .. Len(Candidates[kind])) /\ p.selected \in Nat /\ p.filtered # <<>>
      BY <1>11, <2>1, <2>2 DEF Offers
    <3> QED
      BY <3>1
  <2>5. pr = Least(l, PopupMax)
    <3>1. PICK open : open = {k \in Kinds : popup[k].active}
      OBVIOUS
    <3>2. open = {kind} /\ open # {} /\ (CHOOSE k \in open : TRUE) = kind
      BY <2>3, <3>1
    <3>3. pr = IF open = {} THEN 0 ELSE Least(Len(popup[CHOOSE k \in open : TRUE].filtered), PopupMax)
      BY <1>4, <3>1 DEF PopupRows
    <3> QED
      BY <2>1, <2>4, <3>2, <3>3
  <2>6. pr \in Nat /\ pr >= 1
    BY <2>4, <2>5 DEF Least, PopupMax
  <2>7. tall \in Nat /\ tall >= 3
    BY <1>2, <1>5, <2>6 DEF Most
  <2>8. H \in Nat /\ H >= 3
    BY <1>3, <1>6, <2>7 DEF Least
  <2>9. PICK band : band = H - 1 - txt
    OBVIOUS
  <2>10. band \in Nat /\ band >= 1
    BY <1>8, <2>6, <2>8, <2>9 DEF Most
  <2>11. BandRows = band
    BY <1>7, <1>9, <2>9 DEF BandRows
  <2>12. PICK above : above = Most(band - 1, 0)
    OBVIOUS
  <2>13. above = band - 1
    BY <2>10, <2>12 DEF Most
  <2>14. PICK top : top = Most(s - above, 0)
    OBVIOUS
  <2>15. BandTop(p) = top
    BY <2>4, <2>11, <2>12, <2>14 DEF BandTop
  <2>16. s - top \in 0 .. band - 1
    BY <2>4, <2>10, <2>13, <2>14 DEF Most
  <2> QED
    BY <2>1, <2>4, <2>11, <2>15, <2>16
<1> QED
  BY <1>10, <1>11 DEF CursorShown

\* The size of a text, row by row.
LEMMA SizeIs ==
  ASSUME NEW lines \in Seq(Row), NEW s, s = SizeTo(lines)
  PROVE  /\ s[0] = 0
         /\ \A n \in 0 .. Len(lines) : s[n] \in Nat
         /\ \A n \in Nat : n < Len(lines) => s[n + 1] = s[n] + Len(lines[n + 1])
<1>1. PICK m \in Nat : m = Len(lines)
  OBVIOUS
<1>2. \A n \in 1 .. m : Len(lines[n]) \in Nat
  <2>1. \A n \in 1 .. m : lines[n] \in Row
    BY <1>1
  <2>2. \A line \in Row : Len(line) \in Nat
    BY DEF Row
  <2> QED
    BY <2>1, <2>2
<1> DEFINE S == Nat
           x0 == 0
           F == [n \in Nat |-> [x \in S |-> IF n < m THEN x + Len(lines[n + 1]) ELSE x]]
<1>3. F \in [Nat -> [S -> S]]
  <2>1. ASSUME NEW n \in Nat, NEW x \in S PROVE (IF n < m THEN x + Len(lines[n + 1]) ELSE x) \in S
    <3>1. n < m => Len(lines[n + 1]) \in Nat
      BY <1>2
    <3> QED
      BY <3>1
  <2> QED
    BY <2>1
<1>4. \A n \in Nat, x \in S : F[n][x] = IF n < m THEN x + Len(lines[n + 1]) ELSE x
  OBVIOUS
<1>5. x0 \in S
  OBVIOUS
<1>6. x0 = 0 /\ S = Nat
  OBVIOUS
<1> HIDE DEF S, x0, F
<1>7. PICK f : Iterated(f, S, x0, F)
  BY <1>3, <1>5, Iterates
<1>8. f \in [Nat -> S] /\ f[0] = x0 /\ \A n \in Nat : f[n + 1] = F[n][f[n]]
  BY <1>7 DEF Iterated
<1>9. ASSUME NEW n \in 1 .. m PROVE f[n] = f[n - 1] + Len(lines[n])
  <2>1. PICK k \in Nat : k = n - 1
    OBVIOUS
  <2>2. n \in Nat /\ n # 0 /\ k < m /\ k + 1 = n
    BY <2>1
  <2>3. f[n] = F[k][f[k]]
    BY <1>8, <2>2
  <2>4. f[k] \in S
    BY <1>8
  <2>5. F[k][f[k]] = f[k] + Len(lines[k + 1])
    BY <1>4, <2>2, <2>4
  <2> QED
    BY <2>1, <2>2, <2>3, <2>5
<1>10. f[0] = 0
  BY <1>8, <1>6
<1> DEFINE g == [n \in 0 .. m |-> f[n]]
<1>11. g = [n \in 0 .. m |-> IF n = 0 THEN 0 ELSE g[n - 1] + Len(lines[n])]
  <2>1. \A n \in 0 .. m : f[n] = IF n = 0 THEN 0 ELSE g[n - 1] + Len(lines[n])
    <3> SUFFICES ASSUME NEW n \in 0 .. m PROVE f[n] = IF n = 0 THEN 0 ELSE g[n - 1] + Len(lines[n])
      OBVIOUS
    <3>1. CASE n = 0
      BY <1>10, <3>1
    <3>2. CASE n # 0
      <4>1. n \in 1 .. m /\ n - 1 \in 0 .. m
        BY <3>2
      <4> QED
        BY <1>9, <3>2, <4>1
    <3> QED
      BY <3>1, <3>2
  <2> QED
    BY <2>1
<1>12. s = CHOOSE size : size = [n \in 0 .. m |-> IF n = 0 THEN 0 ELSE size[n - 1] + Len(lines[n])]
  BY <1>1 DEF SizeTo
<1> HIDE DEF g
<1>13. s = [n \in 0 .. m |-> IF n = 0 THEN 0 ELSE s[n - 1] + Len(lines[n])]
  BY <1>11, <1>12
<1>14. s[0] = 0
  BY <1>13
<1>15. ASSUME NEW n \in Nat, n < m PROVE s[n + 1] = s[n] + Len(lines[n + 1])
  <2>1. PICK k \in Nat : k = n + 1
    OBVIOUS
  <2>2. k \in 0 .. m /\ k # 0 /\ k - 1 = n
    BY <1>15, <2>1
  <2>3. s[k] = s[k - 1] + Len(lines[k])
    BY <1>13, <2>2
  <2> QED
    BY <2>1, <2>2, <2>3
<1> DEFINE T == {n \in Nat : n <= m /\ s[n] \in Nat}
<1>16. 0 .. m \subseteq T
  <2>1. 0 \in T
    BY <1>14
  <2>2. ASSUME NEW n \in Nat, n < m, n \in T PROVE n + 1 \in T
    <3>1. Len(lines[n + 1]) \in Nat
      BY <1>2, <2>2
    <3>2. s[n] \in Nat
      BY <2>2
    <3>3. s[n + 1] = s[n] + Len(lines[n + 1])
      BY <1>15, <2>2
    <3>4. s[n + 1] \in Nat
      BY <3>1, <3>2, <3>3
    <3> QED
      BY <2>2, <3>4
  <2> HIDE DEF T
  <2> QED
    BY <2>1, <2>2, Reaches
<1> QED
  BY <1>1, <1>14, <1>15, <1>16

\* The same rows have the same size wherever they stand.
Even(s, from, t, at, m) == s[from + m] - s[from] = t[at + m] - t[at]

LEMMA SizeShifts ==
  ASSUME NEW a \in Seq(Row), NEW c \in Seq(Row), NEW from \in Nat, NEW at \in Nat, NEW m \in Nat,
         from + m <= Len(a), at + m <= Len(c), \A j \in 1 .. m : a[from + j] = c[at + j],
         NEW s, NEW t, s = SizeTo(a), t = SizeTo(c)
  PROVE  Even(s, from, t, at, m)
<1>1. /\ \A n \in 0 .. Len(a) : s[n] \in Nat
      /\ \A n \in Nat : n < Len(a) => s[n + 1] = s[n] + Len(a[n + 1])
  BY SizeIs
<1>2. /\ \A n \in 0 .. Len(c) : t[n] \in Nat
      /\ \A n \in Nat : n < Len(c) => t[n + 1] = t[n] + Len(c[n + 1])
  BY SizeIs
<1> DEFINE T == {k \in Nat : k <= m /\ Even(s, from, t, at, k)}
<1>3. 0 \in T
  <2>1. from \in 0 .. Len(a) /\ at \in 0 .. Len(c) /\ from + 0 = from /\ at + 0 = at
    OBVIOUS
  <2>2. s[from] \in Nat /\ t[at] \in Nat
    BY <1>1, <1>2, <2>1
  <2>3. Even(s, from, t, at, 0)
    BY <2>1, <2>2 DEF Even
  <2> QED
    BY <2>3
<1>4. ASSUME NEW k \in Nat, k < m, k \in T PROVE k + 1 \in T
  <2>1. PICK p \in Nat : p = from + k
    OBVIOUS
  <2>2. PICK q \in Nat : q = at + k
    OBVIOUS
  <2>3. PICK l \in Nat : l = k + 1
    OBVIOUS
  <2>4. p < Len(a) /\ q < Len(c) /\ l \in 1 .. m /\ from + l = p + 1 /\ at + l = q + 1
    BY <1>4, <2>1, <2>2, <2>3
  <2>5. a[p + 1] = c[q + 1]
    <3>1. \A j \in 1 .. m : a[from + j] = c[at + j]
      OBVIOUS
    <3>2. a[from + l] = c[at + l]
      BY <2>4, <3>1
    <3> QED
      BY <2>4, <3>2
  <2>6. s[p + 1] = s[p] + Len(a[p + 1]) /\ t[q + 1] = t[q] + Len(c[q + 1])
    BY <1>1, <1>2, <2>4
  <2>7. s[p] \in Nat /\ t[q] \in Nat /\ s[from] \in Nat /\ t[at] \in Nat /\ s[p + 1] \in Nat /\ t[q + 1] \in Nat
    <3>1. p \in 0 .. Len(a) /\ q \in 0 .. Len(c) /\ from \in 0 .. Len(a) /\ at \in 0 .. Len(c)
          /\ p + 1 \in 0 .. Len(a) /\ q + 1 \in 0 .. Len(c)
      BY <2>1, <2>2, <2>4
    <3> QED
      BY <1>1, <1>2, <3>1
  <2>8. s[p] - s[from] = t[q] - t[at]
    BY <1>4, <2>1, <2>2 DEF Even
  <2>9. PICK z : z = Len(a[p + 1])
    OBVIOUS
  <2>10. s[p + 1] = s[p] + z /\ t[q + 1] = t[q] + z
    BY <2>5, <2>6, <2>9
  <2>11. z \in Nat
    <3>1. p + 1 \in 1 .. Len(a)
      BY <2>4
    <3>2. a[p + 1] \in Row
      BY <3>1
    <3> QED
      BY <2>9, <3>2 DEF Row
  <2>12. s[p + 1] - s[from] = t[q + 1] - t[at]
    <3>1. PICK sp \in Nat : sp = s[p]
      BY <2>7
    <3>2. PICK tq \in Nat : tq = t[q]
      BY <2>7
    <3>3. PICK sf \in Nat : sf = s[from]
      BY <2>7
    <3>4. PICK ta \in Nat : ta = t[at]
      BY <2>7
    <3>5. sp - sf = tq - ta
      BY <2>8, <3>1, <3>2, <3>3, <3>4
    <3>6. (sp + z) - sf = (tq + z) - ta
      BY <2>11, <3>5
    <3>7. s[p + 1] = sp + z /\ t[q + 1] = tq + z
      BY <2>10, <3>1, <3>2
    <3> QED
      BY <3>3, <3>4, <3>6, <3>7
  <2>13. Even(s, from, t, at, l)
    BY <2>4, <2>12 DEF Even
  <2> QED
    BY <2>3, <2>4, <2>13
<1>5. 0 .. m \subseteq T
  <2> HIDE DEF T
  <2> QED
    BY <1>3, <1>4, Reaches
<1>6. m \in T
  BY <1>5
<1> QED
  BY <1>6

\* What is taken from a row of a selection, and what of it is drawn.
FirstCol(b, lo, r) == IF r = lo.row THEN lo.col ELSE 0
EndCol(b, hi, r) == IF r = hi.row THEN Least(hi.col + 1, Len(LineAt(b, r))) ELSE Len(LineAt(b, r))
Cuts(b, r, start, stop, part) ==
  /\ start \in Nat /\ stop \in Nat /\ start <= stop /\ stop <= Len(LineAt(b, r))
  /\ part = SubSeq(LineAt(b, r), start + 1, stop) /\ Len(part) = stop - start
  /\ Highlighted(b, r) = start .. stop - 1

\* What is drawn of a row is what is taken from it.
LEMMA PartIsCut ==
  ASSUME NEW b, Sel(b), b.mode # "vline", NEW lo, NEW hi, SelectionEnds(b, lo, hi), NEW r \in lo.row .. hi.row,
         NEW start, start = FirstCol(b, lo, r), NEW stop, stop = EndCol(b, hi, r), NEW part, part = Part(b, lo, hi, r)
  PROVE  Cuts(b, r, start, stop, part)
<1>1. Spans(b, lo, hi) /\ InText(b, lo) /\ InText(b, hi) /\ (lo.row = hi.row => lo.col <= hi.col) /\ Fits(b)
  BY SelectionSpans DEF Sel
<1>2. PICK low \in Nat : low = lo.row
  BY <1>1 DEF Spans, Place
<1>3. PICK high \in Nat : high = hi.row
  BY <1>1 DEF Spans, Place
<1>4. PICK left \in Nat : left = lo.col
  BY <1>1 DEF Spans, Place
<1>5. PICK right \in Nat : right = hi.col
  BY <1>1 DEF Spans, Place
<1>6. r \in 0 .. LastRow(b) /\ r \in low .. high
  BY <1>1, <1>2, <1>3, LinesAre DEF Spans
<1>7. PICK line \in Row, n \in Nat : line = LineAt(b, r) /\ n = Len(line)
  BY <1>1, <1>6, LinesAre
<1>8. line \in Seq(Letter)
  BY DEF Row
<1>9. b.mode = "visual" /\ IsVisual(b.mode)
  BY DEF Sel, IsVisual
<1>10. (r = low => left <= Most(n - 1, 0)) /\ (r = high => right <= Most(n - 1, 0))
  BY <1>1, <1>2, <1>3, <1>4, <1>5, <1>7, <1>9 DEF InText, LastCol
<1>11. PICK w : w = Least(right + 1, n)
  OBVIOUS
<1>12. /\ w \in Nat /\ w <= n /\ (r = low => left <= n) /\ (r = high /\ r = low => left <= w)
       /\ (r = high => Least(n - 1, right) = w - 1)
  BY <1>1, <1>2, <1>3, <1>4, <1>5, <1>10, <1>11 DEF Least, Most
<1>13. start = (IF r = low THEN left ELSE 0) /\ stop = (IF r = high THEN w ELSE n)
  BY <1>2, <1>3, <1>4, <1>5, <1>7, <1>11 DEF FirstCol, EndCol
<1>14. start \in Nat /\ stop \in Nat /\ start <= stop /\ stop <= n
  BY <1>12, <1>13
<1>15. Highlighted(b, r) = start .. stop - 1
  <2>1. Highlighted(b, r) = (IF r = low THEN left ELSE 0) .. Least(n - 1, IF r = high THEN right ELSE n - 1)
    BY <1>2, <1>3, <1>4, <1>5, <1>6, <1>7, <1>9 DEF Highlighted, SelectionEnds
  <2>2. Least(n - 1, n - 1) = n - 1
    BY DEF Least
  <2>3. Least(n - 1, IF r = high THEN right ELSE n - 1) = stop - 1
    BY <1>12, <1>13, <2>2
  <2> QED
    BY <1>13, <2>1, <2>3
<1>16. PICK cut : cut = SubSeq(line, start + 1, stop)
  OBVIOUS
<1>17. cut \in Seq(Letter) /\ Len(cut) = stop - start
  <2>1. stop <= Len(line)
    BY <1>7, <1>14
  <2> QED
    BY <1>8, <1>14, <1>16, <2>1, PartOf
<1>18. PICK t : t = Take(line, right + 1)
  OBVIOUS
<1>19. t = SubSeq(line, 1, w)
  BY <1>7, <1>11, <1>18 DEF Take
<1>20. part = cut
  <2>1. CASE r = low /\ r = high
    <3>1. PICK d : d = Drop(Take(line, w), left)
      OBVIOUS
    <3>2. PICK u \in Nat : u = w
      BY <1>12
    <3>3. /\ line \in Row /\ left \in Nat /\ u \in Nat
          /\ left <= u /\ u <= Len(line) /\ d = Drop(Take(line, u), left)
      BY <1>7, <1>12, <2>1, <3>1, <3>2
    <3>4. IsCut(line, left, u, d)
      BY <3>3, CutsTwice
    <3>5. d = SubSeq(line, left + 1, w)
      BY <3>2, <3>4 DEF IsCut
    <3>6. Take(line, w) = t
      <4>1. Least(w, n) = w
        BY <1>12 DEF Least
      <4> QED
        BY <1>7, <1>19, <4>1 DEF Take
    <3>7. part = Drop(t, left)
      BY <1>2, <1>3, <1>4, <1>5, <1>7, <1>18, <2>1 DEF Part
    <3> QED
      BY <1>13, <1>16, <2>1, <3>1, <3>5, <3>6, <3>7
  <2>2. CASE r = low /\ r # high
    <3>1. part = Drop(line, left)
      BY <1>2, <1>3, <1>4, <1>7, <2>2 DEF Part
    <3>2. Least(left, n) = left
      BY <1>12, <2>2 DEF Least
    <3>3. part = SubSeq(line, left + 1, n)
      BY <1>7, <3>1, <3>2 DEF Drop
    <3> QED
      BY <1>13, <1>16, <2>2, <3>3
  <2>3. CASE r # low /\ r = high
    <3>1. part = t
      BY <1>2, <1>3, <1>5, <1>7, <1>18, <2>3 DEF Part
    <3>2. 0 + 1 = 1
      OBVIOUS
    <3> QED
      BY <1>13, <1>16, <1>19, <2>3, <3>1, <3>2
  <2>4. CASE r # low /\ r # high
    <3>1. part = line
      BY <1>2, <1>3, <1>7, <2>4 DEF Part
    <3>2. SubSeq(line, 1, n) = line
      BY <1>7, <1>8, SubSeqFull
    <3>3. 0 + 1 = 1
      OBVIOUS
    <3> QED
      BY <1>13, <1>16, <2>4, <3>1, <3>2, <3>3
  <2> QED
    BY <2>1, <2>2, <2>3, <2>4
<1> QED
  BY <1>7, <1>14, <1>15, <1>16, <1>17, <1>20 DEF Cuts

\* The characters of the rows from..upto - 1 of a text.
Between(old, from, upto) == SizeTo(old)[upto] - SizeTo(old)[from]

\* The size of a text is that of all its rows.
LEMMA BetweenIs ==
  ASSUME NEW old \in Seq(Row), NEW n, n = Len(old)
  PROVE  /\ n \in Nat /\ Size(old) = SizeTo(old)[n] /\ SizeTo(old)[0] = 0
         /\ \A r \in 0 .. n : SizeTo(old)[r] \in Nat
<1>1. n \in Nat
  OBVIOUS
<1>2. PICK s : s = SizeTo(old)
  OBVIOUS
<1>3. s[0] = 0 /\ \A r \in 0 .. Len(old) : s[r] \in Nat
  BY <1>2, SizeIs
<1> QED
  BY <1>1, <1>2, <1>3 DEF Size

\* Two texts have m rows in common.
Common(a, from, c, at, m) ==
  from + m <= Len(a) /\ at + m <= Len(c) /\ \A j \in 1 .. m : a[from + j] = c[at + j]

\* The same rows in two texts have the same characters.
LEMMA SameRows ==
  ASSUME NEW a \in Seq(Row), NEW c \in Seq(Row), NEW from \in Nat, NEW at \in Nat, NEW m \in Nat, Common(a, from, c, at, m),
         NEW upto \in Nat, upto = from + m, NEW end \in Nat, end = at + m
  PROVE  Between(a, from, upto) = Between(c, at, end)
<1>2. from + m = upto /\ at + m = end /\ from + m <= Len(a) /\ at + m <= Len(c)
  BY DEF Common
<1>3. \A j \in 1 .. m : a[from + j] = c[at + j]
  BY DEF Common
<1>4. PICK s : s = SizeTo(a)
  OBVIOUS
<1>5. PICK t : t = SizeTo(c)
  OBVIOUS
<1>6. Even(s, from, t, at, m)
  BY <1>2, <1>3, <1>4, <1>5, SizeShifts
<1>7. s[upto] - s[from] = t[end] - t[at]
  BY <1>2, <1>6 DEF Even
<1> QED
  BY <1>4, <1>5, <1>7 DEF Between

\* The characters of a text in which rows were put in the place of others.
Resized(old, from, upto, new, lines) == Size(lines) = Size(old) - Between(old, from, upto) + Size(new)

\* Rows put in the place of others.
LEMMA PutsSize ==
  ASSUME NEW old \in Seq(Row), NEW from \in Nat, NEW upto \in Nat, from <= upto, upto <= Len(old), NEW new \in Seq(Row),
         NEW lines, RowsPut(old, from, upto, new, lines)
  PROVE  Resized(old, from, upto, new, lines)
<1>1. Came(old, from, upto, new, lines)
  BY RowsOf
<1>2. PICK n \in Nat : n = Len(old)
  OBVIOUS
<1>3. PICK m \in Nat : m = Len(new)
  OBVIOUS
<1>4. lines \in Seq(Row) /\ Len(lines) = from + m + (n - upto)
  BY <1>2, <1>3 DEF RowsPut
<1>5. PICK mid \in Nat : mid = from + m
  OBVIOUS
<1>6. PICK rest \in Nat : rest = n - upto
  <2>1. upto <= n
    BY <1>2
  <2> QED
    BY <2>1
<1>7. PICK len \in Nat : len = mid + rest
  BY <1>5
<1>8. Len(lines) = len /\ from <= mid /\ mid <= len /\ upto <= n /\ from <= n /\ upto + rest = n
  BY <1>2, <1>4, <1>5, <1>7, <1>6
<1>9. PICK zero \in Nat : zero = 0
  OBVIOUS
<1>10. Between(lines, zero, from) = Between(old, zero, from)
  <2>1. \A j \in 1 .. from : lines[zero + j] = old[zero + j]
    BY <1>1, <1>9 DEF Came
  <2>2. zero + from <= Len(lines) /\ zero + from <= Len(old) /\ from = zero + from
    BY <1>2, <1>8, <1>9
  <2>3. Common(lines, zero, old, zero, from)
    BY <2>1, <2>2 DEF Common
  <2> QED
    BY <1>4, <2>2, <2>3, SameRows
<1>11. Between(lines, from, mid) = Between(new, zero, m)
  <2>1. \A j \in 1 .. m : lines[from + j] = new[zero + j]
    BY <1>1, <1>3, <1>9 DEF Came
  <2>2. from + m <= Len(lines) /\ zero + m <= Len(new) /\ mid = from + m /\ m = zero + m
    BY <1>3, <1>5, <1>8, <1>9
  <2>3. Common(lines, from, new, zero, m)
    BY <2>1, <2>2 DEF Common
  <2> QED
    BY <1>4, <2>2, <2>3, SameRows
<1>12. Between(lines, mid, len) = Between(old, upto, n)
  <2>1. \A j \in 1 .. rest : lines[mid + j] = old[upto + j]
    BY <1>1, <1>2, <1>3, <1>5, <1>6 DEF Came
  <2>2. mid + rest <= Len(lines) /\ upto + rest <= Len(old) /\ len = mid + rest /\ n = upto + rest
    BY <1>2, <1>7, <1>8
  <2>3. Common(lines, mid, old, upto, rest)
    BY <2>1, <2>2 DEF Common
  <2> QED
    BY <1>4, <2>2, <2>3, SameRows
<1>13. /\ Size(lines) = SizeTo(lines)[len] /\ SizeTo(lines)[0] = 0
       /\ SizeTo(lines)[from] \in Nat /\ SizeTo(lines)[mid] \in Nat /\ SizeTo(lines)[len] \in Nat
  <2>1. from \in 0 .. len /\ mid \in 0 .. len /\ len \in 0 .. len
    BY <1>8
  <2> QED
    BY <1>4, <1>8, <2>1, BetweenIs
<1>14. /\ Size(old) = SizeTo(old)[n] /\ SizeTo(old)[0] = 0
       /\ SizeTo(old)[from] \in Nat /\ SizeTo(old)[upto] \in Nat /\ SizeTo(old)[n] \in Nat
  <2>1. from \in 0 .. n /\ upto \in 0 .. n /\ n \in 0 .. n
    BY <1>8
  <2> QED
    BY <1>2, <2>1, BetweenIs
<1>15. Size(new) = SizeTo(new)[m] /\ SizeTo(new)[0] = 0 /\ SizeTo(new)[m] \in Nat
  BY <1>3, BetweenIs
<1>16. PICK sl \in Nat : sl = SizeTo(lines)[len]
  BY <1>13
<1>17. PICK sf \in Nat : sf = SizeTo(lines)[from]
  BY <1>13
<1>18. PICK sm \in Nat : sm = SizeTo(lines)[mid]
  BY <1>13
<1>19. PICK so \in Nat : so = SizeTo(old)[n]
  BY <1>14
<1>20. PICK of \in Nat : of = SizeTo(old)[from]
  BY <1>14
<1>21. PICK ou \in Nat : ou = SizeTo(old)[upto]
  BY <1>14
<1>22. PICK sn \in Nat : sn = SizeTo(new)[m]
  BY <1>15
<1>23. sf - 0 = of - 0
  BY <1>10, <1>13, <1>14, <1>9, <1>17, <1>20 DEF Between
<1>24. sm - sf = sn - 0
  BY <1>11, <1>15, <1>9, <1>17, <1>18, <1>22 DEF Between
<1>25. sl - sm = so - ou
  BY <1>12, <1>16, <1>18, <1>19, <1>21 DEF Between
<1>26. sl = so - (ou - of) + sn
  <2>1. sf = of /\ sm = of + sn
    BY <1>23, <1>24
  <2> QED
    BY <1>25, <2>1
<1>27. Size(lines) = sl /\ Size(old) = so /\ Size(new) = sn /\ Between(old, from, upto) = ou - of
  BY <1>13, <1>14, <1>15, <1>16, <1>19, <1>20, <1>21, <1>22 DEF Between
<1> QED
  BY <1>26, <1>27 DEF Resized

\* A text of one row.
LEMMA OneRowSize ==
  ASSUME NEW line \in Row
  PROVE  <<line>> \in Seq(Row) /\ Size(<<line>>) = Len(line) /\ Len(line) \in Nat
<1>1. PICK txt : txt = <<line>>
  OBVIOUS
<1>2. txt \in Seq(Row) /\ Len(txt) = 1 /\ txt[1] = line
  BY <1>1
<1>3. Len(line) \in Nat
  BY DEF Row
<1>4. PICK s : s = SizeTo(txt)
  OBVIOUS
<1>5. s[0] = 0 /\ \A n \in Nat : n < Len(txt) => s[n + 1] = s[n] + Len(txt[n + 1])
  BY <1>2, <1>4, SizeIs
<1>6. s[0 + 1] = s[0] + Len(txt[0 + 1])
  BY <1>2, <1>5
<1>7. s[1] = Len(line)
  BY <1>2, <1>3, <1>5, <1>6
<1> QED
  BY <1>1, <1>2, <1>3, <1>4, <1>7 DEF Size

\* One row's characters.
LEMMA NextRow ==
  ASSUME NEW old \in Seq(Row), NEW r \in Nat, NEW u \in Nat, u = r + 1, u <= Len(old)
  PROVE  Between(old, r, u) = Len(old[u]) /\ Len(old[u]) \in Nat
<1>1. PICK s : s = SizeTo(old)
  OBVIOUS
<1>2. \A n \in 0 .. Len(old) : s[n] \in Nat
  BY <1>1, SizeIs
<1>3. \A n \in Nat : n < Len(old) => s[n + 1] = s[n] + Len(old[n + 1])
  BY <1>1, SizeIs
<1>4. r \in 0 .. Len(old) /\ r < Len(old) /\ u \in 1 .. Len(old)
  OBVIOUS
<1>5. s[r] \in Nat /\ s[u] = s[r] + Len(old[u])
  BY <1>2, <1>3, <1>4
<1>6. old[u] \in Row
  BY <1>4
<1>7. Len(old[u]) \in Nat
  BY <1>6 DEF Row
<1>8. s[u] - s[r] = Len(old[u])
  BY <1>5, <1>7
<1> QED
  BY <1>1, <1>7, <1>8 DEF Between

\* The characters of two stretches of rows, one behind the other.
Adds(old, from, mid, upto) ==
  /\ Between(old, from, upto) = Between(old, from, mid) + Between(old, mid, upto)
  /\ Between(old, from, mid) \in Int /\ Between(old, mid, upto) \in Int

\* They add up.
LEMMA Joins ==
  ASSUME NEW old \in Seq(Row), NEW from \in Nat, NEW mid \in Nat, NEW upto \in Nat, from <= mid, mid <= upto, upto <= Len(old)
  PROVE  Adds(old, from, mid, upto)
<1>1. from \in 0 .. Len(old) /\ mid \in 0 .. Len(old) /\ upto \in 0 .. Len(old)
  OBVIOUS
<1>2. PICK sf \in Nat : sf = SizeTo(old)[from]
  BY <1>1, BetweenIs
<1>3. PICK sm \in Nat : sm = SizeTo(old)[mid]
  BY <1>1, BetweenIs
<1>4. PICK su \in Nat : su = SizeTo(old)[upto]
  BY <1>1, BetweenIs
<1> QED
  <2>1. Between(old, from, upto) = su - sf /\ Between(old, from, mid) = sm - sf /\ Between(old, mid, upto) = su - sm
    BY <1>2, <1>3, <1>4 DEF Between
  <2>2. su - sf = (sm - sf) + (su - sm) /\ sm - sf \in Int /\ su - sm \in Int
    OBVIOUS
  <2> QED
    BY <2>1, <2>2 DEF Adds

\* What a selection of characters takes and what it leaves of its rows is all
\* the characters of those rows.
LEMMA TakenSize ==
  ASSUME NEW b, Sel(b), b.mode # "vline", NEW lo, NEW hi, SelectionEnds(b, lo, hi), NEW low, low = lo.row, NEW end, end = hi.row + 1,
         NEW txt, txt = CollectRange(b, lo, hi), NEW st, st = LeftOver(b, lo, hi)
  PROVE  /\ txt \in Seq(Row) /\ Len(st) \in Nat /\ Size(txt) \in Nat
         /\ Size(txt) + Len(st) = Between(b.lines, low, end)
<1>1. Spans(b, lo, hi) /\ Fits(b)
  BY SelectionSpans DEF Sel
<1>2. low \in Nat
  BY <1>1 DEF Spans, Place
<1>3. PICK high \in Nat : high = hi.row
  BY <1>1 DEF Spans, Place
<1>4. PICK left \in Nat : left = lo.col
  BY <1>1 DEF Spans, Place
<1>5. PICK next \in Nat : next = hi.col + 1
  BY <1>1 DEF Spans, Place
<1>6. PICK old \in Seq(Row) : old = b.lines
  BY <1>1, LinesAre
<1>7. PICK tot \in Nat : tot = Len(old)
  OBVIOUS
<1>8. end \in Nat /\ end = high + 1 /\ low <= high /\ end <= tot /\ low \in 0 .. LastRow(b) /\ high \in 0 .. LastRow(b)
  <2>1. LastRow(b) \in Nat /\ tot = LastRow(b) + 1
    BY <1>1, <1>6, <1>7, LinesAre
  <2> QED
    BY <1>1, <1>2, <1>3, <2>1 DEF Spans
<1>9. PICK first \in Row : first = LineAt(b, low)
  BY <1>1, <1>8, LinesAre
<1>10. PICK last \in Row : last = LineAt(b, high)
  BY <1>1, <1>8, LinesAre
<1>11. PICK nf \in Nat : nf = Len(first)
  BY DEF Row
<1>12. PICK nl \in Nat : nl = Len(last)
  BY DEF Row
<1>13. PICK stop : stop = EndCol(b, hi, high)
  OBVIOUS
<1>14. PICK start : start = FirstCol(b, lo, low)
  OBVIOUS
<1>15. PICK begin : begin = FirstCol(b, lo, high)
  OBVIOUS
<1>16. PICK brim : brim = EndCol(b, hi, low)
  OBVIOUS
<1>17. Cuts(b, low, start, brim, Part(b, lo, hi, low)) /\ Cuts(b, high, begin, stop, Part(b, lo, hi, high))
  <2>1. low \in lo.row .. hi.row /\ high \in lo.row .. hi.row
    BY <1>2, <1>3, <1>8
  <2> QED
    BY <1>13, <1>14, <1>15, <1>16, <2>1, PartIsCut
<1>18. start = left /\ stop = Least(next, nl) /\ (low < high => brim = nf /\ begin = 0) /\ (low = high => brim = stop /\ begin = start)
  BY <1>2, <1>3, <1>4, <1>5, <1>9, <1>10, <1>11, <1>12, <1>13, <1>14, <1>15, <1>16 DEF FirstCol, EndCol
<1>19. /\ left <= nf /\ stop \in Nat /\ stop <= nl
       /\ Len(Part(b, lo, hi, low)) = brim - left /\ Len(Part(b, lo, hi, high)) = stop - begin
       /\ brim \in Nat /\ begin \in Nat /\ left <= brim /\ begin <= stop
  BY <1>9, <1>10, <1>11, <1>12, <1>17, <1>18 DEF Cuts
<1>20. Len(st) = left + (nl - stop) /\ Len(st) \in Nat
  <2>1. PICK t : t = Take(first, left)
    OBVIOUS
  <2>2. PICK d : d = Drop(last, next)
    OBVIOUS
  <2>3. t \in Row /\ Len(t) = left
    BY <1>11, <1>19, <2>1, CutsAt
  <2>4. PICK w : w = Least(next, nl)
    OBVIOUS
  <2>5. d \in Row /\ Len(d) = nl - w
    BY <1>12, <2>2, <2>4, CutsRow
  <2>6. st = t \o d
    BY <1>2, <1>3, <1>4, <1>5, <1>9, <1>10, <2>1, <2>2 DEF LeftOver
  <2>7. t \in Seq(Letter) /\ d \in Seq(Letter)
    BY <2>3, <2>5 DEF Row
  <2>8. Len(st) = Len(t) + Len(d)
    BY <2>6, <2>7
  <2>9. w = stop
    BY <1>18, <2>4
  <2>10. Len(st) = left + (nl - stop)
    BY <2>3, <2>5, <2>8, <2>9
  <2> QED
    BY <1>12, <1>19, <2>10
<1>21. /\ txt \in Seq(Row) /\ Len(txt) = high - low + 1
       /\ \A r \in low .. high : txt[r - low + 1] = Part(b, lo, hi, r)
  BY <1>1, <1>3, CollectIs
<1>22. PICK m \in Nat : m = high - low
  BY <1>8
<1>23. PICK k \in Nat : k = m + 1
  OBVIOUS
<1>24. Len(txt) = k /\ low + m = high /\ m <= k
  BY <1>2, <1>21, <1>22, <1>23
<1>25. txt[1] = Part(b, lo, hi, low) /\ txt[k] = Part(b, lo, hi, high)
  <2>1. low \in low .. high /\ high \in low .. high /\ low - low + 1 = 1 /\ high - low + 1 = k
    BY <1>8, <1>22, <1>23
  <2> QED
    BY <1>21, <2>1
<1>26. PICK zero \in Nat : zero = 0
  OBVIOUS
<1>27. PICK one \in Nat : one = 1
  OBVIOUS
<1>28. Size(txt) = Between(txt, zero, k)
  <2>1. Size(txt) = SizeTo(txt)[k] /\ SizeTo(txt)[0] = 0 /\ SizeTo(txt)[k] \in Nat
    <3>1. k \in 0 .. Len(txt)
      BY <1>24
    <3> QED
      BY <1>21, <1>24, <3>1, BetweenIs
  <2> QED
    BY <1>26, <2>1 DEF Between
<1>29. Between(txt, m, k) = stop - begin
  <2>1. k = m + 1 /\ k <= Len(txt)
    BY <1>23, <1>24
  <2>2. Between(txt, m, k) = Len(txt[k])
    BY <1>21, <2>1, NextRow
  <2> QED
    BY <1>19, <1>25, <2>2
<1>30. Between(old, high, end) = nl
  <2>1. end = high + 1 /\ end <= Len(old)
    BY <1>7, <1>8
  <2>2. Between(old, high, end) = Len(old[end])
    BY <1>8, <2>1, NextRow
  <2> QED
    BY <1>6, <1>8, <1>10, <1>12, <2>2 DEF LineAt
<1>31. CASE low = high
  <2>1. m = zero
    BY <1>22, <1>26, <1>31
  <2>2. Size(txt) = stop - left
    BY <1>18, <1>28, <1>29, <1>31, <2>1
  <2>3. first = last /\ nf = nl
    BY <1>9, <1>10, <1>11, <1>12, <1>31
  <2>4. Size(txt) + Len(st) = nl /\ Size(txt) \in Nat
    BY <1>18, <1>19, <1>20, <1>31, <2>2
  <2> QED
    BY <1>6, <1>20, <1>21, <1>30, <1>31, <2>4
<1>32. CASE low < high
  <2>1. PICK l \in Nat : l = low + 1
    BY <1>2
  <2>2. PICK n \in Nat : n = m - 1
    BY <1>2, <1>22, <1>32
  <2>3. m = one + n /\ high = l + n /\ one <= m /\ l <= high /\ low <= l /\ high <= end /\ l <= end
    <3>1. m = n + 1 /\ l = low + 1 /\ one = 1
      BY <1>2, <1>27, <2>1, <2>2
    <3>2. high = low + m
      BY <1>2, <1>8, <1>22
    <3>3. m = one + n /\ high = l + n
      BY <1>2, <3>1, <3>2
    <3>4. one <= m /\ l <= high /\ low <= l
      BY <1>2, <3>1, <3>3
    <3> QED
      BY <1>8, <3>3, <3>4
  <2>4. Between(txt, zero, one) = nf - left
    <3>1. one = zero + 1 /\ one <= Len(txt)
      BY <1>23, <1>24, <1>26, <1>27
    <3>2. Between(txt, zero, one) = Len(txt[one])
      BY <1>21, <3>1, NextRow
    <3> QED
      BY <1>18, <1>19, <1>25, <1>27, <1>32, <3>2
  <2>5. Between(old, low, l) = nf
    <3>1. l <= Len(old)
      BY <1>7, <1>8, <2>3
    <3>2. Between(old, low, l) = Len(old[l])
      BY <1>2, <2>1, <3>1, NextRow
    <3> QED
      BY <1>6, <1>9, <1>11, <2>1, <3>2 DEF LineAt
  <2>6. Between(txt, one, m) = Between(old, l, high)
    <3>1. ASSUME NEW j \in 1 .. n PROVE txt[one + j] = old[l + j]
      <4>1. PICK r \in Nat : r = low + j
        BY <1>2
      <4>2. r \in low .. high /\ r # low /\ r # high /\ r - low + 1 = one + j /\ r + 1 = l + j
        <5>1. j \in Nat /\ 1 <= j /\ j <= n /\ l = low + 1 /\ one = 1 /\ high = low + 1 + n
          BY <1>2, <1>27, <2>1, <2>2, <2>3
        <5>2. r = low + j /\ low < r /\ r < high
          BY <1>2, <4>1, <5>1
        <5>3. r \in low .. high /\ r # low /\ r # high
          BY <1>2, <1>3, <4>1, <5>2
        <5>4. r - low + 1 = j + 1 /\ one + j = j + 1
          <6>1. PICK q \in Nat : q = low
            BY <1>2
          <6>2. r = q + j /\ j \in Nat /\ one = 1
            BY <4>1, <5>1, <6>1
          <6>3. r - q + 1 = j + 1 /\ one + j = j + 1
            BY <6>2
          <6> QED
            BY <6>1, <6>3
        <5>5. r + 1 = l + j
          BY <1>2, <4>1, <5>1
        <5> QED
          BY <5>3, <5>4, <5>5
      <4>3. txt[one + j] = Part(b, lo, hi, r)
        BY <1>21, <4>2
      <4>4. Part(b, lo, hi, r) = LineAt(b, r)
        BY <1>3, <4>2 DEF Part
      <4> QED
        BY <1>6, <4>2, <4>3, <4>4 DEF LineAt
    <3>2. one + n <= Len(txt) /\ l + n <= Len(old)
      BY <1>7, <1>8, <1>24, <2>3
    <3>3. Common(txt, one, old, l, n)
      BY <3>1, <3>2 DEF Common
    <3> QED
      BY <1>21, <2>3, <3>3, SameRows
  <2>7. Between(txt, zero, k) = Between(txt, zero, one) + Between(txt, one, k)
    <3>1. zero <= one /\ one <= k /\ k <= Len(txt)
      BY <1>23, <1>24, <1>26, <1>27
    <3>2. Adds(txt, zero, one, k)
      BY <1>21, <3>1, Joins
    <3> QED
      BY <3>2 DEF Adds
  <2>8. Between(txt, one, k) = Between(txt, one, m) + Between(txt, m, k) /\ Between(txt, one, m) \in Int
    <3>1. one <= m /\ m <= k /\ k <= Len(txt)
      BY <1>24, <2>3
    <3>2. Adds(txt, one, m, k)
      BY <1>21, <3>1, Joins
    <3> QED
      BY <3>2 DEF Adds
  <2>9. Between(old, low, end) = Between(old, low, l) + Between(old, l, end)
    <3>1. low <= l /\ l <= end /\ end <= Len(old)
      BY <1>7, <1>8, <2>3
    <3>2. Adds(old, low, l, end)
      BY <1>2, <1>8, <2>1, <3>1, Joins
    <3> QED
      BY <3>2 DEF Adds
  <2>10. Between(old, l, end) = Between(old, l, high) + Between(old, high, end)
    <3>1. l <= high /\ high <= end /\ end <= Len(old)
      BY <1>7, <1>8, <2>3
    <3>2. Adds(old, l, high, end)
      BY <1>8, <2>1, <3>1, Joins
    <3> QED
      BY <3>2 DEF Adds
  <2>11. PICK x \in Int : x = Between(old, l, high)
    BY <2>6, <2>8
  <2>12. Between(old, low, end) = nf + (x + nl)
    BY <1>30, <2>5, <2>9, <2>10, <2>11
  <2>13. Size(txt) = (nf - left) + (x + stop)
    BY <1>18, <1>19, <1>28, <1>29, <1>32, <2>4, <2>6, <2>7, <2>8, <2>11
  <2>14. Size(txt) + Len(st) = Between(old, low, end)
    BY <1>19, <1>20, <2>12, <2>13
  <2>15. Size(txt) \in Nat
    <3>1. k \in 0 .. Len(txt)
      BY <1>24
    <3> QED
      BY <1>21, <1>24, <3>1, BetweenIs
  <2> QED
    BY <1>6, <1>20, <1>21, <2>14, <2>15
<1> QED
  BY <1>2, <1>8, <1>31, <1>32

\* What is drawn of a row is what a text takes from it.
Drawn(b, r, took) ==
  \E from \in 0 .. Len(LineAt(b, r)) :
    /\ Highlighted(b, r) = from .. (from + Len(took) - 1)
    /\ took = SubSeq(LineAt(b, r), from + 1, from + Len(took))
Draws(b, lo, hi, txt) == Len(txt) = hi - lo + 1 /\ \A r \in lo .. hi : Drawn(b, r, txt[r - lo + 1])

\* The characters that go are the characters that were taken.
Weighs(b, c) == Size(c.lines) = Size(b.lines) - Size(c.register.text)

\* Whole rows.
LEMMA LinesGo ==
  ASSUME NEW b, Sel(b), b.mode = "vline", NEW lo, NEW hi, SelectionEnds(b, lo, hi), NEW c, Gone(b, lo, hi, c),
         NEW low, low = lo.row, NEW high, high = hi.row
  PROVE  Draws(b, low, high, c.register.text) /\ Weighs(b, c)
<1>1. Spans(b, lo, hi) /\ Fits(b)
  BY SelectionSpans DEF Sel
<1>2. low \in Nat /\ high \in Nat /\ low <= high /\ high <= LastRow(b) /\ LastRow(b) \in Nat
  BY <1>1, LinesAre DEF Spans, Place
<1>3. PICK old \in Seq(Row), n \in Nat : old = b.lines /\ n = Len(old)
  BY <1>1, LinesAre
<1>4. PICK end \in Nat : end = high + 1
  BY <1>2
<1>5. end <= n /\ low <= end
  <2>1. LastRow(b) \in Nat /\ n = LastRow(b) + 1
    BY <1>1, <1>3, LinesAre
  <2> QED
    BY <1>2, <1>4, <2>1
<1>6. PICK txt : txt = c.register.text
  OBVIOUS
<1>7. txt = SelectedRows(b)
  <2>1. PICK rows : rows = SelectedRows(b)
    OBVIOUS
  <2>2. rows = SubSeq(b.lines, lo.row + 1, hi.row + 1)
    BY <2>1, SelectedIs
  <2> QED
    BY <1>6, <2>1, <2>2 DEF Gone
<1>8. /\ txt \in Seq(Row) /\ Len(txt) = high - low + 1
      /\ \A r \in low .. high : txt[r - low + 1] = LineAt(b, r)
  BY <1>7, SelectedIs
<1>9. ASSUME NEW r \in low .. high PROVE Drawn(b, r, txt[r - low + 1])
  <2>1. r \in 0 .. LastRow(b)
    BY <1>2
  <2>2. PICK line \in Row, m \in Nat : line = LineAt(b, r) /\ m = Len(line)
    BY <1>1, <2>1, LinesAre
  <2>3. txt[r - low + 1] = line
    BY <1>8, <2>2
  <2>4. Highlighted(b, r) = 0 .. (0 + m - 1)
    <3>1. IsVisual(b.mode) /\ r \in lo.row .. hi.row /\ 0 + m - 1 = m - 1
      BY DEF IsVisual
    <3> QED
      BY <2>2, <3>1 DEF Highlighted, SelectionEnds
  <2>5. line = SubSeq(line, 0 + 1, 0 + m)
    <3>1. line \in Seq(Letter) /\ 0 + 1 = 1 /\ 0 + m = m
      BY DEF Row
    <3> QED
      BY <2>2, <3>1, SubSeqFull
  <2>6. 0 \in 0 .. m
    OBVIOUS
  <2> QED
    BY <2>2, <2>3, <2>4, <2>5, <2>6 DEF Drawn
<1>10. Draws(b, low, high, txt)
  BY <1>8, <1>9 DEF Draws
<1>11. PICK rows : RowsPut(old, low, end, <<>>, rows) /\ c.lines = IF rows = <<>> THEN EmptyText ELSE rows
  BY <1>3, <1>4 DEF Gone
<1>12. PICK none \in Seq(Row) : none = <<>>
  <2>1. <<>> \in Seq(Row)
    BY EmptySeq
  <2> QED
    BY <2>1
<1>13. Size(none) = 0
  <2>1. Len(none) = 0
    BY <1>12
  <2> QED
    BY <2>1, BetweenIs
<1>14. Resized(old, low, end, none, rows)
  <2>1. RowsPut(old, low, end, none, rows) /\ low \in Nat /\ low <= end /\ end <= Len(old)
    BY <1>2, <1>3, <1>5, <1>11, <1>12
  <2> QED
    BY <2>1, PutsSize
<1>15. Size(txt) = Between(old, low, end)
  <2>1. PICK m \in Nat : m = end - low
    BY <1>2, <1>5
  <2>2. PICK zero \in Nat : zero = 0
    OBVIOUS
  <2>3. Len(txt) = m /\ m = zero + m /\ end = low + m
    <3>1. PICK q \in Nat : q = low
      BY <1>2
    <3>2. m = end - q /\ Len(txt) = high - q + 1 /\ q <= end
      BY <1>5, <1>8, <2>1, <3>1
    <3>3. m = high - q + 1 /\ end = q + m
      BY <1>2, <1>4, <2>1, <3>2
    <3> QED
      BY <2>2, <3>1, <3>2, <3>3
  <2>4. ASSUME NEW j \in 1 .. m PROVE txt[zero + j] = old[low + j]
    <3>1. PICK q \in Nat : q = low
      BY <1>2
    <3>2. PICK r \in Nat : r = q + j - 1
      BY <3>1
    <3>3. r - q + 1 = j /\ r + 1 = q + j /\ zero + j = j /\ q <= r /\ r <= high
      <4>1. j \in Nat /\ 1 <= j /\ j <= m /\ high + 1 = q + m
        BY <1>2, <1>4, <2>3, <3>1
      <4>2. r - q + 1 = j /\ r + 1 = q + j /\ q <= r
        BY <3>2, <4>1
      <4>3. r <= high
        BY <1>2, <3>2, <4>1
      <4>4. zero + j = j
        BY <2>2, <4>1
      <4> QED
        BY <4>2, <4>3, <4>4
    <3>4. r \in low .. high /\ r - low + 1 = j
      BY <1>2, <3>1, <3>3
    <3>5. txt[j] = LineAt(b, r)
      BY <1>8, <3>4
    <3> QED
      BY <1>3, <3>1, <3>3, <3>5 DEF LineAt
  <2>5. zero + m <= Len(txt) /\ low + m <= Len(old)
    BY <1>3, <1>5, <2>3
  <2>6. Common(txt, zero, old, low, m)
    BY <2>4, <2>5 DEF Common
  <2>7. Between(txt, zero, m) = Between(old, low, end)
    BY <1>2, <1>8, <2>3, <2>6, SameRows
  <2>8. Size(txt) = SizeTo(txt)[m] /\ SizeTo(txt)[0] = 0 /\ SizeTo(txt)[m] \in Nat
    <3>1. m \in 0 .. Len(txt)
      BY <2>3
    <3> QED
      BY <1>8, <2>3, <3>1, BetweenIs
  <2> QED
    BY <2>2, <2>7, <2>8 DEF Between
<1>16. Size(old) \in Nat /\ Size(txt) \in Nat
  <2>1. n \in 0 .. n /\ Len(txt) \in 0 .. Len(txt)
    BY <1>8
  <2> QED
    BY <1>3, <1>8, <2>1, BetweenIs
<1>17. Size(rows) = Size(old) - Size(txt)
  BY <1>13, <1>14, <1>15, <1>16 DEF Resized
<1>18. Size(c.lines) = Size(rows)
  <2>1. CASE rows # <<>>
    BY <1>11, <2>1
  <2>2. CASE rows = <<>>
    <3>1. <<>> \in Row
      BY DEF Row
    <3>2. Size(<< <<>> >>) = Len(<<>>)
      BY <3>1, OneRowSize
    <3>3. Size(EmptyText) = 0
      BY <3>2 DEF EmptyText
    <3>4. Size(rows) = 0
      BY <1>12, <1>13, <2>2
    <3> QED
      BY <1>11, <2>2, <3>3, <3>4
  <2> QED
    BY <2>1, <2>2
<1> QED
  BY <1>3, <1>6, <1>10, <1>17, <1>18 DEF Weighs

\* Characters.
LEMMA CharactersGo ==
  ASSUME NEW b, Sel(b), b.mode # "vline", NEW lo, NEW hi, SelectionEnds(b, lo, hi), NEW c, Gone(b, lo, hi, c),
         NEW low, low = lo.row, NEW high, high = hi.row
  PROVE  Draws(b, low, high, c.register.text) /\ Weighs(b, c)
<1>1. Spans(b, lo, hi) /\ Fits(b)
  BY SelectionSpans DEF Sel
<1>2. low \in Nat /\ high \in Nat /\ low <= high /\ high <= LastRow(b) /\ LastRow(b) \in Nat
  BY <1>1, LinesAre DEF Spans, Place
<1>3. PICK old \in Seq(Row), n \in Nat : old = b.lines /\ n = Len(old)
  BY <1>1, LinesAre
<1>4. PICK end \in Nat : end = high + 1
  BY <1>2
<1>5. end <= n /\ low <= end
  <2>1. LastRow(b) \in Nat /\ n = LastRow(b) + 1
    BY <1>1, <1>3, LinesAre
  <2> QED
    BY <1>2, <1>4, <2>1
<1>6. PICK txt : txt = CollectRange(b, lo, hi)
  OBVIOUS
<1>7. PICK st : st = LeftOver(b, lo, hi)
  OBVIOUS
<1>8. c.register.text = txt /\ st \in Row /\ RowsPut(old, low, end, <<st>>, c.lines)
  BY <1>3, <1>4, <1>6, <1>7 DEF Gone, Taken
<1>9. /\ Len(txt) = high - low + 1
      /\ \A r \in low .. high : txt[r - low + 1] = Part(b, lo, hi, r)
  BY <1>1, <1>6, CollectIs
<1>10. ASSUME NEW r \in low .. high PROVE Drawn(b, r, txt[r - low + 1])
  <2>1. r \in 0 .. LastRow(b) /\ r \in lo.row .. hi.row
    <3>1. r \in low .. high /\ r \in Nat /\ r <= LastRow(b)
      BY <1>2
    <3> QED
      BY <1>2, <3>1
  <2>2. PICK line \in Row, m \in Nat : line = LineAt(b, r) /\ m = Len(line)
    BY <1>1, <2>1, LinesAre
  <2>3. PICK took : took = Part(b, lo, hi, r)
    OBVIOUS
  <2>4. PICK start : start = FirstCol(b, lo, r)
    OBVIOUS
  <2>5. PICK stop : stop = EndCol(b, hi, r)
    OBVIOUS
  <2>6. Cuts(b, r, start, stop, took)
    BY <2>1, <2>3, <2>4, <2>5, PartIsCut
  <2>7. /\ start \in Nat /\ stop \in Nat /\ start <= stop /\ stop <= m
        /\ took = SubSeq(line, start + 1, stop) /\ Len(took) = stop - start /\ Highlighted(b, r) = start .. stop - 1
    BY <2>2, <2>6 DEF Cuts
  <2>8. start + Len(took) = stop /\ start + Len(took) - 1 = stop - 1 /\ start \in 0 .. m
    BY <2>7
  <2>9. txt[r - low + 1] = took
    BY <1>9, <2>3
  <2> QED
    BY <2>2, <2>7, <2>8, <2>9 DEF Drawn
<1>11. Draws(b, low, high, txt)
  BY <1>9, <1>10 DEF Draws
<1>12. <<st>> \in Seq(Row) /\ Size(<<st>>) = Len(st) /\ Len(st) \in Nat
  BY <1>8, OneRowSize
<1>13. PICK one : one = <<st>>
  OBVIOUS
<1>14. Resized(old, low, end, one, c.lines)
  <2>1. RowsPut(old, low, end, one, c.lines) /\ one \in Seq(Row) /\ low \in Nat /\ low <= end /\ end <= Len(old)
    BY <1>2, <1>3, <1>5, <1>8, <1>12, <1>13
  <2> QED
    BY <2>1, PutsSize
<1>15. end = hi.row + 1
  BY <1>4
<1>16. txt \in Seq(Row) /\ Size(txt) \in Nat /\ Size(txt) + Len(st) = Between(b.lines, low, end)
  BY <1>6, <1>7, <1>15, TakenSize
<1>17. Size(old) \in Nat
  <2>1. n \in 0 .. n
    OBVIOUS
  <2> QED
    BY <1>3, <2>1, BetweenIs
<1>18. Size(c.lines) = Size(old) - Size(txt)
  <2>1. PICK x \in Nat : x = Size(txt)
    BY <1>16
  <2>2. PICK y \in Nat : y = Len(st)
    BY <1>12
  <2>3. PICK z \in Nat : z = Size(old)
    BY <1>17
  <2>4. Size(c.lines) = z - (x + y) + y
    BY <1>3, <1>12, <1>13, <1>14, <1>16, <2>1, <2>2, <2>3 DEF Resized
  <2> QED
    BY <2>1, <2>3, <2>4
<1> QED
  BY <1>3, <1>8, <1>11, <1>18 DEF Weighs

\* What is drawn as selected is what d takes, and no other character goes.
LEMMA HighlightGoes == SoundInv => HighlightIsWhatGoes
<1> SUFFICES ASSUME SoundInv, IsVisual(buf.mode) PROVE HighlightIsWhatGoes
  BY DEF HighlightIsWhatGoes
<1>1. PICK b : b = buf
  OBVIOUS
<1>2. Sel(b)
  <2>1. Sound(b) /\ IsVisual(b.mode)
    BY <1>1 DEF SoundInv
  <2> QED
    BY <2>1, SoundCalm
<1>3. PICK lo : lo = SelectionLow(b)
  OBVIOUS
<1>4. PICK hi : hi = SelectionHigh(b)
  OBVIOUS
<1>5. SelectionEnds(b, lo, hi)
  BY <1>3, <1>4 DEF SelectionEnds
<1>6. PICK c : c = DeleteSelection(b)
  OBVIOUS
<1>7. Gone(b, lo, hi, c)
  <2>1. c = EndSelection(b, "normal") /\ "normal" \in {"normal", "insert"}
    BY <1>6 DEF DeleteSelection
  <2> QED
    BY <1>2, <1>5, <2>1, SelectionGoes
<1>8. PICK low : low = lo.row
  OBVIOUS
<1>9. PICK high : high = hi.row
  OBVIOUS
<1>10. Draws(b, low, high, c.register.text) /\ Weighs(b, c)
  <2>1. CASE b.mode = "vline"
    BY <1>2, <1>5, <1>7, <1>8, <1>9, <2>1, LinesGo
  <2>2. CASE b.mode # "vline"
    BY <1>2, <1>5, <1>7, <1>8, <1>9, <2>2, CharactersGo
  <2> QED
    BY <2>1, <2>2
<1>11. low = SelectionLow(buf).row /\ high = SelectionHigh(buf).row /\ c = DeleteSelection(buf)
  BY <1>1, <1>3, <1>4, <1>6, <1>8, <1>9
<1> HIDE DEF DeleteSelection
<1> QED
  BY <1>1, <1>10, <1>11 DEF HighlightIsWhatGoes, Draws, Drawn, Weighs

\* What the user sees is what the next key works on: in every state the cursor
\* stands in the text, its line is among the rows that are drawn, and the
\* highlight of a selection is, character for character, what d takes into the
\* register and out of the text.
THEOREM FrameTellsTheTruth == Spec => []FrameIsTrue
<1>1. SoundInv => FrameIsTrue
  <2> SUFFICES ASSUME SoundInv PROVE FrameIsTrue
    OBVIOUS
  <2>1. WellPlaced(buf)
    BY SoundStands DEF SoundInv
  <2>2. CursorShown
    BY CursorIsShown
  <2>3. HighlightIsWhatGoes
    BY HighlightGoes
  <2> QED
    BY <2>1, <2>2, <2>3 DEF FrameIsTrue
<1> QED
  BY <1>1, InitSound, RoundSound, PTL DEF Spec

-----------------------------------------------------------------------------
\* The highlighter

ModeNames == {"line", "open", "block", "close", "closed", "string", "escape", "end", "number", "word", "code"}
RunKinds == {"comment", "string", "number", "keyword", "plain"}
ModesOfReader == [in : ModeNames, by : Quotes \cup {"none"}]

\* The reader of one character at a time: its modes are a function of the line.
LEMMA BeginFits == ASSUME NEW t, NEW l, NEW k PROVE Begin(t, l, k) \in ModesOfReader
  BY DEF Begin, Mode, ModesOfReader, ModeNames, Quotes, DigitChars, WordChars, Letters

LEMMA AdvanceFits ==
  ASSUME NEW t, NEW l, NEW k, NEW m \in ModesOfReader
  PROVE  Advance(t, l, m, k) \in ModesOfReader
<1>1. Begin(t, l, k) \in ModesOfReader
  BY BeginFits
<1> QED
  BY <1>1 DEF Advance, Mode, ModesOfReader, ModeNames

LEMMA ModesAre ==
  ASSUME NEW t, NEW l
  PROVE  /\ ModeAfter(t, l)[0] = Mode("code")
         /\ \A n \in Nat : ModeAfter(t, l)[n] \in ModesOfReader
         /\ \A n \in Nat \ {0} : ModeAfter(t, l)[n] = Advance(t, l, ModeAfter(t, l)[n - 1], n)
<1> DEFINE S == ModesOfReader
           m0 == Mode("code")
           Step(m, n) == Advance(t, l, m, n)
           F == [n \in Nat |-> [m \in S |-> Step(m, n + 1)]]
           P(h) == h = [n \in Nat |-> IF n = 0 THEN m0 ELSE Step(h[n - 1], n)]
           r == CHOOSE h : P(h)
<1>0. m0 \in S
  BY DEF Mode, ModesOfReader, ModeNames
<1>1. \A n \in Nat, m \in S : Step(m, n) \in S
  BY AdvanceFits
<1>2. ModeAfter(t, l) = r
  BY DEF ModeAfter
<1> HIDE DEF S, m0, Step
<1>3. F \in [Nat -> [S -> S]]
  <2>1. \A n \in Nat, m \in S : Step(m, n + 1) \in S
    BY <1>1
  <2> QED
    BY <2>1
<1>4. \A n \in Nat \ {0}, m \in S : F[n - 1][m] = Step(m, n)
  <2>1. ASSUME NEW n \in Nat \ {0}, NEW m \in S PROVE F[n - 1][m] = Step(m, n)
    <3>1. n - 1 \in Nat /\ n - 1 + 1 = n
      OBVIOUS
    <3>2. F[n - 1][m] = Step(m, n - 1 + 1)
      BY <3>1
    <3> QED
      BY <3>1, <3>2
  <2> QED
    BY <2>1
<1> HIDE DEF F
<1>5. PICK f \in [Nat -> S] : f = [n \in Nat |-> IF n = 0 THEN m0 ELSE F[n - 1][f[n - 1]]]
  BY <1>0, <1>3, Recurs, SMTT(60)
<1>6. P(f)
  <2>1. ASSUME NEW n \in Nat \ {0} PROVE F[n - 1][f[n - 1]] = Step(f[n - 1], n)
    <3>1. n - 1 \in Nat
      OBVIOUS
    <3> QED
      BY <1>4, <3>1
  <2>2. ASSUME NEW n \in Nat PROVE f[n] = IF n = 0 THEN m0 ELSE Step(f[n - 1], n)
    BY <1>5, <2>1
  <2>3. f = [n \in Nat |-> f[n]]
    OBVIOUS
  <2>4. f = [n \in Nat |-> IF n = 0 THEN m0 ELSE Step(f[n - 1], n)]
    BY <2>2, <2>3
  <2> QED
    BY <2>4
<1>7. P(r)
  BY <1>6
<1>8. r[0] = m0 /\ \A n \in Nat \ {0} : r[n] = Step(r[n - 1], n)
  <2> HIDE DEF r
  <2> QED
    BY <1>7
<1> HIDE DEF r
<1> DEFINE T == {n \in Nat : r[n] \in S}
<1>9. 0 \in T
  BY <1>0, <1>8
<1>10. ASSUME NEW n \in Nat, n \in T PROVE n + 1 \in T
  <2>1. PICK k \in Nat \ {0} : k = n + 1 /\ k - 1 = n
    OBVIOUS
  <2>2. r[k] = Step(r[n], k)
    BY <1>8, <2>1
  <2> QED
    BY <1>1, <1>10, <2>1, <2>2
<1> HIDE DEF T
<1>11. Nat \subseteq T
  BY <1>9, <1>10, ReachesAll
<1> QED
  BY <1>2, <1>8, <1>11 DEF T, S, m0, Step

-----------------------------------------------------------------------------
\* The mode after each character of this line.
Now == ModeAfter(text, lang)

\* A run may begin at k: what is there is read as it is at a begin, and it is
\* not the rest of a word.
Starts(k) ==
  /\ Now[k] = Begin(text, lang, k)
  /\ ~(Now[k - 1].in = "word" /\ Char(k) \in WordChars)

\* Behind what is closed, and where a word or a number stops, a run may begin.
LEMMA StartsBehind ==
  ASSUME NEW k \in Nat \ {0},
         \/ Now[k - 1].in \in {"closed", "end", "code"}
         \/ Now[k - 1].in = "number" /\ Char(k) \notin NumberChars
         \/ Now[k - 1].in = "word" /\ Char(k) \notin WordChars
  PROVE  Starts(k)
<1>1. Now[k] = Advance(text, lang, Now[k - 1], k)
  BY ModesAre DEF Now
<1>2. Advance(text, lang, Now[k - 1], k) = Begin(text, lang, k)
  BY DEF Advance, Char
<1> QED
  BY <1>1, <1>2 DEF Starts

\* Outside words the mode alone decides the kind.
LEMMA Plainly ==
  ASSUME NEW k, Now[k].in # "word"
  PROVE  KindAt(text, lang, k) = KindOf(Now[k].in)
  BY DEF KindAt, InWord, Now

\* e has where each run ends: its characters are those between, all of its kind.
EndsAt(e) ==
  /\ e \in [0 .. Len(runs) -> 0 .. N]
  /\ e[0] = 0 /\ e[Len(runs)] = i - 1
  /\ \A r \in 1 .. Len(runs) :
       /\ e[r - 1] <= e[r]
       /\ runs[r].text = SubSeq(text, e[r - 1] + 1, e[r])
       /\ \A k \in e[r - 1] + 1 .. e[r] : runs[r].kind = KindAt(text, lang, k)

\* Between two rounds of the loop: the runs are right up to i, where one begins.
SynInv ==
  /\ text \in Seq(Chars) /\ i \in 1 .. N + 1
  /\ runs \in Seq([text : Seq(Chars), kind : RunKinds])
  /\ i <= N => Starts(i)
  /\ \E e : EndsAt(e)
  /\ \A r \in 2 .. Len(runs) : runs[r].kind # runs[r - 1].kind

LEMMA SynStarts == SynInit => SynInv
<1> SUFFICES ASSUME SynInit PROVE SynInv
  OBVIOUS
<1>1. PICK n \in 0 .. MaxLen : text \in [1 .. n -> Chars]
  BY DEF SynInit
<1>2. i = 1 /\ runs = <<>>
  BY DEF SynInit
<1>3. text \in Seq(Chars) /\ N \in Nat
  <2>1. n \in Nat
    BY <1>1, LineAssumption
  <2> QED
    BY <1>1, <2>1 DEF N
<1>4. Starts(1)
  <2>1. Now[0].in = "code"
    <3>1. Now[0] = Mode("code")
      BY ModesAre DEF Now
    <3> QED
      BY <3>1 DEF Mode
  <2> QED
    BY <2>1, StartsBehind
<1>5. EndsAt([r \in {0} |-> 0])
  BY <1>2, <1>3 DEF EndsAt
<1> QED
  BY <1>2, <1>3, <1>4, <1>5 DEF SynInv

\* Two parts of a line that meet.
LEMMA Glued ==
  ASSUME NEW V, NEW t \in Seq(V), NEW a \in Nat, NEW b \in Nat, NEW c \in Nat, a <= b, b <= c, c <= Len(t)
  PROVE  SubSeq(t, a + 1, b) \o SubSeq(t, b + 1, c) = SubSeq(t, a + 1, c)
<1>1. PICK p, q, w : p = SubSeq(t, a + 1, b) /\ q = SubSeq(t, b + 1, c) /\ w = SubSeq(t, a + 1, c)
  OBVIOUS
<1>0. b <= Len(t) /\ a <= c
  OBVIOUS
<1>2. /\ p \in Seq(V) /\ Len(p) = b - a /\ \A k \in 1 .. b - a : p[k] = t[a + k]
      /\ q \in Seq(V) /\ Len(q) = c - b /\ \A k \in 1 .. c - b : q[k] = t[b + k]
      /\ w \in Seq(V) /\ Len(w) = c - a /\ \A k \in 1 .. c - a : w[k] = t[a + k]
  <2>1. p \in Seq(V) /\ Len(p) = b - a /\ \A k \in 1 .. b - a : p[k] = t[a + k]
    BY <1>0, <1>1, PartOf
  <2>2. q \in Seq(V) /\ Len(q) = c - b /\ \A k \in 1 .. c - b : q[k] = t[b + k]
    BY <1>1, PartOf
  <2>3. w \in Seq(V) /\ Len(w) = c - a /\ \A k \in 1 .. c - a : w[k] = t[a + k]
    BY <1>0, <1>1, PartOf
  <2> QED
    BY <2>1, <2>2, <2>3
<1>3. /\ p \o q \in Seq(V) /\ Len(p \o q) = Len(p) + Len(q)
      /\ \A k \in 1 .. Len(p) + Len(q) : (p \o q)[k] = IF k <= Len(p) THEN p[k] ELSE q[k - Len(p)]
  BY <1>2, ConcatProperties
<1>4. \A k \in 1 .. c - a : (p \o q)[k] = w[k]
  <2>1. ASSUME NEW k \in 1 .. c - a PROVE (p \o q)[k] = w[k]
    <3>0. Len(p) + Len(q) = c - a
      BY <1>2
    <3>1. CASE k <= b - a
      <4>1. k \in 1 .. b - a
        BY <3>1
      <4> QED
        BY <1>2, <1>3, <3>0, <3>1, <4>1
    <3>2. CASE ~(k <= b - a)
      <4>1. PICK j \in 1 .. c - b : j = k - (b - a)
        BY <3>2
      <4>2. (p \o q)[k] = q[j]
        BY <1>2, <1>3, <3>0, <3>2, <4>1
      <4>3. q[j] = t[b + j] /\ b + j = a + k
        BY <1>2, <4>1
      <4> QED
        BY <1>2, <4>2, <4>3
    <3> QED
      BY <3>1, <3>2
  <2> QED
    BY <2>1
<1>5. p \o q \in Seq(V) /\ Len(p \o q) = Len(w)
  <2>1. (b - a) + (c - b) = c - a
    OBVIOUS
  <2> QED
    BY <1>2, <1>3, <2>1
<1>6. p \o q = w
  <2>1. \A k \in 1 .. Len(p \o q) : (p \o q)[k] = w[k]
    BY <1>2, <1>4, <1>5
  <2> QED
    BY <1>2, <1>5, <2>1, SeqEqual
<1> QED
  BY <1>1, <1>6

\* A run of one kind is pushed up to a place where a run may begin.
\* What a round must show of its run: its kind, and that another begins behind it.
LEMMA PushKeeps ==
  ASSUME SynInv, i <= N, NEW stop \in i + 1 .. N + 1, NEW kind \in RunKinds, Push(stop, kind),
         \A k \in i .. stop - 1 : KindAt(text, lang, k) = kind,
         stop <= N => Starts(stop)
  PROVE  SynInv'
<1>1. text' = text /\ lang' = lang /\ i' = stop
  BY DEF Push
<1>2. PICK n \in Nat : n = Len(runs)
  BY DEF SynInv
<1>3. PICK e : EndsAt(e)
  BY DEF SynInv
<1>4. /\ e \in [0 .. n -> 0 .. N] /\ e[0] = 0 /\ e[n] = i - 1
      /\ \A r \in 1 .. n : /\ e[r - 1] <= e[r]
                           /\ runs[r].text = SubSeq(text, e[r - 1] + 1, e[r])
                           /\ \A k \in e[r - 1] + 1 .. e[r] : runs[r].kind = KindAt(text, lang, k)
  BY <1>2, <1>3 DEF EndsAt
<1> DEFINE s == SubSeq(text, i, stop - 1)
           Run == [text : Seq(Chars), kind : RunKinds]
<1>5. text \in Seq(Chars) /\ N \in Nat /\ Len(text) = N /\ i \in 1 .. N /\ stop \in Nat /\ runs \in Seq(Run)
  BY DEF SynInv, N
<1>6. PICK a \in Nat, b \in 0 .. N : a = i - 1 /\ a + 1 = i /\ b = stop - 1 /\ b + 1 = stop /\ a < b
  BY <1>5
<1>7. s = SubSeq(text, a + 1, b) /\ s \in Seq(Chars)
  <2>1. s = SubSeq(text, a + 1, b)
    BY <1>6
  <2>2. text \in Seq(Chars) /\ a \in Nat /\ b \in Nat /\ a <= b /\ b <= Len(text)
    BY <1>5, <1>6
  <2>3. SubSeq(text, a + 1, b) \in Seq(Chars)
    BY <2>2, PartOf
  <2> QED
    BY <2>1, <2>3
<1>8. Len(text') = N /\ N' = N /\ (i' <= N' => Starts(i'))
  BY <1>1, <1>5 DEF N
<1>9. (i' <= N' => Starts(i)')
  BY <1>1, <1>8 DEF Starts, Now, Char
<1>10. text' \in Seq(Chars) /\ i' \in 1 .. N' + 1
  BY <1>1, <1>5, <1>8
<1> HIDE DEF s
<1>11. CASE n > 0 /\ runs[n].kind = kind
  <2>1. runs' = [runs EXCEPT ![n].text = @ \o s]
    BY <1>2, <1>11 DEF Push, s
  <2>2. n \in 1 .. n /\ n - 1 \in 0 .. n /\ n \in 0 .. n /\ n - 1 # n
    BY <1>11
  <2>3. runs[n] \in Run /\ runs[n].text \in Seq(Chars)
    <3>1. runs[n] \in Run
      <4> HIDE DEF Run
      <4>1. n \in 1 .. Len(runs)
        BY <1>2, <2>2
      <4> QED
        BY <1>5, <4>1
    <3> QED
      BY <3>1
  <2>4. runs[n].text \o s \in Seq(Chars)
    BY <1>7, <2>3
  <2>5. /\ runs' \in Seq(Run) /\ Len(runs') = n
        /\ \A r \in 1 .. n : r # n => runs'[r] = runs[r]
        /\ runs'[n].text = runs[n].text \o s /\ runs'[n].kind = runs[n].kind
    <3>1. PICK x \in Seq(Chars) : x = runs[n].text \o s
      BY <2>4
    <3>2. runs' = [runs EXCEPT ![n] = [runs[n] EXCEPT !.text = x]]
      BY <2>1, <3>1
    <3>3. [runs[n] EXCEPT !.text = x] \in Run
      BY <2>3, <3>1
    <3>4. DOMAIN runs = 1 .. n
      BY <1>2, <1>5
    <3>5. [runs[n] EXCEPT !.text = x].text = x /\ [runs[n] EXCEPT !.text = x].kind = runs[n].kind
      BY <2>3
    <3>6. PICK y \in Run : y = [runs[n] EXCEPT !.text = x]
      BY <3>3
    <3> HIDE DEF Run
    <3>7. runs \in Seq(Run) /\ runs' = [runs EXCEPT ![n] = y] /\ n \in 1 .. n
      BY <1>5, <2>2, <3>2, <3>6
    <3>8. runs' \in Seq(Run) /\ Len(runs') = n
      BY <1>2, <3>4, <3>7
    <3>9. runs'[n] = y /\ \A r \in 1 .. n : r # n => runs'[r] = runs[r]
      BY <3>4, <3>7
    <3> QED
      BY <3>1, <3>5, <3>6, <3>8, <3>9
  <2> DEFINE f == [e EXCEPT ![n] = b]
  <2>6. f \in [0 .. n -> 0 .. N] /\ f[n] = b /\ \A r \in 0 .. n : r # n => f[r] = e[r]
    BY <1>4, <1>6, <2>2
  <2>7. f[0] = 0 /\ f[n] = i' - 1
    BY <1>1, <1>4, <1>6, <1>11, <2>2, <2>6
  <2>8. ASSUME NEW r \in 1 .. n
        PROVE  /\ f[r - 1] <= f[r]
               /\ runs'[r].text = SubSeq(text, f[r - 1] + 1, f[r])
               /\ \A k \in f[r - 1] + 1 .. f[r] : runs'[r].kind = KindAt(text, lang, k)
    <3>1. r - 1 \in 0 .. n /\ r - 1 # n /\ r \in 0 .. n
      OBVIOUS
    <3>2. f[r - 1] = e[r - 1]
      BY <2>6, <3>1
    <3>3. CASE r # n
      <4>1. f[r] = e[r] /\ runs'[r] = runs[r]
        BY <2>5, <2>6, <3>1, <3>3
      <4> QED
        BY <1>4, <3>2, <4>1
    <3>4. CASE r = n
      <4>1. PICK c \in 0 .. N : c = e[n - 1]
        BY <1>4, <2>2
      <4>2. c <= a /\ runs[n].text = SubSeq(text, c + 1, a) /\ \A k \in c + 1 .. a : kind = KindAt(text, lang, k)
        BY <1>4, <1>6, <1>11, <2>2, <4>1
      <4>3. runs'[n].text = SubSeq(text, c + 1, b)
        <5>1. a \in Nat /\ b \in Nat /\ c \in Nat /\ a <= b /\ b <= Len(text) /\ c <= a
          BY <1>5, <1>6, <4>1, <4>2
        <5>2. SubSeq(text, c + 1, a) \o SubSeq(text, a + 1, b) = SubSeq(text, c + 1, b)
          <6>1. text \in Seq(Chars) /\ a <= b /\ c <= a /\ a \in Nat /\ b \in Nat /\ c \in Nat /\ b <= Len(text)
            BY <1>5, <5>1
          <6> QED
            BY <6>1, Glued
        <5> QED
          BY <1>7, <2>5, <4>2, <5>2
      <4>4. \A k \in c + 1 .. b : runs'[n].kind = KindAt(text, lang, k)
        <5>1. ASSUME NEW k \in c + 1 .. b PROVE kind = KindAt(text, lang, k)
          <6>1. k \in c + 1 .. a \/ k \in i .. stop - 1
            BY <1>5, <1>6, <4>1
          <6> QED
            BY <4>2, <6>1
        <5> QED
          BY <1>11, <2>5, <5>1
      <4>5. c <= b
        BY <1>6, <4>1, <4>2
      <4> QED
        BY <2>6, <3>2, <3>4, <4>1, <4>3, <4>4, <4>5
    <3> QED
      BY <3>3, <3>4
  <2> HIDE DEF f
  <2>9. EndsAt(f)'
    BY <1>1, <1>8, <2>5, <2>6, <2>7, <2>8 DEF EndsAt
  <2>10. \A r \in 2 .. Len(runs') : runs'[r].kind # runs'[r - 1].kind
    <3>1. ASSUME NEW r \in 2 .. n PROVE runs'[r].kind # runs'[r - 1].kind
      <4>1. r - 1 \in 1 .. n /\ r - 1 # n /\ r \in 1 .. n
        OBVIOUS
      <4>2. runs[r].kind # runs[r - 1].kind
        BY <1>2 DEF SynInv
      <4> QED
        BY <2>5, <4>1, <4>2
    <3> QED
      BY <2>5, <3>1
  <2> QED
    BY <1>9, <1>10, <2>5, <2>9, <2>10 DEF SynInv
<1>12. CASE ~(n > 0 /\ runs[n].kind = kind)
  <2>1. runs' = Append(runs, [text |-> s, kind |-> kind])
    BY <1>2, <1>12 DEF Push, s
  <2>2. PICK m \in Nat \ {0} : m = n + 1 /\ m - 1 = n
    OBVIOUS
  <2>3. [text |-> s, kind |-> kind] \in Run
    BY <1>7
  <2>5. /\ runs' \in Seq(Run) /\ Len(runs') = m
        /\ \A r \in 1 .. n : runs'[r] = runs[r]
        /\ runs'[m].text = s /\ runs'[m].kind = kind
    BY <1>2, <1>5, <2>1, <2>2, <2>3
  <2> DEFINE f == [r \in 0 .. m |-> IF r = m THEN b ELSE e[r]]
  <2>6. f \in [0 .. m -> 0 .. N] /\ f[m] = b /\ \A r \in 0 .. n : f[r] = e[r]
    <3>1. \A r \in 0 .. m : r = m \/ r \in 0 .. n
      BY <2>2
    <3>2. \A r \in 0 .. n : r # m /\ r \in 0 .. m
      BY <2>2
    <3>3. m \in 0 .. m
      BY <2>2
    <3> QED
      BY <1>4, <1>6, <3>1, <3>2, <3>3
  <2>7. f[0] = 0 /\ f[m] = i' - 1
    BY <1>1, <1>4, <1>6, <2>2, <2>6
  <2>8. ASSUME NEW r \in 1 .. m
        PROVE  /\ f[r - 1] <= f[r]
               /\ runs'[r].text = SubSeq(text, f[r - 1] + 1, f[r])
               /\ \A k \in f[r - 1] + 1 .. f[r] : runs'[r].kind = KindAt(text, lang, k)
    <3>1. CASE r # m
      <4>1. r \in 1 .. n /\ r - 1 \in 0 .. n /\ r \in 0 .. n
        BY <2>2, <3>1
      <4>2. f[r] = e[r] /\ f[r - 1] = e[r - 1] /\ runs'[r] = runs[r]
        BY <2>5, <2>6, <4>1
      <4> QED
        BY <1>4, <4>1, <4>2
    <3>2. CASE r = m
      <4>1. f[r - 1] = a /\ f[r] = b
        BY <1>4, <1>6, <2>2, <2>6, <3>2
      <4>2. \A k \in a + 1 .. b : kind = KindAt(text, lang, k)
        <5>1. \A k \in a + 1 .. b : k \in i .. stop - 1
          BY <1>6
        <5> QED
          BY <5>1
      <4>3. runs'[r].text = SubSeq(text, a + 1, b) /\ runs'[r].kind = kind
        BY <1>7, <2>5, <3>2
      <4>4. a <= b
        BY <1>6
      <4> QED
        BY <4>1, <4>2, <4>3, <4>4
    <3> QED
      BY <3>1, <3>2
  <2> HIDE DEF f
  <2>9. EndsAt(f)'
    BY <1>1, <1>8, <2>5, <2>6, <2>7, <2>8 DEF EndsAt
  <2>10. \A r \in 2 .. Len(runs') : runs'[r].kind # runs'[r - 1].kind
    <3>1. ASSUME NEW r \in 2 .. m PROVE runs'[r].kind # runs'[r - 1].kind
      <4>1. CASE r # m
        <5>1. r \in 1 .. n /\ r - 1 \in 1 .. n /\ r \in 2 .. n
          BY <2>2, <4>1
        <5>2. runs[r].kind # runs[r - 1].kind
          BY <1>2, <5>1 DEF SynInv
        <5> QED
          BY <2>5, <5>1, <5>2
      <4>2. CASE r = m
        <5>1. n \in 1 .. n /\ n > 0
          BY <2>2, <4>2
        <5> QED
          BY <1>12, <2>2, <2>5, <4>2, <5>1
      <4> QED
        BY <4>1, <4>2
    <3> QED
      BY <2>5, <3>1
  <2> QED
    BY <1>9, <1>10, <2>5, <2>9, <2>10 DEF SynInv
<1> QED
  BY <1>11, <1>12

-----------------------------------------------------------------------------
\* What stands at i, and how a run of each kind ends.

\* How StartsWith reads for the patterns of two characters and of one.
LEMMA StartsTwo ==
  ASSUME text \in Seq(Chars), NEW k \in Nat \ {0}, NEW a, NEW b, a # "none", b # "none"
  PROVE  StartsWith(k, <<a, b>>) <=> Char(k) = a /\ Char(k + 1) = b
<1>1. N \in Nat /\ N = Len(text)
  BY DEF N
<1>2. Len(<<a, b>>) = 2 /\ <<a, b>>[1] = a /\ <<a, b>>[2] = b /\ 1 .. 2 = {1, 2}
  OBVIOUS
<1>3. k + 1 - 1 = k /\ k + 2 - 1 = k + 1
  OBVIOUS
<1>4. StartsWith(k, <<a, b>>) <=> k + 1 <= N /\ text[k] = a /\ text[k + 1] = b
  BY <1>2, <1>3 DEF StartsWith
<1>5. Char(k + 1) = b => k + 1 <= N
  BY <1>1 DEF Char, CharAt
<1>6. k + 1 <= N => Char(k) = text[k] /\ Char(k + 1) = text[k + 1]
  BY <1>1 DEF Char, CharAt
<1> QED
  BY <1>4, <1>5, <1>6

LEMMA StartsOne ==
  ASSUME text \in Seq(Chars), NEW k \in Nat \ {0}, NEW a, a # "none"
  PROVE  StartsWith(k, <<a>>) <=> Char(k) = a
<1>1. N \in Nat /\ N = Len(text)
  BY DEF N
<1>2. Len(<<a>>) = 1 /\ <<a>>[1] = a /\ 1 .. 1 = {1}
  OBVIOUS
<1>3. k + 1 - 1 = k
  OBVIOUS
<1>4. StartsWith(k, <<a>>) <=> k <= N /\ text[k] = a
  BY <1>2, <1>3 DEF StartsWith
<1> QED
  BY <1>1, <1>4 DEF Char, CharAt

\* What a round finds at i, and how the reader takes it.
LEMMA AtIs ==
  ASSUME SynInv, i <= N
  PROVE  /\ AtLineComment <=> \/ lang \in CLike /\ Char(i) = "/" /\ Char(i + 1) = "/"
                              \/ lang \in HashLike /\ Char(i) = "#"
         /\ AtBlockComment <=> lang \in CLike /\ Char(i) = "/" /\ Char(i + 1) = "*"
         /\ i \in Nat \ {0} /\ N \in Nat /\ N = Len(text)
         /\ Starts(i)
<1>1. text \in Seq(Chars) /\ i \in Nat \ {0} /\ N \in Nat /\ Starts(i) /\ N = Len(text)
  BY DEF SynInv, N
<1>2. CLike \cap HashLike = {}
  BY DEF CLike, HashLike
<1>3. (StartsWith(i, <<"/", "/">>) <=> Char(i) = "/" /\ Char(i + 1) = "/")
  BY <1>1, StartsTwo
<1>4. (StartsWith(i, <<"/", "*">>) <=> Char(i) = "/" /\ Char(i + 1) = "*")
  BY <1>1, StartsTwo
<1>5. (StartsWith(i, <<"#">>) <=> Char(i) = "#")
  BY <1>1, StartsOne
<1>6. AtLineComment <=> \/ lang \in CLike /\ StartsWith(i, <<"/", "/">>)
                        \/ lang \in HashLike /\ StartsWith(i, <<"#">>)
  <2>1. CASE lang \in CLike
    <3>1. LineComments = {<<"/", "/">>} /\ lang \notin HashLike
      BY <1>2, <2>1 DEF LineComments
    <3> QED
      BY <2>1, <3>1 DEF AtLineComment
  <2>2. CASE lang \in HashLike
    <3>1. LineComments = {<<"#">>} /\ lang \notin CLike
      BY <1>2, <2>2 DEF LineComments
    <3> QED
      BY <2>2, <3>1 DEF AtLineComment
  <2>3. CASE lang \notin CLike /\ lang \notin HashLike
    BY <2>3 DEF AtLineComment, LineComments
  <2> QED
    BY <2>1, <2>2, <2>3
<1> QED
  BY <1>1, <1>3, <1>4, <1>5, <1>6 DEF AtBlockComment

\* What a reader makes of a character where a run begins.
LEMMA BeginIs ==
  ASSUME NEW k,
         NEW line, line <=> \/ lang \in CLike /\ Char(k) = "/" /\ Char(k + 1) = "/"
                            \/ lang \in HashLike /\ Char(k) = "#",
         NEW open, open <=> lang \in CLike /\ Char(k) = "/" /\ Char(k + 1) = "*"
  PROVE  /\ line => Begin(text, lang, k) = Mode("line")
         /\ open => Begin(text, lang, k) = Mode("open")
         /\ ~line /\ ~open =>
              /\ Char(k) \in Quotes => Begin(text, lang, k) = [in |-> "string", by |-> Char(k)]
              /\ Char(k) \in DigitChars => Begin(text, lang, k) = Mode("number")
              /\ Char(k) \in WordChars \ DigitChars => Begin(text, lang, k) = Mode("word")
              /\ Char(k) \notin WordChars \cup Quotes => Begin(text, lang, k) = Mode("code")
<1> USE DEF Begin, Char
<1>1. /\ "/" \notin Quotes \cup WordChars /\ "#" \notin Quotes \cup WordChars /\ "/" # "#" /\ "/" # "*"
      /\ Quotes \cap WordChars = {} /\ DigitChars \subseteq WordChars
      /\ CLike \cap HashLike = {}
  BY DEF Quotes, WordChars, DigitChars, Letters, CLike, HashLike
<1>2. CASE lang \in CLike /\ Char(k) = "/" /\ Char(k + 1) = "/"
  BY <1>1, <1>2
<1>3. CASE lang \in HashLike /\ Char(k) = "#"
  BY <1>1, <1>3
<1>4. CASE open
  BY <1>1, <1>4
<1>5. CASE ~line /\ ~open
  <2>1. /\ ~(lang \in CLike /\ Char(k) = "/" /\ Char(k + 1) = "/")
        /\ ~(lang \in HashLike /\ Char(k) = "#")
        /\ ~(lang \in CLike /\ Char(k) = "/" /\ Char(k + 1) = "*")
    BY <1>5
  <2>2. CASE Char(k) \in Quotes
    BY <1>1, <1>5, <2>1, <2>2
  <2>3. CASE Char(k) \in DigitChars
    BY <1>1, <1>5, <2>1, <2>3
  <2>4. CASE Char(k) \in WordChars \ DigitChars
    BY <1>1, <1>5, <2>1, <2>4
  <2>5. CASE Char(k) \notin WordChars \cup Quotes
    BY <1>1, <1>5, <2>1, <2>5
  <2> QED
    BY <1>5, <2>2, <2>3, <2>4, <2>5
<1> QED
  BY <1>2, <1>3, <1>4, <1>5

\* What the reader makes of the character at i.
LEMMA ReadAtI ==
  ASSUME SynInv, i <= N
  PROVE  /\ AtLineComment => Now[i] = Mode("line")
         /\ ~AtLineComment /\ AtBlockComment => Now[i] = Mode("open")
         /\ ~AtLineComment /\ ~AtBlockComment =>
              /\ Char(i) \in Quotes => Now[i] = [in |-> "string", by |-> Char(i)]
              /\ Char(i) \in DigitChars => Now[i] = Mode("number")
              /\ Char(i) \in WordChars \ DigitChars => Now[i] = Mode("word")
              /\ Char(i) \notin WordChars \cup Quotes => Now[i] = Mode("code")
<1>1. Now[i] = Begin(text, lang, i)
  BY AtIs DEF Starts
<1>2. /\ AtLineComment <=> \/ lang \in CLike /\ Char(i) = "/" /\ Char(i + 1) = "/"
                           \/ lang \in HashLike /\ Char(i) = "#"
      /\ AtBlockComment <=> lang \in CLike /\ Char(i) = "/" /\ Char(i + 1) = "*"
  BY AtIs
<1> QED
  BY <1>1, <1>2, BeginIs

LEMMA NowStep ==
  ASSUME NEW n \in Nat, NEW k, k = n + 1
  PROVE  Now[k] = Advance(text, lang, Now[n], k) /\ Now[k] \in ModesOfReader
<1>1. k \in Nat \ {0} /\ k - 1 = n
  OBVIOUS
<1> QED
  BY <1>1, ModesAre DEF Now

\* A mode that lasts from a on lasts up to b.
\* A mode that each character up to a keeps is the mode at a.
LEMMA Lasts ==
  ASSUME NEW a \in Nat, NEW b \in Nat, a <= b, NEW m, Now[a].in = m,
         \A n \in a .. b - 1 : Now[n].in = m => Now[n + 1].in = m
  PROVE  \A n \in a .. b : Now[n].in = m
<1> DEFINE T == {d \in Nat : a + d <= b => Now[a + d].in = m}
<1>1. 0 \in T
  <2>1. a + 0 = a
    OBVIOUS
  <2> QED
    BY <2>1
<1>2. ASSUME NEW d \in Nat, d \in T PROVE d + 1 \in T
  <2>1. PICK n \in Nat, k \in Nat : n = a + d /\ k = a + (d + 1) /\ k = n + 1
    OBVIOUS
  <2>2. CASE k <= b
    <3>1. n \in a .. b - 1 /\ n <= b
      BY <2>1, <2>2
    <3>2. Now[n].in = m
      BY <1>2, <2>1, <3>1
    <3>3. Now[n + 1].in = m
      BY <3>1, <3>2
    <3> QED
      BY <2>1, <3>3
  <2>3. CASE ~(k <= b)
    BY <2>1, <2>3
  <2> QED
    BY <2>2, <2>3
<1> HIDE DEF T
<1>3. Nat \subseteq T
  BY <1>1, <1>2, ReachesAll
<1>4. ASSUME NEW n \in a .. b PROVE Now[n].in = m
  <2>1. PICK d \in Nat : n = a + d
    <3>1. n - a \in Nat /\ n = a + (n - a)
      OBVIOUS
    <3> QED
      BY <3>1
  <2> QED
    BY <1>3, <2>1 DEF T
<1> QED
  BY <1>4

LEMMA LineCommentKeeps == SynInv /\ LineComment => SynInv'
<1> SUFFICES ASSUME SynInv, LineComment PROVE SynInv'
  OBVIOUS
<1>1. i <= N /\ AtLineComment /\ Push(N + 1, "comment")
  BY DEF LineComment
<1>2. i \in Nat \ {0} /\ N \in Nat /\ Starts(i)
  BY <1>1, AtIs
<1>4. Now[i].in = "line"
  <2>1. Now[i] = Mode("line")
    BY <1>1, ReadAtI
  <2> QED
    BY <2>1 DEF Mode
<1>5. \A n \in i .. N - 1 : Now[n].in = "line" => Now[n + 1].in = "line"
  <2>1. ASSUME NEW n \in i .. N - 1, Now[n].in = "line" PROVE Now[n + 1].in = "line"
    <3>1. n \in Nat
      BY <1>2
    <3>2. PICK k : k = n + 1
      OBVIOUS
    <3>3. Now[k] = Advance(text, lang, Now[n], k)
      BY <3>1, <3>2, NowStep
    <3>4. Advance(text, lang, Now[n], k) = Now[n]
      BY <2>1 DEF Advance
    <3> QED
      BY <2>1, <3>2, <3>3, <3>4
  <2> QED
    BY <2>1
<1>6. \A n \in i .. N : Now[n].in = "line"
  BY <1>1, <1>2, <1>4, <1>5, Lasts
<1>7. ASSUME NEW n \in i .. N + 1 - 1 PROVE KindAt(text, lang, n) = "comment"
  <2>1. n \in i .. N
    BY <1>2
  <2>2. Now[n].in = "line"
    BY <1>6, <2>1
  <2>3. KindAt(text, lang, n) = KindOf("line")
    BY <2>2, Plainly
  <2> QED
    BY <2>3 DEF KindOf
<1>8. PICK stop \in i + 1 .. N + 1 : stop = N + 1 /\ ~(stop <= N)
  BY <1>1, <1>2
<1>9. PICK kind \in RunKinds : kind = "comment"
  BY DEF RunKinds
<1>10. Push(stop, kind) /\ \A n \in i .. stop - 1 : KindAt(text, lang, n) = kind
  <2>1. stop - 1 = N + 1 - 1
    BY <1>2, <1>8
  <2> QED
    BY <1>1, <1>7, <1>8, <1>9, <2>1
<1> QED
  BY <1>1, <1>8, <1>10, PushKeeps

LEMMA OtherCharKeeps == SynInv /\ OtherChar => SynInv'
<1> SUFFICES ASSUME SynInv, OtherChar PROVE SynInv'
  OBVIOUS
<1>1. i <= N /\ ~AtLineComment /\ ~AtBlockComment /\ Char(i) \notin WordChars \cup Quotes /\ Push(i + 1, "plain")
  BY DEF OtherChar, InCode
<1>2. i \in Nat \ {0} /\ N \in Nat /\ Starts(i)
  BY <1>1, AtIs
<1>4. Now[i].in = "code"
  <2>1. Now[i] = Mode("code")
    BY <1>1, ReadAtI
  <2> QED
    BY <2>1 DEF Mode
<1>5. PICK k \in Nat \ {0} : k = i + 1 /\ k - 1 = i
  BY <1>2
<1>6. Starts(k)
  BY <1>4, <1>5, StartsBehind
<1>7. KindAt(text, lang, i) = "plain"
  <2>1. KindAt(text, lang, i) = KindOf("code")
    BY <1>4, Plainly
  <2> QED
    BY <2>1 DEF KindOf
<1>8. PICK stop \in i + 1 .. N + 1 : stop = k /\ \A n \in i .. stop - 1 : n = i
  BY <1>1, <1>2, <1>5
<1>9. PICK kind \in RunKinds : kind = "plain"
  BY DEF RunKinds
<1>10. Push(stop, kind) /\ (\A n \in i .. stop - 1 : KindAt(text, lang, n) = kind) /\ Starts(stop)
  BY <1>1, <1>5, <1>6, <1>7, <1>8, <1>9
<1> QED
  BY <1>1, <1>8, <1>10, PushKeeps

\* The first position that is not in S.
\* Where a word or a number stops.
LEMMA EndIs ==
  ASSUME SynInv, NEW from \in 1 .. N + 1, NEW S, "none" \notin S
  PROVE  /\ EndOf(from, S) \in from .. N + 1
         /\ Char(EndOf(from, S)) \notin S
         /\ \A m \in from .. EndOf(from, S) - 1 : Char(m) \in S
<1>1. N \in Nat /\ N = Len(text)
  BY DEF SynInv, N
<1> DEFINE Good(k) == Char(k) \notin S
           U == {k \in Nat : k >= from /\ Good(k)}
<1>2. N + 1 \in U
  <2>1. Char(N + 1) = "none"
    BY <1>1 DEF Char, CharAt
  <2> QED
    BY <1>1, <2>1
<1>3. U \in SUBSET Nat /\ U # {}
  BY <1>2
<1> HIDE DEF U
<1>4. PICK k \in U : \A m \in U : k <= m
  BY <1>3, LeastNumber
<1>5. k \in from .. N + 1 /\ Char(k) \notin S
  BY <1>1, <1>2, <1>4 DEF U
<1>6. ASSUME NEW m \in from .. k - 1 PROVE Char(m) \in S
  <2>1. m \in Nat /\ m >= from /\ ~(k <= m)
    BY <1>1, <1>5
  <2>2. m \notin U
    BY <1>4, <2>1
  <2> QED
    BY <2>1, <2>2 DEF U
<1> QED
  BY <1>5, <1>6 DEF EndOf

LEMMA NumberRunKeeps == SynInv /\ NumberRun => SynInv'
<1> SUFFICES ASSUME SynInv, NumberRun PROVE SynInv'
  OBVIOUS
<1> DEFINE z == EndOf(i + 1, NumberChars)
<1>1. i <= N /\ ~AtLineComment /\ ~AtBlockComment /\ Char(i) \in DigitChars /\ Push(z, "number")
  BY DEF NumberRun, InCode
<1>2. i \in Nat \ {0} /\ N \in Nat
  BY <1>1, AtIs
<1>3. z \in i + 1 .. N + 1 /\ Char(z) \notin NumberChars /\ \A m \in i + 1 .. z - 1 : Char(m) \in NumberChars
  <2>1. i + 1 \in 1 .. N + 1
    BY <1>1, <1>2
  <2>2. "none" \notin NumberChars
    BY DEF NumberChars
  <2> QED
    BY <2>1, <2>2, EndIs
<1> HIDE DEF z
<1>4. Now[i].in = "number"
  <2>1. Now[i] = Mode("number")
    BY <1>1, ReadAtI
  <2> QED
    BY <2>1 DEF Mode
<1>5. PICK last \in Nat : last = z - 1 /\ i <= last
  BY <1>2, <1>3
<1>6. \A n \in i .. last : Now[n].in = "number"
  <2>1. ASSUME NEW n \in i .. last - 1, Now[n].in = "number" PROVE Now[n + 1].in = "number"
    <3>1. PICK k \in Nat \ {0} : k = n + 1 /\ k \in i + 1 .. z - 1 /\ n \in Nat
      BY <1>2, <1>5
    <3>2. Now[k] = Advance(text, lang, Now[n], k) /\ Char(k) \in NumberChars
      BY <1>3, <3>1, NowStep
    <3>3. Advance(text, lang, Now[n], k) = Now[n]
      BY <2>1, <3>2 DEF Advance, Char
    <3> QED
      BY <2>1, <3>1, <3>2, <3>3
  <2> QED
    BY <1>2, <1>4, <1>5, <2>1, Lasts
<1>7. Starts(z)
  <2>1. z \in Nat \ {0} /\ last \in i .. last
    BY <1>2, <1>3, <1>5
  <2>2. Now[z - 1].in = "number"
    BY <1>5, <1>6, <2>1
  <2> QED
    BY <1>3, <2>1, <2>2, StartsBehind
<1>8. ASSUME NEW n \in i .. z - 1 PROVE KindAt(text, lang, n) = "number"
  <2>1. Now[n].in = "number"
    BY <1>5, <1>6
  <2>2. KindAt(text, lang, n) = KindOf("number")
    BY <2>1, Plainly
  <2> QED
    BY <2>2 DEF KindOf
<1>9. PICK kind \in RunKinds : kind = "number"
  BY DEF RunKinds
<1>10. Push(z, kind) /\ \A n \in i .. z - 1 : KindAt(text, lang, n) = kind
  BY <1>1, <1>8, <1>9
<1> QED
  BY <1>1, <1>3, <1>7, <1>10, PushKeeps

LEMMA WordRunKeeps == SynInv /\ WordRun => SynInv'
<1> SUFFICES ASSUME SynInv, WordRun PROVE SynInv'
  OBVIOUS
<1> DEFINE z == EndOf(i + 1, WordChars)
           w == SubSeq(text, i, z - 1)
<1>1. /\ i <= N /\ ~AtLineComment /\ ~AtBlockComment /\ Char(i) \in WordChars \ DigitChars
      /\ Push(z, IF w \in Keywords[lang] THEN "keyword" ELSE "plain")
  BY DEF WordRun, InCode
<1>2. i \in Nat \ {0} /\ N \in Nat /\ N = Len(text) /\ Starts(i)
  BY <1>1, AtIs
<1>3. z \in i + 1 .. N + 1 /\ Char(z) \notin WordChars /\ \A m \in i + 1 .. z - 1 : Char(m) \in WordChars
  <2>1. i + 1 \in 1 .. N + 1
    BY <1>1, <1>2
  <2>2. "none" \notin WordChars
    BY DEF WordChars, DigitChars, Letters
  <2> QED
    BY <2>1, <2>2, EndIs
<1> HIDE DEF z, w
<1>4. Now[i].in = "word"
  <2>1. Now[i] = Mode("word")
    BY <1>1, ReadAtI
  <2> QED
    BY <2>1 DEF Mode
<1>5. PICK last \in Nat : last = z - 1 /\ i <= last /\ last <= N /\ last + 1 = z
  BY <1>2, <1>3
<1>6. \A n \in i .. last : Now[n].in = "word"
  <2>1. ASSUME NEW n \in i .. last - 1, Now[n].in = "word" PROVE Now[n + 1].in = "word"
    <3>1. PICK k \in Nat \ {0} : k = n + 1 /\ k \in i + 1 .. z - 1 /\ n \in Nat
      BY <1>2, <1>5
    <3>2. Now[k] = Advance(text, lang, Now[n], k) /\ Char(k) \in WordChars
      BY <1>3, <3>1, NowStep
    <3>3. Advance(text, lang, Now[n], k) = Now[n]
      BY <2>1, <3>2 DEF Advance, Char
    <3> QED
      BY <2>1, <3>1, <3>2, <3>3
  <2> QED
    BY <1>2, <1>4, <1>5, <2>1, Lasts
<1>7. Starts(z)
  <2>1. z \in Nat \ {0} /\ last \in i .. last
    BY <1>2, <1>3, <1>5
  <2>2. Now[z - 1].in = "word"
    BY <1>5, <1>6, <2>1
  <2> QED
    BY <1>3, <2>1, <2>2, StartsBehind
<1> DEFINE W(n) == InWord(text, lang, n)
<1>8. (\A n \in i .. last : W(n)) /\ ~W(i - 1) /\ ~W(last + 1)
  <2>1. \A n \in i .. last : W(n)
    BY <1>2, <1>5, <1>6 DEF InWord, Now
  <2>2. ~W(i - 1)
    BY <1>1, <1>2 DEF InWord, Now, Starts
  <2>3. ~W(z)
    <3>1. Now[z].in # "word"
      <4>1. Now[z] = Begin(text, lang, z)
        BY <1>7 DEF Starts
      <4> QED
        BY <1>3, <4>1 DEF Begin, Char, Mode
    <3> QED
      BY <3>1 DEF InWord, Now
  <2> QED
    BY <1>5, <2>1, <2>2, <2>3
<1> HIDE DEF W
<1>9. ASSUME NEW n \in i .. last PROVE WordAt(text, lang, n) = w
  <2> DEFINE From(a) == ~W(a - 1) /\ \A m \in a .. n : W(m)
             To(b) == ~W(b + 1) /\ \A m \in n .. b : W(m)
  <2>0. n \in Nat
    BY <1>2
  <2>1. i \in 1 .. n /\ From(i)
    BY <1>2, <1>8
  <2>2. ASSUME NEW a \in 1 .. n, From(a) PROVE a = i
    <3>1. CASE a < i
      <4>1. i - 1 \in a .. n
        BY <1>2, <3>1
      <4> QED
        BY <1>8, <2>2, <4>1
    <3>2. CASE a > i
      <4>1. a - 1 \in i .. last
        BY <1>2, <1>5, <3>2
      <4> QED
        BY <1>8, <2>2, <4>1
    <3> QED
      BY <1>2, <3>1, <3>2
  <2>3. last \in n .. Len(text) /\ To(last)
    BY <1>2, <1>5, <1>8
  <2>4. ASSUME NEW b \in n .. Len(text), To(b) PROVE b = last
    <3>1. CASE b > last
      <4>1. last + 1 \in n .. b
        BY <1>2, <1>5, <3>1
      <4> QED
        BY <1>8, <2>4, <4>1
    <3>2. CASE b < last
      <4>1. b + 1 \in i .. last
        BY <1>2, <1>5, <3>2
      <4> QED
        BY <1>8, <2>4, <4>1
    <3> QED
      BY <1>2, <1>5, <3>1, <3>2
  <2>5. (CHOOSE a \in 1 .. n : From(a)) = i
    BY <2>1, <2>2
  <2>6. (CHOOSE b \in n .. Len(text) : To(b)) = last
    BY <2>3, <2>4
  <2>7. WordAt(text, lang, n) = SubSeq(text, i, last)
    BY <2>5, <2>6 DEF WordAt, W
  <2> QED
    BY <1>5, <2>7 DEF w
<1>10. PICK kind \in RunKinds : kind = IF w \in Keywords[lang] THEN "keyword" ELSE "plain"
  BY DEF RunKinds
<1>11. ASSUME NEW n \in i .. z - 1 PROVE KindAt(text, lang, n) = kind
  <2>1. n \in i .. last
    BY <1>5
  <2>2. W(n) /\ WordAt(text, lang, n) = w /\ Now[n].in = "word"
    BY <1>6, <1>8, <1>9, <2>1
  <2>3. KindAt(text, lang, n) = IF w \in Keywords[lang] THEN "keyword" ELSE KindOf("word")
    BY <2>2 DEF KindAt, W, Now
  <2> QED
    BY <1>10, <2>3 DEF KindOf
<1>12. Push(z, kind)
  BY <1>1, <1>10
<1> QED
  BY <1>1, <1>3, <1>7, <1>11, <1>12, PushKeeps

LEMMA BlockCommentKeeps == SynInv /\ BlockComment => SynInv'
<1> SUFFICES ASSUME SynInv, BlockComment PROVE SynInv'
  OBVIOUS
<1> DEFINE z == BlockEnd(i + 2)
           ends == {k \in i + 2 .. N : StartsWith(k, <<"*", "/">>)}
<1>1. i <= N /\ ~AtLineComment /\ AtBlockComment /\ Push(z, "comment")
  BY DEF BlockComment
<1>2. i \in Nat \ {0} /\ N \in Nat /\ N = Len(text) /\ text \in Seq(Chars)
  BY <1>1, AtIs DEF SynInv
<1>3. Char(i + 1) = "*" /\ i + 1 <= N
  <2>1. Char(i + 1) = "*"
    BY <1>1, AtIs
  <2> QED
    BY <1>2, <2>1 DEF Char, CharAt
<1>4. Now[i].in = "open"
  <2>1. Now[i] = Mode("open")
    BY <1>1, ReadAtI
  <2> QED
    BY <2>1 DEF Mode
<1>5. Now[i + 1].in = "block"
  <2>1. Now[i + 1] = Advance(text, lang, Now[i], i + 1)
    BY <1>2, NowStep
  <2>2. Advance(text, lang, Now[i], i + 1) = Mode("block")
    BY <1>4 DEF Advance
  <2> QED
    BY <2>1, <2>2 DEF Mode
<1>6. ASSUME NEW k \in i + 2 .. N
      PROVE  k \in ends <=> Char(k) = "*" /\ Char(k + 1) = "/"
  <2>1. k \in Nat \ {0}
    BY <1>2
  <2>2. StartsWith(k, <<"*", "/">>) <=> Char(k) = "*" /\ Char(k + 1) = "/"
    BY <1>2, <2>1, StartsTwo
  <2> QED
    BY <2>2
\* Inside, up to the end or the line's.
<1>7. ASSUME NEW b \in Nat, i + 1 <= b, b <= N, \A k \in i + 2 .. b : k \notin ends
      PROVE  \A n \in i + 1 .. b : Now[n].in = "block"
  <2>1. ASSUME NEW n \in i + 1 .. b - 1, Now[n].in = "block" PROVE Now[n + 1].in = "block"
    <3>1. PICK k \in Nat : k = n + 1 /\ k \in i + 2 .. b /\ n \in Nat /\ k \in i + 2 .. N
      BY <1>2, <1>7
    <3>2. Now[k] = Advance(text, lang, Now[n], k)
      BY <3>1, NowStep
    <3>3. ~(Char(k) = "*" /\ Char(k + 1) = "/")
      BY <1>6, <1>7, <3>1
    <3>4. Advance(text, lang, Now[n], k) = Now[n]
      BY <2>1, <3>3 DEF Advance, Char
    <3> QED
      BY <2>1, <3>1, <3>2, <3>4
  <2>2. PICK a \in Nat : a = i + 1
    BY <1>2
  <2> QED
    BY <1>5, <1>7, <2>1, <2>2, Lasts
<1>8. ASSUME NEW n, Now[n].in \in {"open", "block", "close", "closed"} PROVE KindAt(text, lang, n) = "comment"
  <2>1. KindAt(text, lang, n) = KindOf(Now[n].in)
    BY <1>8, Plainly
  <2> QED
    BY <1>8, <2>1 DEF KindOf
<1>9. PICK kind \in RunKinds : kind = "comment"
  BY DEF RunKinds
<1>10. CASE ends = {}
  <2>1. BlockEnd(i + 2) = N + 1
    BY <1>10 DEF BlockEnd
  <2>2. \A n \in i + 1 .. N : Now[n].in = "block"
    BY <1>2, <1>3, <1>7, <1>10
  <2>3. PICK stop \in i + 1 .. N + 1 : stop = N + 1 /\ ~(stop <= N) /\ stop - 1 = N
    BY <1>1, <1>2
  <2>4. ASSUME NEW n \in i .. stop - 1 PROVE KindAt(text, lang, n) = kind
    <3>1. n = i \/ n \in i + 1 .. N
      BY <1>2, <2>3
    <3> QED
      BY <1>4, <1>8, <1>9, <2>2, <3>1
  <2>5. Push(stop, kind)
    BY <1>1, <1>9, <2>1, <2>3
  <2> QED
    BY <1>1, <2>3, <2>4, <2>5, PushKeeps
<1>11. CASE ends # {}
  <2>1. ends \in SUBSET Nat
    BY <1>2
  <2>2. \E k \in ends : \A m \in ends : k <= m
    BY <1>11, <2>1, LeastNumber
  <2>3. PICK k \in ends : (\A m \in ends : k <= m) /\ BlockEnd(i + 2) = k + 2
    <3> HIDE DEF ends
    <3>1. PICK k : k = CHOOSE e \in ends : \A m \in ends : e <= m
      OBVIOUS
    <3>2. k \in ends /\ \A m \in ends : k <= m
      BY <2>2, <3>1
    <3>3. BlockEnd(i + 2) = k + 2
      BY <1>11, <3>1 DEF BlockEnd, ends
    <3> QED
      BY <3>2, <3>3
  <2>4. k \in i + 2 .. N /\ k \in Nat /\ Char(k) = "*" /\ Char(k + 1) = "/"
    BY <1>2, <1>6
  <2>5. k + 1 <= N
    BY <1>2, <2>4 DEF Char, CharAt
  <2>6. PICK b \in Nat : b = k - 1 /\ i + 1 <= b /\ b <= N /\ k = b + 1
    BY <1>2, <2>4
  <2>7. \A n \in i + 1 .. b : Now[n].in = "block"
    <3>1. ASSUME NEW m \in i + 2 .. b PROVE m \notin ends
      <4>1. ~(k <= m)
        BY <1>2, <2>4, <2>6
      <4> QED
        BY <2>3, <4>1
    <3> QED
      BY <1>7, <2>6, <3>1
  <2>8. Now[k].in = "close"
    <3>1. Now[k] = Advance(text, lang, Now[b], k)
      BY <2>6, NowStep
    <3>2. Now[b].in = "block"
      BY <1>2, <2>6, <2>7
    <3>3. Advance(text, lang, Now[b], k) = Mode("close")
      BY <2>4, <3>2 DEF Advance, Char
    <3> QED
      BY <3>1, <3>3 DEF Mode
  <2>9. Now[k + 1].in = "closed"
    <3>1. Now[k + 1] = Advance(text, lang, Now[k], k + 1)
      BY <2>4, NowStep
    <3>2. Advance(text, lang, Now[k], k + 1) = Mode("closed")
      BY <2>8 DEF Advance
    <3> QED
      BY <3>1, <3>2 DEF Mode
  <2>10. PICK stop \in i + 1 .. N + 1 : stop = k + 2 /\ stop - 1 = k + 1 /\ stop \in Nat \ {0}
    BY <1>2, <2>4, <2>5
  <2>11. Starts(stop)
    BY <2>9, <2>10, StartsBehind
  <2>12. ASSUME NEW n \in i .. stop - 1 PROVE KindAt(text, lang, n) = kind
    <3>1. n = i \/ n \in i + 1 .. b \/ n = k \/ n = k + 1
      BY <1>2, <2>4, <2>6, <2>10
    <3> QED
      BY <1>4, <1>8, <1>9, <2>7, <2>8, <2>9, <3>1
  <2>13. Push(stop, kind)
    BY <1>1, <1>9, <2>3, <2>10
  <2> QED
    BY <1>1, <2>10, <2>11, <2>12, <2>13, PushKeeps
<1> QED
  BY <1>10, <1>11

\* One round of the scan for the end of a string.
Jump(q, j) == IF j > N \/ text[j] = q THEN j ELSE IF text[j] = "backslash" THEN j + 2 ELSE j + 1

LEMMA ScanIs ==
  ASSUME NEW q, NEW from \in Nat
  PROVE  /\ StringScan(q, from)[0] = from
         /\ \A n \in Nat : StringScan(q, from)[n + 1] = Jump(q, StringScan(q, from)[n])
<1> DEFINE S == Nat
           x0 == from
           F == [n \in Nat |-> [j \in S |-> Jump(q, j)]]
           P(h) == h = [n \in Nat |-> IF n = 0 THEN x0 ELSE Jump(q, h[n - 1])]
           r == CHOOSE h : P(h)
<1>1. \A j \in S : Jump(q, j) \in S
  BY DEF Jump
<1>2. StringScan(q, from) = r
  BY DEF StringScan, Jump
<1>3. x0 \in S
  OBVIOUS
<1> HIDE DEF S, x0
<1>4. F \in [Nat -> [S -> S]]
  BY <1>1
<1>5. \A n \in Nat, j \in S : F[n][j] = Jump(q, j)
  OBVIOUS
<1> HIDE DEF F
<1>6. PICK f \in [Nat -> S] : f = [n \in Nat |-> IF n = 0 THEN x0 ELSE F[n - 1][f[n - 1]]]
  BY <1>3, <1>4, Recurs, SMTT(60)
<1>7. P(f)
  <2>1. ASSUME NEW n \in Nat \ {0} PROVE F[n - 1][f[n - 1]] = Jump(q, f[n - 1])
    <3>1. n - 1 \in Nat
      OBVIOUS
    <3> QED
      BY <1>5, <3>1
  <2>2. ASSUME NEW n \in Nat PROVE f[n] = IF n = 0 THEN x0 ELSE Jump(q, f[n - 1])
    BY <1>6, <2>1
  <2>3. f = [n \in Nat |-> f[n]]
    OBVIOUS
  <2>4. f = [n \in Nat |-> IF n = 0 THEN x0 ELSE Jump(q, f[n - 1])]
    BY <2>2, <2>3
  <2> QED
    BY <2>4
<1>8. P(r)
  BY <1>7
<1>9. r[0] = x0 /\ \A n \in Nat \ {0} : r[n] = Jump(q, r[n - 1])
  <2> HIDE DEF r
  <2> QED
    BY <1>8
<1> HIDE DEF r
<1>10. ASSUME NEW n \in Nat PROVE r[n + 1] = Jump(q, r[n])
  <2>1. n + 1 \in Nat \ {0} /\ n + 1 - 1 = n
    OBVIOUS
  <2> QED
    BY <1>9, <2>1
<1> QED
  BY <1>2, <1>9, <1>10 DEF x0

LEMMA StringRunKeeps == SynInv /\ StringRun => SynInv'
<1> SUFFICES ASSUME SynInv, StringRun PROVE SynInv'
  OBVIOUS
<1>1. PICK q : q = Char(i)
  OBVIOUS
<1> DEFINE z == StringEnd(q, i + 1)
           at == StringScan(q, i + 1)
           Inside(j) == /\ Now[j - 1] = [in |-> "string", by |-> q]
                        /\ \A k \in i .. j - 1 : Now[k].in \in {"string", "escape"}
           T == {n \in Nat : /\ at[n] \in i + 1 .. N + 2
                             /\ Inside(at[n])
                             /\ at[n] >= i + 1 + n \/ at[n] > N \/ text[at[n]] = q}
<1>2. i <= N /\ ~AtLineComment /\ ~AtBlockComment /\ q \in Quotes /\ Push(z, "string")
  BY <1>1 DEF StringRun, InCode
<1>3. i \in Nat \ {0} /\ N \in Nat /\ N = Len(text)
  BY <1>2, AtIs
<1>4. at[0] = i + 1 /\ \A n \in Nat : at[n + 1] = Jump(q, at[n])
  <2>1. PICK from \in Nat : from = i + 1
    BY <1>3
  <2> QED
    BY <1>3, <2>1, ScanIs
<1>5. z = IF at[N] > N THEN N + 1 ELSE at[N] + 1
  BY DEF StringEnd
<1> HIDE DEF z, at
<1>6. 0 \in T
  <2>1. Now[i] = [in |-> "string", by |-> q]
    BY <1>1, <1>2, ReadAtI
  <2>2. i + 1 - 1 = i /\ \A k \in i .. i : k = i
    BY <1>3
  <2>3. Inside(i + 1)
    <3>1. PICK p \in Nat : p = i + 1 - 1 /\ p = i
      BY <1>3
    <3>2. \A k \in i .. p : Now[k].in \in {"string", "escape"}
      BY <2>1, <2>2, <3>1
    <3>3. Now[p] = [in |-> "string", by |-> q]
      BY <2>1, <3>1
    <3> QED
      BY <3>1, <3>2, <3>3
  <2>4. i + 1 \in i + 1 .. N + 2 /\ i + 1 >= i + 1 + 0
    BY <1>2, <1>3
  <2> HIDE DEF Inside
  <2> QED
    BY <1>4, <2>3, <2>4
<1>7. ASSUME NEW n \in Nat, n \in T PROVE n + 1 \in T
  <2>1. PICK j \in i + 1 .. N + 2 : j = at[n] /\ Inside(j) /\ (j >= i + 1 + n \/ j > N \/ text[j] = q)
    BY <1>7
  <2>2. at[n + 1] = Jump(q, j)
    BY <1>4, <2>1
  <2>3. CASE j > N \/ text[j] = q
    <3>1. at[n + 1] = j
      BY <2>2, <2>3 DEF Jump
    <3> HIDE DEF Inside
    <3> QED
      BY <2>1, <2>3, <3>1
  <2>4. CASE ~(j > N \/ text[j] = q)
    <3>1. PICK p \in Nat : p = j - 1 /\ j = p + 1 /\ i <= p /\ j <= N /\ j \in Nat
      <4> HIDE DEF Inside
      <4>1. j \in i + 1 .. N + 2 /\ ~(j > N)
        BY <2>1, <2>4
      <4> QED
        BY <1>3, <4>1
    <3>2. Now[j] = Advance(text, lang, Now[p], j) /\ Char(j) = text[j]
      BY <1>3, <3>1, NowStep DEF Char, CharAt
    <3>3. Now[p] = [in |-> "string", by |-> q] /\ \A k \in i .. p : Now[k].in \in {"string", "escape"}
      BY <2>1, <3>1
    <3>4. CASE text[j] = "backslash"
      <4>1. at[n + 1] = j + 2
        BY <2>2, <2>4, <3>4 DEF Jump
      <4>2. Now[j] = [in |-> "escape", by |-> q]
        <5>1. Advance(text, lang, Now[p], j) = [in |-> "escape", by |-> q]
          BY <3>2, <3>3, <3>4 DEF Advance, Char
        <5> QED
          BY <3>2, <5>1
      <4>3. Now[j + 1] = [in |-> "string", by |-> q]
        <5>1. Now[j + 1] = Advance(text, lang, Now[j], j + 1)
          BY <3>1, NowStep
        <5>2. Advance(text, lang, Now[j], j + 1) = [in |-> "string", by |-> q]
          BY <4>2 DEF Advance
        <5> QED
          BY <5>1, <5>2
      <4>4. ASSUME NEW k \in i .. j + 1 PROVE Now[k].in \in {"string", "escape"}
        <5>1. k \in i .. p \/ k = j \/ k = j + 1
          BY <1>3, <3>1
        <5> QED
          BY <3>3, <4>2, <4>3, <5>1
      <4>5. Inside(j + 2)
        <5>1. j + 2 - 1 = j + 1
          BY <3>1
        <5> QED
          BY <4>3, <4>4, <5>1
      <4>6. j + 2 \in i + 1 .. N + 2 /\ j + 2 >= i + 1 + (n + 1)
        BY <1>3, <2>1, <2>4, <3>1
      <4> HIDE DEF Inside
      <4> QED
        BY <4>1, <4>5, <4>6
    <3>5. CASE text[j] # "backslash"
      <4>1. at[n + 1] = j + 1
        BY <2>2, <2>4, <3>5 DEF Jump
      <4>2. Now[j] = [in |-> "string", by |-> q]
        <5>1. Advance(text, lang, Now[p], j) = [in |-> "string", by |-> q]
          BY <2>4, <3>2, <3>3, <3>5 DEF Advance, Char
        <5> QED
          BY <3>2, <5>1
      <4>3. ASSUME NEW k \in i .. j PROVE Now[k].in \in {"string", "escape"}
        <5>1. k \in i .. p \/ k = j
          BY <1>3, <3>1
        <5> QED
          BY <3>3, <4>2, <5>1
      <4>4. Inside(j + 1)
        <5>1. j + 1 - 1 = j
          BY <3>1
        <5> QED
          BY <4>2, <4>3, <5>1
      <4>5. j + 1 \in i + 1 .. N + 2 /\ j + 1 >= i + 1 + (n + 1)
        BY <1>3, <2>1, <2>4, <3>1
      <4> HIDE DEF Inside
      <4> QED
        BY <4>1, <4>4, <4>5
    <3> QED
      BY <3>4, <3>5
  <2> QED
    BY <2>3, <2>4
<1> HIDE DEF T
<1>8. Nat \subseteq T
  BY <1>6, <1>7, ReachesAll
<1>9. PICK j \in i + 1 .. N + 2 : j = at[N] /\ Inside(j) /\ (j > N \/ text[j] = q)
  <2>1. N \in T
    BY <1>3, <1>8
  <2> HIDE DEF Inside
  <2>2. at[N] \in i + 1 .. N + 2 /\ Inside(at[N]) /\ (at[N] >= i + 1 + N \/ at[N] > N \/ text[at[N]] = q)
    BY <2>1 DEF T
  <2>3. at[N] >= i + 1 + N => at[N] > N
    BY <1>3, <2>2
  <2> QED
    BY <2>2, <2>3
<1>10. ASSUME NEW n, Now[n].in \in {"string", "escape", "end"} PROVE KindAt(text, lang, n) = "string"
  <2>1. KindAt(text, lang, n) = KindOf(Now[n].in)
    BY <1>10, Plainly
  <2> QED
    BY <1>10, <2>1 DEF KindOf
<1>11. PICK kind \in RunKinds : kind = "string"
  BY DEF RunKinds
<1>12. CASE j > N
  <2>1. PICK stop \in i + 1 .. N + 1 : stop = N + 1 /\ stop - 1 = N /\ ~(stop <= N) /\ z = stop
    BY <1>2, <1>3, <1>5, <1>9, <1>12
  <2>2. ASSUME NEW n \in i .. stop - 1 PROVE KindAt(text, lang, n) = kind
    <3>1. n \in i .. j - 1
      BY <1>3, <1>12, <2>1
    <3> QED
      BY <1>9, <1>10, <1>11, <3>1
  <2>3. Push(stop, kind)
    BY <1>2, <1>11, <2>1
  <2> QED
    BY <1>2, <2>1, <2>2, <2>3, PushKeeps
<1>13. CASE ~(j > N)
  <2>1. PICK p \in Nat : p = j - 1 /\ j = p + 1 /\ j \in Nat \ {0} /\ j <= N
    BY <1>3, <1>13
  <2>2. Char(j) = q /\ q # "backslash"
    BY <1>2, <1>3, <1>9, <1>13, <2>1 DEF Char, CharAt, Quotes
  <2>3. Now[j] = Advance(text, lang, Now[p], j) /\ Now[p] = [in |-> "string", by |-> q]
    BY <1>9, <2>1, NowStep
  <2>4. Now[j].in = "end"
    <3>1. Advance(text, lang, Now[p], j) = Mode("end")
      BY <2>2, <2>3 DEF Advance, Char
    <3> QED
      BY <2>3, <3>1 DEF Mode
  <2>5. PICK stop \in i + 1 .. N + 1 : stop = j + 1 /\ stop - 1 = j /\ z = stop /\ stop \in Nat \ {0}
    BY <1>2, <1>3, <1>5, <1>9, <1>13, <2>1
  <2>6. Starts(stop)
    BY <2>4, <2>5, StartsBehind
  <2>7. ASSUME NEW n \in i .. stop - 1 PROVE KindAt(text, lang, n) = kind
    <3>1. n \in i .. j - 1 \/ n = j
      BY <1>3, <2>1, <2>5
    <3> QED
      BY <1>9, <1>10, <1>11, <2>4, <3>1
  <2>8. Push(stop, kind)
    BY <1>2, <1>11, <2>5
  <2> QED
    BY <1>2, <2>5, <2>6, <2>7, <2>8, PushKeeps
<1> QED
  BY <1>12, <1>13

LEMMA SynKept == SynInv /\ [SynNext]_synVars => SynInv'
<1>1. ASSUME SynInv, UNCHANGED synVars PROVE SynInv'
  <2>1. text' = text /\ lang' = lang /\ i' = i /\ runs' = runs
    BY <1>1 DEF synVars
  <2>2. SynInv' <=> SynInv
    BY <2>1 DEF SynInv, EndsAt, Starts, Now, Char, N
  <2> QED
    BY <1>1, <2>2
<1> QED
  BY <1>1, LineCommentKeeps, BlockCommentKeeps, StringRunKeeps, NumberRunKeeps, WordRunKeeps, OtherCharKeeps
  DEF SynNext

\* The texts of the runs, put together, have the ends of the runs.
LEMMA WrittenIs ==
  ASSUME SynInv
  PROVE  /\ Written[0] = <<>>
         /\ \A r \in 1 .. Len(runs) : Written[r] = Written[r - 1] \o runs[r].text
<1>1. PICK n \in Nat : n = Len(runs)
  BY DEF SynInv
<1> DEFINE S == Seq(Chars)
           x0 == <<>>
           F == [m \in Nat |-> [x \in S |-> IF m + 1 \in 1 .. n THEN x \o runs[m + 1].text ELSE x]]
           P(h) == h = [r \in 0 .. n |-> IF r = 0 THEN <<>> ELSE h[r - 1] \o runs[r].text]
           w == CHOOSE h : P(h)
<1>2. \A r \in 1 .. n : runs[r].text \in Seq(Chars)
  <2>1. ASSUME NEW r \in 1 .. n PROVE runs[r].text \in Seq(Chars)
    <3>1. runs \in Seq([text : Seq(Chars), kind : RunKinds])
      BY DEF SynInv
    <3>2. runs[r] \in [text : Seq(Chars), kind : RunKinds]
      BY <1>1, <3>1, ElementOfSeq
    <3> QED
      BY <3>2
  <2> QED
    BY <2>1
<1>3. F \in [Nat -> [S -> S]]
  <2>1. ASSUME NEW m \in Nat, NEW x \in S PROVE (IF m + 1 \in 1 .. n THEN x \o runs[m + 1].text ELSE x) \in S
    <3>1. CASE m + 1 \in 1 .. n
      <4>1. PICK y \in Seq(Chars) : y = runs[m + 1].text
        BY <1>2, <3>1
      <4>2. x \o y \in S
        BY <4>1
      <4> QED
        BY <3>1, <4>1, <4>2
    <3> QED
      BY <3>1
  <2> QED
    BY <2>1
<1>4. \A r \in 1 .. n, x \in S : F[r - 1][x] = x \o runs[r].text
  <2>1. ASSUME NEW r \in 1 .. n, NEW x \in S PROVE F[r - 1][x] = x \o runs[r].text
    <3>1. r - 1 \in Nat /\ r - 1 + 1 = r
      OBVIOUS
    <3>2. F[r - 1][x] = IF r - 1 + 1 \in 1 .. n THEN x \o runs[r - 1 + 1].text ELSE x
      BY <3>1
    <3> QED
      BY <3>1, <3>2
  <2> QED
    BY <2>1
<1>5. x0 \in S
  OBVIOUS
<1>6. Written = w
  BY <1>1 DEF Written
<1> HIDE DEF S, x0, F
<1>7. PICK f \in [Nat -> S] : f = [r \in Nat |-> IF r = 0 THEN x0 ELSE F[r - 1][f[r - 1]]]
  BY <1>3, <1>5, Recurs, SMTT(60)
<1> DEFINE g == [r \in 0 .. n |-> f[r]]
<1>8. P(g)
  <2>1. ASSUME NEW r \in 0 .. n PROVE g[r] = IF r = 0 THEN <<>> ELSE g[r - 1] \o runs[r].text
    <3>1. CASE r = 0
      BY <1>7, <3>1 DEF x0
    <3>2. CASE r # 0
      <4>1. r - 1 \in 0 .. n /\ r \in 1 .. n /\ r - 1 \in Nat /\ r \in Nat
        BY <3>2
      <4>2. f[r] = F[r - 1][f[r - 1]] /\ f[r - 1] \in S
        BY <1>7, <3>2, <4>1
      <4> QED
        BY <1>4, <3>2, <4>1, <4>2
    <3> QED
      BY <3>1, <3>2
  <2>2. g = [r \in 0 .. n |-> g[r]]
    OBVIOUS
  <2> HIDE DEF g
  <2>3. g = [r \in 0 .. n |-> IF r = 0 THEN <<>> ELSE g[r - 1] \o runs[r].text]
    BY <2>1, <2>2
  <2> QED
    BY <2>3
<1>9. P(w)
  BY <1>8
<1>10. \A r \in 0 .. n : w[r] = IF r = 0 THEN <<>> ELSE w[r - 1] \o runs[r].text
  <2> HIDE DEF w
  <2> QED
    BY <1>9
<1> HIDE DEF w
<1>11. 0 \in 0 .. n /\ \A r \in 1 .. n : r \in 0 .. n /\ r # 0
  OBVIOUS
<1> QED
  BY <1>1, <1>6, <1>10, <1>11

\* At the end of the line the invariant is the property.
LEMMA RunsMean == SynInv => RunsAreLexical
<1> SUFFICES ASSUME SynInv, i > N PROVE RunsAreLexical
  BY DEF RunsAreLexical
<1>1. /\ text \in Seq(Chars) /\ N \in Nat /\ N = Len(text) /\ i = N + 1
      /\ \A r \in 2 .. Len(runs) : runs[r].kind # runs[r - 1].kind
  BY DEF SynInv, N
<1>2. PICK n \in Nat : n = Len(runs)
  BY DEF SynInv
<1>3. PICK e : EndsAt(e)
  BY DEF SynInv
<1>4. /\ e \in [0 .. n -> 0 .. N] /\ e[0] = 0 /\ e[n] = N
      /\ \A r \in 1 .. n : /\ e[r - 1] <= e[r]
                           /\ runs[r].text = SubSeq(text, e[r - 1] + 1, e[r])
                           /\ \A k \in e[r - 1] + 1 .. e[r] : runs[r].kind = KindAt(text, lang, k)
  BY <1>1, <1>2, <1>3 DEF EndsAt
<1> DEFINE T == {r \in Nat : Written[r] = SubSeq(text, 1, e[r])}
<1>5. 0 \in T
  <2>1. SubSeq(text, 1, 0) = <<>>
    BY SubSeqEmpty
  <2> QED
    BY <1>4, <2>1, WrittenIs
<1>6. ASSUME NEW m \in Nat, m < n, m \in T PROVE m + 1 \in T
  <2>1. PICK r \in 1 .. n : r = m + 1 /\ r - 1 = m /\ m \in 0 .. n /\ r \in 0 .. n /\ r \in Nat
    BY <1>6
  <2>2. PICK a \in 0 .. N, b \in 0 .. N : a = e[m] /\ b = e[r]
    BY <1>4, <2>1
  <2>3. a <= b /\ runs[r].text = SubSeq(text, a + 1, b)
    BY <1>4, <2>1, <2>2
  <2>4. Written[r] = SubSeq(text, 1, a) \o SubSeq(text, a + 1, b)
    BY <1>2, <1>6, <2>1, <2>2, <2>3, WrittenIs
  <2>5. SubSeq(text, 1, a) \o SubSeq(text, a + 1, b) = SubSeq(text, 1, b)
    <3>1. PICK z \in Nat : z = 0 /\ z + 1 = 1 /\ z <= a
      OBVIOUS
    <3>2. text \in Seq(Chars) /\ a \in Nat /\ b \in Nat /\ a <= b /\ b <= Len(text)
      BY <1>1, <2>3
    <3>3. SubSeq(text, z + 1, a) \o SubSeq(text, a + 1, b) = SubSeq(text, z + 1, b)
      BY <3>1, <3>2, Glued
    <3> QED
      BY <3>1, <3>3
  <2> QED
    BY <2>1, <2>2, <2>4, <2>5
<1> HIDE DEF T
<1>7. \A r \in 0 .. n : Written[r] = SubSeq(text, 1, e[r])
  <2>1. 0 .. n \subseteq T
    BY <1>5, <1>6, Reaches
  <2> QED
    BY <2>1 DEF T
<1>8. ASSUME NEW r \in 0 .. n PROVE Len(Written[r]) = e[r]
  <2>1. PICK a \in 0 .. N, z \in Nat : a = e[r] /\ z = 0 /\ z + 1 = 1 /\ a - z = a /\ z <= a
    BY <1>4
  <2>2. Len(SubSeq(text, z + 1, a)) = a - z
    BY <1>1, <2>1, PartOf
  <2> QED
    BY <1>7, <2>1, <2>2
<1>9. Written[Len(runs)] = text
  <2>1. SubSeq(text, 1, N) = text
    BY <1>1
  <2>2. n \in 0 .. n
    OBVIOUS
  <2> QED
    BY <1>2, <1>4, <1>7, <2>1, <2>2
<1>10. ASSUME NEW r \in DOMAIN runs
       PROVE  \A k \in Len(Written[r - 1]) + 1 .. Len(Written[r]) : runs[r].kind = KindAt(text, lang, k)
  <2>1. r \in 1 .. n /\ r \in 0 .. n /\ r - 1 \in 0 .. n
    <3>1. DOMAIN runs = 1 .. n
      BY <1>2 DEF SynInv
    <3> QED
      BY <3>1
  <2>2. Len(Written[r - 1]) = e[r - 1] /\ Len(Written[r]) = e[r]
    BY <1>8, <2>1
  <2> QED
    BY <1>4, <2>1, <2>2
<1> QED
  BY <1>1, <1>9, <1>10 DEF RunsAreLexical

\* For every line and every language the runs of the highlighter put together
\* are the line, and each character is in a run of the kind that reading the
\* line one character after the other gives it (highlight, syntax.rs).
THEOREM RunsAreRight == SynSpec => []RunsAreLexical
<1>1. SynInit => SynInv
  BY SynStarts
<1>2. SynInv /\ [SynNext]_synVars => SynInv'
  BY SynKept
<1>3. SynInv => RunsAreLexical
  BY RunsMean
<1> QED
  BY <1>1, <1>2, <1>3, PTL DEF SynSpec
=============================================================================
