----------------------------- MODULE EditBuffer -----------------------------
(***************************************************************************)
(* The multiline buffer of the modal editor                                *)
(* (crates/orcarein/src/modal/buffer.rs), as operators from buffer to      *)
(* buffer, one per method of EditBuffer.                                   *)
(*                                                                         *)
(* A character is an element of a set; only whether it is a blank matters. *)
(* A line is a sequence of characters.  Rows and columns count from 0, as  *)
(* in the code.  Text that may hold line breaks (the register) is the      *)
(* sequence of its lines, so that joining and splitting at a line break    *)
(* are the identity on it.                                                 *)
(***************************************************************************)
EXTENDS Integers, Sequences, SequencesExt

Blank == " "
NoAnchor == [row |-> -1, col |-> -1]
EmptyText == << <<>> >>

IsVisual(mode) == mode \in {"visual", "vline"}

Cursor(r, c) == [row |-> r, col |-> c]

NewBuffer ==
    [lines |-> EmptyText, cursor |-> Cursor(0, 0), mode |-> "normal",
     anchor |-> NoAnchor, register |-> [text |-> EmptyText, linewise |-> FALSE],
     desired |-> 0, undo |-> <<>>, redo |-> <<>>]

FromText(text) == [NewBuffer EXCEPT !.lines = text]

Least(a, b) == IF a < b THEN a ELSE b
Most(a, b) == IF a < b THEN b ELSE a

\* The first n characters of a line and what follows them; both stop at its end.
Take(line, n) == SubSeq(line, 1, Least(n, Len(line)))
Drop(line, n) == SubSeq(line, Least(n, Len(line)) + 1, Len(line))

LastRow(b) == Len(b.lines) - 1
LineAt(b, r) == b.lines[r + 1]
Here(b) == LineAt(b, b.cursor.row)

\* Insert may stand one past the last character, the other modes may not.
LastCol(b, line) == IF b.mode = "insert" THEN Len(line) ELSE Most(Len(line) - 1, 0)

ClampCursor(b) ==
    LET r == Least(b.cursor.row, LastRow(b))
    IN  [b EXCEPT !.cursor = Cursor(r, Least(b.cursor.col, LastCol(b, LineAt(b, r))))]

-----------------------------------------------------------------------------
\* Motions.

\* To a column of this row; the sticky column follows the cursor.
Seek(b, c) ==
    LET moved == ClampCursor([b EXCEPT !.cursor.col = c])
    IN  [moved EXCEPT !.desired = moved.cursor.col]

\* To another row, at the sticky column if the row is long enough.
ToRow(b, r) ==
    LET goal == Most(b.desired, b.cursor.col)
    IN  ClampCursor([b EXCEPT !.desired = goal, !.cursor = Cursor(r, goal)])

\* The positions of a line's blanks, and of its other characters.
Blanks(line) == {j \in 0..(Len(line) - 1) : line[j + 1] = Blank}
Inked(line) == (0..(Len(line) - 1)) \ Blanks(line)

\* The first of the positions in goal from i on, or the end of the line.
Scan(line, i, goal) ==
    IF i >= Len(line) THEN i
    ELSE CHOOSE j \in i..Len(line) :
            /\ j = Len(line) \/ j \in goal
            /\ \A k \in i..(j - 1) : k \notin goal

\* The last position in goal that is not behind i, or the start of the line.
ScanBack(i, goal) ==
    CHOOSE j \in 0..i :
        /\ j = 0 \/ j \in goal
        /\ \A k \in (j + 1)..i : k \notin goal

FirstNonBlankCol(line) ==
    LET i == Scan(line, 0, Inked(line))
    IN  IF i = Len(line) THEN 0 ELSE i

WordForwardCol(line, c) ==
    LET gap  == Scan(line, c, Blanks(line))
        next == Scan(line, gap, Inked(line))
    IN  IF next < Len(line) THEN next ELSE Most(Len(line) - 1, 0)

WordBackCol(line, c) ==
    LET word == ScanBack(c - 1, Inked(line))
    IN  IF c = 0 THEN 0 ELSE ScanBack(word, {j + 1 : j \in Blanks(line)})

WordEndCol(line, c) ==
    LET n    == Len(line)
        word == Scan(line, c + 1, Inked(line))
        end  == Scan(line, word, {j - 1 : j \in Blanks(line)})
    IN  IF word >= n THEN Most(n - 1, 0) ELSE IF end = n THEN n - 1 ELSE end

\* The column a motion within the row leads to.
TargetCol(line, c, motion) ==
    CASE motion = "Left" -> Most(c - 1, 0)
      [] motion = "Right" -> c + 1
      [] motion = "WordFwd" -> WordForwardCol(line, c)
      [] motion = "WordBack" -> WordBackCol(line, c)
      [] motion = "WordEnd" -> WordEndCol(line, c)
      [] motion = "LineStart" -> 0
      [] motion = "LineEnd" -> Len(line)
      [] motion = "FirstNonBlank" -> FirstNonBlankCol(line)

Move(b, motion) ==
    LET r == b.cursor.row
    IN  CASE motion \in {"Up", "Down"} ->
                ToRow(b, IF motion = "Up" THEN Most(r - 1, 0) ELSE Least(r + 1, LastRow(b)))
          [] motion \in {"BufferTop", "BufferBottom"} ->
                Seek([b EXCEPT !.cursor.row = IF motion = "BufferTop" THEN 0 ELSE LastRow(b)], 0)
          [] OTHER -> Seek(b, TargetCol(Here(b), b.cursor.col, motion))

-----------------------------------------------------------------------------
\* Undo.  A snapshot is the text and the cursor.

Snapshot(b) == [lines |-> b.lines, cursor |-> b.cursor]

\* Mutant: an edit leaves the undone versions to be redone.
PushUndo_KeepRedo(b) == [b EXCEPT !.undo = Append(@, Snapshot(b))]
PushUndo(b) == [b EXCEPT !.undo = Append(@, Snapshot(b)), !.redo = <<>>]

Restore(b, snapshot) ==
    ClampCursor([b EXCEPT !.lines = snapshot.lines, !.cursor = snapshot.cursor])

Undo(b) ==
    IF b.undo = <<>> THEN b
    ELSE Restore([b EXCEPT !.undo = Front(@), !.redo = Append(@, Snapshot(b))],
                 Last(b.undo))

Redo(b) ==
    IF b.redo = <<>> THEN b
    ELSE Restore([b EXCEPT !.redo = Front(@), !.undo = Append(@, Snapshot(b))],
                 Last(b.redo))

-----------------------------------------------------------------------------
\* Entering and leaving modes.

Enter(b, mode) == ClampCursor([b EXCEPT !.mode = mode])

InsertBefore(b) == Enter(b, "insert")
InsertAfter(b) == Enter([b EXCEPT !.cursor.col = @ + 1], "insert")
InsertAtLineStart(b) == Enter(Move(b, "FirstNonBlank"), "insert")
InsertAtLineEnd(b) == Enter([b EXCEPT !.cursor.col = Len(Here(b))], "insert")
LeaveInsert(b) == Enter(b, "normal")

EnterVisual(b, mode) == [b EXCEPT !.anchor = b.cursor, !.mode = mode]

OpenAt(b, r) ==
    Enter([PushUndo(b) EXCEPT !.lines = InsertAt(@, r + 1, <<>>),
                              !.cursor = Cursor(r, 0)], "insert")
OpenBelow(b) == OpenAt(b, b.cursor.row + 1)
OpenAbove(b) == OpenAt(b, b.cursor.row)

-----------------------------------------------------------------------------
\* Editing in insert mode.

SetHere(b, line) == [b EXCEPT !.lines[b.cursor.row + 1] = line]

InsertChar(b, ch) ==
    LET c == b.cursor.col
    IN  [SetHere(PushUndo(b), Take(Here(b), c) \o <<ch>> \o Drop(Here(b), c))
            EXCEPT !.cursor.col = c + 1, !.desired = c + 1]

\* The lines of b with the rows from..to replaced by the lines new.
ReplaceRows(b, from, to, new) ==
    [b EXCEPT !.lines = SubSeq(b.lines, 1, from) \o new
                        \o SubSeq(b.lines, to + 2, Len(b.lines))]

InsertNewline(b) ==
    LET r == b.cursor.row
        c == b.cursor.col
    IN  [ReplaceRows(PushUndo(b), r, r, <<Take(Here(b), c), Drop(Here(b), c)>>)
            EXCEPT !.cursor = Cursor(r + 1, 0), !.desired = 0]

Backspace(b) ==
    LET r == b.cursor.row
        c == b.cursor.col
        above == LineAt(b, r - 1)
    IN  CASE r = 0 /\ c = 0 -> b
          [] c > 0 -> [SetHere(PushUndo(b), Take(Here(b), c - 1) \o Drop(Here(b), c))
                          EXCEPT !.cursor.col = c - 1, !.desired = c - 1]
          [] OTHER ->
                [ReplaceRows(PushUndo(b), r - 1, r, <<above \o Here(b)>>)
                    EXCEPT !.cursor = Cursor(r - 1, Len(above)), !.desired = Len(above)]

-----------------------------------------------------------------------------
\* Delete, change, yank and paste.

SetRegister(b, text, linewise) ==
    [b EXCEPT !.register = [text |-> text, linewise |-> linewise]]

Charwise(b, text) == SetRegister(b, text, FALSE)
Linewise(b, text) == SetRegister(b, text, TRUE)

DeleteChar(b) ==
    LET c == b.cursor.col
    IN  IF c >= Len(Here(b)) THEN b
        ELSE ClampCursor(Charwise(
                SetHere(PushUndo(b), Take(Here(b), c) \o Drop(Here(b), c + 1)),
                << <<Here(b)[c + 1]>> >>))

\* A buffer never runs out of lines.
KeepALine(b) == IF b.lines = <<>> THEN [b EXCEPT !.lines = EmptyText] ELSE b

DeleteLine(b) ==
    LET r == b.cursor.row
        gone == KeepALine(ReplaceRows(PushUndo(b), r, r, <<>>))
    IN  ClampCursor([Linewise(gone, <<Here(b)>>) EXCEPT !.cursor.col = 0])

ChangeLine(b) ==
    Enter([Linewise(SetHere(PushUndo(b), <<>>), <<Here(b)>>) EXCEPT !.cursor.col = 0],
          "insert")

Before(p, q) == p.row < q.row \/ (p.row = q.row /\ p.col <= q.col)
Low(p, q) == IF Before(p, q) THEN p ELSE q
High(p, q) == IF Before(p, q) THEN q ELSE p

\* The characters from lo to hi, both included, across lines.
CollectRange(b, lo, hi) ==
    IF lo.row = hi.row
    THEN << Drop(Take(LineAt(b, hi.row), hi.col + 1), lo.col) >>
    ELSE <<Drop(LineAt(b, lo.row), lo.col)>>
         \o SubSeq(b.lines, lo.row + 2, hi.row)
         \o <<Take(LineAt(b, hi.row), hi.col + 1)>>

YankRange(b, p, q) == Charwise(b, CollectRange(b, Low(p, q), High(p, q)))

DeleteRangeNoUndo(b, p, q) ==
    LET lo == Low(p, q)
        hi == High(p, q)
        joined == Take(LineAt(b, lo.row), lo.col) \o Drop(LineAt(b, hi.row), hi.col + 1)
    IN  ClampCursor([Charwise(ReplaceRows(b, lo.row, hi.row, <<joined>>),
                              CollectRange(b, lo, hi)) EXCEPT !.cursor = lo])

DeleteRange(b, p, q) == DeleteRangeNoUndo(PushUndo(b), p, q)

\* The text woven into row r before column c; the cursor on its last character.
SpliceCharwise(b, r, c, text) ==
    LET n     == Len(text)
        last  == Most(Len(text[n]) - 1, 0)
        first == <<Take(LineAt(b, r), c) \o text[1]>> \o Tail(text)
        woven == [first EXCEPT ![n] = @ \o Drop(LineAt(b, r), c)]
    IN  [ReplaceRows(b, r, r, woven)
            EXCEPT !.cursor = Cursor(r + n - 1, IF n = 1 THEN c + last ELSE last)]

Paste(b, r, c) ==
    LET reg == b.register
    IN  CASE reg.text = EmptyText /\ ~reg.linewise -> b
          [] reg.linewise ->
                ClampCursor([ReplaceRows(PushUndo(b), r, r - 1, reg.text)
                                EXCEPT !.cursor = Cursor(r, 0)])
          [] reg.text # EmptyText /\ ~reg.linewise ->
                ClampCursor(SpliceCharwise(PushUndo(b), b.cursor.row, c, reg.text))

PasteAfter(b) ==
    Paste(b, b.cursor.row + 1, IF Here(b) = <<>> THEN 0 ELSE b.cursor.col + 1)
PasteBefore(b) == Paste(b, b.cursor.row, b.cursor.col)

-----------------------------------------------------------------------------
\* The selection of the visual modes.

SelectionLow(b) == IF b.anchor = NoAnchor THEN b.cursor ELSE Low(b.anchor, b.cursor)
SelectionHigh(b) == IF b.anchor = NoAnchor THEN b.cursor ELSE High(b.anchor, b.cursor)

SelectedRows(b) ==
    SubSeq(b.lines, SelectionLow(b).row + 1,
           Least(SelectionHigh(b).row, LastRow(b)) + 1)

YankSelection(b) ==
    LET yanked == IF b.mode = "vline" THEN Linewise(b, SelectedRows(b))
                  ELSE YankRange(b, SelectionLow(b), SelectionHigh(b))
    IN  Enter([yanked EXCEPT !.anchor = NoAnchor], "normal")

DeleteSelectionInner(b) ==
    LET lo == SelectionLow(b)
        hi == SelectionHigh(b)
    IN  IF b.mode = "vline"
        THEN [Linewise(KeepALine(ReplaceRows(b, lo.row, Least(hi.row, LastRow(b)), <<>>)),
                       SelectedRows(b)) EXCEPT !.cursor = Cursor(lo.row, 0)]
        ELSE DeleteRangeNoUndo(b, lo, hi)

EndSelection(b, mode) ==
    Enter([DeleteSelectionInner(PushUndo(b)) EXCEPT !.anchor = NoAnchor], mode)
DeleteSelection(b) == EndSelection(b, "normal")
ChangeSelection(b) == EndSelection(b, "insert")

-----------------------------------------------------------------------------
(***************************************************************************)
(* What an editor promises of a buffer: the cursor stands on a character   *)
(* (in insert mode also behind the last one), the anchor of a selection    *)
(* stands in the text and exists in the visual modes only.                 *)
(***************************************************************************)
InText(b, p) == p.row \in 0..LastRow(b) /\ p.col \in 0..LastCol(b, LineAt(b, p.row))
WellPlaced(b) ==
    /\ b.lines # <<>>
    /\ InText(b, b.cursor)
    /\ b.anchor = NoAnchor <=> ~IsVisual(b.mode)
    /\ IsVisual(b.mode) => InText(b, b.anchor)
=============================================================================
