---------------------------- MODULE ModalCommand ----------------------------
(***************************************************************************)
(* The keys of the modal editor: the parser of normal-mode commands and    *)
(* the reducer that drives the buffer with them                            *)
(* (crates/orcarein/src/modal/command.rs).                                 *)
(*                                                                         *)
(* A key is a string: a character, or the name of a special key.  A count  *)
(* that was not typed is 0, and so is the index of a history recall that   *)
(* is not in progress.                                                     *)
(***************************************************************************)
EXTENDS EditBuffer

CONSTANT MaxCount    \* bound on a typed count

ASSUME MaxCountAssumption == MaxCount \in Nat

Digits == {"0", "1", "2", "3"}    \* the digits the keyboard of a run may have
DigitValue == [d \in Digits |-> CASE d = "0" -> 0 [] d = "1" -> 1
                                  [] d = "2" -> 2 [] d = "3" -> 3]

OpFor == [d |-> "Delete", c |-> "Change", y |-> "Yank"]

MotionFor ==
    [c \in {"h", "l", "k", "j", "w", "b", "e", "G", "$", "^"} |->
        CASE c = "h" -> "Left"    [] c = "l" -> "Right"
          [] c = "k" -> "Up"      [] c = "j" -> "Down"
          [] c = "w" -> "WordFwd" [] c = "b" -> "WordBack" [] c = "e" -> "WordEnd"
          [] c = "$" -> "LineEnd" [] c = "^" -> "FirstNonBlank"
          [] c = "G" -> "BufferBottom"]

\* Arrow keys behave as h, j, k and l.
ArrowKey == [Left |-> "h", Right |-> "l", Up |-> "k", Down |-> "j"]
KeyChar(key) == IF key \in DOMAIN ArrowKey THEN ArrowKey[key] ELSE key

Named == {"Esc", "Enter", "Backspace", "CtrlC", "CtrlD", "CtrlR", "Tab",
          "Up", "Down", "Left", "Right"}

-----------------------------------------------------------------------------
\* CommandParser.

Idle == [count1 |-> 0, op |-> "none", count2 |-> 0, g |-> FALSE, hist |-> 0]

Reset(p) == [Idle EXCEPT !.hist = p.hist]

TotalCount(p) == Most(p.count1, 1) * Most(p.count2, 1)

Pending == [kind |-> "pending"]
Cancel == [kind |-> "cancel"]
MotionCommand(motion, count) == [kind |-> "motion", motion |-> motion, count |-> count]
OpMotion(op, motion, count) ==
    [kind |-> "op motion", op |-> op, motion |-> motion, count |-> count]
OpLine(op, count) == [kind |-> "op line", op |-> op, count |-> count]

Fed(p, cmd) == [parser |-> p, cmd |-> cmd]

FinishMotion(p, motion) ==
    Fed(Reset(p), IF p.op = "none" THEN MotionCommand(motion, Most(p.count1, 1))
                  ELSE OpMotion(p.op, motion, TotalCount(p)))

FeedDigit(p, c) ==
    LET slot == IF p.op = "none" THEN p.count1 ELSE p.count2
        grown == slot * 10 + DigitValue[c]
    IN  IF c = "0" /\ slot = 0 THEN FinishMotion(p, "LineStart")
        ELSE Fed(IF p.op = "none" THEN [p EXCEPT !.count1 = grown]
                 ELSE [p EXCEPT !.count2 = grown], Pending)

FeedOperator(p, op) ==
    CASE p.op = "none" -> Fed([p EXCEPT !.op = op], Pending)
      [] p.op = op -> Fed(Reset(p), OpLine(op, TotalCount(p)))
      [] p.op \notin {"none", op} -> Fed(Reset(p), Pending)

FeedChar(p, c) ==
    CASE c \in Digits -> FeedDigit(p, c)
      [] c \in DOMAIN OpFor -> FeedOperator(p, OpFor[c])
      [] c = "Y" -> Fed(Reset(p), OpLine("Yank", TotalCount(p)))
      [] c = "D" -> FinishMotion([p EXCEPT !.op = "Delete"], "LineEnd")
      [] c = "C" -> FinishMotion([p EXCEPT !.op = "Change"], "LineEnd")
      [] c = "g" -> Fed([p EXCEPT !.g = TRUE], Pending)
      [] c \in DOMAIN MotionFor -> FinishMotion(p, MotionFor[c])
      [] OTHER -> Fed(Reset(p), Pending)

FeedAfterG(p, c) ==
    IF c = "g" THEN FinishMotion([p EXCEPT !.g = FALSE], "BufferTop")
    ELSE Fed(Reset(p), Pending)

Feed(p, key) ==
    LET c == KeyChar(key)
    IN  CASE key = "Esc" -> Fed(Reset(p), Cancel)
          [] key # "Esc" /\ c \in Named -> Fed(Reset(p), Pending)
          [] c \notin Named /\ p.g -> FeedAfterG(p, c)
          [] c \notin Named /\ ~p.g -> FeedChar(p, c)

-----------------------------------------------------------------------------
\* Executing a command on the buffer.

\* The buffer after step was applied n times.
Times(n, b, Step(_)) ==
    LET after[i \in 0..n] == IF i = 0 THEN b ELSE Step(after[i - 1])
    IN  after[n]

Moved(b, motion, count) == Times(count, b, LAMBDA m : Move(m, motion))

OnLines(b, op, count) ==
    CASE op = "Delete" -> Times(count, b, DeleteLine)
      [] op = "Change" -> ChangeLine(b)
      [] op = "Yank" -> Linewise(b, SubSeq(b.lines, b.cursor.row + 1,
                                           Least(b.cursor.row + count, Len(b.lines))))

\* The range is found by moving and back; the sticky column is put back too.
OnMotion(b, op, motion, count) ==
    LET end == Moved(b, motion, count).cursor
    IN  CASE op = "Delete" -> DeleteRange(b, b.cursor, end)
          [] op = "Yank" -> YankRange(b, b.cursor, end)
          [] op = "Change" -> InsertBefore(DeleteRange(b, b.cursor, end))

Execute(b, cmd) ==
    CASE cmd.kind = "motion" -> Moved(b, cmd.motion, cmd.count)
      [] cmd.kind = "op line" -> OnLines(b, cmd.op, cmd.count)
      [] cmd.kind = "op motion" -> OnMotion(b, cmd.op, cmd.motion, cmd.count)
      [] cmd.kind \in {"pending", "cancel"} -> b

-----------------------------------------------------------------------------
\* The reducer: what a key does to buffer and parser, by the mode.

InInsert(b, key) ==
    CASE key = "Enter" -> InsertNewline(b)
      [] key = "Backspace" -> Backspace(b)
      [] key = "Esc" -> LeaveInsert(b)
      [] key \in DOMAIN ArrowKey -> Move(b, MotionFor[ArrowKey[key]])
      [] key \in {"CtrlC", "CtrlD", "CtrlR", "Tab"} -> b
      [] key \notin Named -> InsertChar(b, key)

\* The keys of normal mode that the parser never sees.
OwnKeys == {"i", "a", "I", "A", "o", "O", "v", "V", "x", "p", "P", "u", "CtrlR"}

Own(b, key) ==
    CASE key = "i" -> InsertBefore(b)
      [] key = "a" -> InsertAfter(b)
      [] key = "I" -> InsertAtLineStart(b)
      [] key = "A" -> InsertAtLineEnd(b)
      [] key = "o" -> OpenBelow(b)
      [] key = "O" -> OpenAbove(b)
      [] key = "v" -> EnterVisual(b, "visual")
      [] key = "V" -> EnterVisual(b, "vline")
      [] key = "x" -> DeleteChar(b)
      [] key = "p" -> PasteAfter(b)
      [] key = "P" -> PasteBefore(b)
      [] key = "u" -> Undo(b)
      [] key = "CtrlR" -> Redo(b)

\* Keys that extend the selection; the parser's operators do nothing here.
ExtendSelection(b, p, key) ==
    LET fed == Feed(p, key)
    IN  [buf |-> IF fed.cmd.kind = "motion" THEN Moved(b, fed.cmd.motion, fed.cmd.count) ELSE b,
         parser |-> fed.parser]

VisualKeys == {"Esc", "d", "x", "y", "c"}

OnSelection(b, key) ==
    CASE key = "Esc" -> [b EXCEPT !.mode = "normal", !.anchor = NoAnchor]
      [] key \in {"d", "x"} -> DeleteSelection(b)
      [] key = "y" -> YankSelection(b)
      [] key = "c" -> ChangeSelection(b)

-----------------------------------------------------------------------------
\* History recall: k and j walk the earlier inputs from an empty line, and on
\* from a recalled entry that was not touched.

Recallable(b, p, history) ==
    \/ b.lines = EmptyText
    \/ p.hist # 0 /\ b.lines = history[p.hist]

RecallIndex(p, key, history) ==
    CASE p.hist = 0 -> Len(history)
      [] p.hist # 0 /\ KeyChar(key) = "k" -> Most(p.hist - 1, 1)
      [] p.hist # 0 /\ KeyChar(key) = "j" -> Least(p.hist + 1, Len(history))

Recalled(text) ==
    LET b == FromText(text)
    IN  ClampCursor([b EXCEPT !.cursor = Cursor(LastRow(b), Len(text[Len(text)]))])
=============================================================================
