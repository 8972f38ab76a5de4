------------------------------- MODULE Editor -------------------------------
(***************************************************************************)
(* One call of modal_readline, the raw-mode loop of the modal editor       *)
(* (crates/orcarein/src/modal/mod.rs), over the buffer, the key reducer    *)
(* and the completion popups.  One action is one round of the loop: a key  *)
(* that an open popup intercepts, or a key that is applied to the buffer   *)
(* and followed by the refresh of the popups.  The frame drawn at the head *)
(* of a round is a function of the state (FrameHeight and what follows).   *)
(***************************************************************************)
EXTENDS ModalCommand, Completion

CONSTANTS
    Typed,        \* the characters typed in insert mode
    Keys,         \* the keys pressed in the other modes
    History,      \* the earlier inputs that k and j recall
    Candidates,   \* the names each kind of popup offers
    MaxRows,      \* the cap on the frame: half of the terminal's height
    MaxKeys       \* bound on the keys of one call

ASSUME FrameAssumption == MaxRows \in Nat /\ MaxRows >= 3

\* A name is a sequence of characters, an earlier input has a line at least.
ASSUME CandidatesAssumption == \A kind \in Kinds : Candidates[kind] \in Seq(Seq(STRING))
ASSUME HistoryAssumption == History \in Seq(Seq(Seq(STRING)) \ {<<>>})

VARIABLES
    buf, parser, popup, outcome,
    pressed    \* the number of keys pressed, for the bound alone

vars == <<buf, parser, popup, outcome, pressed>>

AllClosed == [kind \in Kinds |-> Closed]

\* A prompt starts in insert mode.  The other initial states are a prompt left
\* for normal mode, where an earlier input was recalled.
Init ==
    /\ \/ /\ buf = InsertBefore(NewBuffer)
          /\ parser = Idle
       \/ \E i \in DOMAIN History :
            /\ buf = Recalled(History[i])
            /\ parser = [Idle EXCEPT !.hist = i]
    /\ popup = AllClosed
    /\ outcome = "reading"
    /\ pressed = 0

-----------------------------------------------------------------------------
\* The frame.

PopupMax == 8
PopupRows(p) ==
    LET open == {k \in Kinds : p[k].active}
    IN  IF open = {} THEN 0
        ELSE Least(Len(p[CHOOSE k \in open : TRUE].filtered), PopupMax)

FrameHeight == Least(Most(Len(buf.lines) + PopupRows(popup) + 1, 2), MaxRows)

\* The rows the renderer scrolls for, and the rows the layout leaves the text.
RenderedRows == Most(FrameHeight - 1, 1)
TextRows == Most(FrameHeight - 1 - PopupRows(popup), 1)

\* Mutant: the window is moved one row short of the cursor.
Scroll_Short ==
    LET r == buf.cursor.row
    IN  Least(IF r > RenderedRows THEN r - RenderedRows ELSE 0,
              Least(Most(Len(buf.lines) - RenderedRows, 0), r))
Scroll ==
    LET r == buf.cursor.row
    IN  Least(IF r >= RenderedRows THEN r + 1 - RenderedRows ELSE 0,
              Least(Most(Len(buf.lines) - RenderedRows, 0), r))

\* The band of the popup scrolls its selected name into view.
BandRows == FrameHeight - 1 - TextRows
BandTop(p) == Most(p.selected - Most(BandRows - 1, 0), 0)

\* The columns of row r that are drawn as selected.
\* Mutant: the last row of a selection is drawn without its last character.
Highlighted_Exclusive(b, r) ==
    LET lo == SelectionLow(b)
        hi == SelectionHigh(b)
        n  == Len(LineAt(b, r))
    IN  IF ~IsVisual(b.mode) \/ r \notin lo.row..hi.row THEN {}
        ELSE IF b.mode = "vline" THEN 0..(n - 1)
        ELSE (IF r = lo.row THEN lo.col ELSE 0)
                ..Least(n - 1, IF r = hi.row THEN hi.col - 1 ELSE n - 1)
Highlighted(b, r) ==
    LET lo == SelectionLow(b)
        hi == SelectionHigh(b)
        n  == Len(LineAt(b, r))
    IN  IF ~IsVisual(b.mode) \/ r \notin lo.row..hi.row THEN {}
        ELSE IF b.mode = "vline" THEN 0..(n - 1)
        ELSE (IF r = lo.row THEN lo.col ELSE 0)
                ..Least(n - 1, IF r = hi.row THEN hi.col ELSE n - 1)

-----------------------------------------------------------------------------
\* Keys an open popup intercepts.

Reading == outcome = "reading"
Open(kind) == Reading /\ popup[kind].active

Select(kind) ==
    /\ Open(kind)
    /\ \E s \in {Most(popup[kind].selected - 1, 0),
                 Least(popup[kind].selected + 1, Most(Len(popup[kind].filtered) - 1, 0))} :
            popup' = [popup EXCEPT ![kind].selected = s]
    /\ UNCHANGED <<buf, parser, outcome>>

\* Enter or Tab on a match.
AcceptMatch(kind) ==
    /\ Open(kind)
    /\ popup[kind].filtered # <<>>
    /\ buf' = Accept(buf, popup[kind], kind, Candidates[kind])
    /\ popup' = [popup EXCEPT ![kind] = Closed]
    /\ UNCHANGED <<parser, outcome>>

Dismiss(kind) ==
    /\ Open(kind)
    /\ popup' = [popup EXCEPT ![kind] = Closed]
    /\ UNCHANGED <<buf, parser, outcome>>

\* Enter in a picker without a match sends the line, so that the command can
\* reject it.
SubmitUnmatched(kind) ==
    /\ Open(kind)
    /\ kind # "mention"
    /\ popup[kind].filtered = <<>>
    /\ outcome' = "submitted"
    /\ UNCHANGED <<buf, parser, popup>>

-----------------------------------------------------------------------------
\* Keys that reach the buffer.

AnyOpen == \E kind \in Kinds : popup[kind].active

\* The keys that an open popup leaves to the buffer.
PassesPopups(key) ==
    /\ AnyOpen => key \notin {"Up", "Down", "Esc"}
    /\ \A kind \in Kinds :
            popup[kind].active =>
                /\ kind = "mention" /\ popup[kind].filtered = <<>>
                \/ key \notin {"Enter", "Tab"}

\* The popups after the buffer became b: they live in insert mode, one at most,
\* mentions before models before modes.
Refreshed(b) ==
    LET fresh(kind) == IF b.mode = "insert" THEN Refresh(popup[kind], kind, b, Candidates[kind])
                       ELSE Closed
        Ahead == [mention |-> {}, model |-> {"mention"}, mode |-> {"mention", "model"}]
    IN  [kind \in Kinds |->
            IF \E other \in Ahead[kind] : fresh(other).active THEN Closed ELSE fresh(kind)]

\* What each key does to buffer and parser; the round that applies it goes on
\* to refresh the popups (EditKey).
InsertKey(key) ==
    /\ Reading /\ buf.mode = "insert"
    /\ PassesPopups(key)
    /\ buf' = InInsert(buf, key)
    /\ UNCHANGED parser

Ends(how) ==
    /\ outcome' = how
    /\ UNCHANGED <<buf, parser, popup>>

\* Enter sends, Ctrl-C drops the line, Ctrl-D on an empty text is the end.
EndKey(key) ==
    /\ Reading /\ buf.mode = "normal"
    /\ \/ key = "Enter" /\ Ends("submitted")
       \/ key = "CtrlC" /\ Ends("cancelled")
       \/ key = "CtrlD" /\ buf.lines = EmptyText /\ Ends("eof")

IsRecallKey(key) == KeyChar(key) \in {"k", "j"} /\ Recallable(buf, parser, History)

RecallKey(key) ==
    /\ Reading /\ buf.mode = "normal"
    /\ IsRecallKey(key)
    /\ History # <<>>
    /\ parser' = [parser EXCEPT !.hist = RecallIndex(parser, key, History)]
    /\ buf' = Recalled(History[parser'.hist])

OwnKey(key) ==
    /\ Reading /\ buf.mode = "normal"
    /\ key \in OwnKeys
    /\ buf' = Own(buf, key)
    /\ parser' = [parser EXCEPT !.hist = 0]

CommandKey(key) ==
    /\ Reading /\ buf.mode = "normal"
    /\ key \notin OwnKeys \cup {"Enter", "CtrlC", "CtrlD"}
    /\ ~IsRecallKey(key)
    /\ LET fed == Feed([parser EXCEPT !.hist = 0], key)
       IN  /\ fed.parser.count1 <= MaxCount /\ fed.parser.count2 <= MaxCount
           /\ parser' = fed.parser
           /\ buf' = Execute(buf, fed.cmd)

SelectionKey(key) ==
    /\ Reading /\ IsVisual(buf.mode)
    /\ key \in VisualKeys
    /\ buf' = OnSelection(buf, key)
    /\ UNCHANGED parser

ExtendKey(key) ==
    /\ Reading /\ IsVisual(buf.mode)
    /\ key \notin VisualKeys
    /\ LET extended == ExtendSelection(buf, parser, key)
       IN  /\ extended.parser.count1 <= MaxCount /\ extended.parser.count2 <= MaxCount
           /\ parser' = extended.parser
           /\ buf' = extended.buf

EditKey ==
    /\ \/ \E key \in Typed \cup Named : InsertKey(key)
       \/ \E key \in Keys :
            RecallKey(key) \/ OwnKey(key) \/ CommandKey(key) \/ SelectionKey(key) \/ ExtendKey(key)
    /\ popup' = Refreshed(buf')
    /\ UNCHANGED outcome

Key ==
    \/ \E kind \in Kinds :
        Select(kind) \/ AcceptMatch(kind) \/ Dismiss(kind) \/ SubmitUnmatched(kind)
    \/ \E key \in Keys : EndKey(key)
    \/ EditKey

Next == pressed < MaxKeys /\ pressed' = pressed + 1 /\ Key

Spec == Init /\ [][Next]_vars

-----------------------------------------------------------------------------
\* Properties.

(***************************************************************************)
(* Undo and redo walk one line of versions.  A key that changes the text   *)
(* adds to that line and forgets what was undone, u and Ctrl-r come back   *)
(* to the exact texts, and nothing but a history recall, which starts      *)
(* over, loses a version.                                                  *)
(***************************************************************************)
TextsOf(snapshots) == [i \in DOMAIN snapshots |-> snapshots[i].lines]
Versions == INSTANCE UndoHistory WITH
    versions <- TextsOf(buf.undo) \o <<buf.lines>> \o Reverse(TextsOf(buf.redo)),
    present <- Len(buf.undo) + 1
UndoIsHistory == Versions!Spec

\* The characters of the first n lines of a text, and of all of them.
SizeTo(lines) ==
    LET size[n \in 0..Len(lines)] == IF n = 0 THEN 0 ELSE size[n - 1] + Len(lines[n])
    IN  size
Size(lines) == SizeTo(lines)[Len(lines)]

(***************************************************************************)
(* What the frame draws as selected is what d takes, and the rest stays:   *)
(* the highlight of render.rs and the ranges of buffer.rs are computed     *)
(* apart.                                                                  *)
(***************************************************************************)
HighlightIsWhatGoes ==
    IsVisual(buf.mode) =>
        LET lo == SelectionLow(buf).row
            hi == SelectionHigh(buf).row
            gone == DeleteSelection(buf)
            Taken(r) == gone.register.text[r - lo + 1]
        IN  /\ Len(gone.register.text) = hi - lo + 1
            /\ \A r \in lo..hi : \E from \in 0..Len(LineAt(buf, r)) :
                    /\ Highlighted(buf, r) = from..(from + Len(Taken(r)) - 1)
                    /\ Taken(r) = SubSeq(LineAt(buf, r), from + 1, from + Len(Taken(r)))
            /\ Size(gone.lines) = Size(buf.lines) - Size(gone.register.text)

(***************************************************************************)
(* Accepting a completion replaces what was typed for it and nothing else. *)
(* The popup holds a position and a query from an earlier round, so this   *)
(* says that they still fit the text.                                      *)
(***************************************************************************)
CompletionReplacesTyped ==
    [][\A kind \in Kinds : AcceptMatch(kind) =>
        LET p    == popup[kind]
            line == Here(buf)
            name == Candidates[kind][p.filtered[p.selected + 1]]
        IN  /\ Drop(Take(line, buf.cursor.col), p.at.col) = Sign(kind) \o p.query
            /\ buf'.lines = [buf.lines EXCEPT ![buf.cursor.row + 1] =
                    Take(line, p.at.col) \o Sign(kind) \o name \o <<Blank>>
                    \o Drop(line, buf.cursor.col)]]_vars

(***************************************************************************)
(* The cursor's line is in the window that is drawn, unless a popup takes  *)
(* rows from a frame at its cap: the renderer scrolls for the whole frame  *)
(* (render.rs:169) and the layout gives the popup its rows first           *)
(* (mod.rs:206).  The name that Enter would accept is drawn too.           *)
(***************************************************************************)
CursorShown ==
    /\ ~AnyOpen => buf.cursor.row - Scroll \in 0..(TextRows - 1)
    /\ \A kind \in Kinds :
        popup[kind].filtered # <<>> =>
            popup[kind].selected - BandTop(popup[kind]) \in 0..(BandRows - 1)

(***************************************************************************)
(* The frame tells the truth: the cursor stands in the text and in sight,  *)
(* and what is drawn as selected is what the next key works on.            *)
(***************************************************************************)
FrameIsTrue == WellPlaced(buf) /\ CursorShown /\ HighlightIsWhatGoes
=============================================================================
