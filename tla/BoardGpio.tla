----------------------------- MODULE BoardGpio -----------------------------
(* orcarein-hardware's GPIO backend: a board's profile (board.rs) says which *)
(* line of which chip a pin's name stands for; CdevGpio (transport/cdev.rs)  *)
(* drives and reads lines through the kernel's character device and keeps    *)
(* every output request, so that the level lasts.                            *)
(*                                                                           *)
(* The kernel lends a line to one request at a time; other processes take    *)
(* and give back lines as they like.                                         *)
EXTENDS Integers, Sequences, SequencesExt, FiniteSets

CONSTANTS
    Boards,     \* the documents a board profile may be loaded from
    ChipSets,   \* sequences of [index, label]: what detection may find
    Carries     \* pairs <<label, needle>>: the label contains the needle

VARIABLES
    board,   \* the board profile, if from_toml_str returned one
    chips,   \* CdevGpio::chips, as detected by new
    held,    \* CdevGpio::held: the lines whose output request is kept
    owner,   \* who has requested each line: nobody, this backend, another
    level,   \* the level of each line
    wanted,  \* the level last set on each line, through any of its names
    answer   \* what the last set or read returned

gvars == <<board, chips, held, owner, level, wanted, answer>>

NoBoard == [labels |-> <<>>, pins |-> <<>>]
Levels == {0, 1}

-----------------------------------------------------------------------------
(* BoardProfile::from_toml_str *)

\* GPIO{bank}_{port}{index}: eight lines to a port, ports A to D.
PortIndex(port) == CHOOSE n \in 0 .. 3 : <<"A", "B", "C", "D">>[n + 1] = port
WellFormedLine(l) == l.port \in {"A", "B", "C", "D"} /\ l.index <= 7
ParseRkLine(l) == [bank |-> l.bank, offset |-> 8 * PortIndex(l.port) + l.index]

\* Exactly one of offset and line; an offset needs labels to find its chip by.
ValidPin(raw, p) ==
    /\ Len(p.offset) + Len(p.line) = 1
    /\ p.offset # <<>> => raw.labels # <<>>
    /\ p.line # <<>> => WellFormedLine(p.line[1])

BoardLoads(raw) ==
    /\ raw.version = 1
    /\ Cardinality({raw.pins[i].name : i \in DOMAIN raw.pins}) = Len(raw.pins)
    /\ \A i \in DOMAIN raw.pins : ValidPin(raw, raw.pins[i])

Pins(raw) == {raw.pins[i] : i \in DOMAIN raw.pins}

-----------------------------------------------------------------------------
(* resolve_line *)

\* The first label, in the board's order, that a chip carries, and the first
\* chip that carries it.
ResolveGpiochipByLabel(found, labels) ==
    LET Has(k, w) == <<found[k].label, labels[w]>> \in Carries
        met == {w \in DOMAIN labels : \E k \in DOMAIN found : Has(k, w)}
    IN IF met = {} THEN <<>>
       ELSE LET w == CHOOSE v \in met : \A u \in met : v <= u
                k == CHOOSE k \in DOMAIN found : Has(k, w) /\ \A j \in DOMAIN found : Has(j, w) => k <= j
            IN <<found[k].index>>

\* The line of a pin, or none: an unknown pin, no chip with the label, no chip
\* with the bank's number.
ResolveLine(b, pin, found) ==
    LET specs == {p \in Pins(b) : p.name = pin}
    IN IF specs = {} THEN <<>>
       ELSE LET spec == CHOOSE p \in specs : TRUE
                chip == ResolveGpiochipByLabel(found, b.labels)
                rk == ParseRkLine(spec.line[1])
            IN IF spec.line = <<>>
               THEN IF chip = <<>> THEN <<>> ELSE <<[chip |-> chip[1], offset |-> spec.offset[1]]>>
               ELSE IF \E k \in DOMAIN found : found[k].index = rk.bank
                    THEN <<[chip |-> rk.bank, offset |-> rk.offset]>> ELSE <<>>

-----------------------------------------------------------------------------
(* CdevGpio *)

AllPins == {p.name : p \in UNION {Pins(raw) : raw \in Boards}} \cup {"unknown"}
Lines == {l[1] : l \in {ResolveLine(raw, pin, found) : raw \in {b \in Boards : BoardLoads(b)},
                                                     pin \in AllPins, found \in ChipSets} \ {<<>>}}

GInit ==
    /\ board = NoBoard /\ chips = <<>> /\ held = {}
    /\ owner = [l \in Lines |-> "nobody"] /\ level = [l \in Lines |-> 0]
    /\ wanted = [l \in {} |-> 0] /\ answer = "none"

\* CdevGpio::new: the chips are detected once.
Open(raw, found) ==
    /\ BoardLoads(raw)
    /\ board' = raw /\ chips' = found /\ answer' = "none"
    /\ UNCHANGED <<held, owner, level, wanted>>

Answers(a) == answer' = a /\ UNCHANGED <<board, chips>>
Fails(a) == Answers(a) /\ UNCHANGED <<held, owner, level, wanted>>

Unresolved(pin) ==
    /\ board # NoBoard /\ ResolveLine(board, pin, chips) = <<>>
    /\ Fails("invalid")

\* A line that is held is set through its request, any other is requested as
\* an output and then held.  The kernel may fail either call.
Drives(line, v) ==
    /\ level' = [level EXCEPT ![line] = v]
    /\ wanted' = [l \in DOMAIN wanted \cup {line} |-> IF l = line THEN v ELSE wanted[l]]

\* Mutant: requests are kept by the pin's name.
Key_ByName(pin, line) == pin

\* What an output request is kept by.
Key(pin, line) == line

Set(pin, v) ==
    LET found == ResolveLine(board, pin, chips)
        line == found[1]
    IN /\ board # NoBoard /\ found # <<>>
       /\ \/ /\ Key(pin, line) \in held
             /\ Answers("ok") /\ Drives(line, v) /\ UNCHANGED <<held, owner>>
          \/ /\ Key(pin, line) \notin held /\ owner[line] = "nobody"
             /\ Answers("ok") /\ Drives(line, v)
             /\ held' = held \cup {Key(pin, line)} /\ owner' = [owner EXCEPT ![line] = "backend"]
          \/ /\ Key(pin, line) \notin held /\ owner[line] # "nobody"
             /\ Fails(IF owner[line] = "backend" THEN "own" ELSE "busy")
          \/ Fails("error")

\* The line is requested as an input for the time of the call: one that this
\* backend drives is refused like one of another process.
Read(pin) ==
    LET found == ResolveLine(board, pin, chips)
    IN /\ board # NoBoard /\ found # <<>>
       /\ \/ /\ owner[found[1]] = "nobody"
             /\ \E v \in Levels : level[found[1]] = v /\ Fails(IF v = 1 THEN "high" ELSE "low")
          \/ owner[found[1]] # "nobody" /\ Fails("busy")
          \/ Fails("error")

\* Dropping the backend gives every line back; a released output reverts.
Close ==
    /\ board # NoBoard
    /\ board' = NoBoard /\ chips' = <<>> /\ held' = {} /\ answer' = "none"
    /\ owner' = [l \in Lines |-> IF owner[l] = "backend" THEN "nobody" ELSE owner[l]]
    /\ level' = [l \in Lines |-> IF owner[l] = "backend" THEN 0 ELSE level[l]]
    /\ wanted' = [l \in {} |-> 0]

\* Another process takes a free line, drives it, or gives it back.
OtherProcess(line) ==
    /\ \/ /\ owner[line] = "nobody" /\ owner' = [owner EXCEPT ![line] = "another"]
          /\ \E v \in Levels : level' = [level EXCEPT ![line] = v]
       \/ /\ owner[line] = "another" /\ owner' = [owner EXCEPT ![line] = "nobody"]
          /\ level' = [level EXCEPT ![line] = 0]
    /\ UNCHANGED <<board, chips, held, wanted, answer>>

GNext ==
    \/ board = NoBoard /\ \E raw \in Boards, found \in ChipSets : Open(raw, found)
    \/ \E pin \in AllPins : Unresolved(pin) \/ Read(pin) \/ \E v \in Levels : Set(pin, v)
    \/ Close
    \/ \E line \in Lines : OtherProcess(line)

-----------------------------------------------------------------------------
(* Properties *)

\* A level that was set lasts: until the backend is dropped its line is owned
\* and carries the level last set, whichever of the line's names was used and
\* whatever other processes do; no line is driven that no pin of the board
\* stands for; and setting a pin is never refused because of the backend's own
\* request.  (CdevGpio::set, "Output persistence")
SetLevelLasts ==
    /\ \A l \in DOMAIN wanted : owner[l] = "backend" /\ level[l] = wanted[l]
    /\ \A l \in Lines : owner[l] = "backend" =>
        \E pin \in AllPins : ResolveLine(board, pin, chips) = <<l>>
    /\ answer # "own"

=============================================================================
