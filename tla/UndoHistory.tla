---------------------------- MODULE UndoHistory ----------------------------
(***************************************************************************)
(* What undo and redo promise, without a word on how texts are edited: a   *)
(* line of versions with a pointer to the present one.  An edit forgets    *)
(* what was undone and appends versions; undo and redo move the pointer;   *)
(* a recall starts over.                                                   *)
(***************************************************************************)
EXTENDS Integers, Sequences

VARIABLES versions, present

Init == /\ Len(versions) = 1
        /\ present = 1

Edit == /\ present' > present
        /\ Len(versions') = present'
        /\ SubSeq(versions', 1, present) = SubSeq(versions, 1, present)

Undo == /\ present > 1
        /\ present' = present - 1
        /\ UNCHANGED versions

Redo == /\ present < Len(versions)
        /\ present' = present + 1
        /\ UNCHANGED versions

Recall == /\ Len(versions') = 1
          /\ present' = 1

Next == Edit \/ Undo \/ Redo \/ Recall

Spec == Init /\ [][Next]_<<versions, present>>
=============================================================================
