----------------------------- MODULE SessionPick -----------------------------
(* `session list`, `session resume` and `session delete` (main.rs, SessionStore *)
(* of session.rs): which saved session a number or a few typed digits mean,     *)
(* while other processes save and delete sessions.                              *)
EXTENDS Integers, Sequences, SequencesExt, FiniteSets

CONSTANTS
    Ids,       \* session ids, sequences of digits of one length: creation times
    Needles,   \* what the user may type
    MaxEvents  \* bound: what others do, in one behaviour

ASSUME IdsAssumption == IsFiniteSet(Ids) /\ Ids \subseteq Seq(Nat) /\ \A a, b \in Ids : Len(a) = Len(b)

VARIABLES
    stored,   \* id to "ok" or "corrupt", for the session files
    listed,   \* the ids the command has listed, newest first
    typed,    \* the needle, or the number chosen from the menu
    cmd,      \* "none", "menu", "resume", "delete", "decided", "over"
    target,   \* the id to act on, as a sequence of at most one
    acted,    \* the id resumed or deleted, likewise
    events    \* what others did

svars == <<stored, listed, typed, cmd, target, acted, events>>

SInit ==
    /\ stored \in [Ids -> {"ok", "corrupt", "absent"}]
    /\ listed = <<>> /\ typed = <<>> /\ cmd = "none" /\ target = <<>> /\ acted = <<>> /\ events = 0

\* SessionStore::list leaves out what it cannot parse; the newest comes first.
Newer(a, b) == \E k \in DOMAIN a : a[k] > b[k] /\ \A j \in 1 .. k - 1 : a[j] = b[j]
Listed == {id \in Ids : stored[id] = "ok"}
Lists == {q \in [1 .. Cardinality(Listed) -> Listed] : \A i, j \in DOMAIN q : i < j => Newer(q[i], q[j])}

\* Mutant: the first of several will do.
ResolveIdPrefix_First(needle, ids) ==
    LET hits == {id \in ids : IsPrefix(needle, id)}
    IN IF needle = <<>> \/ hits = {} THEN <<>> ELSE IF needle \in ids THEN <<needle>> ELSE <<CHOOSE id \in hits : TRUE>>

\* A full id always means itself, a prefix the one id that starts with it.
ResolveIdPrefix(needle, ids) ==
    LET hits == {id \in ids : IsPrefix(needle, id)}
    IN IF needle = <<>> THEN <<>>
       ELSE IF needle \in ids THEN <<needle>>
       ELSE IF Cardinality(hits) = 1 THEN <<CHOOSE id \in hits : TRUE>> ELSE <<>>

\* Mutant: the menu counts from 0.
ResolvePick_ZeroBased(n, menu) == IF n + 1 \in DOMAIN menu THEN <<menu[n + 1]>> ELSE <<>>

\* The menu counts from 1; anything else cancels.
ResolvePick(n, menu) == IF n \in DOMAIN menu THEN <<menu[n]>> ELSE <<>>

\* `session resume` alone: a menu.
PickSession ==
    /\ cmd = "none" /\ Listed # {}
    /\ listed' \in Lists /\ cmd' = "menu"
    /\ UNCHANGED <<stored, typed, target, acted, events>>

\* The id picked is then looked up like one that was typed.
Choose(n) ==
    /\ cmd = "menu"
    /\ typed' = <<n>>
    /\ IF ResolvePick(n, listed) = <<>> THEN cmd' = "over" /\ UNCHANGED target
       ELSE /\ target' = ResolveIdPrefix(ResolvePick(n, listed)[1], Listed)
            /\ cmd' = IF target' = <<>> THEN "over" ELSE "resume"
    /\ UNCHANGED <<stored, listed, acted, events>>

Resume(needle) ==
    /\ cmd = "none"
    /\ typed' = needle /\ listed' \in Lists
    /\ target' = ResolveIdPrefix(needle, Listed)
    /\ cmd' = IF target' = <<>> THEN "over" ELSE "resume"
    /\ UNCHANGED <<stored, acted, events>>

\* The file may be gone since it was listed.
Load ==
    /\ cmd = "resume"
    /\ acted' = IF stored[target[1]] = "ok" THEN target ELSE <<>>
    /\ cmd' = "over"
    /\ UNCHANGED <<stored, listed, typed, target, events>>

\* decide_delete: a corrupt file can still be named in full.
Delete(needle) ==
    /\ cmd = "none"
    /\ typed' = needle /\ listed' \in Lists
    /\ target' = IF ResolveIdPrefix(needle, Listed) # <<>> THEN ResolveIdPrefix(needle, Listed)
                 ELSE IF needle \in Ids /\ ~(\E id \in Listed : IsPrefix(needle, id)) /\ stored[needle] # "absent"
                 THEN <<needle>> ELSE <<>>
    /\ cmd' = IF target' = <<>> THEN "over" ELSE "delete"
    /\ UNCHANGED <<stored, acted, events>>

RemoveFile ==
    /\ cmd = "delete"
    /\ acted' = IF stored[target[1]] # "absent" THEN target ELSE <<>>
    /\ stored' = [stored EXCEPT ![target[1]] = "absent"]
    /\ cmd' = "over"
    /\ UNCHANGED <<listed, typed, target, events>>

\* Another process saves a session, deletes one, or dies while it saves.
Elsewhere(id, is) ==
    /\ events < MaxEvents /\ stored[id] # is
    /\ stored' = [stored EXCEPT ![id] = is] /\ events' = events + 1
    /\ UNCHANGED <<listed, typed, cmd, target, acted>>

SNext ==
    \/ PickSession \/ \E n \in 0 .. Cardinality(Ids) + 1 : Choose(n)
    \/ \E needle \in Needles : Resume(needle) \/ Delete(needle)
    \/ Load \/ RemoveFile
    \/ \E id \in Ids, is \in {"ok", "corrupt", "absent"} : Elsewhere(id, is)

\* What is resumed is the session the menu showed at the chosen number, and what
\* is resumed or deleted by name is the one of that name, or the only one listed
\* that starts with it, whatever others save and delete meanwhile.
\* (resolve_pick, resolve_id_prefix, decide_delete)
ActsOnTheNamed ==
    acted # <<>> =>
        \/ typed = target[1]
        \/ \E n \in DOMAIN listed : typed = <<n>> /\ acted[1] = listed[n]
        \/ /\ IsPrefix(typed, acted[1])
           /\ \A id \in Range(listed) : IsPrefix(typed, id) => id = acted[1]

=============================================================================
