----------------------------- MODULE SessionLog -----------------------------
(***************************************************************************)
(* What the REPL does to a transcript between turns: Session::pop_last,    *)
(* clear and compact_at (crates/orcarein-core/src/session.rs), and the     *)
(* cut compaction_boundary chooses (compact.rs).  Pure definitions.        *)
(***************************************************************************)
EXTENDS Messages, FiniteSets

\* pop_last refuses to drop the system prompt.
PopLast(log) == IF Len(log) <= 1 THEN log ELSE SubSeq(log, 1, Len(log) - 1)

\* clear: the system prompt again, alone.
Cleared == <<SystemMsg>>

UserIndices(log) == {i \in DOMAIN log : log[i].role = "user"}
UsersFrom(log, b) == {i \in UserIndices(log) : i >= b}

CanCompact(log, keep) == Cardinality(UserIndices(log)) > keep

\* Mutant: the keep-th message from the end, whatever its role.
CompactionBoundary_AnyRole(log, keep) == Len(log) - keep + 1

\* The keep-th user message from the end (a complaint of the verification gate
\* and an earlier summary are user messages too).
CompactionBoundary(log, keep) ==
  CHOOSE b \in UserIndices(log) : Cardinality(UsersFrom(log, b)) = keep

\* compact_at: system prompt, one summary, the messages from the cut on.
CompactAt(log, b) == <<log[1], UserMsg>> \o SubSeq(log, b, Len(log))
=============================================================================
