----------------------------- MODULE MCAgentTurn -----------------------------
(* TLC instances of AgentTurn: one watched writer, one reader, one delegate. *)
EXTENDS AgentTurn

CONSTANTS c1, c2

MCTools == {"edit", "read_file", "task"}
MCWriters == {"edit"}
MCDelegates == {"task"}
MCTokens == {0, 1}
=============================================================================
