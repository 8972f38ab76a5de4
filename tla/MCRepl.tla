------------------------------- MODULE MCRepl -------------------------------
(* TLC instances of Repl: a batch has two calls, so that a cut can fall in it. *)
EXTENDS Repl

CONSTANTS c1, c2

MCBatches == {<<c1, c2>>}
=============================================================================
