--------------------------- MODULE MCPermissionGate ---------------------------
(* The gate with two commands, a plain and a secret path; or the matcher on   *)
(* every short pattern and text. The two share no state.                      *)
EXTENDS PermissionGate, GlobMatch

CONSTANTS c1, c2, plain, secret, dotenv

MCTools == {"read_file", "edit", "bash", "task"}
MCChildTools == {"edit", "bash"}
MCRisky == {"edit", "bash"}
MCCommands == {c1, c2}
MCPaths == {plain, secret}
MCPatterns == {plain}
MCSensitive == {dotenv}
MCGlobs == {<<c1, c1>>, <<c2, c2>>, <<plain, plain>>, <<dotenv, secret>>}

RuleFor(tool, cmd, path, action) ==
  [tool |-> tool, command |-> cmd, path |-> path, action |-> action]

\* No rules; an allow rule under a deny rule and under an ask rule.
MCRuleSets == {
  {},
  {RuleFor("bash", c1, NoText, "deny"), RuleFor("edit", NoText, plain, "ask"),
   RuleFor("*", NoText, NoText, "allow")} }

Over(chars, n) == UNION {[1..k -> chars] : k \in 0..n}
MCChars == {"a", "b", Slash, Star}
MCGlobPatterns == Over({"a", Slash, Star}, 3) \cup Over({"a", Star}, 4)
MCGlobTexts == Over(MCChars, 3)

AtNoText == pattern = <<>> /\ text = <<>> /\ state = "whole"
AnyGate == config.rules = {} /\ mode = "default"
MCInit ==
  \/ pattern = <<>> /\ text = <<>> /\ GlobInit /\ Init
  \/ GlobInit /\ Init /\ AnyGate
MCNext ==
  \/ AtNoText /\ Next /\ UNCHANGED globVars
  \/ ~AtNoText /\ GlobNext /\ UNCHANGED vars
MCSpec == MCInit /\ [][MCNext]_<<vars, globVars>>
=============================================================================
