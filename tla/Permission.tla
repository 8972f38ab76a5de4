----------------------------- MODULE Permission -----------------------------
(***************************************************************************)
(* The permission ladder: PermissionMode, PermissionRule and               *)
(* Ruleset::evaluate (crates/orcarein-core/src/permission/).               *)
(*                                                                         *)
(* Pure definitions.  Rules are kept in sets: every loop over them in the  *)
(* code returns the same answer for whichever rule it meets first.  Which  *)
(* texts a glob pattern matches is the constant relation Globs; GlobMatch  *)
(* models the matcher itself.                                              *)
(***************************************************************************)
EXTENDS FiniteSets

CONSTANTS
  Tools,              \* the registered tool names
  RiskyTools,         \* those whose Tool::risk_level is Risky
  Commands,           \* bash commands; each is also a pattern, once persisted
  Paths,              \* the path arguments of the file tools
  Patterns,           \* the glob patterns of configured rules
  SensitivePatterns,  \* the patterns of sensitive_defaults()
  NoText,             \* an absent command, path or pattern
  Globs               \* <<pattern, text>>: glob_match(pattern, text)

ASSUME PermissionAssumption ==
  /\ RiskyTools \subseteq Tools
  /\ NoText \notin Commands \cup Paths \cup Patterns \cup SensitivePatterns

Modes == {"default", "acceptEdits", "plan", "yolo"}
Actions == {"allow", "ask", "deny"}

AnyPattern == Patterns \cup SensitivePatterns \cup Commands
Rule == [tool : Tools \cup {"*"}, command : AnyPattern \cup {NoText},
         path : AnyPattern \cup {NoText}, action : Actions]
Request == [tool : Tools, command : Commands \cup {NoText}, paths : SUBSET Paths]

FileTools == {"read_file", "write_file", "edit", "list_dir", "search"}

\* The argument the permission code looks at: bash's command, a file tool's
\* path, nothing for the others; the model may leave it out.
TextsOf(tool) ==
  {NoText} \cup (IF tool = "bash" THEN Commands ELSE IF tool \in FileTools THEN Paths ELSE {})

\* A tool call.
Call == {c \in [tool : Tools, text : Commands \cup Paths \cup {NoText}] : c.text \in TextsOf(c.tool)}

\* extract: tools other than bash and the file tools yield their name only.
Extract(call) ==
  [tool |-> call.tool,
   command |-> IF call.tool = "bash" THEN call.text ELSE NoText,
   paths |-> IF call.tool \in FileTools THEN {call.text} \cap Paths ELSE {}]

-----------------------------------------------------------------------------
(* Rules *)

\* A command pattern shadows a path pattern; neither means any use of the tool.
RuleMatches(rule, req) ==
  /\ rule.tool \in {"*", req.tool}
  /\ IF rule.command # NoText
       THEN req.command # NoText /\ <<rule.command, req.command>> \in Globs
       ELSE rule.path # NoText => \E p \in req.paths : <<rule.path, p>> \in Globs

AskFor(pattern) == [tool |-> "*", command |-> NoText, path |-> pattern, action |-> "ask"]
DefaultRules == {AskFor(p) : p \in SensitivePatterns}

Says(rules, action, req) == \E r \in rules : r.action = action /\ RuleMatches(r, req)

-----------------------------------------------------------------------------
(* The ladder *)

PlanTools == {"read_file", "list_dir", "search", "skill", "task"}
AllowsTool(mode, tool) == mode = "plan" => tool \in PlanTools

Verdict(action, origin) == [action |-> action, origin |-> origin]

\* Mutant: a user's allow rule is looked up before the deny rules.
EvaluateWithOrigin_AllowFirst(mode, rules, req) ==
  IF ~AllowsTool(mode, req.tool) THEN Verdict("deny", "DenyRule")
  ELSE IF Says(rules, "allow", req) THEN Verdict("allow", "UserRule")
  ELSE IF Says(rules \cup DefaultRules, "deny", req) THEN Verdict("deny", "DenyRule")
  ELSE IF Says(rules, "ask", req) THEN Verdict("ask", "UserRule")
  ELSE IF Says(DefaultRules, "ask", req) THEN Verdict("ask", "SensitiveDefault")
  ELSE Verdict(IF req.tool \in RiskyTools /\ mode # "plan" THEN "ask" ELSE "allow", "BaseRisk")

\* The first step of the ladder that has an answer, and its origin.
EvaluateWithOrigin(mode, rules, req) ==
  IF ~AllowsTool(mode, req.tool) THEN Verdict("deny", "DenyRule")
  ELSE IF Says(rules \cup DefaultRules, "deny", req) THEN Verdict("deny", "DenyRule")
  ELSE IF Says(rules, "ask", req) THEN Verdict("ask", "UserRule")
  ELSE IF Says(rules, "allow", req) THEN Verdict("allow", "UserRule")
  ELSE IF Says(DefaultRules, "ask", req) THEN Verdict("ask", "SensitiveDefault")
  ELSE Verdict(IF req.tool \in RiskyTools /\ mode # "plan" THEN "ask" ELSE "allow", "BaseRisk")

\* acceptEdits lifts the base-risk ask of the edit tools; yolo lifts every ask.
Lifted(mode, req, verdict) ==
  /\ verdict.action = "ask"
  /\ \/ mode = "yolo"
     \/ mode = "acceptEdits" /\ verdict.origin = "BaseRisk" /\ req.tool \in {"edit", "write_file"}

Evaluate(mode, rules, req) ==
  LET verdict == EvaluateWithOrigin(mode, rules, req)
  IN  IF Lifted(mode, req, verdict) THEN "allow" ELSE verdict.action
=============================================================================
