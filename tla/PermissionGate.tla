--------------------------- MODULE PermissionGate ---------------------------
(***************************************************************************)
(* Who may run a tool in the REPL: the permission part of Agent::run_tool, *)
(* the InteractivePolicy with its session memory, the `task` subagent with *)
(* a policy of its own, the /mode switches between turns, and the bash     *)
(* rules that "always" answers write to config.toml                        *)
(* (orcarein-core: agent.rs, tool/subagent.rs; orcarein: main.rs).         *)
(*                                                                         *)
(* Evaluate (module Permission) is the ladder.  A call is one action: the  *)
(* gate, the prompt and the answer run with no await between them.         *)
(***************************************************************************)
EXTENDS Permission, Naturals

CONSTANTS
  ChildTools,   \* build_registry: the built-in tools, neither task nor skill
  RuleSets,     \* what config.toml's [[permissions.rules]] may hold at first
  MaxSticky     \* bound of the model: "always" answers remembered at a time

ASSUME GateAssumption ==
  /\ ChildTools \subseteq Tools \ {"task"}
  /\ \A rules \in RuleSets : rules \subseteq Rule
  /\ MaxSticky \in Nat

VARIABLES
  config,       \* config.toml: its permission rules, and whether it parses
  baseRules,    \* base_rules: the rules as read at startup
  mode,         \* the SharedMode
  turn,         \* run_turn is running
  turnMode,     \* the mode folded into the turn's Ruleset
  sticky,       \* the parent policy's PermissionStore
  child,        \* a subagent is running
  childMode,    \* the mode folded into its Ruleset
  childSticky,  \* its policy's PermissionStore
  last,         \* history: the last call that reached a gate, in this turn
  answers       \* history: the user's "always" and "never" answers

turnVars == <<turn, turnMode>>
childVars == <<child, childMode, childSticky>>
vars == <<config, baseRules, mode, turnVars, sticky, childVars, last, answers>>

Decisions == {"AllowOnce", "AllowAlways", "DenyOnce", "DenyAlways"}
StickyDecisions == {"AllowAlways", "DenyAlways"}
Allowing == {"AllowOnce", "AllowAlways"}

Scopes == (Tools \X {NoText}) \cup ({"bash"} \X Commands)
Stores == [Scopes -> StickyDecisions \cup {"none"}]
EmptyStore == [s \in Scopes |-> "none"]

\* No call has reached a gate in this turn.
Quiet == [by |-> "none"]
Events == [by : {"parent", "child"}, call : Call, ran : BOOLEAN, prompted : BOOLEAN]

Init ==
  /\ config \in [rules : RuleSets, ok : {TRUE}]
  /\ baseRules = config.rules
  /\ mode \in Modes
  /\ turn = FALSE
  /\ turnMode = mode
  /\ sticky = EmptyStore
  /\ child = FALSE
  /\ childMode = mode
  /\ childSticky = EmptyStore
  /\ last = Quiet
  /\ answers = {}

-----------------------------------------------------------------------------
(* The gate *)

\* Mutant: one scope for all of bash.
ScopeKey_ByTool(call) == <<call.tool, NoText>>

\* scope_key: bash is remembered per command, every other tool by name.
ScopeKey(call) == <<call.tool, IF call.tool = "bash" THEN call.text ELSE NoText>>

\* Only an Ask consults the policy, and the policy prompts only when it
\* remembers nothing for the call's scope.
Consulted(m, call) == Evaluate(m, baseRules, Extract(call)) = "ask"
Prompts(m, store, call) == Consulted(m, call) /\ store[ScopeKey(call)] = "none"

Decision(store, call, answer) ==
  IF store[ScopeKey(call)] = "none" THEN answer ELSE store[ScopeKey(call)]

Runs(m, store, call, answer) ==
  \/ Evaluate(m, baseRules, Extract(call)) = "allow"
  \/ Consulted(m, call) /\ Decision(store, call, answer) \in Allowing

\* PermissionStore::remember
Remember(store, call, answer) ==
  IF answer \in StickyDecisions THEN [store EXCEPT ![ScopeKey(call)] = answer] ELSE store

BashAllow(cmd) == [tool |-> "bash", command |-> cmd, path |-> NoText, action |-> "allow"]

\* should_persist_bash, persist_bash_rule: what config.toml may hold after the
\* answer.  The save may fail, and a file that does not parse is left alone.
Persisted(call, answer) ==
  IF answer = "AllowAlways" /\ call.tool = "bash" /\ call.text # NoText /\ config.ok
    THEN {config, [config EXCEPT !.rules = @ \cup {BashAllow(call.text)}]}
    ELSE {config}

\* The prompt, its answer and the record of both.
Decide(by, m, store, call, answer) ==
  /\ answer \in StickyDecisions => Cardinality(answers) < MaxSticky
  /\ last' = [by |-> by, call |-> call, ran |-> Runs(m, store, call, answer),
              prompted |-> Prompts(m, store, call)]
  /\ answers' = IF Prompts(m, store, call) /\ answer \in StickyDecisions
                  THEN answers \cup {[by |-> by, call |-> call, decision |-> answer]}
                  ELSE answers

-----------------------------------------------------------------------------
(* Actions *)

\* CommandAction::SwitchMode, read at the REPL prompt only.
SwitchMode(m) ==
  /\ ~turn
  /\ mode' = m
  /\ last' = Quiet
  /\ UNCHANGED <<config, baseRules, turnVars, sticky, childVars, answers>>

\* Mutant: the agent is built once, with the mode of the first turn.
StartTurn_StaleMode ==
  /\ ~turn
  /\ turn' = TRUE
  /\ last' = Quiet
  /\ UNCHANGED <<config, baseRules, mode, turnMode, sticky, childVars, answers>>

\* Mutant: the policy is rebuilt with the agent.
StartTurn_RebuildsPolicy ==
  /\ ~turn
  /\ turn' = TRUE
  /\ turnMode' = mode
  /\ sticky' = EmptyStore
  /\ last' = Quiet
  /\ UNCHANGED <<config, baseRules, mode, childVars, answers>>

\* A user message: the agent is rebuilt with the mode of the moment and the
\* rules of startup, the policy is not.
StartTurn ==
  /\ ~turn
  /\ turn' = TRUE
  /\ turnMode' = mode
  /\ last' = Quiet
  /\ UNCHANGED <<config, baseRules, mode, sticky, childVars, answers>>

\* run_tool for any tool but task, in the parent's turn.
ParentCall(call, answer) ==
  /\ turn /\ ~child
  /\ call.tool # "task"
  /\ Decide("parent", turnMode, sticky, call, answer)
  /\ IF Prompts(turnMode, sticky, call)
       THEN /\ sticky' = Remember(sticky, call, answer)
            /\ config' \in Persisted(call, answer)
       ELSE UNCHANGED <<sticky, config>>
  /\ UNCHANGED <<baseRules, mode, turnVars, childVars>>

\* run_tool for task: past the gate, SubagentTool::execute starts a child with
\* the live mode, the rules of startup and a policy that remembers nothing.
Delegate(call, answer) ==
  /\ turn /\ ~child
  /\ call.tool = "task"
  /\ Decide("parent", turnMode, sticky, call, answer)
  /\ sticky' = IF Prompts(turnMode, sticky, call) THEN Remember(sticky, call, answer) ELSE sticky
  /\ child' = last'.ran
  /\ childMode' = mode
  /\ childSticky' = EmptyStore
  /\ UNCHANGED <<config, baseRules, mode, turnVars>>

\* run_tool inside the child: config_path is None, so nothing is persisted.
ChildCall(call, answer) ==
  /\ child
  /\ call.tool \in ChildTools
  /\ Decide("child", childMode, childSticky, call, answer)
  /\ childSticky' = IF Prompts(childMode, childSticky, call)
                      THEN Remember(childSticky, call, answer) ELSE childSticky
  /\ UNCHANGED <<config, baseRules, mode, turnVars, sticky, child, childMode>>

\* The child's run_turn returns and its policy is dropped.
ChildReturns ==
  /\ child
  /\ child' = FALSE
  /\ childSticky' = EmptyStore
  /\ answers' = {a \in answers : a.by = "parent"}
  /\ last' = Quiet
  /\ UNCHANGED <<config, baseRules, mode, turnVars, sticky, childMode>>

TurnReturns ==
  /\ turn /\ ~child
  /\ turn' = FALSE
  /\ last' = Quiet
  /\ UNCHANGED <<config, baseRules, mode, turnMode, sticky, childVars, answers>>

\* The user's editor leaves config.toml broken, or mends it.
EditConfig ==
  /\ config' = [config EXCEPT !.ok = ~@]
  /\ UNCHANGED <<baseRules, mode, turnVars, sticky, childVars, last, answers>>

\* The process ends, at any point, and OrcaRein is started again: a config.toml
\* that does not parse stops it, session memory is gone, persisted rules are not.
Restart(m) ==
  /\ config.ok
  /\ baseRules' = config.rules
  /\ mode' = m
  /\ turn' = FALSE
  /\ turnMode' = m
  /\ sticky' = EmptyStore
  /\ child' = FALSE
  /\ childMode' = m
  /\ childSticky' = EmptyStore
  /\ last' = Quiet
  /\ answers' = {}
  /\ UNCHANGED config

Next ==
  \/ \E m \in Modes : SwitchMode(m)
  \/ StartTurn
  \/ \E call \in Call, answer \in Decisions : ParentCall(call, answer)
  \/ \E call \in Call, answer \in Decisions : Delegate(call, answer)
  \/ \E call \in Call, answer \in Decisions : ChildCall(call, answer)
  \/ ChildReturns
  \/ TurnReturns
  \/ EditConfig
  \/ \E m \in Modes : Restart(m)

Spec == Init /\ [][Next]_vars

-----------------------------------------------------------------------------
(* Properties *)

TypeOK ==
  /\ config \in [rules : SUBSET Rule, ok : BOOLEAN]
  /\ baseRules \subseteq Rule
  /\ mode \in Modes
  /\ turn \in BOOLEAN
  /\ turnMode \in Modes
  /\ sticky \in Stores
  /\ child \in BOOLEAN
  /\ childMode \in Modes
  /\ childSticky \in Stores
  /\ last \in Events \cup {Quiet}
  /\ answers \subseteq [by : {"parent", "child"}, call : Call, decision : StickyDecisions]

Ran == last # Quiet /\ last.ran
LastRequest == Extract(last.call)

\* A call that a deny rule of the config matches never runs, whatever the mode,
\* the answers given so far, or the other rules; in a child neither (rules.rs,
\* step 1: "deny wins, from any tier").
DenyRuleFinal == Ran => ~Says(baseRules, "deny", LastRequest)

\* While the REPL is in plan mode, nothing outside the read-only list runs, in
\* a turn or in the children it starts, even when a rule allows it.
PlanReadOnly == Ran /\ mode = "plan" => last.call.tool \in PlanTools

\* What the user was asked about: bash is answered command by command.
SameScope(c, d) == c.tool = d.tool /\ (c.tool = "bash" => c.text = d.text)

Granted == \E a \in answers :
  a.by = last.by /\ a.decision = "AllowAlways" /\ SameScope(a.call, last.call)

\* What the mode lets through unasked: safe tools, plan's list, and the edit
\* tools under acceptEdits; but no sensitive path.
ModeLets ==
  /\ ~Says(baseRules \cup DefaultRules, "ask", LastRequest)
  /\ \/ last.call.tool \notin RiskyTools
     \/ mode = "plan"
     \/ mode = "acceptEdits" /\ last.call.tool \in {"edit", "write_file"}

\* Outside yolo, a call that ran without a prompt is accounted for: a rule the
\* config held at startup allows it, the same asker was told "always" for the
\* same scope, or the mode lets it through.
Accountable ==
  Ran /\ ~last.prompted /\ mode # "yolo" =>
    Says(baseRules, "allow", LastRequest) \/ Granted \/ ModeLets

\* An asker that was answered "always" or "never" does not ask again about the
\* same scope as long as it lives: the parent's policy outlives its turns.
NeverReasked ==
  [][last' # Quiet /\ last'.prompted /\ last' # last =>
       ~\E a \in answers : a.by = last'.by /\ SameScope(a.call, last'.call)]_vars

=============================================================================
