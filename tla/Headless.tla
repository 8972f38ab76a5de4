------------------------------ MODULE Headless ------------------------------
(* The commands that run one turn without a terminal: `orcarein run` and    *)
(* `orcarein issue` (main.rs run_once, run_issue_inner).  The turn is a few *)
(* tool calls (ToolCall), of the model or of a `task` subagent it starts    *)
(* (tool/subagent.rs), and an outcome.                                      *)
EXTENDS ToolCall

CONSTANTS
    Committed,        \* the files of the last commit
    Trees,       \* what the working tree may hold when the command starts
    ToolLists,   \* values of --tools: <<>>, or the names as a sequence of one
    AllowLists,  \* values of --allow, likewise
    MaxCalls     \* bound: calls of a turn

ASSUME TreesAssumption == \A tree \in Trees : \A path \in DOMAIN tree : tree[path] \in Seq(STRING)

FileTools == {"read_file", "list_dir", "search", "edit", "write_file"}
KnownTools == FileTools \cup {"bash"}

\* A server's tool has a name of its own.
ASSUME McpAssumption == McpTools \cap (KnownTools \cup {"task", "skill"}) = {}

AllowAll == [all |-> TRUE, allowed |-> {}]
FromAllowed(names) == [all |-> FALSE, allowed |-> names]

VARIABLES
    kind,    \* the command: "run", "issue", or none yet
    tools,   \* the list its registries are built from
    grants,  \* what its policies are built from: --no-permission and --allow
    calls,   \* calls of the turn so far
    outer,   \* the task call a subagent runs for, as a sequence of one
    phase,   \* "start", "turn", "answered", "over"
    exit,    \* the process's exit code
    said,    \* what issue says of the working tree at the end
    wrote    \* for the properties: paths the agent's own tools changed

hvars == <<kind, tools, grants, calls, outer, phase, exit, said, wrote>>

HInit ==
    /\ files \in Trees /\ registry = {} /\ policy = FromAllowed({}) /\ CallInit
    /\ kind = None /\ tools = <<>> /\ grants = [no |-> FALSE, allow |-> <<>>] /\ calls = 0 /\ outer = <<>>
    /\ phase = "start" /\ exit = 0 /\ said = None /\ wrote = {}

Exit(code) == phase' = "over" /\ exit' = code

-----------------------------------------------------------------------------
(* Starting *)

BuildRegistry(allowlist) == IF allowlist = <<>> THEN KnownTools ELSE KnownTools \cap allowlist[1]

\* --no-permission wins over --allow, and with neither every risky tool is refused.
PolicyOf(g) == IF g.no THEN AllowAll ELSE IF g.allow # <<>> THEN FromAllowed(g.allow[1]) ELSE FromAllowed({})

TurnBegins(command, list, given, extra) ==
    /\ kind' = command /\ tools' = list /\ grants' = given /\ policy' = PolicyOf(given)
    /\ registry' = BuildRegistry(list) \cup extra
    /\ phase' = "turn"
    /\ UNCHANGED <<files, cvars, seen, calls, outer, exit, said, wrote>>

Fails(command) ==
    /\ kind' = command /\ Exit(1)
    /\ UNCHANGED <<tvars, tools, grants, calls, outer, said, wrote>>

\* No prompt, no provider: 1 before anything is sent.  The list is of built-in
\* tools only: setup_servers adds the tools of each server it can connect to.
RunOnce(list, noPermission, allow, connected) ==
    /\ phase = "start" /\ connected \subseteq McpTools
    /\ \/ Fails("run")
       \/ TurnBegins("run", list, [no |-> noPermission, allow |-> allow], {"task", "skill"} \cup connected)

\* git status --porcelain says nothing.
Clean == files = Committed

\* parse_owner_repo wants two names behind the host, fetch_issue a success.
IssueFetched(remote, status) == Len(remote) >= 2 /\ status \in 200 .. 299

\* In this order: a clean tree, the repository's name, the issue, a provider.
\* Neither the command line's grants nor the MCP servers have a part in it.
RunIssue(remote, status) ==
    /\ phase = "start"
    /\ \/ Fails("issue")
       \/ /\ Clean /\ IssueFetched(remote, status)
          /\ TurnBegins("issue", <<FileTools>>, [no |-> FALSE, allow |-> <<{"list_dir", "search", "edit", "write_file"}>>], {"task", "skill"})

-----------------------------------------------------------------------------
(* The turn *)

Calls ==
    /\ phase = "turn" /\ (stage = "idle" => calls < MaxCalls)
    /\ CallNext
    /\ calls' = calls + (IF stage = "idle" THEN 1 ELSE 0)
    /\ wrote' = IF stage \in {"run", "edit"} /\ files' # files THEN wrote \cup {call.path} ELSE wrote
    /\ UNCHANGED <<kind, tools, grants, outer, phase, exit, said>>

Answered ==
    /\ phase = "turn" /\ NextCall
    /\ UNCHANGED hvars

\* Mutant: the child gets every tool there is.
ChildRegistry_Everything == BuildRegistry(<<>>)

\* The child's registry has neither task nor skill, nor a server's tools.
ChildRegistry == BuildRegistry(tools)

\* Mutant: nothing is refused to a child, whose parent was granted.
ChildPolicy_AllowAll == AllowAll

\* policy_factory: the parent's posture once more.
ChildPolicy == PolicyOf(grants)

\* SubagentTool::execute: a fresh child under the same policy, rules and hooks.
Task ==
    /\ phase = "turn" /\ Executes({"task"})
    /\ outer' = <<[call |-> call, note |-> note, seen |-> [seen EXCEPT !.ran = TRUE], registry |-> registry, policy |-> policy]>>
    /\ registry' = ChildRegistry /\ policy' = ChildPolicy
    /\ stage' = "idle" /\ call' = NoCall /\ hook' = 1 /\ note' = None /\ got' = <<>> /\ result' = <<>> /\ seen' = Nothing
    /\ UNCHANGED <<files, kind, tools, grants, calls, phase, exit, said, wrote>>

\* A child that failed is a success of the tool, with an error for a text; its
\* answer may be any text.
TaskReturns(outcome) ==
    /\ phase = "turn" /\ outer # <<>> /\ stage = "idle"
    /\ call' = outer[1].call /\ note' = outer[1].note /\ registry' = outer[1].registry /\ policy' = outer[1].policy
    /\ seen' = [outer[1].seen EXCEPT !.ok = outcome # "failed", !.alike = outcome = "ERROR"]
    /\ Succeeds(IF outcome = "failed" THEN Error("subagent failed") ELSE <<outcome>>)
    /\ hook' = 1 /\ got' = <<>> /\ outer' = <<>>
    /\ UNCHANGED <<files, kind, tools, grants, calls, phase, exit, said, wrote>>

TurnEnds == phase = "turn" /\ outer = <<>> /\ stage = "idle"

RunAnswers(outcome) ==
    /\ TurnEnds /\ kind = "run"
    /\ Exit(CASE outcome = "answer" -> 0 [] outcome = "limit" -> 2 [] outcome = "error" -> 1)
    /\ UNCHANGED <<tvars, kind, tools, grants, calls, outer, said, wrote>>

\* An iteration limit is a warning; an error leaves the changes where they are.
IssueAnswers(outcome) ==
    /\ TurnEnds /\ kind = "issue"
    /\ IF outcome = "error" THEN Exit(1) ELSE phase' = "answered" /\ UNCHANGED exit
    /\ UNCHANGED <<tvars, kind, tools, grants, calls, outer, said, wrote>>

\* git diff: the tracked files that are not as committed.
Diff == {p \in DOMAIN Committed : files[p] # Committed[p]}

\* The harness runs the tests, and only failed ones make the exit code 2.  git
\* itself may fail.
IssueShows(tests) ==
    /\ phase = "answered"
    /\ \/ tests = "skipped" /\ Exit(1) /\ UNCHANGED said
       \/ Diff = {} /\ tests = "skipped" /\ said' = "no file changes" /\ Exit(0)
       \/ Diff # {} /\ said' = "diff" /\ Exit(IF tests = "FAILED" THEN 2 ELSE 0)
    /\ UNCHANGED <<tvars, kind, tools, grants, calls, outer, wrote>>

HNext ==
    \/ \E list \in ToolLists, no \in BOOLEAN, allow \in AllowLists, connected \in SUBSET McpTools :
          RunOnce(list, no, allow, connected)
    \/ \E remote \in {<<"owner", "repo">>, <<"owner">>}, status \in {200, 404} : RunIssue(remote, status)
    \/ Calls \/ Answered \/ Task
    \/ \E outcome \in Outcomes : TaskReturns(outcome)
    \/ \E outcome \in {"answer", "limit", "error"} : RunAnswers(outcome) \/ IssueAnswers(outcome)
    \/ \E tests \in {"passed", "FAILED", "skipped"} : IssueShows(tests)

-----------------------------------------------------------------------------
(* Properties *)

\* What answers a call that no rule decides.
GrantedByLine(tool) == grants.no \/ (grants.allow # <<>> /\ tool \in grants.allow[1])

\* Whoever makes the call, the model or a subagent, an issue is worked without a
\* shell and without MCP servers, whatever the user's rules allow; a run with a
\* tool list uses the built-in tools of the list and what its servers offer; a
\* subagent starts no other, and has no server; and a call that the rules leave
\* open, the parent's or the child's, runs only when the command line granted it.
\* (run_issue_inner step 5: "NO shell"; subagent.rs: the child's registry lacks
\* `task`; run_once's policy_factory: "mirroring this headless run's posture")
PostureHolds ==
    seen.ran => /\ kind = "issue" => call.tool \in FileTools \cup {"task", "skill"}
                /\ tools # <<>> => call.tool \in tools[1] \cup {"task", "skill"} \cup McpTools
                /\ outer # <<>> => call.tool \in KnownTools
                /\ seen.asked => GrantedByLine(call.tool)

\* "the agent made no file changes" is said when its tools changed none.
\* (run_issue_inner step 7: "Did it change anything?")
NoChangesMeansNone == said = "no file changes" => \A p \in wrote : p \in DOMAIN Committed /\ files[p] = Committed[p]

=============================================================================
