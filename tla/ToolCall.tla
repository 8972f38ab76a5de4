------------------------------ MODULE ToolCall ------------------------------
(* One tool call from the model's request to the message it gets back       *)
(* (agent.rs dispatch and run_tool): the arguments are salvaged, the user's *)
(* PreToolUse hooks run (hook.rs), the permission is resolved, the tool     *)
(* runs (tool/*.rs), and PostToolUse hooks add to a success.  Every step    *)
(* that awaits is a step here: files may change in between.                 *)
(*                                                                          *)
(* A result is a sequence of parts; is_error looks at its first one.        *)
EXTENDS ToolText

CONSTANTS
    Paths,        \* files of the workspace
    Contents,     \* contents a file may have
    Snippets,     \* what an edit may look for and put in
    MaxEditLen,   \* MAX_EDIT_BYTES, in lexemes
    RawArgs,      \* argument texts the model may emit
    ValidArgs,    \* those that parse as JSON
    ToolNames,    \* what the model may ask for
    McpTools,     \* the tools of the configured MCP servers, as exposed: mcp__server__tool
    PreHooks,     \* [hooks] of the configuration: sequences of matchers,
    PostHooks     \*   each a set of names, or "*" for every tool

None == "none"

\* In JSON, braces outside strings come in pairs: an object's last brace closes
\* its first one.
ASSUME ArgsAssumption ==
    /\ RawArgs \cup ValidArgs \subseteq Seq(STRING)
    /\ \A v \in ValidArgs : IsObject(v) => Scans(v)[Len(v)].end = Len(v)

ASSUME TextAssumption == Contents \cup Snippets \subseteq Seq(STRING)

VARIABLES
    registry,  \* names of the registered tools
    policy,    \* AllowlistPolicy: allow_all, or the allowed names
    files,     \* path to content, for the files that exist
    stage,     \* where the call is
    call,      \* the call, and what its tool was given
    hook,      \* index of the next hook to look at
    note,      \* "hook error" after the first PreToolUse failure
    got,       \* what edit read before it writes
    result,    \* the message's parts so far
    seen       \* for the properties: what became of each call, and of the files

cvars == <<stage, call, hook, note, got, result>>
tvars == <<registry, policy, files, cvars, seen>>

NoCall == [tool |-> None, path |-> None, old |-> <<>>, new |-> <<>>]
Nothing == [readable |-> TRUE, ran |-> FALSE, ok |-> FALSE, exit2 |-> FALSE, denied |-> FALSE,
            asked |-> FALSE, alike |-> FALSE, was |-> <<>>, foreign |-> FALSE, torn |-> FALSE]

CallInit ==
    /\ stage = "idle" /\ call = NoCall /\ hook = 1 /\ note = None
    /\ got = <<>> /\ result = <<>> /\ seen = Nothing

\* The file's content, as a sequence of at most one.
Content(path) == IF path \in DOMAIN files THEN <<files[path]>> ELSE <<>>

Error(why) == <<"ERROR", why>>
Ends(parts) == stage' = "done" /\ result' = parts

-----------------------------------------------------------------------------
(* The request *)

\* The tool is looked up, then the arguments are parsed, repaired if need be.
Start(tool, path, old, new, raw) ==
    /\ stage = "idle"
    /\ call' = [tool |-> tool, path |-> path, old |-> old, new |-> new]
    /\ seen' = [Nothing EXCEPT !.was = Content(path), !.readable = HoldsObject(raw, ValidArgs)]
    /\ IF tool \notin registry THEN Ends(Error("unknown tool"))
       ELSE IF ParseToolArguments(raw, ValidArgs) = <<>> THEN Ends(Error("could not parse"))
       ELSE stage' = "pre" /\ UNCHANGED result
    /\ UNCHANGED <<registry, policy, files, hook, note, got>>

-----------------------------------------------------------------------------
(* Hooks: run_one, run_pre, run_post *)

\* "*" or the empty matcher selects every tool, "a|b" any of its names.
MatcherMatches(matcher, tool) == matcher = {"*"} \/ tool \in matcher

\* What a hook's process comes to.  run_one waits for its exit and for both of
\* its pipes to close: one that has exited may still be waited for, because a
\* process it started holds a pipe, and then it times out.  What it printed
\* before a signal killed it counts; what it printed before a timeout does not.
Runs == [way : {"exit"}, code : {0, 1, 2}, said : BOOLEAN]
    \cup [way : {"signal"}, code : {0}, said : BOOLEAN]
    \cup [way : {"spawn failed", "io error"}, code : {0}, said : {FALSE}]
    \cup [way : {"timed out"}, code : {0, 2}, said : {FALSE}]

Skips(matchers) ==
    /\ hook <= Len(matchers) /\ ~MatcherMatches(matchers[hook], call.tool)
    /\ hook' = hook + 1
    /\ UNCHANGED <<registry, policy, files, stage, call, note, got, result, seen>>

\* Mutant: an earlier hook's failure ends the scan.
PreVerdict_FirstError(run) ==
    IF note # None THEN "proceed"
    ELSE IF run.way = "exit" THEN CASE run.code = 0 -> "proceed" [] run.code = 2 -> "block" [] OTHER -> "error"
    ELSE "error"

\* Exit 2 blocks; any other failure is remembered and the scan goes on.
PreVerdict(run) ==
    IF run.way = "exit" THEN CASE run.code = 0 -> "proceed" [] run.code = 2 -> "block" [] OTHER -> "error"
    ELSE "error"

PreHook(run) ==
    /\ stage = "pre" /\ hook <= Len(PreHooks) /\ MatcherMatches(PreHooks[hook], call.tool)
    /\ hook' = hook + 1
    /\ IF PreVerdict(run) = "block" THEN Ends(Error("blocked by PreToolUse hook")) ELSE UNCHANGED <<stage, result>>
    /\ note' = IF PreVerdict(run) = "error" /\ note = None THEN "hook error" ELSE note
    /\ seen' = [seen EXCEPT !.exit2 = @ \/ (run.way = "exit" /\ run.code = 2)]
    /\ UNCHANGED <<registry, policy, files, call, got>>

\* Ruleset::evaluate, then the headless policy when it says Ask.  A name on the
\* allowlist is allowed, whatever its risk.
Permission(verdict) ==
    /\ stage = "pre" /\ hook > Len(PreHooks)
    /\ LET allowed == verdict = "allow" \/ (verdict = "ask" /\ (policy.all \/ call.tool \in policy.allowed))
       IN /\ IF allowed THEN stage' = "run" /\ UNCHANGED result
             ELSE Ends(Error("permission denied"))
          /\ seen' = [seen EXCEPT !.denied = ~allowed, !.asked = verdict = "ask"]
    /\ hook' = 1
    /\ UNCHANGED <<registry, policy, files, call, note, got>>

-----------------------------------------------------------------------------
(* The tools *)

\* A success goes to the PostToolUse hooks, a failure past them.
Succeeds(parts) == stage' = "post" /\ result' = parts
Executes(tools) == stage = "run" /\ call.tool \in tools

\* A success's text may look like anything, an error message included.
Outcomes == {"output", "ERROR", "failed"}
Comes(outcome) ==
    /\ seen' = [seen EXCEPT !.ran = TRUE, !.ok = outcome # "failed", !.alike = outcome = "ERROR"]
    /\ IF outcome = "failed" THEN stage' = "late" /\ result' = Error("failed") ELSE Succeeds(<<outcome>>)

\* A file that is there may yet be unreadable, or no UTF-8.
ReadFile(outcome) ==
    /\ Executes({"read_file"}) /\ Comes(outcome)
    /\ outcome # "failed" =>
          /\ Content(call.path) # <<>>
          /\ outcome = "ERROR" <=> (files[call.path] # <<>> /\ files[call.path][1] = "E")
    /\ UNCHANGED <<registry, policy, files, call, hook, note, got>>

\* A tool that changes nothing.
Looks(tool, outcome) ==
    /\ Executes({tool}) /\ Comes(outcome)
    /\ UNCHANGED <<registry, policy, files, call, hook, note, got>>

\* The walk skips the files it cannot read; only a bad pattern or glob fails.
\* The text begins with a path.
Search(outcome) == Looks("search", outcome)
\* One entry that cannot be read fails the whole listing.  Every line begins with
\* "d " or "f ".
ListDir(outcome) == outcome # "ERROR" /\ Looks("list_dir", outcome)
\* An unknown name is an error for the model, as the text of a success.
Skill(outcome) == Looks("skill", outcome)

\* A command, or a server, may do anything to the files.
Disturbs == \E p \in Paths, c \in Contents : files' = [q \in DOMAIN files \cup {p} |-> IF q = p THEN c ELSE files[q]]

\* The server's answer is the output; a tool error, a lost server and a timeout
\* are failures.
McpTool(outcome) ==
    /\ Executes(McpTools) /\ Comes(outcome)
    /\ Disturbs \/ UNCHANGED files
    /\ UNCHANGED <<registry, policy, call, hook, note, got>>

\* The file is created or truncated, then filled: a failed write may leave it
\* as it was, empty or whole.
Writes(path, text) ==
    \/ files' = [p \in DOMAIN files \cup {path} |-> IF p = path THEN text ELSE files[p]]
       /\ seen' = [seen EXCEPT !.ran = TRUE, !.ok = TRUE]
    \/ /\ files' \in {files, [p \in DOMAIN files \cup {path} |-> IF p = path THEN <<>> ELSE files[p]]}
       /\ seen' = [seen EXCEPT !.ran = TRUE, !.torn = TRUE]

WriteFile ==
    /\ Executes({"write_file"})
    /\ Writes(call.path, call.new)
    /\ IF seen'.ok THEN Succeeds(<<"output">>) ELSE stage' = "late" /\ result' = Error("io error")
    /\ UNCHANGED <<registry, policy, call, hook, note, got>>

\* Any exit code is a success, and the text begins with it.
Bash ==
    /\ Executes({"bash"}) /\ Disturbs
    /\ seen' = [seen EXCEPT !.ran = TRUE, !.ok = TRUE]
    /\ Succeeds(<<"output">>)
    /\ UNCHANGED <<registry, policy, call, hook, note, got>>

EditFails(why) == stage' = "late" /\ result' = Error(why) /\ UNCHANGED files

\* The checks that need no file, then the read, which fails on a file that is
\* unreadable or no UTF-8.
EditRead ==
    /\ Executes({"edit"})
    /\ IF call.old = call.new \/ call.old = <<>> THEN EditFails("no-op") /\ UNCHANGED got
       ELSE IF Content(call.path) = <<>> THEN EditFails("file not found") /\ UNCHANGED got
       ELSE \/ EditFails("io error") /\ UNCHANGED got
            \/ IF Len(files[call.path]) > MaxEditLen THEN EditFails("too large") /\ UNCHANGED got
               ELSE stage' = "edit" /\ got' = files[call.path] /\ UNCHANGED <<result, files>>
    /\ seen' = [seen EXCEPT !.ran = TRUE]
    /\ UNCHANGED <<registry, policy, call, hook, note>>

\* Mutant: an ambiguous snippet is replaced where it comes first.
IsUnique_AtLeastOnce(s, sub) == Count(s, sub) >= 1

IsUnique(s, sub) == Count(s, sub) = 1

\* The whole text that was read is written back, with the one change.
EditWrite ==
    /\ stage = "edit"
    /\ LET old == NormalizeEol(call.old, HasCrlf(got))
           new == NormalizeEol(call.new, HasCrlf(got))
       IN IF IsUnique(got, old)
          THEN /\ Writes(call.path, ReplaceFirst(got, old, new))
               /\ IF seen'.ok THEN Succeeds(<<"output">>) ELSE stage' = "late" /\ result' = Error("io error")
          ELSE EditFails("not unique") /\ UNCHANGED seen
    /\ UNCHANGED <<registry, policy, call, hook, note, got>>

-----------------------------------------------------------------------------
(* After the tool *)

\* What a hook printed, then how it failed, on lines of their own.
PostHook(run) ==
    /\ stage = "post" /\ hook <= Len(PostHooks) /\ MatcherMatches(PostHooks[hook], call.tool)
    /\ hook' = hook + 1
    /\ result' = result \o (IF run.said THEN <<"context">> ELSE <<>>)
                        \o (IF run.way = "exit" /\ run.code = 0 THEN <<>> ELSE <<"hook error">>)
    /\ UNCHANGED <<registry, policy, files, stage, call, note, got, seen>>

\* Mutant: the hook's error goes in front.
WithNote_Before(parts) == IF note = None THEN parts ELSE <<"hook error">> \o parts

\* A PreToolUse error is appended, so that it does not hide the tool's own.
WithNote(parts) == IF note = None THEN parts ELSE Append(parts, note)

Finish ==
    /\ stage = "late" \/ (stage = "post" /\ hook > Len(PostHooks))
    /\ stage' = "done" /\ result' = WithNote(result)
    /\ UNCHANGED <<registry, policy, files, call, hook, note, got, seen>>

\* dispatch: what the turn is told of the call.
IsError == result[1] = "ERROR"

\* The next call of the turn starts afresh.
NextCall ==
    /\ stage = "done"
    /\ stage' = "idle" /\ call' = NoCall /\ hook' = 1 /\ note' = None
    /\ got' = <<>> /\ result' = <<>> /\ seen' = Nothing
    /\ UNCHANGED <<registry, policy, files>>

\* Somebody else, a hook or the user's editor, changes the file of the call.
\* Before the tool starts is the same as when it starts; after it, no call of
\* this program is concerned.
OtherProcess(content) ==
    /\ stage \in {"run", "edit"} /\ call.tool \in {"edit", "read_file", "write_file"}
    /\ ~seen.foreign /\ call.path \in DOMAIN files /\ files[call.path] # content
    /\ files' = [files EXCEPT ![call.path] = content]
    /\ seen' = [seen EXCEPT !.foreign = TRUE]
    /\ UNCHANGED <<registry, policy, cvars>>

CallNext ==
    \/ \E tool \in ToolNames, path \in Paths, raw \in RawArgs :
          \/ tool = "edit" /\ \E old, new \in Snippets : Start(tool, path, old, new, raw)
          \/ tool = "write_file" /\ \E new \in Contents : Start(tool, path, <<>>, new, raw)
          \/ tool \notin {"edit", "write_file"} /\ Start(tool, path, <<>>, <<>>, raw)
    \/ (stage = "pre" /\ Skips(PreHooks)) \/ (stage = "post" /\ Skips(PostHooks))
    \/ \E run \in Runs : PreHook(run) \/ PostHook(run)
    \/ \E verdict \in {"allow", "deny", "ask"} : Permission(verdict)
    \/ \E outcome \in Outcomes :
          ReadFile(outcome) \/ Search(outcome) \/ ListDir(outcome) \/ Skill(outcome) \/ McpTool(outcome)
    \/ WriteFile \/ Bash \/ EditRead \/ EditWrite
    \/ Finish
    \/ \E content \in Contents : OtherProcess(content)

-----------------------------------------------------------------------------
(* Properties *)

\* A hook that exits 2 keeps the tool from running, whatever hooks before it
\* did (failed, timed out, could not be started), and only a hook that exits 2,
\* a refused permission, or arguments that hold no object keep a known tool
\* from running: a broken hook or prose around the arguments never does.
\* (run_pre, run_tool, parse_tool_arguments)
OnlyExitTwoBlocks ==
    stage = "done" =>
        /\ seen.exit2 => ~seen.ran
        /\ seen.exit2 \/ seen.denied \/ ~seen.readable \/ call.tool \notin registry \/ seen.ran

\* Unless somebody else wrote the file meanwhile, an edit that reports success
\* changed the one place where its snippet stood and nothing else, and an edit
\* that reports failure, short of a failed write, changed nothing.  A snippet
\* that overlaps itself is counted once where it stands twice, and is left out.
\* (edit.rs: "the unique occurrence")
OverlapsItself(s) == \E k \in 1 .. Len(s) - 1 : SubSeq(s, 1, k) = SubSeq(s, Len(s) - k + 1, Len(s))
EditReplacesTheOne ==
    (stage = "done" /\ call.tool = "edit" /\ ~seen.foreign /\ ~seen.torn) =>
        IF ~seen.ok THEN Content(call.path) = seen.was
        ELSE LET was == seen.was[1]
                 old == NormalizeEol(call.old, HasCrlf(was))
                 new == NormalizeEol(call.new, HasCrlf(was))
                 places == Occurrences(was, old)
             IN OverlapsItself(old) \/
                \E i \in places : /\ places = {i}
                                  /\ files[call.path] = SubSeq(was, 1, i - 1) \o new
                                                          \o SubSeq(was, i + Len(old), Len(was))

\* A call that failed is seen to have failed, and one that succeeded to have
\* succeeded unless its own output begins like an error, whatever the hooks
\* before and after it did.  (run_tool: the note is "a SUFFIX, never a prefix")
ErrorsAreSeen ==
    stage = "done" =>
        /\ ~seen.ok => IsError
        /\ (seen.ok /\ IsError) => seen.alike

=============================================================================
