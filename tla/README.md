# OrcaRein: specification, model checking and proofs

OrcaRein is a terminal agent: a REPL that sends a conversation to a language
model, runs the tools the model asks for behind a permission gate, and keeps
the conversation in session files. This directory specifies it in TLA+, checks
the specifications with TLC on small instances, and proves theorems about some
of them with TLAPS for every value of their constants.

Every module is written from the Rust (and, for the sidecar, Python) source.
`PROJECT.json` maps each definition to the lines it stands for; paths below are
relative to `crates/`.

Contents: 1 the system; 2 modules and their correspondence to the code;
3 the runs; 4 fairness; 5 what is proved; 6 what is only model-checked;
7 divergences between code and documentation; 8 what is not modelled;
9 the plan.

## 1. The system

### 1.1 Components

| Component | State | Operations | What makes it correct |
|---|---|---|---|
| Agent loop, `orcarein-core/src/agent.rs` | `Session::messages`, `TurnState` (touched_fs, last_verify, verify_attempts, consecutive_tool_failures), iteration, turn usage | `run_turn`, `dispatch`, `record_tool`, `run_verify` | every tool call is answered before the transcript is sent; a changed tree is verified before the turn reports completion; the turn is bounded and returns |
| Permission ladder, `permission/rules.rs` | none (pure) | `extract`, `rule_matches`, `evaluate`, `glob_match` | deny wins in every mode; plan mode is read-only; a glob means what its comment says |
| Permission gate, `agent.rs`, `permission/mod.rs`, `orcarein/src/main.rs` | rules of startup, `SharedMode`, the policy's `PermissionStore`, `config.toml` | `run_tool`, the prompt, `/mode`, the `always` answer that writes a rule | no tool runs that nobody allowed; nobody is asked twice; answers reach only their own scope and asker |
| Subagent, `tool/subagent.rs` | a session and a policy of its own, for one `task` call | `execute` | it is bound by the rules and the mode of its parent |
| Session and compaction, `session.rs`, `compact.rs` | messages, system prompt, usage | `push`, `pop_last`, `clear`, `compact_at`, `set_system_prompt` | a cut never separates a call from its result; usage is cumulative |
| REPL and session files, `main.rs`, `session.rs` | live session and id, mode, the files | turns, `/clear`, `/compact`, `/mode`, `/save`, `/resume`, `/new`, startup, `session resume`/`delete` | a file holds its own session; a returned turn is on disk; the plan block is in the prompt exactly in plan mode |
| Retry, `provider/retry.rs` | attempt counter, elapsed time | `with_retry` | requests and waiting are bounded; a stream is never retried |
| SSE decoding, `provider/openai_compat.rs` | byte buffer, `ToolCallAcc`, last usage | `chat_stream_compat` | text does not depend on where reads cut the body; calls come out whole |
| MCP client, `mcp/` | one connection per server: next_id, pipes, child process; the registry of exposed names | `setup_servers`, `request`, `McpTool::execute`, drop | an answer belongs to its request; a name keeps its meaning; requests end |
| Hardware sidecar, `orcarein-hardware/src/sidecar.rs`, `python/sidecar.py` | next_id, pipes, a Python child | `spawn`, `request`, `drop` | a value belongs to its request; code that hangs is contained |
| Hooks, `hook.rs` | none between calls; child processes | `run_pre`, `run_post` | exit 2 blocks, nothing else does; a note never hides an error |
| Headless run and issue, `main.rs`, `agent.rs`, `github.rs` | `AllowlistPolicy`, the working tree | `run_once`, `run_issue_inner`, gh, git, cargo | nothing prompts; only listed tools run, in a child too; what is reported is what happened |
| Modal editor, `orcarein/src/modal/` | buffer, cursor, anchor, register, undo and redo stacks, pending command, three popups | keys, operators, motions, counts, selections, completions, history | the frame shows the cursor and the true selection; undo and redo walk one line of versions; a completion replaces what was typed for it |
| Hardware profiles and tools, `orcarein-hardware/src/profile/`, `tool.rs`, `transport/mock.rs` | the loaded profile | load, bind, render, execute, dry run | what loads can be called as its schema says; no free text reaches Python |
| Hardware boards and GPIO, `board.rs`, `transport/cdev.rs` | board, chips, held lines | resolve, set, read | a level that was set lasts; only the board's lines are driven |
| Configuration, secrets, doctor, login, `config.rs`, `doctor.rs`, `main.rs` | `config.toml`, `secrets.toml` | load, change, save, resolve, verify | a read-modify-write loses nothing else; a stored key was given; doctor and startup agree |
| File tools, search, argument repair, `tool/` | the file system | one call each | an edit replaces a unique string; repair never changes a valid argument |
| System prompt, memory, skills, mentions, `main.rs`, `memory.rs`, `skill.rs`, `mention.rs` | the prompt and the index of the live session, the files they come from | discovery, `/init`, prompt of each command, `@` expansion | the model is told what holds: mode, memory, loadable skills, the files the line names |
| Session commands, `main.rs`, `session.rs` | the list shown | `session list`, `resume`, `delete` | they act on the session that was named |
| Cost, `cost.rs` | none | a product | |
| Markdown and code rendering, `markdown.rs`, `syntax.rs` | pending runs, marker, table, list stack | events to lines | nothing is lost or shown twice without a mark; lines fit; runs are lexical |
| Pager, header, whale, color | none that outlives a frame | drawing | |
| Evaluation harness, `orcarein-eval` | the grid's position, a scratch directory per cell, the report | cases by configurations by repeats | the report is the grid, each row of its own run |

### 1.2 How they interact

The REPL (`main.rs`) owns the live `Session` and awaits one thing at a time. A
line of input is either a command, handled at once, or a user message: the REPL
builds a fresh `Agent` with the mode of the moment and the rules read at
startup, pushes the message and awaits `run_turn`. The turn borrows the session
mutably. Inside it, requests go to the provider through `with_retry`; the
response body is decoded by `chat_stream_compat`, and the tool calls of a reply
run one after the other. `run_tool` passes each through argument repair, the
pre hooks, the permission gate, the tool and the post hooks. A tool may be
built in, an MCP server's (`McpTool` over a mutex-protected connection),
hardware (the sidecar behind a transport) or `task`, which runs a second
`run_turn` on a session of its own with a fresh policy. When the turn returns,
the REPL saves the session or, on an error, removes the last message.

So within one process almost everything is sequential. What is concurrent is
around it: server and sidecar processes at the other end of pipes, timers,
kills that take effect later, crashes, and a second OrcaRein process over the
same directory.

### 1.3 Where it is hard

* **Partial failure inside a turn.** A reply makes several calls, each of which
  may be refused, fail or succeed, and the provider may fail between rounds.
* **Stale verdicts and modes.** The verify verdict is read after files may have
  changed; the mode is read when the agent is built, by the child when it
  starts and by the prompt when a session is loaded.
* **Memory with different lifetimes.** A policy outlives its turn, a child's
  policy does not; an answer written to `config.toml` outlives the process.
* **Late answers on pipes.** A request that ended (junk line, timeout) leaves
  its answer behind for the next one to read.
* **Streams cut anywhere.** A read may end in a separator or in a line, and the
  pieces of several calls interleave.
* **Crashes and failing saves** between and inside session writes.
* **Files under two programs.** An edit reads, decides and writes back; a
  configuration is loaded, changed and saved; a list of sessions is shown and
  acted on later.
* **Positions kept across keys and events.** A popup's span, an undo stack, a
  list item's marker and a link's address are used some events after they were
  taken.

`PROJECT.json` lists these as hazards, each at its line, with the property that
would catch it.

## 2. The modules

```
 Messages <-- SessionLog <-- Repl <-- ReplProofs (REPL, sessions, files)
    ^  ^----- TurnContract                       (what a turn promises)
    |              ^  refinement
    +-------- AgentTurn <-----------+
 Retry  SseStream  Prompt <---------+-- TurnProofs
 Permission <-- PermissionGate <-+
 GlobMatch <---------------------+-- PermissionProofs
 ToolText <-- ToolCall <-- Headless <-+   (one call, hooks and tools; run, issue)
 EvalGrid  ConfigFiles  SessionPick <-+-- CommandProofs
 DeviceProfile <-- ProfileTool <-+
 BoardGpio  Sidecar <------------+-- HardwareProofs
 Mcp <-- McpProofs
 EditBuffer <-- ModalCommand <--+
      ^--------- Completion <---+-- Editor <--+
                                     |        +-- TerminalProofs
                            Syntax <-|--------+
                                     | refinement
                                     +--> UndoHistory
 Markdown <-- ReplProofs too                  (what the REPL shows)
```

`BasicLemmas` holds what several of the proof modules need.

`MC<run>` modules are the TLC instances. Where an instance extends several
components that share no state (`MCTerminal`, `MCHardware`, `MCCommands`,
`MCProvider`, `MCHeadless`, `MCPermissionGate`), a behaviour is of one of them:
the others stay at their initial state, which keeps the sum of the state spaces
and not their product.

An operator whose name has a suffix (`BatchDone_Early`) and whose comment
begins with "Mutant:" is a plausible bug of the definition after it. Each
checked property has one that violates it; they are no part of any `Next`.

### Messages, SessionLog
A message is its role, the ids of the calls it makes, the id it answers, and
whether a tool result is an error; text is left out. `WellFormed` is the
provider's rule: an assistant message with calls is followed at once by one tool
message per call, and tool messages stand nowhere else. `SessionLog` has
`pop_last`, `clear`, `compact_at` and `compaction_boundary` as pure operators.

### AgentTurn, TurnContract
One `run_turn`. The state is the function's locals and `TurnState`; `pc` says at
which await it stands. Each action is the code between two awaits:
`StopAtLimit` is the check at the loop's head, `RequestFails` the `?` on the
stream, `ReplyWithCalls`/`ReplyToVerify`/`ReplyFinishes` the three ways a reply
is taken, `Dispatch` one call with `record_tool` and the push of its result,
`BatchDone` the increment of `iteration`, `VerifyPasses`/`VerifyFails` the
outcomes of the verify command. `run_tool` is reduced to "refused", "failed" and
"ok"; what it does inside is `ToolCall`. `unverified` is a history variable: a file may have changed since the last
passing verdict. A tool that fails may have written first; `task` and MCP tools
write without being watched.

`TurnContract` is the abstract specification: the transcript grows by whole
rounds within two budgets, then the turn ends. `AgentTurn` implements it with
the unfinished round hidden (`WholeRounds`).

### Permission, PermissionGate
`Permission` is the ladder, a pure function of mode, rules and request. Rules
are kept in sets, which is exact because every loop over them returns the same
answer whichever matching rule it meets first. Which texts a pattern matches is
the constant relation `Globs`. `PermissionGate` adds what changes: the mode, the
turn, parent and child with their stores, `config.toml` and restarts. Gate,
prompt and answer are one action, since no other state changes in between.
A persisted command is read back as a *pattern*; this is why `Commands` is part
of `AnyPattern`.

### GlobMatch
`glob_match_with_home` and `star_match`; one action per round of the loop, with
the four indices of the code. `Means` is the documented meaning of a pattern.

### Repl
The live session, the files and the process. A turn is one action, because
nothing of it reaches the disk before it returns and no input is read
meanwhile; what it may append is what `AgentTurn` is shown to append.
`SavedAs` is `SessionStore::save`, which may fail with a warning.
`CrashInSave` leaves a truncated file, because `fs::write` truncates first.
Session ids are creation times in milliseconds and are taken to be fresh.
`SessionPick` has the commands of the command line that choose among the files,
`Prompt` what stands in the prompt besides the plan block.

### Retry, SseStream
`Retry` is one provider request: attempts, the error body, sleeps and the
stream, with time counted in units. `SseStream` is the decoding of its body. A
"byte" is a symbol: newline, the prefix `data: `, the sentinel, or one JSON
chunk; `ChunkOf` says what a chunk parses to. The properties compare the
decoder with the meaning of the whole body, defined without reads or buffers.

### Mcp, Sidecar
Pipes are sequences of lines. In `Mcp` several servers answer in any order, put
notifications, junk and requests of their own between the answers, and die;
`setup_servers`, the handshake, `tools/list`, calls and the final drop are the
client's side. In `Sidecar` one child runs code that prints, raises, hangs or
exits; a kill takes effect some time after it is sent.

### ToolText, ToolCall, Headless
`ToolCall` is one call from the model's request to the message it gets back, one
action per await: argument repair, each pre hook (which may exit 0, 2 or
otherwise, not start, or outlive its timeout), the permission, the tool, the
post hooks. The tools of MCP servers are among them; what a server is asked is
`Mcp`. `edit` has a read and a write with other programs between. `ToolText`
is its text work: line ends, counting, the scan for the first JSON object. The
text of `read_file`, `skill`, `task` or a server's tool may itself begin with
"ERROR"; bash's begins with its exit code, search's with a path, and each line of
list_dir's with "d " or "f ".
`Headless` puts calls into `orcarein run` and `orcarein issue`, made by the model
or by a subagent, with the failures of gh, git and cargo. `grants` is the command
line's `--no-permission` and `--allow`, from which `PolicyOf` builds the policy of
the turn and, once more, that of each child. `setup_servers` of a run is the set
of tools it connects to, any subset of the configured ones.

### EvalGrid
The loops of the harness: cases, configurations, repeats, the cap on cells, the
directory, the setup and the change of directory with their failures, trace files
by name, the report.

### ConfigFiles, SessionPick, Prompt
`ConfigFiles` is two processes over `config.toml` and `secrets.toml`. A command
loads and decides in one action; its save is two, `Truncate` and `Fill`, since
`fs::write` empties the file first, and a process may stop between. `want` is a
history variable: the files as commands that do not overlap leave them. The
checks of `doctor` and the resolution at startup are two operators over the same
state. What they meet outside the two files (the sessions' directory, the mode of
secrets.toml, a tool list without a built-in tool, a prompt file that cannot be
read) may differ at every call, so it is no state: `DoctorAgrees` quantifies over
`Surroundings`. `SessionPick` is the list that was shown, the answer, and others who
save and delete. In `Prompt` a system prompt is a sequence of parts; every
command that builds or patches one is an action, and so are edits of AGENTS.md
and of the skills. The expansion of a user's line is one action per mention.

### EditBuffer, ModalCommand, Completion, Editor, UndoHistory
`EditBuffer` has one operator per method of the buffer, from buffer to buffer;
`ModalCommand` the parser of normal-mode commands and the reducer; `Completion`
when a popup opens, what it matches and the edit that accepts. One action of
`Editor` is one round of the raw-mode loop; the frame at the head of a round is
a function of the state. `UndoHistory` is the abstract specification of undo: a
line of versions with a pointer. `Editor` implements it with
`versions <- undo \o present \o reversed redo`.

### DeviceProfile, ProfileTool, BoardGpio
`DeviceProfile` says which documents load, which arguments bind, what a template
renders to and what the schema accepts. A template is a sequence of lexemes and
numbers count halves, so that a bound may lie between integers. `MaxInt` is
`i64::MAX` and `AsF64` the rounding to an f64, which keeps the order: `Fits` takes
an integer only if it is an i64, and compares it rounded; `json_schema`'s bounds
are cut and saturated by `as i64`. `ProfileTool` is
the state of a session with a profile: calls, dry or not, Python or native, and
the mock transport's queue. `BoardGpio` is the board, the chips found at
startup, and the lines: who owns each and what level it carries. Other
processes take and give back lines.

### Markdown, Syntax
One action of `Markdown` is one event of the parser, over the code's struct
without its styles. The parser is external: `open` is its stack of tags, and the
guards on it allow what CommonMark can nest. Of a piece of HTML, in a paragraph or
as a block, `event()` takes nothing: `html` is the set of the pieces. Footnotes and
task markers need options that `render` does not set. `Syntax` is one round of the
highlighter's loop over a line whose characters stand for their classes; its
property compares the runs with a reader who takes one character at a time.

## 3. The runs

Nine runs pass and three show a divergence (section 7). With two workers on a
small machine no run takes more than three minutes.

| Run | Instance | What it shows |
|---|---|---|
| `agent_turn` | 2 iterations, 2 verify attempts, up to 2 calls per reply with 2 ids; a watched writer, a reader and a delegate; 258k states | transcripts sent or returned are well-formed; completion passed the gate with a fresh verdict or used up its attempts; the failure count is the streak the transcript shows; implements `TurnContract`, so it only appends and stays in both budgets; returns |
| `permission_gate` | 2 commands, a plain and a secret path, 4 tools, 4 modes, 3 rule sets, 2 remembered answers; every pattern over `a`, `/`, `*` of up to 3 characters and over `a`, `*` of 4, every text over `a`, `b`, `/`, `*` of up to 3; 223k states | deny is final and plan is read-only, in parent and child; each unasked call has a reason; nobody is asked twice; the matcher agrees with its documented meaning |
| `repl` | 2 sessions, the code's 2 kept user turns, up to 9 messages, 3 recorded requests; 615k states | the transcript stays sendable through turns, compactions, clears and resumes; block and mode agree; turns are on disk, in their own session's file; spend is not lost |
| `provider` | 4 configured retries clamped to 3, base 1, cap 3, timeout 2, hints 0, 2, 9; bodies of up to 10 symbols, 5 chunks, reads of single symbols, half lines and lines; 490k states | the wait is as the policy says; text as sent, calls whole, nothing from a broken stream |
| `mcp` | 2 servers whose tools collide under one exposed name, 4 requests per connection, server ids that collide with the client's; 483k states | answers do not cross, requests end |
| `hardware` | 1890 documents of which 92 load, 2 calls, i64s up to 1000, f64s exact up to 800; 20 boards with 3 sets of chips; 5 sidecar requests, 3 waiting lines; 211k states | vetted values only; what loads can be called, with the two exceptions of section 7; levels last; replies do not cross, a hang is contained |
| `terminal` | 5 keys out of 30 from 3 starts; documents of 3 blocks, 5 open tags, 2 widths; lines of 5 characters in 3 languages; 2.4M states | frame, undo, completion; text is shown or its loss marked, HTML left out whole, lines fit; lexical runs |
| `headless` | 2 calls on 2 files, one MCP tool, 3 argument texts, 2 pre hooks, 1 post hook; grids of up to 8 cells with 4 configuration lists and 2 caps; 917k states | only exit 2 blocks; edits are unique and whole; errors are seen; the tools are the command's and its servers', and the posture holds in children; the table is the grid |
| `commands` | 2 processes, 3 saves, 3 starts of the files, 5 combinations of flags and environment in 6 surroundings; 3 sessions; 3 prompt steps, lines of 7 characters; 803k states | nothing else is lost; stored keys were given; doctor agrees; the named session is acted on; the model is told the truth |

### Why the bounds are enough

* `agent_turn`: two attempts are the fewest in which a rejected completion is
  followed by an edit, a second verification and a stop at `max_attempts`; two
  iterations let batches and verify rounds alternate; batches of two hold a mix
  of outcomes.
* `permission_gate`: two commands separate "the same command" from "another
  bash command"; two remembered answers let parent and child each hold one. The
  rule sets put an allow under a deny, an ask over an allow, and nothing. Four
  characters of a pattern hold two stars with text between them, three of a text
  a backtrack over an earlier star's run.
* `repl`: compaction needs more user messages than it keeps, so three, which
  takes two turns of which one had a verify complaint; the third recorded
  request is the compaction's. Each batch has two calls, so a wrong cut falls
  inside one. Two ids suffice for a save to reach the wrong file.
* `provider`: nine symbols and a blank line hold three pieces of two calls. Only
  the first attempt, answered at once, is followed into its body, since what a
  body holds does not depend on the attempts before it.
* `mcp`: `MaxInbox` bounds only the lines a server sends unasked; answers are
  always let through, so no run stops for lack of room. Four requests are the
  handshake, the listing and two calls, the second of which can read the
  first's late answer.
* `hardware`: the documents combine each kind of parameter with each kind of
  template, at the bounds of a byte; the numbers lie on either side of the last
  exact f64 and of the largest i64; two calls, for a read that empties the
  mock's queue; one alias and one bank line per board, for two names of a line;
  the sidecar's five requests are an init request and four more.
* `terminal`: five keys hold a counted operator with a motion, undone and redone,
  or a completion typed and accepted; three blocks with five open tags hold an
  item in an item with a block in it; the narrow width makes every word break,
  the wide one leaves tables room to shrink; five characters hold an escaped
  quotation mark inside a string.
* `headless`: two calls let the second act on what the first left; two pre hooks,
  one that may fail and one that may block; eight cells are two cases, two
  configurations, two repeats.
* `commands`: three saves are two overlapping ones and one more; with three
  sessions a prefix names none, one, two or all; three steps are a start, a
  command and a turn of the files under it.
* Deadlock is checked in `agent_turn`, `repl` and `repl_late_failure`, which
  never stop, and in `permission_gate`, whose gate never stops and whose matcher
  stutters at its answer. Elsewhere the modelled system ends (the request is
  over, the bound of keys or calls is used up) and it is off.

## 4. Fairness

* `AgentTurn`: `WF(TurnStep)`, every await comes back. Hooks and the verify
  command have timeouts in the code. A response body, the bash tool and an MCP
  call have none, so this is an assumption about the other side: `Terminates`
  says that the *loop* ends, although a rejected verification costs no iteration.
* `Mcp`: `WF(ClientStep)`, the runtime polls the client; `WF(Answer(s))` for
  each server. Without the second `RequestEnds` fails, since no timeout bounds a
  read (section 7).
* `Sidecar`: `WF(Wait)`, the runtime polls the read and its timer;
  `WF(KillTakesEffect)`, the kernel delivers the signal. Nothing is assumed of
  the code in the child.

The other modules state safety only: what they model ends when the user, the
server or the file system says so.

## 5. What is proved

For all values of the constants, from the named `ASSUME`s of each module
(natural numbers where the code has unsigned ones, caps of at least one where
`with_max_iterations` and `max_attempts` put the floor, disjoint absent values).

**TurnProofs.** *The loop*: `TypeOK`, `VerifiedCompletion` and `VerdictIsFresh` come
from `TurnInv`. `VerifiedCompletion` is not inductive alone: that the gate
no longer fires does not say the command ever ran. `GateInv` adds what links the
counters to the place in the loop: at the verify await an attempt is left, a
verdict exists once an attempt was made, a passing one means that the turn is over.
`Replayable` comes from `TranscriptInv`: between rounds the transcript is well
formed, and inside a batch it is an `OpenRound`: well-formed up to the last
assistant message, followed by the first `answered` answers in order. Four lemmas
say how a message changes this (`PlainMessageKeepsWellFormed`,
`ReplyOpensRound`, `AnswerExtendsRound`, `FullRoundIsWellFormed`).
`AppendOnly` holds of each step by `AppendKeepsPrefix`.

`FailureStreak` equates the counter with the number of failing results after the
last success (`FailuresCounted`). `StreakOfAppend` says how one message changes the set
that is counted: another role leaves it, an error adds its index, a success
empties it. The refinement is `Spec => ImplementsContract`: `RoundShape` says
which messages the unfinished round consists of; `StepRefines` maps the last step
of a round (`BatchDone`, `VerifyFails`) to the contract's round and the steps
inside it to stuttering.

*Retry*: `RetryTypeOK`, `RequestBound`, `WaitBound` and `SingleSource`. The
invariant counts the attempt under way as paid or unpaid by phase: while
sending, `attempt` attempts and sleeps are paid, once failed one attempt more.
`Paid(n)` keeps the product out of the solver's sight but for one lemma.
*Prompt*: `ModelIsTold` from two invariants. `PromptShaped` says that the live
prompt is one without a block and, in plan mode, the block behind it, and that a
saved one is such a prompt of either mode: `/resume` may bring back a prompt of
the other mode, and `BlockIsReplaced` says that the old block goes whole.
`MentionsShaped` says that the paths so far are those of the first mentions
before the cursor, in the order of the line (`Listing`), and that the message was
made from all of them (`BlocksListed`). It takes that a run ends before the next
mention begins (`SaidBehindRun`), and that a path seen before is not a first
mention (`FirstsGrow`).

*SseStream*: `TextAsSent` and `CallsWhole`, for every body and every way to cut it.
`SseInv` says that the buffer is the end of what was sent, that what was drained
ends with a blank line, and that `got` is what reading the drained bytes of the
whole body, line by line, brings (`ReadsAlike`: a line has the same meaning in the
event and in the body). What is left is about one such reading. `At(n)`, its state
after `n` bytes, is followed byte by byte: it is fine as long as no line was
spoiled (`FineMeans`), then exactly the lines that count are taken
(`CountedIsTaken`), the texts so far are those of the lines so far
(`TextsAreListed`), and each entry of `ToolCallAcc` has the last id and name and
all arguments that were said of its call (`AccMeans`). `FinalizeLists` gives the
order of the indices.

**PermissionProofs.** `TypeOK`, `DenyRuleFinal`, `PlanReadOnly`, `Accountable`
and `NeverReasked`, for any rules, patterns, tools and any number of answers.
About the ladder: `DenyWins`, `CeilingHolds`, and `LadderAllows` (an allow has a
rule, yolo, or the mode behind it). The invariant is `GateInv`: the turn and the
child hold the live mode (`ModesAgree`, which holds because `/mode` is read
between turns only), each store holds exactly the recorded answers of its owner
(`MemoryMatches`), and the last call has an explanation (`LastExplained`).

The matcher: `IndicesInBounds`, and `MatcherIsRight`, which proves `Correct` for every
pattern and text. Of `MatchInv`, `Sound` says that a match of what is left, also
with a longer run of the last star, is a match of the whole; `Complete` that no
match of a text without stars is out of the loop's reach; `SinceStar` that only
literals were taken after the last star, so an earlier star never needs to be
moved again (`PlacesForward`, `PlacesLonger`).

**ReplProofs.** `TurnsAreSaved` from `FilesInv` (types, and the live session's
own file is never torn, since a crash ends the process); from the same,
`BlockFollowsMode` and `SpendNeverForgotten` of each step. `Sendable` is proved of every behaviour
in which no request fails after a turn's first batch: with such a failure it does
not hold, which `repl_late_failure` shows. Its invariant `SendInv` says that the live
transcript and each one in a file begin with the system prompt and are
well-formed: files are read back by `/resume`. A turn of any number of rounds is well-formed (`PlayedWellFormed`),
and so is what is left after compaction cuts at a user message
(`WellFormedFromUser`).

The pages of `Markdown`, for any document, width and set of wide characters:
`LinesFit` of `MdSpec`, and that no row is wider than its table's border
(`RowsStayInFrame`). The renderer's functions are folds over characters, so most of
the proof is about single functions: what `WrapRuns` and `WrapCode` cut
(`WrapRunsFit`, `WrapCodeFits`: each fold's state is followed, `WrapState` says that
only a line which may still break at a space is sure to fit), what a cell keeps
(`CellFits`), and that shrinking the widest column by one, as often as the columns
are too wide, reaches the budget unless there is less of it than one column each
(`ShrinkReaches`, `ColumnsFit`). Over the events `PageInv` says that each line written so
far fits beside a table of the columns seen (`Fitting`), which a wider table
does not undo (`FitsMore`), that rows are as wide as the head, and that no tag is open inside
a head but a cell and a link: so the head is read once, before any row.

`LossIsMarked` of the same pages is about how often a character is shown, so it needs
an account of each character, kept from event to event. `Weight` sums the weights of the
terms of a sequence; with a character's own weight it is a count in a text (`CountIn`),
with that count the weight of texts, rows and lines. Of the functions alone it is proved
that they keep the count (`WrapRunsKeep`: only the space a line breaks at is dropped;
`WrapCodeKeeps`, `TrimmedKeeps`), or say that they do not: `RenderKeeps`
says that a drawn table shows no more than it holds, and less only if a row of it has dots or is
cut at its edge. That rests on `ShrinkingLeavesRoom` (shrinking never takes the last place
of a column that has text) and `RowShows`. `KeptInv` says of each character that
`Stock`, what stands on the page, in the runs, the code, the cell, the row and the table, is
what the document has said so far outside its HTML (`Said`), or less with a marked row (`Accounted`); and
where text may wait, given the tag that holds it (`ShapedFor`, `Placed`): the runs
are empty between blocks, no row outlives its table. Without the second part a step
that resets a field could lose what was in it. Each event carries the
account (`Carries`) or adds one text to it (`Grown`), so `TextIsKept` holds of a finished
page, for any document. `LossIsMarked` counts to one, so it supposes a document in which no
character but a space comes twice and none is the ellipsis or in the address (`Labelled`); TLC evaluates
that assumption on the instance it checks.

**McpProofs.** `OwnAnswer`: every answer owed or in a pipe bears an id that its
connection has given out (`IdsGivenOut`), so a new request's id is on none of them,
and those that come to bear it are its own (`AnswersThePending`). `RoutesAreOffered` and `RoutesKept`: a name the model is
given leads to a server that offers it, and the first offer of a name keeps it.

**HardwareProofs.** Sidecar: `InOrder`, answers in the pipe, the request that
runs and those that wait stand in the order they were asked; with it a reply
that was accepted means an idle child (`IdleOnceAnswered`), and `OwnReply`. Board: `SetLevelLasts`, because the requests held, the kernel's
owners and the levels set are of one set of lines (`Kept`). Profiles: what binds is vetted and what renders from
vetted values is vetted, so `OnlyVettedValues`; and by `BoundArgsMeetSchema`,
`SchemaArgsBind` and `CarefulArgsResolve` a call the schema admits reaches the
device (`LoadedCallsReach`).

**CommandProofs.** *Calls*: `IInv` says what may be running, in parent and child (`Granted`:
the registries and the call are of the command's tools, the policies are what the
command line grants, in the child once more: `Vetted`), what the result says of
success (`Told`), and that a call which a hook stopped did not run (`Stopped`). `SalvageFindsObject` says that the scan finds an object wherever one
begins at the first brace. `EditsAreExact` rests on `CountOneIsUnique` (the
greedy, non-overlapping count is one only if the snippet occurs once) and
`ReplacedText`. *Files*: `FInv` says that while no two commands
overlap and none was stopped in a save, a file has one writer at most and is as
wanted, or will be when that writer is done (`Alone`, `Settled`); and that no process
is about to store a key that was not given (`KeysGiven`).
*Choice*: `PickInv` says that the target is what the answer names in the list
that was shown; `PrefixOfSameLength` that no id is the beginning of another. *Grid*: `GridInv` gives
each row its place; the places are a bijection between cells and numbers
(`Places`, `PlacesEnd`), which takes the arithmetic of a product.

**TerminalProofs.** `UndoIsHistory`, the refinement of `UndoHistory`. One lemma per
operation of the buffer says that it either keeps text and history (`Moves`) or
pushes the text once and works on (`Commits`); commands with a count and the typing
of an accepted name push several versions (`Edited`, `Grown`). So each key is one
`Stage`, an undo, a redo, or a recall (`Turns`). What that does to the line of
versions is said apart (`Shown`, `Present`): an edit keeps the versions up to the
present one (`EditedIsFurther`), undo and redo only shift the place where the line
is cut (`LineShifts`). The invariant `EditorInv` is about the parser too, since its
commands decide how often a step is taken, and about the popups, since the
accepted name must exist: `SelectedNameExists`, from `FilterFits`.

`FrameIsTrue` and `CompletionReplacesTyped` need more: where the cursor is and what
the text becomes. Between two keys a buffer is `Calm` (no selection, the cursor on a
character) or `Sel` (a selection with both ends in the text); each operation is
shown to lead from one to the other for any count. Inside an operation the cursor may
stand outside the text, so the lemmas follow it to the clamp that ends the operation
(`Ready`, `ClampCalm`). What the rows become is `RowsPut`: the old rows before the
place, the new ones, the old ones behind it. `SoundInv` adds to this that an open
popup's place and query still fit the text (`Means`) and that one popup at most is
open; both hold anew after each key because a key that changes the text refreshes all
three. For `CompletionReplacesTyped` the name is then followed through the character
insertions that put it in (`TypesText`). For `FrameIsTrue` the highlight and the
removal are each computed to the same columns of each row (`PartIsCut`), and the sizes
of the texts are added up by rows (`PutsSize`, `TakenSize`); that the cursor's line is
drawn is arithmetic of the window (`CursorIsShown`).

`RunsAreLexical`, for lines of any length. The loop jumps from run to run, the
reader it is compared with goes character by character, so `SynInv` says where
each run ends, that the reader gives all of its characters the run's kind, and that at
`i` the reader begins anew (`Starts`). `PushKeeps` is what every round must show
for its run, and each kind of run has its lemma; a word's kind needs that the word
around each of its characters is the run itself. Where a string closes is found by
a scan that jumps over what a backslash escapes: `StringRunKeeps` follows it round by
round and shows that the reader is still in the string there.

**BasicLemmas.** `LeastNumber`: a set of naturals that is not empty has a least
member. It does the work of an induction: assume a counterexample, take the
least, look at the one before. `Iterates`: a state and a step for each number give
a function over `Nat`, so one that is defined by such a recursion satisfies its equation, for which the models' loops over text are
written as such functions (`Scans`, `Matching`, `Played`, `Blocks`, `Ranked`, `Read`).
`Recurs` is the same for the body of such a function, `Reaches` and `ReachesAll` the
step from one number to the next. `TailTerms` is about
the members of a sequence's tail.

What the proofs assume of constants, and where the code gives it: texts are
sequences of characters (`ArgsAssumption`, `TextAssumption`, `TreesAssumption`); a
JSON object's last brace closes its first (`ArgsAssumption`, the grammar of JSON);
a start of the files in which nothing is set reads as the default
(`StartsAssumption`, `Config` is `#[serde(default)]`); session ids are finitely
many numerals of one length (`IdsAssumption`, milliseconds since 1970); ids of
cases are unique (`SuiteAssumption`, tested by
`toy_suite_is_nonempty_and_ids_unique`); counts on the command line are natural
numbers (`ArgumentsAssumption`, `usize`); the empty path is neither a directory nor
a file (`MentionAssumption`, `expand_mentions` skips it); the names a popup offers
are lists of texts (`CandidatesAssumption`, `&[String]`); an earlier input has one line
at least (`HistoryAssumption`, `from_str` splits a string); a picker's
prefix is a text that is not empty (`PrefixAssumption`, `"/model "` and `"/mode "`); the frame may
take three rows (`FrameAssumption`, `(term_height / 2).max(3)`); a document's texts are
sequences of characters, of which a space and the dots are not wide, and widths are
natural numbers (`DocumentAssumption`, `usize`, `unicode-width`); rounding to an f64
keeps the order, and is the identity on what it yields and on a byte's range
(`NumbersAssumption`); no server's tool bears a built-in tool's name
(`McpAssumption`, `mcp/mod.rs:59`: `mcp__` and the server).

Each proof holds for the module as it is checked: the runs above and the
theorems share their definitions. The type invariants, `VerdictIsFresh`,
`AppendOnly`, `RequestBound`, `SingleSource` and the matcher's `IndicesOK` are
proved and no longer checked on an instance: what holds for every value of the
constants needs no run.

## 6. What is only model-checked

* Liveness: `Terminates`, `RequestEnds`, `HangIsContained`. TLAPS has no support
  for `ENABLED`, so weak fairness stays with TLC.
* The theorems of the library that take a predicate as a parameter cannot be
  instantiated by the provers; `LeastNumber` stands in for them.

What some properties leave out of the hazard they are about: in the runs of
`permission_gate` a command matches itself and no other, so a persisted command
that is read back as a wider pattern is not met there (the matcher is checked and
proved apart, as `GlobMatch`). `TurnsAreSaved` says nothing of the one file that a
crash inside its save leaves unreadable, whose turns are lost. `EditReplacesTheOne`
excepts an edit between whose read and write another program wrote the file.

## 7. Divergences found while modelling

With a run that shows them:

* **A late failure leaves an unanswered call** (`repl_late_failure`). After any
  failed turn the REPL calls `pop_last` once (`orcarein/src/main.rs:2276`). If
  the failing request was not the turn's first, that drops a tool result, and
  the next request is malformed. The passing run `repl` therefore lets only
  first requests fail.
* **A new file is no change** (`issue_new_file`). `orcarein issue` asks
  `git diff`, which does not list untracked files, and says that nothing changed.
* **A star in the text hides a match** (`glob_star_in_text`). `*` is documented to
  match any run of characters (`rules.rs:267`). `star_match` compares characters
  before it tests the pattern's for a star (`rules.rs:313`), so a star in the text
  consumes the pattern's star as a literal: the rule pattern `rm *` does not match
  the command `rm *.txt`. `Correct` says, and `MatcherIsRight` proves, what holds:
  every match is right, and in a text without a star none is missed.

Without a run of their own:

* Turn and gate. `touched_fs` is kept by tool name, so a turn whose only writer
  was a subagent or an MCP tool ends without the gate, whatever "may have mutated
  the filesystem" says (`agent.rs:188`, `222`). After `DenyAlways`, documented as
  denying "ALL future invocations of this tool in this session"
  (`permission/mod.rs:135`), a switch to yolo or acceptEdits lets the same call
  run: the ladder is asked first, and only its "ask" reaches the policy
  (`agent.rs:613`). `permission/mod.rs:8` says that always-permissions must be
  re-granted at each start; for bash they are persisted (`main.rs:2364`).
* Rendering of lists. `pending_marker` is the "marker prefix for the current list
  item's first emitted line" (`markdown.rs:56`), but only `emit_para` takes it: a
  rule, heading, table or code block that opens an item is shown without the
  marker, and for a tight item with a code block the item's own text comes after.
* Sessions. `session resume` at the start keeps the prompt it was saved with, so a
  session saved in plan mode says so in default mode (`main.rs:1748`), which
  `/resume` avoids (`main.rs:2095`); `BlockFollowsMode` excepts the start. A
  resumed session keeps an old skills index while the skill tool holds the new
  ones, whatever "what the index lists is always loadable" says
  (`main.rs:1424`). A blank AGENTS.md hides its parent's. An AGENTS.md that
  contains the mode block's own marker breaks the promise that at most one block
  stands in the prompt; the instance has none. `/resume` of the live session's
  own id after a failed save loads the older file; `SpendNeverForgotten` excepts
  ids with a failed save.
* Configuration. A sessions' directory that cannot be made is doctor's FAIL,
  "Broken — OrcaRein cannot function until this is fixed" (`doctor.rs:22`), but
  `run` never opens it and the REPL starts without making it (`session.rs:205`); a
  `--system-prompt-file` that cannot be read stops `run`, and doctor does not look
  at it. `DoctorAgrees` excepts both. Overlapping commands undo each other's changes, a save that is
  stopped leaves an empty or partial file, and a save drops comments and unknown
  keys. `doctor` warns where its comment says "Usable, but something is missing"
  (`doctor.rs:20`), although without a configuration directory no command starts.
  `config.model` is used whatever provider `--provider` names.
* Pipes. A silent MCP server stops the startup, although a server that fails "to
  connect/list is logged and skipped" (`mcp/mod.rs:39`), since the read has no
  timeout (`mcp/transport.rs:48`). A server's own request that bears the id in
  flight ends the call as an error (`mcp/transport.rs:57`). A body that ends
  without its last blank line counts as complete (`openai_compat.rs:141`); a
  failed MCP handshake leaves the server process running (`mcp/client.rs:103`).
  A line printed by driver code ends the sidecar's request while the code still
  runs; the next request is queued beside it and fails on the reply left behind,
  which kills the child (`sidecar.rs:64`, `188`); `OwnReply` holds all the same.
* Tools and hooks. `--tools` is the "Whitelist of tools" (`README.md:254`,
  "Whitelist of tool names the REPL may expose", `config.rs:72`), but `run` and
  the REPL add the tools of every MCP server that connects, whatever the list says
  (`main.rs:2719`), and `task` and `skill`; `PostureHolds` says what a run with a
  list does keep to. The gate stands before these tools as before any other. A hook that exits 2 and leaves a background process on its pipe
  counts as timed out, and the tool runs (`hook.rs:152`). `edit` reports a
  replacement when old and new text are the same after normalising line ends; an
  edit between its read and its write is lost (`EditReplacesTheOne` excepts it).
  Text that a tool returns with "ERROR" in front counts as a failure
  (`agent.rs:555`). When cargo does not start, `issue` reports "skipped (no
  Cargo.toml)".
* Evaluation. An error in one cell loses every row; an unknown configuration is
  found only after the cells before it; a configuration named twice overwrites its
  traces.
* Editor. A pending operator survives an insertion (`d`, then `i`, Escape, `w`
  deletes). `3dd` near the end deletes rows above the cursor. In insert mode the
  hint names Enter for sending, which breaks the line. A popup on a frame at its
  cap can hide the cursor's line; `CursorShown` excepts it.
* Rendering. HTML is dropped and nothing on the page says so (`markdown.rs:163`,
  "html, footnotes, task markers, images: ignored"): of `Vec<String>` in prose
  only `Vec` is shown. `LossIsMarked` says of HTML that it is left out whole, and
  marks of text only. An image's description is shown as text, its address
  dropped like HTML, and not modelled. `render`'s comment says that code lines
  "are kept intact (the pager scrolls/wraps them) regardless" of the width
  (`markdown.rs:24`); `emit_code` cuts them at the width, as the test
  `code_block_soft_wraps_with_continuation_marker` (`markdown.rs:852`) wants, and
  `LinesFit` says so. A link inside a table cell puts its address in front of the next
  block; a heading, rule or table in an item or quotation loses the bar;
  `- - a` loses the outer marker; `fit_cell` ends a cell with two ellipses and
  keeps two columns less, where its comment keeps one; a truncated table can be
  one column too wide. `LossIsMarked` and `LinesFit` name what they except;
  `TextIsKept` counts no character of an address.
* Hardware. `enum` is accepted on a boolean and `<<=` passes
  `check_not_assignment`; a native argument outside a byte fails at the call
  only; `json_schema` cuts fractional bounds to integers; an empty whitelist makes
  an intent nobody can call. The schema's integer may be `2.0` or beyond an i64,
  and `as_i64` takes neither (`template.rs:109`); bounds are compared in f64
  (`template.rs:116`, `124`), so that a number of more than 53 bits just past a
  bound binds, though the schema refuses it. `LoadedCallsReach` is stated for
  profiles written with care and names these two exceptions. Bounds that are
  infinite or not a number, which TOML can write, are not modelled.

## 8. What is not modelled, and why

* Pager, header, whale, color: pictures. The widths that markdown.rs takes from
  them are in `Markdown`.
* Cost: a product of a price table and token counts.
* Providers: wrappers that build one HTTP request; their retry and stream are
  modelled.
* The walk of `search`, the caps of listings and of quoted files, the 32 KiB cap
  of an MCP result: loops over the file system or over text whose only outcome
  is a shorter text.
* The model a subagent runs on after `/model`; session ids that collide in one
  millisecond; the capacity of the sidecar's input pipe. Each is a hazard in
  `PROJECT.json` with the reason there.
* A parent and a child turn composed step by step: the child is `AgentTurn`
  again, and no state is shared but the mode and the files, which `PermissionGate`
  and `Headless` have.

## 9. The plan

The order was by what a wrong answer would cost: the loop and the gate first,
then what persists, then the pipes to other processes, then single-user state.
The modules are written, and each safety property of the passing runs is a theorem.
What is left to TLC is in section 6.
