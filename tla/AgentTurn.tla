------------------------------ MODULE AgentTurn ------------------------------
(***************************************************************************)
(* One user turn of the agent loop: Agent::run_turn, dispatch, record_tool *)
(* and the verification gate (crates/orcarein-core/src/agent.rs).          *)
(*                                                                         *)
(* The caller has pushed the user's message; the loop then alternates      *)
(* requests to the provider with the execution of the tool calls of each   *)
(* reply, until a reply without calls passes the verification gate, the    *)
(* iteration cap is hit, or a request fails.  One action is one stretch of *)
(* the function between two awaits: a provider stream, a tool call, a run  *)
(* of the verify command.                                                  *)
(*                                                                         *)
(* Message text, reasoning and events are left out.  What a tool call does *)
(* (lookup, argument repair, hooks, permission gate, execution) is reduced *)
(* here to its three outcomes; PermissionGate models how it is decided.    *)
(***************************************************************************)
EXTENDS Messages, FiniteSets

CONSTANTS
  MaxIterations,   \* Agent::max_iterations
  MaxAttempts,     \* VerifyConfig::max_attempts()
  VerifyOn,        \* a [verify] command is configured
  Tools,           \* the tool names a reply may call
  Writers,         \* write_file, edit, bash: the names record_tool watches
  Delegates,       \* task and MCP tools: they may write files, unwatched
  Tokens,          \* the usage one request may report, 0 for no report
  MaxBatch         \* bound of the model: calls per reply

ASSUME TurnAssumption ==
  /\ MaxIterations \in Nat \ {0}      \* with_max_iterations: n.max(1)
  /\ MaxAttempts \in Nat \ {0}        \* max_attempts(): floor 1
  /\ VerifyOn \in BOOLEAN
  /\ Writers \subseteq Tools
  /\ Delegates \subseteq Tools \ Writers
  /\ Tokens \subseteq Nat
  /\ MaxBatch \in Nat \ {0}

VARIABLES
  session,         \* Session::messages
  usage,           \* Session::usage, in tokens
  pc,              \* where run_turn awaits: "request", "dispatch", "verify", or "ended"
  result,          \* how it returned: "none", "finished", "limit", "error"
  iteration,
  batch,           \* the tool calls of the last reply
  answered,        \* how many of them have their tool message
  turnUsage,
  touchedFs,       \* TurnState::touched_fs
  lastVerify,      \* TurnState::last_verify
  verifyAttempts,  \* TurnState::verify_attempts
  failures,        \* TurnState::consecutive_tool_failures
  unverified       \* history: files changed, and no verify run has passed since

turnVars == <<pc, result, iteration, batch, answered, turnUsage, touchedFs,
              lastVerify, verifyAttempts, failures, unverified>>
vars == <<session, usage, turnVars>>

-----------------------------------------------------------------------------
(* Replies *)

Call == [id : CallIds, tool : Tools]
Batches == UNION {[1..n -> Call] : n \in 1..MaxBatch}
IdsOf(calls) == [k \in 1..Len(calls) |-> calls[k].id]

-----------------------------------------------------------------------------
(* The state run_turn starts from: fresh locals and TurnState::default() *)

FreshTurn ==
  /\ pc = "request"
  /\ result = "none"
  /\ iteration = 0
  /\ batch = <<>>
  /\ answered = 0
  /\ turnUsage = 0
  /\ touchedFs = FALSE
  /\ lastVerify = "none"
  /\ verifyAttempts = 0
  /\ failures = 0
  /\ unverified = FALSE

Init ==
  /\ session = <<SystemMsg, UserMsg>>
  /\ usage = 0
  /\ FreshTurn

-----------------------------------------------------------------------------
(* Actions *)

\* The loop head: the cap is reached, the turn returns Ok with hit_iteration_limit.
StopAtLimit ==
  /\ pc = "request"
  /\ iteration >= MaxIterations
  /\ usage' = usage + turnUsage
  /\ pc' = "ended"
  /\ result' = "limit"
  /\ UNCHANGED <<session, iteration, batch, answered, turnUsage, touchedFs,
                 lastVerify, verifyAttempts, failures, unverified>>

CanRequest == pc = "request" /\ iteration < MaxIterations

\* chat_stream fails, or the stream yields an error: `?` leaves the function,
\* with nothing pushed for this request and the turn's usage never recorded.
RequestFails ==
  /\ CanRequest
  /\ pc' = "ended"
  /\ result' = "error"
  /\ UNCHANGED <<session, usage, iteration, batch, answered, turnUsage, touchedFs,
                 lastVerify, verifyAttempts, failures, unverified>>

\* The reply carries tool calls: they will be dispatched one after the other.
ReplyWithCalls(calls, u) ==
  /\ CanRequest
  /\ session' = Append(session, AssistantMsg(IdsOf(calls)))
  /\ turnUsage' = turnUsage + u
  /\ batch' = calls
  /\ answered' = 0
  /\ pc' = "dispatch"
  /\ UNCHANGED <<usage, result, iteration, touchedFs, lastVerify, verifyAttempts,
                 failures, unverified>>

\* Mutant: the gate runs once per turn and never again.
GateFires_Once == VerifyOn /\ touchedFs /\ verifyAttempts = 0

GateFires == VerifyOn /\ touchedFs /\ verifyAttempts < MaxAttempts

\* The reply has no calls but files were touched: the verify command is started.
ReplyToVerify(u) ==
  /\ CanRequest
  /\ GateFires
  /\ session' = Append(session, AssistantMsg(<<>>))
  /\ turnUsage' = turnUsage + u
  /\ pc' = "verify"
  /\ UNCHANGED <<usage, result, iteration, batch, answered, touchedFs, lastVerify,
                 verifyAttempts, failures, unverified>>

\* The reply has no calls and the gate does not fire: the turn is complete.
ReplyFinishes(u) ==
  /\ CanRequest
  /\ ~GateFires
  /\ session' = Append(session, AssistantMsg(<<>>))
  /\ turnUsage' = turnUsage + u
  /\ usage' = usage + turnUsage'
  /\ pc' = "ended"
  /\ result' = "finished"
  /\ UNCHANGED <<iteration, batch, answered, touchedFs, lastVerify, verifyAttempts,
                 failures, unverified>>

\* Mutant: after a passing run the loop goes round instead of breaking.
VerifyPasses_Continues ==
  /\ pc = "verify"
  /\ verifyAttempts' = verifyAttempts + 1
  /\ lastVerify' = "passed"
  /\ pc' = "request"
  /\ unverified' = FALSE
  /\ UNCHANGED <<session, usage, result, iteration, batch, answered, turnUsage,
                 touchedFs, failures>>

\* The verify command exits 0: the turn is complete.
VerifyPasses ==
  /\ pc = "verify"
  /\ verifyAttempts' = verifyAttempts + 1
  /\ lastVerify' = "passed"
  /\ usage' = usage + turnUsage
  /\ pc' = "ended"
  /\ result' = "finished"
  /\ unverified' = FALSE
  /\ UNCHANGED <<session, iteration, batch, answered, turnUsage, touchedFs, failures>>

\* Any other exit, a timeout, or a spawn failure: the failure is fed back to
\* the model and the loop goes round without paying an iteration.
VerifyFails ==
  /\ pc = "verify"
  /\ verifyAttempts' = verifyAttempts + 1
  /\ lastVerify' = "failed"
  /\ session' = Append(session, UserMsg)
  /\ pc' = "request"
  /\ UNCHANGED <<usage, result, iteration, batch, answered, turnUsage, touchedFs,
                 failures, unverified>>

\* What run_tool may return: "refused" (unknown name, arguments beyond repair,
\* a blocking hook, the permission gate), "failed" (the tool ran and its result
\* starts with ERROR:), or "ok".
Outcomes == {"refused", "failed", "ok"}

\* Mutant: a success does not reset the failure count.
RecordTool_NoReset(tool, isError) ==
  /\ failures' = IF isError THEN failures + 1 ELSE failures
  /\ touchedFs' = (touchedFs \/ (~isError /\ tool \in Writers))

\* TurnState::record_tool
RecordTool(tool, isError) ==
  /\ failures' = IF isError THEN failures + 1 ELSE 0
  /\ touchedFs' = (touchedFs \/ (~isError /\ tool \in Writers))

\* What the call may have done to the files.  A writer that fails may have
\* written before it failed; a delegate writes through a child or a server.
FileEffect(tool, outcome) ==
  IF outcome # "refused" /\ tool \in Writers \cup Delegates
    THEN unverified' \in {unverified, TRUE}
    ELSE unverified' = unverified

\* dispatch: one call is run, recorded, and answered by a tool message.
Dispatch(outcome) ==
  /\ pc = "dispatch"
  /\ answered < Len(batch)
  /\ LET call == batch[answered + 1]
         isError == outcome # "ok"
     IN  /\ session' = Append(session, ToolMsg(call.id, isError))
         /\ RecordTool(call.tool, isError)
         /\ FileEffect(call.tool, outcome)
  /\ answered' = answered + 1
  /\ UNCHANGED <<usage, pc, result, iteration, batch, turnUsage, lastVerify, verifyAttempts>>

\* Mutant: the loop leaves the batch as soon as one call is answered.
BatchDone_Early ==
  /\ pc = "dispatch"
  /\ answered >= 1
  /\ iteration' = iteration + 1
  /\ pc' = "request"
  /\ UNCHANGED <<session, usage, result, batch, answered, turnUsage, touchedFs,
                 lastVerify, verifyAttempts, failures, unverified>>

\* Mutant: the loop spins on the answered batch.
BatchDone_Spins == pc = "dispatch" /\ answered = Len(batch) /\ UNCHANGED vars

\* Every call of the reply is answered: back to the loop head.
BatchDone ==
  /\ pc = "dispatch"
  /\ answered = Len(batch)
  /\ iteration' = iteration + 1
  /\ pc' = "request"
  /\ UNCHANGED <<session, usage, result, batch, answered, turnUsage, touchedFs,
                 lastVerify, verifyAttempts, failures, unverified>>

TurnStep ==
  \/ StopAtLimit
  \/ RequestFails
  \/ \E calls \in Batches, u \in Tokens : ReplyWithCalls(calls, u)
  \/ \E u \in Tokens : ReplyToVerify(u)
  \/ \E u \in Tokens : ReplyFinishes(u)
  \/ VerifyPasses
  \/ VerifyFails
  \/ \E outcome \in Outcomes : Dispatch(outcome)
  \/ BatchDone

\* run_turn has returned.
Returned == pc = "ended" /\ UNCHANGED vars

Next == TurnStep \/ Returned

Spec == Init /\ [][Next]_vars

\* Every await returns: streams end, tools and the verify command come back.
FairSpec == Spec /\ WF_vars(TurnStep)

-----------------------------------------------------------------------------
(* Properties *)

TypeOK ==
  /\ session \in Seq(Message)
  /\ usage \in Nat
  /\ pc \in {"request", "dispatch", "verify", "ended"}
  /\ result \in {"none", "finished", "limit", "error"}
  /\ iteration \in 0..MaxIterations
  /\ batch \in Seq(Call)
  /\ answered \in 0..Len(batch)
  /\ turnUsage \in Nat
  /\ touchedFs \in BOOLEAN
  /\ lastVerify \in {"none", "passed", "failed"}
  /\ verifyAttempts \in 0..MaxAttempts
  /\ failures \in Nat
  /\ unverified \in BOOLEAN

\* Whenever run_turn is about to send the transcript, and whenever it returns,
\* every tool call in it has its answer (agent.rs, the `for call in &tool_calls`
\* loop): an interrupted batch is never sent.
Replayable == pc # "dispatch" => WellFormed(session)

\* A turn that returns as finished with touched_fs set went through the gate:
\* the command passed on the files as they are now, or it failed as often as
\* max_attempts allows.
VerifiedCompletion ==
  (result = "finished" /\ VerifyOn /\ touchedFs) =>
     \/ lastVerify = "passed" /\ ~unverified
     \/ lastVerify = "failed" /\ verifyAttempts = MaxAttempts

\* A passing verdict is never stale: once the command has passed, the turn is
\* over and no file has changed since.
VerdictIsFresh == lastVerify = "passed" => result = "finished" /\ ~unverified

ToolResults == {i \in DOMAIN session : session[i].role = "tool"}

\* consecutive_tool_failures counts the unbroken run of error results at the
\* end of the turn, across replies and verify rounds.
FailureStreak ==
  failures = Cardinality({i \in ToolResults : \A j \in ToolResults : j >= i => session[j].err})

\* Within a turn the transcript only grows at its end, so each request's prefix
\* is the previous request (agent.rs, CacheMode: "append-only").
AppendOnly ==
  [][/\ Len(session') >= Len(session)
     /\ \A i \in 1..Len(session) : session'[i] = session[i]]_vars

\* The turn returns, whatever the model replies.
Terminates == <>(pc = "ended")

-----------------------------------------------------------------------------
(* The turn implements TurnContract: an unfinished round is invisible. *)

WholeRounds ==
  CASE pc = "dispatch" -> SubSeq(session, 1, Len(session) - answered - 1)
    [] pc = "verify" -> SubSeq(session, 1, Len(session) - 1)
    [] OTHER -> session

Contract == INSTANCE TurnContract WITH
  talk <- WholeRounds,
  callRounds <- iteration,
  rejections <- IF lastVerify = "passed" THEN verifyAttempts - 1 ELSE verifyAttempts,
  state <- IF pc = "ended" THEN result ELSE "running"

\* The detailed turn is a contract turn whose rounds are built step by step.
ImplementsContract == Contract!CSpec
=============================================================================
