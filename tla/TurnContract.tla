---------------------------- MODULE TurnContract ----------------------------
(***************************************************************************)
(* What Agent::run_turn promises its caller (agent.rs, the docs of         *)
(* run_turn and TurnOutcome): the transcript grows by whole rounds.  A     *)
(* round is a reply with all its tool results, or a reply followed by the  *)
(* complaint of the verify command.  At most MaxIterations rounds of the   *)
(* first kind and MaxAttempts of the second are made, then the turn ends:  *)
(* with a final reply, at the cap, or on a failed request.  No partial     *)
(* round can be observed.                                                  *)
(***************************************************************************)
EXTENDS Messages

CONSTANTS MaxIterations, MaxAttempts, MaxBatch

VARIABLES
  talk,        \* the transcript, in whole rounds
  callRounds,  \* rounds with tool calls so far
  rejections,  \* replies the verify command has rejected
  state        \* "running", "finished", "limit" or "error"

cvars == <<talk, callRounds, rejections, state>>

IdSeqs == UNION {[1..n -> CallIds] : n \in 1..MaxBatch}

CInit ==
  /\ talk = <<SystemMsg, UserMsg>>
  /\ callRounds = 0
  /\ rejections = 0
  /\ state = "running"

Running == state = "running" /\ callRounds < MaxIterations

\* A reply with the calls ids, each answered by a success or an error.
CallRound(ids, errs) ==
  /\ Running
  /\ talk' = talk \o <<AssistantMsg(ids)>>
                  \o [k \in 1..Len(ids) |-> ToolMsg(ids[k], errs[k])]
  /\ callRounds' = callRounds + 1
  /\ UNCHANGED <<rejections, state>>

RejectedRound ==
  /\ Running
  /\ rejections < MaxAttempts
  /\ talk' = talk \o <<AssistantMsg(<<>>), UserMsg>>
  /\ rejections' = rejections + 1
  /\ UNCHANGED <<callRounds, state>>

FinalReply ==
  /\ Running
  /\ talk' = Append(talk, AssistantMsg(<<>>))
  /\ state' = "finished"
  /\ UNCHANGED <<callRounds, rejections>>

Fail ==
  /\ Running
  /\ state' = "error"
  /\ UNCHANGED <<talk, callRounds, rejections>>

HitLimit ==
  /\ state = "running"
  /\ callRounds = MaxIterations
  /\ state' = "limit"
  /\ UNCHANGED <<talk, callRounds, rejections>>

CNext ==
  \/ \E ids \in IdSeqs : \E errs \in [1..Len(ids) -> BOOLEAN] : CallRound(ids, errs)
  \/ RejectedRound
  \/ FinalReply
  \/ Fail
  \/ HitLimit

CSpec == CInit /\ [][CNext]_cvars
=============================================================================
