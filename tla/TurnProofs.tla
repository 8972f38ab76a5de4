----------------------------- MODULE TurnProofs -----------------------------
(***************************************************************************)
(* A turn: the loop that keeps its transcript replayable and its finish    *)
(* verified (AgentTurn), each request of it with its retries (Retry), what *)
(* the model is told before it answers (Prompt), and how the bytes of its  *)
(* answer become text and calls (SseStream).                               *)
(***************************************************************************)
EXTENDS AgentTurn, Retry, Prompt, SseStream, BasicLemmas, SequenceTheorems, FiniteSetTheorems

-----------------------------------------------------------------------------
(* The loop *)

\* The ids of a sequence of calls.
LEMMA IdsOfType ==
  ASSUME NEW calls \in Seq(Call)
  PROVE  IdsOf(calls) \in Seq(CallIds) /\ Len(IdsOf(calls)) = Len(calls)
<1>1. PICK n \in Nat : n = Len(calls)
  OBVIOUS
<1>2. \A k \in 1..n : calls[k].id \in CallIds
  <2>1. \A k \in 1..n : calls[k] \in Call
    BY <1>1
  <2> QED
    BY <2>1 DEF Call
<1>3. IdsOf(calls) = [k \in 1..n |-> calls[k].id]
  BY <1>1 DEF IdsOf
<1>4. IdsOf(calls) \in [1..n -> CallIds]
  BY <1>2, <1>3
<1> QED
  BY <1>1, <1>4

\* A reply is a sequence of calls, and the ids it puts in the transcript a
\* sequence of ids of the same length.
LEMMA BatchIsSeq ==
  ASSUME NEW calls \in Batches
  PROVE  /\ calls \in Seq(Call)
         /\ IdsOf(calls) \in Seq(CallIds)
         /\ Len(IdsOf(calls)) = Len(calls)
<1>1. PICK n \in 1..MaxBatch : calls \in [1..n -> Call]
  BY DEF Batches
<1>2. n \in Nat /\ Len(calls) = n
  BY <1>1, TurnAssumption
<1>3. \A k \in 1..n : calls[k].id \in CallIds
  BY <1>1 DEF Call
<1> QED
  BY <1>1, <1>2, <1>3 DEF IdsOf

\* The messages the loop pushes are messages.
LEMMA MessageTypes ==
  /\ SystemMsg \in Message /\ UserMsg \in Message
  /\ AssistantMsg(<<>>) \in Message
  /\ \A ids \in Seq(CallIds) : AssistantMsg(ids) \in Message
  /\ \A i \in CallIds, e \in BOOLEAN : ToolMsg(i, e) \in Message
BY DEF Message, Roles, SystemMsg, UserMsg, AssistantMsg, ToolMsg

-----------------------------------------------------------------------------
(* Types and the verification gate *)

\* What links the counters to the place the loop is at.
GateInv ==
  /\ pc \in {"dispatch", "verify"} => iteration < MaxIterations
  /\ pc = "verify" => verifyAttempts < MaxAttempts
  /\ pc = "ended" <=> result # "none"
  /\ lastVerify = "passed" => pc = "ended"
  /\ verifyAttempts > 0 => lastVerify # "none"

TurnInv == TypeOK /\ GateInv /\ VerifiedCompletion /\ VerdictIsFresh

LEMMA InitTurnInv == Init => TurnInv
<1> SUFFICES ASSUME Init PROVE TurnInv
  OBVIOUS
<1>1. session \in Seq(Message)
  BY MessageTypes DEF Init
<1>2. touchedFs \in BOOLEAN /\ unverified \in BOOLEAN
  BY DEF Init, FreshTurn
<1>3. TypeOK
  BY <1>1, <1>2, TurnAssumption DEF Init, FreshTurn, TypeOK
<1>4. GateInv /\ VerifiedCompletion /\ VerdictIsFresh
  BY DEF Init, FreshTurn, GateInv, VerifiedCompletion, VerdictIsFresh
<1> QED
  BY <1>3, <1>4 DEF TurnInv

\* Types first, then the counters, then the two verdict invariants.
LEMMA StepTypeOK == TurnInv /\ [Next]_vars => TypeOK'
<1> SUFFICES ASSUME TypeOK, GateInv, [Next]_vars PROVE TypeOK'
  BY DEF TurnInv
<1> USE TurnAssumption
<1>1. CASE StopAtLimit
  BY <1>1 DEF StopAtLimit, TypeOK
<1>2. CASE RequestFails
  BY <1>2 DEF RequestFails, CanRequest, TypeOK
<1>3. ASSUME NEW calls \in Batches, NEW u \in Tokens, ReplyWithCalls(calls, u)
      PROVE  TypeOK'
  <2>1. session' \in Seq(Message)
    BY <1>3, BatchIsSeq, MessageTypes DEF ReplyWithCalls, TypeOK
  <2>2. batch' \in Seq(Call) /\ answered' \in 0..Len(batch')
    BY <1>3, BatchIsSeq DEF ReplyWithCalls
  <2> QED
    BY <1>3, <2>1, <2>2 DEF ReplyWithCalls, CanRequest, TypeOK
<1>4. ASSUME NEW u \in Tokens, ReplyToVerify(u) PROVE TypeOK'
  <2>1. session' \in Seq(Message)
    BY <1>4, MessageTypes DEF ReplyToVerify, TypeOK
  <2> QED
    BY <1>4, <2>1 DEF ReplyToVerify, TypeOK
<1>5. ASSUME NEW u \in Tokens, ReplyFinishes(u) PROVE TypeOK'
  <2>1. session' \in Seq(Message)
    BY <1>5, MessageTypes DEF ReplyFinishes, TypeOK
  <2> QED
    BY <1>5, <2>1 DEF ReplyFinishes, TypeOK
<1>6. CASE VerifyPasses
  <2>1. unverified' \in BOOLEAN
    BY <1>6 DEF VerifyPasses
  <2> QED
    BY <1>6, <2>1 DEF VerifyPasses, TypeOK, GateInv
<1>7. CASE VerifyFails
  <2>1. session' \in Seq(Message)
    BY <1>7, MessageTypes DEF VerifyFails, TypeOK
  <2> QED
    BY <1>7, <2>1 DEF VerifyFails, TypeOK, GateInv
<1>8. ASSUME NEW outcome \in Outcomes, Dispatch(outcome) PROVE TypeOK'
  <2>1. batch[answered + 1] \in Call
    BY <1>8 DEF Dispatch, TypeOK
  <2>2. ToolMsg(batch[answered + 1].id, outcome # "ok") \in Message
    BY <2>1, MessageTypes DEF Call
  <2>3. session' \in Seq(Message)
    BY <1>8, <2>2 DEF Dispatch, TypeOK
  <2>4. failures' \in Nat
    BY <1>8 DEF Dispatch, RecordTool, TypeOK
  <2>5. touchedFs' \in BOOLEAN
    BY <1>8 DEF Dispatch, RecordTool
  <2>6. unverified' \in BOOLEAN
    BY <1>8, Zenon DEF Dispatch, FileEffect, TypeOK
  <2>7. answered' \in 0..Len(batch)
    BY <1>8 DEF Dispatch, TypeOK
  <2> QED
    BY <1>8, <2>3, <2>4, <2>5, <2>6, <2>7 DEF Dispatch, TypeOK
<1>9. CASE BatchDone
  BY <1>9 DEF BatchDone, TypeOK, GateInv
<1>10. CASE UNCHANGED vars
  BY <1>10 DEF vars, turnVars, TypeOK
<1> QED
  BY <1>1, <1>2, <1>3, <1>4, <1>5, <1>6, <1>7, <1>8, <1>9, <1>10
     DEF Next, TurnStep, Returned

LEMMA StepGateInv == TurnInv /\ [Next]_vars => GateInv'
<1> SUFFICES ASSUME TypeOK, GateInv, [Next]_vars PROVE GateInv'
  BY DEF TurnInv
<1> USE DEF GateInv
<1>1. CASE StopAtLimit
  BY <1>1 DEF StopAtLimit
<1>2. CASE RequestFails
  BY <1>2 DEF RequestFails
<1>3. ASSUME NEW calls \in Batches, NEW u \in Tokens, ReplyWithCalls(calls, u)
      PROVE  GateInv'
  BY <1>3 DEF ReplyWithCalls, CanRequest
<1>4. ASSUME NEW u \in Tokens, ReplyToVerify(u) PROVE GateInv'
  BY <1>4 DEF ReplyToVerify, CanRequest, GateFires
<1>5. ASSUME NEW u \in Tokens, ReplyFinishes(u) PROVE GateInv'
  BY <1>5 DEF ReplyFinishes
<1>6. CASE VerifyPasses
  BY <1>6 DEF VerifyPasses
<1>7. CASE VerifyFails
  BY <1>7 DEF VerifyFails
<1>8. ASSUME NEW outcome \in Outcomes, Dispatch(outcome) PROVE GateInv'
  BY <1>8 DEF Dispatch
<1>9. CASE BatchDone
  BY <1>9 DEF BatchDone
<1>10. CASE UNCHANGED vars
  BY <1>10 DEF vars, turnVars
<1> QED
  BY <1>1, <1>2, <1>3, <1>4, <1>5, <1>6, <1>7, <1>8, <1>9, <1>10
     DEF Next, TurnStep, Returned

\* The only ways to finish are a passing verdict and a reply for which the
\* gate does not fire; the second leaves no attempt unused.
LEMMA StepVerdicts ==
  TurnInv /\ [Next]_vars => VerifiedCompletion' /\ VerdictIsFresh'
<1> SUFFICES ASSUME TypeOK, GateInv, VerifiedCompletion, VerdictIsFresh, [Next]_vars
             PROVE  VerifiedCompletion' /\ VerdictIsFresh'
  BY DEF TurnInv
<1>1. CASE result' # "finished"
  <2>1. lastVerify' # "passed"
    BY <1>1 DEF Next, TurnStep, Returned, vars, turnVars, StopAtLimit, RequestFails,
         ReplyWithCalls, CanRequest, ReplyToVerify, ReplyFinishes, VerifyPasses,
         VerifyFails, Dispatch, BatchDone, GateInv, VerdictIsFresh
  <2> QED
    BY <1>1, <2>1 DEF VerifiedCompletion, VerdictIsFresh
<1>2. CASE VerifyPasses
  BY <1>2 DEF VerifyPasses, VerifiedCompletion, VerdictIsFresh
<1>3. ASSUME NEW u \in Tokens, ReplyFinishes(u)
      PROVE  VerifiedCompletion' /\ VerdictIsFresh'
  <2>1. lastVerify' # "passed"
    BY <1>3 DEF ReplyFinishes, CanRequest, GateInv
  <2>2. ASSUME VerifyOn, touchedFs' PROVE lastVerify' = "failed" /\ verifyAttempts' = MaxAttempts
    <3>1. touchedFs
      BY <1>3, <2>2 DEF ReplyFinishes
    <3>2. ~(verifyAttempts < MaxAttempts)
      BY <1>3, <2>2, <3>1 DEF ReplyFinishes, GateFires
    <3>3. verifyAttempts = MaxAttempts /\ verifyAttempts > 0
      BY <3>2, TurnAssumption DEF TypeOK
    <3> QED
      BY <1>3, <2>1, <3>3 DEF ReplyFinishes, GateInv, TypeOK
  <2> QED
    BY <2>1, <2>2 DEF VerifiedCompletion, VerdictIsFresh
<1>4. CASE UNCHANGED vars
  BY <1>4 DEF vars, turnVars, VerifiedCompletion, VerdictIsFresh
<1>5. ASSUME NEW outcome \in Outcomes, Dispatch(outcome) PROVE result' # "finished"
  BY <1>5 DEF Dispatch, GateInv
<1>6. ASSUME StopAtLimit \/ RequestFails \/ VerifyFails \/ BatchDone
      PROVE  result' # "finished"
  BY <1>6 DEF StopAtLimit, RequestFails, VerifyFails, BatchDone, CanRequest, GateInv
<1>7. ASSUME NEW calls \in Batches, NEW u \in Tokens, ReplyWithCalls(calls, u)
      PROVE  result' # "finished"
  BY <1>7 DEF ReplyWithCalls, CanRequest, GateInv
<1>8. ASSUME NEW u \in Tokens, ReplyToVerify(u) PROVE result' # "finished"
  BY <1>8 DEF ReplyToVerify, CanRequest, GateInv
<1> QED
  BY <1>1, <1>2, <1>3, <1>4, <1>5, <1>6, <1>7, <1>8 DEF Next, TurnStep, Returned

LEMMA StepTurnInv == TurnInv /\ [Next]_vars => TurnInv'
BY StepTypeOK, StepGateInv, StepVerdicts DEF TurnInv

LEMMA TurnInvHolds == Spec => []TurnInv
BY InitTurnInv, StepTurnInv, PTL DEF Spec

\* Every variable of the turn keeps its type; the counters stay within the
\* caps that with_max_iterations and max_attempts set.
THEOREM TypeCorrect == Spec => []TypeOK
BY TurnInvHolds, PTL DEF TurnInv

\* A turn that ends as finished with touched_fs set went through the gate.
THEOREM CompletionIsVerified == Spec => []VerifiedCompletion
BY TurnInvHolds, PTL DEF TurnInv

\* A passing verdict ends the turn, with no file changed after it.
THEOREM VerdictStaysFresh == Spec => []VerdictIsFresh
BY TurnInvHolds, PTL DEF TurnInv

-----------------------------------------------------------------------------
(* The transcript *)

\* Appending a message leaves the first n messages as answered as they were.
LEMMA AppendKeepsPrefix ==
  ASSUME NEW s \in Seq(Message), NEW m \in Message, NEW n \in 0..Len(s)
  PROVE  /\ AnsweredUpTo(s, n) => AnsweredUpTo(Append(s, m), n)
         /\ NoOrphanUpTo(s, n) => NoOrphanUpTo(Append(s, m), n)
<1>1. \A i \in 1..n : Append(s, m)[i] = s[i]
  OBVIOUS
<1>2. ASSUME AnsweredUpTo(s, n) PROVE AnsweredUpTo(Append(s, m), n)
  <2> SUFFICES ASSUME NEW i \in 1..n, NEW k \in 1..Len(Append(s, m)[i].calls)
               PROVE  /\ i + k <= n
                      /\ Append(s, m)[i + k].role = "tool"
                      /\ Append(s, m)[i + k].id = Append(s, m)[i].calls[k]
    BY DEF AnsweredUpTo
  <2>1. i + k <= n /\ s[i + k].role = "tool" /\ s[i + k].id = s[i].calls[k]
    BY <1>1, <1>2 DEF AnsweredUpTo
  <2>2. k \in Nat /\ k >= 1
    BY <1>1 DEF Message
  <2>3. i + k \in 1..n
    BY <2>1, <2>2
  <2> QED
    BY <1>1, <2>1, <2>3
<1>3. ASSUME NoOrphanUpTo(s, n) PROVE NoOrphanUpTo(Append(s, m), n)
  BY <1>1, <1>3 DEF NoOrphanUpTo
<1> QED
  BY <1>2, <1>3

\* A message that neither calls nor answers keeps a transcript well formed.
LEMMA PlainMessageKeepsWellFormed ==
  ASSUME NEW s \in Seq(Message), NEW m \in Message,
         WellFormed(s), m.calls = <<>>, m.role # "tool"
  PROVE  WellFormed(Append(s, m))
<1>1. AnsweredUpTo(Append(s, m), Len(s)) /\ NoOrphanUpTo(Append(s, m), Len(s))
  BY AppendKeepsPrefix DEF WellFormed
<1>2. Len(Append(s, m)) = Len(s) + 1 /\ Append(s, m)[Len(s) + 1] = m
  OBVIOUS
<1>3. AnsweredUpTo(Append(s, m), Len(s) + 1)
  BY <1>1, <1>2 DEF AnsweredUpTo
<1>4. NoOrphanUpTo(Append(s, m), Len(s) + 1)
  BY <1>1, <1>2 DEF NoOrphanUpTo
<1> QED
  BY <1>2, <1>3, <1>4 DEF WellFormed

\* A round under way: the transcript up to its reply is well formed, and the
\* messages after the reply answer its first calls in order.
OpenRound(s, ids, done) ==
  LET a == Len(s) - done
  IN  /\ a \in 1..Len(s)
      /\ s[a].role = "assistant"
      /\ s[a].calls = ids
      /\ AnsweredUpTo(s, a - 1)
      /\ NoOrphanUpTo(s, a - 1)
      /\ \A k \in 1..done : /\ s[a + k].role = "tool"
                            /\ s[a + k].calls = <<>>
                            /\ s[a + k].id = ids[k]

TranscriptInv ==
  /\ pc # "dispatch" => WellFormed(session)
  /\ pc = "dispatch" => OpenRound(session, IdsOf(batch), answered)

LEMMA ReplyOpensRound ==
  ASSUME NEW s \in Seq(Message), NEW ids \in Seq(CallIds), WellFormed(s)
  PROVE  OpenRound(Append(s, AssistantMsg(ids)), ids, 0)
<1> DEFINE t == Append(s, AssistantMsg(ids))
<1>1. AssistantMsg(ids) \in Message
  BY MessageTypes
<1>2. AnsweredUpTo(t, Len(s)) /\ NoOrphanUpTo(t, Len(s))
  BY <1>1, AppendKeepsPrefix DEF WellFormed
<1>3. Len(t) = Len(s) + 1 /\ t[Len(s) + 1] = AssistantMsg(ids)
  BY <1>1
<1>4. t[Len(s) + 1].role = "assistant" /\ t[Len(s) + 1].calls = ids
  BY <1>3 DEF AssistantMsg
<1>5. Len(t) - 0 = Len(s) + 1 /\ (Len(s) + 1) - 1 = Len(s) /\ Len(s) + 1 \in 1..Len(t)
  BY <1>3
<1>6. OpenRound(t, ids, 0)
  <2> HIDE DEF t
  <2> QED
    BY <1>2, <1>4, <1>5 DEF OpenRound
<1> QED
  BY <1>6

LEMMA AnswerExtendsRound ==
  ASSUME NEW s \in Seq(Message), NEW ids \in Seq(CallIds), NEW done \in Nat,
         NEW m \in Message, done < Len(ids), OpenRound(s, ids, done),
         m.role = "tool", m.calls = <<>>, m.id = ids[done + 1]
  PROVE  OpenRound(Append(s, m), ids, done + 1)
<1> DEFINE t == Append(s, m)
           a == Len(s) - done
<1>1. Len(t) = Len(s) + 1 /\ t[Len(s) + 1] = m /\ \A i \in 1..Len(s) : t[i] = s[i]
  OBVIOUS
<1>2. a \in 1..Len(s) /\ Len(t) - (done + 1) = a
  BY <1>1 DEF OpenRound
<1>3. t[a].role = "assistant" /\ t[a].calls = ids
  BY <1>1, <1>2 DEF OpenRound
<1>4. AnsweredUpTo(t, a - 1) /\ NoOrphanUpTo(t, a - 1)
  BY <1>2, AppendKeepsPrefix DEF OpenRound
<1>5. ASSUME NEW k \in 1..(done + 1)
      PROVE  t[a + k].role = "tool" /\ t[a + k].calls = <<>> /\ t[a + k].id = ids[k]
  <2>1. CASE k = done + 1
    <3>1. a + k = Len(s) + 1
      BY <2>1
    <3> QED
      BY <1>1, <2>1, <3>1
  <2>2. CASE k # done + 1
    <3>0. k \in 1..done
      BY <2>2
    <3>1. a + k \in 1..Len(s)
      BY <1>2, <3>0
    <3> QED
      BY <1>1, <3>0, <3>1 DEF OpenRound
  <2> QED
    BY <2>1, <2>2
<1>6. OpenRound(t, ids, done + 1)
  <2>1. a \in 1..Len(t)
    BY <1>1, <1>2
  <2> HIDE DEF t, a
  <2> QED
    BY <1>2, <1>3, <1>4, <1>5, <2>1 DEF OpenRound
<1> QED
  BY <1>6

LEMMA FullRoundIsWellFormed ==
  ASSUME NEW s \in Seq(Message), NEW ids \in Seq(CallIds),
         OpenRound(s, ids, Len(ids))
  PROVE  WellFormed(s)
<1> DEFINE done == Len(ids)
           a == Len(s) - done
<1>1. a \in 1..Len(s) /\ a \in Nat /\ done \in Nat /\ a + done = Len(s)
  BY DEF OpenRound
<1>2. ASSUME NEW i \in 1..Len(s), NEW k \in 1..Len(s[i].calls)
      PROVE  i + k <= Len(s) /\ s[i + k].role = "tool" /\ s[i + k].id = s[i].calls[k]
  <2>1. CASE i < a
    <3>1. i \in 1..(a - 1)
      BY <1>1, <2>1
    <3>2. i + k <= a - 1 /\ s[i + k].role = "tool" /\ s[i + k].id = s[i].calls[k]
      BY <3>1 DEF OpenRound, AnsweredUpTo
    <3>3. Len(s[i].calls) \in Nat
      BY DEF Message
    <3> QED
      BY <1>1, <3>2, <3>3
  <2>2. CASE i = a
    BY <1>1, <2>2 DEF OpenRound
  <2>3. CASE i > a
    <3>1. i - a \in 1..done /\ a + (i - a) = i
      BY <1>1, <2>3
    <3>2. s[i].calls = <<>>
      BY <3>1 DEF OpenRound
    <3> QED
      BY <3>2
  <2> QED
    BY <1>1, <2>1, <2>2, <2>3
<1>3. ASSUME NEW i \in 1..Len(s), s[i].role = "tool"
      PROVE  \E k \in 1..(i - 1) : k <= Len(s[i - k].calls)
  <2>1. CASE i < a
    <3>1. i \in 1..(a - 1)
      BY <1>1, <2>1
    <3> QED
      BY <1>3, <3>1 DEF OpenRound, NoOrphanUpTo
  <2>2. CASE i = a
    BY <1>3, <2>2 DEF OpenRound
  <2>3. CASE i > a
    <3>1. i - a \in 1..(i - 1) /\ i - (i - a) = a /\ i - a <= done
      BY <1>1, <2>3
    <3>2. s[a].calls = ids
      BY DEF OpenRound
    <3>3. i - a <= Len(s[i - (i - a)].calls)
      BY <3>1, <3>2
    <3> QED
      BY <3>1, <3>3
  <2>4. i < a \/ i = a \/ i > a
    <3>1. i \in Nat /\ a \in Nat
      BY <1>1
    <3> HIDE DEF a
    <3> QED
      BY <3>1
  <2> QED
    BY <2>1, <2>2, <2>3, <2>4
<1> QED
  BY <1>2, <1>3 DEF WellFormed, AnsweredUpTo, NoOrphanUpTo

LEMMA InitTranscriptInv == Init => TranscriptInv
<1> SUFFICES ASSUME Init PROVE TranscriptInv
  OBVIOUS
<1>1. pc = "request" /\ session = <<SystemMsg, UserMsg>>
  BY DEF Init, FreshTurn
<1>2. Len(session) = 2 /\ session[1] = SystemMsg /\ session[2] = UserMsg
  BY <1>1
<1>3. \A i \in 1..2 : session[i].calls = <<>> /\ session[i].role # "tool"
  BY <1>2 DEF SystemMsg, UserMsg
<1>4. WellFormed(session)
  BY <1>2, <1>3 DEF WellFormed, AnsweredUpTo, NoOrphanUpTo
<1> QED
  BY <1>1, <1>4 DEF TranscriptInv

LEMMA StepTranscriptInv == TurnInv /\ TranscriptInv /\ [Next]_vars => TranscriptInv'
<1> SUFFICES ASSUME TypeOK, TranscriptInv, [Next]_vars PROVE TranscriptInv'
  BY DEF TurnInv
<1> USE DEF TranscriptInv
<1>0. session \in Seq(Message)
  BY DEF TypeOK
<1>1. CASE StopAtLimit \/ RequestFails \/ VerifyPasses
  BY <1>1 DEF StopAtLimit, RequestFails, CanRequest, VerifyPasses
<1>2. ASSUME NEW calls \in Batches, NEW u \in Tokens, ReplyWithCalls(calls, u)
      PROVE  TranscriptInv'
  <2>1. OpenRound(Append(session, AssistantMsg(IdsOf(calls))), IdsOf(calls), 0)
    BY <1>0, <1>2, BatchIsSeq, ReplyOpensRound DEF ReplyWithCalls, CanRequest
  <2> QED
    BY <1>2, <2>1 DEF ReplyWithCalls
<1>3. ASSUME NEW u \in Tokens, ReplyToVerify(u) \/ ReplyFinishes(u)
      PROVE  TranscriptInv'
  <2>1. AssistantMsg(<<>>) \in Message /\ AssistantMsg(<<>>).calls = <<>>
        /\ AssistantMsg(<<>>).role # "tool"
    BY MessageTypes DEF AssistantMsg
  <2>2. WellFormed(Append(session, AssistantMsg(<<>>)))
    BY <1>0, <1>3, <2>1, PlainMessageKeepsWellFormed
       DEF ReplyToVerify, ReplyFinishes, CanRequest
  <2> QED
    BY <1>3, <2>2 DEF ReplyToVerify, ReplyFinishes
<1>4. CASE VerifyFails
  <2>1. UserMsg \in Message /\ UserMsg.calls = <<>> /\ UserMsg.role # "tool"
    BY MessageTypes DEF UserMsg
  <2>2. WellFormed(Append(session, UserMsg))
    BY <1>0, <1>4, <2>1, PlainMessageKeepsWellFormed DEF VerifyFails
  <2> QED
    BY <1>4, <2>2 DEF VerifyFails
<1>5. ASSUME NEW outcome \in Outcomes, Dispatch(outcome) PROVE TranscriptInv'
  <2> DEFINE m == ToolMsg(batch[answered + 1].id, outcome # "ok")
  <2>1. /\ batch \in Seq(Call) /\ answered \in Nat /\ answered < Len(batch)
        /\ batch[answered + 1] \in Call
    BY <1>5 DEF Dispatch, TypeOK
  <2>2. IdsOf(batch) \in Seq(CallIds) /\ Len(IdsOf(batch)) = Len(batch)
    BY <2>1, IdsOfType
  <2>3. m \in Message
    BY <2>1, MessageTypes DEF Call
  <2>4. m.role = "tool" /\ m.calls = <<>> /\ m.id = IdsOf(batch)[answered + 1]
    BY <2>1 DEF ToolMsg, IdsOf
  <2>5. OpenRound(session, IdsOf(batch), answered)
    BY <1>5 DEF Dispatch
  <2> HIDE DEF m
  <2>6. OpenRound(Append(session, m), IdsOf(batch), answered + 1)
    BY <1>0, <2>1, <2>2, <2>3, <2>4, <2>5, AnswerExtendsRound
  <2>7. session' = Append(session, m) /\ batch' = batch /\ answered' = answered + 1
        /\ pc' = "dispatch"
    BY <1>5 DEF Dispatch, m
  <2> QED
    BY <2>6, <2>7
<1>6. CASE BatchDone
  <2>1. IdsOf(batch) \in Seq(CallIds) /\ Len(IdsOf(batch)) = answered
    BY <1>6, IdsOfType DEF TypeOK, BatchDone
  <2>2. WellFormed(session)
    BY <1>0, <1>6, <2>1, FullRoundIsWellFormed DEF BatchDone
  <2> QED
    BY <1>6, <2>2 DEF BatchDone
<1>7. CASE UNCHANGED vars
  BY <1>7 DEF vars, turnVars
<1> QED
  BY <1>1, <1>2, <1>3, <1>4, <1>5, <1>6, <1>7 DEF Next, TurnStep, Returned

\* No request carries an unanswered or orphaned tool result, and the caller
\* gets none back, however the turn ends.
THEOREM TranscriptReplayable == Spec => []Replayable
<1>1. Init => TurnInv /\ TranscriptInv
  BY InitTurnInv, InitTranscriptInv
<1>2. TurnInv /\ TranscriptInv /\ [Next]_vars => (TurnInv /\ TranscriptInv)'
  BY StepTurnInv, StepTranscriptInv
<1>3. TurnInv /\ TranscriptInv => Replayable
  BY DEF TranscriptInv, Replayable
<1> QED
  BY <1>1, <1>2, <1>3, PTL DEF Spec

-----------------------------------------------------------------------------
(* Append-only history *)

\* Within a turn no message is changed, dropped or moved: each request's
\* transcript extends the previous one.
THEOREM HistoryIsAppendOnly == Spec => AppendOnly
<1> DEFINE Grows == /\ Len(session') >= Len(session)
                    /\ \A i \in 1..Len(session) : session'[i] = session[i]
<1>1. TurnInv /\ [Next]_vars => [Grows]_vars
  <2> SUFFICES ASSUME TypeOK, Next PROVE Grows
    BY DEF TurnInv
  <2>1. CASE session' = session
    BY <2>1 DEF TypeOK
  <2>2. ASSUME NEW m, session' = Append(session, m) PROVE Grows
    BY <2>2 DEF TypeOK
  <2>3. session' = session \/ \E m : session' = Append(session, m)
    BY DEF Next, TurnStep, Returned, vars, StopAtLimit, RequestFails, ReplyWithCalls,
       ReplyToVerify, ReplyFinishes, VerifyPasses, VerifyFails, Dispatch, BatchDone
  <2> QED
    BY <2>1, <2>2, <2>3
<1> QED
  BY <1>1, TurnInvHolds, PTL DEF Spec, AppendOnly

-----------------------------------------------------------------------------
(* The failure count *)

\* The unbroken run of error results at the end of a transcript.
Streak(s) == {i \in DOMAIN s : /\ s[i].role = "tool"
                               /\ \A j \in DOMAIN s : s[j].role = "tool" /\ j >= i => s[j].err}

LEMMA StreakFinite == \A s \in Seq(Message) : IsFiniteSet(Streak(s)) /\ Cardinality(Streak(s)) \in Nat
<1> SUFFICES ASSUME NEW s \in Seq(Message) PROVE IsFiniteSet(Streak(s)) /\ Cardinality(Streak(s)) \in Nat
  OBVIOUS
<1>1. PICK n \in Nat : DOMAIN s = 1..n
  OBVIOUS
<1>2. IsFiniteSet(1..n)
  BY FS_Interval
<1>3. Streak(s) \subseteq 1..n
  BY <1>1 DEF Streak
<1> QED
  BY <1>2, <1>3, FS_Subset, FS_CardinalityType

\* A message that is no tool result leaves it, an error extends it, a success
\* ends it.
LEMMA StreakOfAppend ==
  ASSUME NEW s \in Seq(Message), NEW m \in Message
  PROVE  /\ m.role # "tool" => Streak(Append(s, m)) = Streak(s)
         /\ m.role = "tool" /\ m.err => Streak(Append(s, m)) = Streak(s) \cup {Len(s) + 1}
         /\ m.role = "tool" /\ ~m.err => Streak(Append(s, m)) = {}
<1> DEFINE t == Append(s, m)
<1>1. PICK n \in Nat : n = Len(s) /\ DOMAIN s = 1..n
  OBVIOUS
<1>2. /\ DOMAIN t = 1..(n + 1) /\ t[n + 1] = m
      /\ \A i \in 1..n : t[i] = s[i]
  BY <1>1
<1> HIDE DEF t
<1>3. \A i : i \in DOMAIN t <=> i \in DOMAIN s \/ i = n + 1
  BY <1>1, <1>2
<1>4. \A i \in DOMAIN s : i \in Int /\ i < n + 1 /\ t[i] = s[i]
  BY <1>1, <1>2
<1>5. ASSUME m.role # "tool" PROVE Streak(t) = Streak(s)
  BY <1>2, <1>3, <1>4, <1>5 DEF Streak
<1>6. ASSUME m.role = "tool", m.err PROVE Streak(t) = Streak(s) \cup {n + 1}
  <2>1. \A i : i \in Streak(t) <=> i \in Streak(s) \/ i = n + 1
    BY <1>1, <1>2, <1>3, <1>4, <1>6 DEF Streak
  <2> QED
    BY <2>1
<1>7. ASSUME m.role = "tool", ~m.err PROVE Streak(t) = {}
  <2>1. \A i \in DOMAIN t : n + 1 >= i
    BY <1>2
  <2> QED
    BY <1>2, <1>3, <1>7, <2>1 DEF Streak
<1> QED
  BY <1>1, <1>5, <1>6, <1>7 DEF t

FailuresCounted == failures = Cardinality(Streak(session))

LEMMA StepStreak == TurnInv /\ FailuresCounted /\ [Next]_vars => FailuresCounted'
<1> SUFFICES ASSUME TypeOK, failures = Cardinality(Streak(session)), [Next]_vars
             PROVE  failures' = Cardinality(Streak(session'))
  BY DEF TurnInv, FailuresCounted
<1>0. session \in Seq(Message)
  BY DEF TypeOK
<1>1. ASSUME NEW m \in Message, m.role # "tool", session' = Append(session, m), failures' = failures
      PROVE  failures' = Cardinality(Streak(session'))
  BY <1>0, <1>1, StreakOfAppend
<1>2. SystemMsg.role # "tool" /\ UserMsg.role # "tool" /\ \A ids : AssistantMsg(ids).role # "tool"
  BY DEF SystemMsg, UserMsg, AssistantMsg
<1>3. CASE UNCHANGED <<session, failures>>
  BY <1>3
<1>4. ASSUME NEW calls \in Batches, NEW u \in Tokens, ReplyWithCalls(calls, u)
      PROVE  failures' = Cardinality(Streak(session'))
  <2>1. AssistantMsg(IdsOf(calls)) \in Message
    BY BatchIsSeq, MessageTypes
  <2>2. session' = Append(session, AssistantMsg(IdsOf(calls))) /\ failures' = failures
    BY <1>4 DEF ReplyWithCalls
  <2> QED
    BY <1>1, <1>2, <2>1, <2>2
<1>5. ASSUME NEW u \in Tokens, ReplyToVerify(u) \/ ReplyFinishes(u)
      PROVE  failures' = Cardinality(Streak(session'))
  <2>1. session' = Append(session, AssistantMsg(<<>>)) /\ failures' = failures
    BY <1>5 DEF ReplyToVerify, ReplyFinishes
  <2> QED
    BY <1>1, <1>2, <2>1, MessageTypes
<1>6. CASE VerifyFails
  <2>1. session' = Append(session, UserMsg) /\ failures' = failures
    BY <1>6 DEF VerifyFails
  <2> QED
    BY <1>1, <1>2, <2>1, MessageTypes
<1>7. ASSUME NEW outcome \in Outcomes, Dispatch(outcome)
      PROVE  failures' = Cardinality(Streak(session'))
  <2>0. batch[answered + 1] \in Call
    BY <1>7 DEF Dispatch, TypeOK
  <2>1. PICK id \in CallIds : id = batch[answered + 1].id
    BY <2>0 DEF Call
  <2>2. PICK e \in BOOLEAN : e = (outcome # "ok")
    OBVIOUS
  <2>3. session' = Append(session, ToolMsg(id, e)) /\ failures' = IF e THEN failures + 1 ELSE 0
    BY <1>7, <2>1, <2>2 DEF Dispatch, RecordTool
  <2>4. ToolMsg(id, e) \in Message /\ ToolMsg(id, e).role = "tool" /\ ToolMsg(id, e).err = e
    BY MessageTypes DEF ToolMsg
  <2>5. CASE e
    <3>1. Streak(session') = Streak(session) \cup {Len(session) + 1}
      BY <1>0, <2>3, <2>4, <2>5, StreakOfAppend
    <3>2. Len(session) + 1 \notin Streak(session)
      BY <1>0 DEF Streak
    <3>3. Cardinality(Streak(session) \cup {Len(session) + 1}) = Cardinality(Streak(session)) + 1
      BY <1>0, <3>2, StreakFinite, FS_AddElement
    <3> QED
      BY <2>3, <2>5, <3>1, <3>3
  <2>6. CASE ~e
    <3>1. Streak(session') = {}
      BY <1>0, <2>3, <2>4, <2>6, StreakOfAppend
    <3> QED
      BY <2>3, <2>6, <3>1, FS_EmptySet
  <2> QED
    BY <2>2, <2>5, <2>6
<1> QED
  BY <1>3, <1>4, <1>5, <1>6, <1>7
     DEF Next, TurnStep, Returned, vars, turnVars, StopAtLimit, RequestFails, VerifyPasses, BatchDone

\* consecutive_tool_failures is the length of the run of error results the
\* transcript ends in, for every length of the turn.
THEOREM FailuresAreCounted == Spec => []FailureStreak
<1>1. Init => FailuresCounted
  <2> SUFFICES ASSUME Init PROVE failures = Cardinality(Streak(session))
    BY DEF FailuresCounted
  <2>1. session = <<SystemMsg, UserMsg>> /\ failures = 0
    BY DEF Init, FreshTurn
  <2>2. \A i \in DOMAIN session : session[i].role # "tool"
    BY <2>1 DEF SystemMsg, UserMsg
  <2>3. Streak(session) = {}
    BY <2>2 DEF Streak
  <2> QED
    BY <2>1, <2>3, FS_EmptySet
<1>2. FailuresCounted => FailureStreak
  <2>1. Streak(session) = {i \in ToolResults : \A j \in ToolResults : j >= i => session[j].err}
    BY DEF Streak, ToolResults
  <2> QED
    BY <2>1 DEF FailuresCounted, FailureStreak
<1> QED
  BY <1>1, <1>2, InitTurnInv, StepTurnInv, StepStreak, PTL DEF Spec

-----------------------------------------------------------------------------
(* The refinement: every step of the loop is a whole round of the contract, *)
(* or invisible to it.                                                      *)

\* The exact messages of the round under way, which WholeRounds cuts off.
RoundShape ==
  /\ pc = "verify" => /\ Len(session) >= 1
                      /\ session[Len(session)] = AssistantMsg(<<>>)
  /\ pc = "dispatch" =>
       LET a == Len(session) - answered
       IN  /\ a \in 1..Len(session)
           /\ batch \in Batches
           /\ session[a] = AssistantMsg(IdsOf(batch))
           /\ \A k \in 1..answered :
                 \E e \in BOOLEAN : session[a + k] = ToolMsg(IdsOf(batch)[k], e)

LEMMA InitRoundShape == Init => RoundShape
BY DEF Init, FreshTurn, RoundShape

LEMMA StepRoundShape == TurnInv /\ RoundShape /\ [Next]_vars => RoundShape'
<1> SUFFICES ASSUME TypeOK, RoundShape, [Next]_vars PROVE RoundShape'
  BY DEF TurnInv
<1>0. session \in Seq(Message)
  BY DEF TypeOK
<1>1. CASE pc' \in {"request", "ended"}
  BY <1>1 DEF RoundShape
<1>2. ASSUME NEW calls \in Batches, NEW u \in Tokens, ReplyWithCalls(calls, u)
      PROVE  RoundShape'
  <2>1. /\ session' = Append(session, AssistantMsg(IdsOf(calls)))
        /\ batch' = calls /\ answered' = 0 /\ pc' = "dispatch"
    BY <1>2 DEF ReplyWithCalls
  <2>2. /\ Len(session') = Len(session) + 1 /\ Len(session) \in Nat
        /\ session'[Len(session) + 1] = AssistantMsg(IdsOf(calls))
    BY <1>0, <2>1
  <2> QED
    BY <2>1, <2>2 DEF RoundShape
<1>3. ASSUME NEW u \in Tokens, ReplyToVerify(u) PROVE RoundShape'
  <2>1. session' = Append(session, AssistantMsg(<<>>)) /\ pc' = "verify"
    BY <1>3 DEF ReplyToVerify
  <2>2. /\ Len(session') = Len(session) + 1 /\ Len(session) \in Nat
        /\ session'[Len(session) + 1] = AssistantMsg(<<>>)
    BY <1>0, <2>1
  <2> QED
    BY <2>1, <2>2 DEF RoundShape
<1>4. ASSUME NEW outcome \in Outcomes, Dispatch(outcome) PROVE RoundShape'
  <2> DEFINE a == Len(session) - answered
             m == ToolMsg(batch[answered + 1].id, outcome # "ok")
  <2>1. /\ pc = "dispatch" /\ pc' = "dispatch" /\ batch' = batch
        /\ answered' = answered + 1 /\ session' = Append(session, m)
        /\ answered < Len(batch) /\ answered \in Nat
    BY <1>4 DEF Dispatch, TypeOK
  <2>2. /\ Len(session') = Len(session) + 1 /\ Len(session) \in Nat
        /\ session'[Len(session) + 1] = m
        /\ \A i \in 1..Len(session) : session'[i] = session[i]
    BY <1>0, <2>1
  <2>3. /\ a \in 1..Len(session) /\ batch \in Batches
        /\ session[a] = AssistantMsg(IdsOf(batch))
        /\ \A k \in 1..answered :
              \E e \in BOOLEAN : session[a + k] = ToolMsg(IdsOf(batch)[k], e)
    BY <2>1 DEF RoundShape
  <2>4. m = ToolMsg(IdsOf(batch)[answered + 1], outcome # "ok")
    BY <2>1, <2>3, BatchIsSeq DEF IdsOf
  <2>5. Len(session') - answered' = a /\ a \in 1..Len(session')
    BY <2>1, <2>2, <2>3
  <2> HIDE DEF m
  <2>6. ASSUME NEW k \in 1..(answered + 1)
        PROVE  \E e \in BOOLEAN : session'[a + k] = ToolMsg(IdsOf(batch)[k], e)
    <3>1. CASE k = answered + 1
      <4>1. a + k = Len(session) + 1
        BY <2>1, <2>2, <3>1
      <4> QED
        BY <2>2, <2>4, <3>1, <4>1
    <3>2. CASE k \in 1..answered
      <4>1. a + k \in 1..Len(session)
        BY <2>1, <2>2, <2>3, <3>2
      <4> QED
        BY <2>2, <2>3, <3>2, <4>1
    <3>3. k = answered + 1 \/ k \in 1..answered
      BY <2>1
    <3> QED
      BY <3>1, <3>2, <3>3
  <2>7. session'[a] = AssistantMsg(IdsOf(batch))
    BY <2>2, <2>3
  <2> HIDE DEF a
  <2> QED
    BY <2>1, <2>3, <2>5, <2>6, <2>7 DEF RoundShape
<1>5. CASE UNCHANGED vars
  BY <1>5 DEF vars, turnVars, RoundShape
<1> QED
  BY <1>1, <1>2, <1>3, <1>4, <1>5
     DEF Next, TurnStep, Returned, StopAtLimit, RequestFails, ReplyFinishes,
         VerifyPasses, VerifyFails, BatchDone

\* Cutting a transcript before index a and putting the rest back.
LEMMA CutAndPaste ==
  ASSUME NEW s \in Seq(Message), NEW a \in 1..Len(s), NEW t \in Seq(Message),
         Len(t) = Len(s) - a, \A k \in 1..Len(t) : t[k] = s[a + k]
  PROVE  s = SubSeq(s, 1, a - 1) \o <<s[a]>> \o t
<1> DEFINE p == SubSeq(s, 1, a - 1)
<1>1. a \in Nat /\ a - 1 \in Int /\ Len(s) \in Nat /\ Len(t) \in Nat
  BY LenProperties
<1>2. \A i \in 1..(a - 1) : s[i] \in Message
  BY <1>1
<1>3. p \in Seq(Message) /\ Len(p) = a - 1 /\ \A i \in 1..(a - 1) : p[i] = s[i]
  <2>1. /\ p \in Seq(Message)
        /\ Len(p) = IF 1 <= a - 1 THEN (a - 1) - 1 + 1 ELSE 0
        /\ \A i \in 1..((a - 1) - 1 + 1) : p[i] = s[1 + i - 1]
    BY <1>1, <1>2, SubSeqProperties
  <2>2. \A i \in 1..(a - 1) : 1 + i - 1 = i
    BY <1>1
  <2>3. (a - 1) - 1 + 1 = a - 1
    BY <1>1
  <2> HIDE DEF p
  <2> QED
    BY <1>1, <2>1, <2>2, <2>3
<1> HIDE DEF p
<1> DEFINE one == <<s[a]>>
<1>4. one \in Seq(Message) /\ Len(one) = 1 /\ one[1] = s[a]
  BY ElementOfSeq
<1> HIDE DEF one
<1> DEFINE q == p \o one
<1>5. /\ q \in Seq(Message) /\ Len(q) = a
      /\ \A i \in 1..a : q[i] = s[i]
  <2>1. /\ q \in Seq(Message) /\ Len(q) = (a - 1) + 1
        /\ \A i \in 1..((a - 1) + 1) : q[i] = IF i <= a - 1 THEN p[i] ELSE one[i - (a - 1)]
    <3>1. /\ q \in Seq(Message) /\ Len(q) = Len(p) + Len(one)
          /\ \A i \in 1..(Len(p) + Len(one)) : q[i] = IF i <= Len(p) THEN p[i] ELSE one[i - Len(p)]
      BY <1>3, <1>4, ConcatProperties
    <3> HIDE DEF q
    <3> QED
      BY <1>3, <1>4, <3>1
  <2>2. (a - 1) + 1 = a
    BY <1>1
  <2>3. ASSUME NEW i \in 1..a PROVE q[i] = s[i]
    <3> HIDE DEF q
    <3>1. CASE i = a
      <4>1. i - (a - 1) = 1 /\ ~(i <= a - 1) /\ i \in 1..((a - 1) + 1)
        BY <1>1, <3>1
      <4>2. q[i] = one[i - (a - 1)]
        BY <2>1, <4>1
      <4> QED
        BY <1>4, <3>1, <4>1, <4>2
    <3>2. CASE i <= a - 1
      BY <1>1, <1>3, <2>1, <2>2, <3>2
    <3>3. i = a \/ i <= a - 1
      BY <1>1
    <3> QED
      BY <3>1, <3>2, <3>3
  <2> HIDE DEF q
  <2> QED
    BY <2>1, <2>2, <2>3
<1> HIDE DEF q
<1>6. /\ q \o t \in Seq(Message) /\ Len(q \o t) = a + Len(t)
      /\ \A i \in 1..(a + Len(t)) : (q \o t)[i] = IF i <= a THEN q[i] ELSE t[i - a]
  BY <1>5, ConcatProperties
<1>7. Len(q \o t) = Len(s)
  BY <1>1, <1>6
<1>8. \A i \in 1..Len(s) : (q \o t)[i] = s[i]
  <2> SUFFICES ASSUME NEW i \in 1..Len(s) PROVE (q \o t)[i] = s[i]
    OBVIOUS
  <2>1. CASE i <= a
    BY <1>1, <1>5, <1>6, <2>1
  <2>2. CASE i > a
    <3>1. i - a \in 1..Len(t) /\ a + (i - a) = i
      BY <1>1, <2>2
    <3>2. i \in 1..(a + Len(t)) /\ ~(i <= a)
      BY <1>1, <2>2
    <3>3. (q \o t)[i] = t[i - a]
      BY <1>6, <3>2
    <3>4. t[i - a] = s[a + (i - a)]
      BY <3>1
    <3> QED
      BY <3>1, <3>3, <3>4
  <2>3. i <= a \/ i > a
    BY <1>1
  <2> QED
    BY <2>1, <2>2, <2>3
<1>9. s = q \o t
  BY <1>6, <1>7, <1>8, SeqEqual
<1> QED
  BY <1>9 DEF q, p, one

\* Appending to a transcript does not change what is cut before its old end.
LEMMA CutOfAppend ==
  ASSUME NEW s \in Seq(Message), NEW m \in Message, NEW n \in 0..Len(s)
  PROVE  /\ SubSeq(Append(s, m), 1, n) = SubSeq(s, 1, n)
         /\ SubSeq(s, 1, Len(s)) = s
<1>1. n \in Int /\ \A i \in 1..n : s[i] \in Message /\ Append(s, m)[i] = s[i]
  OBVIOUS
<1>2. /\ SubSeq(s, 1, n) \in Seq(Message)
      /\ Len(SubSeq(s, 1, n)) = IF 1 <= n THEN n - 1 + 1 ELSE 0
      /\ \A i \in 1..(n - 1 + 1) : SubSeq(s, 1, n)[i] = s[1 + i - 1]
  BY <1>1, SubSeqProperties
<1>3. /\ SubSeq(Append(s, m), 1, n) \in Seq(Message)
      /\ Len(SubSeq(Append(s, m), 1, n)) = IF 1 <= n THEN n - 1 + 1 ELSE 0
      /\ \A i \in 1..(n - 1 + 1) : SubSeq(Append(s, m), 1, n)[i] = Append(s, m)[1 + i - 1]
  <2>1. \A i \in 1..n : Append(s, m)[i] \in Message
    BY <1>1
  <2> QED
    BY <1>1, <2>1, SubSeqProperties
<1>4. n - 1 + 1 = n /\ \A i \in 1..n : 1 + i - 1 = i
  BY <1>1
<1>5. \A i \in 1..Len(SubSeq(Append(s, m), 1, n)) :
         SubSeq(Append(s, m), 1, n)[i] = SubSeq(s, 1, n)[i]
  BY <1>1, <1>2, <1>3, <1>4
<1>6. SubSeq(Append(s, m), 1, n) = SubSeq(s, 1, n)
  BY <1>2, <1>3, <1>5, SeqEqual
<1> QED
  BY <1>6, SubSeqFull

RefInv == TurnInv /\ RoundShape

LEMMA RefInvHolds == Spec => []RefInv
<1>1. Init => RefInv
  BY InitTurnInv, InitRoundShape DEF RefInv
<1>2. RefInv /\ [Next]_vars => RefInv'
  BY StepTurnInv, StepRoundShape DEF RefInv
<1> QED
  BY <1>1, <1>2, PTL DEF Spec

LEMMA InitRefines == Init => Contract!CInit
BY DEF Init, FreshTurn, WholeRounds, Contract!CInit, SystemMsg, UserMsg,
       Contract!SystemMsg, Contract!UserMsg

LEMMA StepRefines == RefInv /\ [Next]_vars => [Contract!CNext]_(Contract!cvars)
<1> SUFFICES ASSUME TypeOK, GateInv, RoundShape, Next
             PROVE  Contract!CNext \/ UNCHANGED Contract!cvars
  <2>1. ASSUME UNCHANGED vars PROVE UNCHANGED Contract!cvars
    BY <2>1 DEF vars, turnVars, Contract!cvars, WholeRounds
  <2> QED
    BY <2>1 DEF RefInv, TurnInv
<1>0. session \in Seq(Message) /\ Len(session) \in Nat
  BY DEF TypeOK
<1>1. CASE StopAtLimit
  <2>1. WholeRounds = session /\ WholeRounds' = session
    BY <1>1 DEF StopAtLimit, WholeRounds
  <2>2. iteration = MaxIterations
    BY <1>1, TurnAssumption DEF StopAtLimit, TypeOK
  <2>3. Contract!HitLimit
    BY <1>1, <2>1, <2>2 DEF StopAtLimit, Contract!HitLimit
  <2> QED
    BY <2>3 DEF Contract!CNext
<1>2. CASE RequestFails
  <2>1. WholeRounds = session /\ WholeRounds' = session
    BY <1>2 DEF RequestFails, CanRequest, WholeRounds
  <2>2. Contract!Fail
    BY <1>2, <2>1 DEF RequestFails, CanRequest, Contract!Fail, Contract!Running
  <2> QED
    BY <2>2 DEF Contract!CNext
<1>3. ASSUME NEW calls \in Batches, NEW u \in Tokens, ReplyWithCalls(calls, u)
      PROVE  UNCHANGED Contract!cvars
  <2> DEFINE m == AssistantMsg(IdsOf(calls))
  <2>1. /\ pc = "request" /\ pc' = "dispatch" /\ answered' = 0
        /\ session' = Append(session, m)
    BY <1>3 DEF ReplyWithCalls, CanRequest
  <2>2. m \in Message
    BY <1>3, BatchIsSeq, MessageTypes
  <2>3. Len(session') - answered' - 1 = Len(session)
    BY <1>0, <2>1, <2>2
  <2>4. SubSeq(session', 1, Len(session)) = session
    BY <1>0, <2>1, <2>2, CutOfAppend
  <2>5. WholeRounds = session /\ WholeRounds' = session
    BY <2>1, <2>3, <2>4 DEF WholeRounds
  <2> QED
    BY <1>3, <2>1, <2>5 DEF ReplyWithCalls, Contract!cvars
<1>4. ASSUME NEW u \in Tokens, ReplyToVerify(u) PROVE UNCHANGED Contract!cvars
  <2>1. /\ pc = "request" /\ pc' = "verify"
        /\ session' = Append(session, AssistantMsg(<<>>))
    BY <1>4 DEF ReplyToVerify, CanRequest
  <2>2. AssistantMsg(<<>>) \in Message
    BY MessageTypes
  <2>3. Len(session') - 1 = Len(session)
    BY <1>0, <2>1, <2>2
  <2>4. SubSeq(session', 1, Len(session)) = session
    BY <1>0, <2>1, <2>2, CutOfAppend
  <2>5. WholeRounds = session /\ WholeRounds' = session
    BY <2>1, <2>3, <2>4 DEF WholeRounds
  <2> QED
    BY <1>4, <2>1, <2>5 DEF ReplyToVerify, Contract!cvars
<1>5. ASSUME NEW u \in Tokens, ReplyFinishes(u) PROVE Contract!FinalReply
  <2>1. WholeRounds = session /\ WholeRounds' = Append(session, AssistantMsg(<<>>))
    BY <1>5 DEF ReplyFinishes, CanRequest, WholeRounds
  <2> QED
    BY <1>5, <2>1 DEF ReplyFinishes, CanRequest, Contract!FinalReply,
       Contract!Running, AssistantMsg, Contract!AssistantMsg
\* A verdict closes the round whose reply WholeRounds left out.
<1>6. pc = "verify" =>
        /\ WholeRounds = SubSeq(session, 1, Len(session) - 1)
        /\ session = WholeRounds \o <<AssistantMsg(<<>>)>>
        /\ WholeRounds \in Seq(Message)
  <2> SUFFICES ASSUME pc = "verify"
               PROVE  /\ WholeRounds = SubSeq(session, 1, Len(session) - 1)
                      /\ session = WholeRounds \o <<AssistantMsg(<<>>)>>
                      /\ WholeRounds \in Seq(Message)
    OBVIOUS
  <2>1. WholeRounds = SubSeq(session, 1, Len(session) - 1)
    BY DEF WholeRounds
  <2>2. Len(session) >= 1 /\ session[Len(session)] = AssistantMsg(<<>>)
    BY DEF RoundShape
  <2>3. SubSeq(session, 1, Len(session)) =
          SubSeq(session, 1, Len(session) - 1) \o <<session[Len(session)]>>
    <3>1. 1 \in 1..Len(session) /\ Len(session) \in 1..Len(session)
      BY <1>0, <2>2
    <3> QED
      BY <1>0, <3>1, SubSeqRecursiveSecond
  <2>4. SubSeq(session, 1, Len(session)) = session
    BY <1>0, SubSeqFull
  <2>5. SubSeq(session, 1, Len(session) - 1) \in Seq(Message)
    <3>1. \A i \in 1..(Len(session) - 1) : session[i] \in Message
      BY <1>0
    <3> QED
      BY <1>0, <3>1, SubSeqProperties
  <2> QED
    BY <2>1, <2>2, <2>3, <2>4, <2>5
<1>7. CASE VerifyPasses
  <2>1. pc = "verify" /\ pc' = "ended" /\ session' = session
    BY <1>7 DEF VerifyPasses
  <2>2. WholeRounds' = session
    BY <2>1 DEF WholeRounds
  <2>3. WholeRounds' = Append(WholeRounds, AssistantMsg(<<>>))
    BY <1>6, <2>1, <2>2, MessageTypes
  <2>4. lastVerify # "passed" /\ lastVerify' = "passed"
        /\ verifyAttempts' - 1 = verifyAttempts
    BY <1>7, <2>1 DEF VerifyPasses, GateInv, TypeOK
  <2>5. iteration < MaxIterations /\ iteration' = iteration /\ result' = "finished"
    BY <1>7, <2>1 DEF VerifyPasses, GateInv
  <2>6. Contract!FinalReply
    BY <2>1, <2>3, <2>4, <2>5 DEF Contract!FinalReply, Contract!Running,
       AssistantMsg, Contract!AssistantMsg
  <2> QED
    BY <2>6 DEF Contract!CNext
<1>8. CASE VerifyFails
  <2>1. pc = "verify" /\ pc' = "request" /\ session' = Append(session, UserMsg)
    BY <1>8 DEF VerifyFails
  <2>2. WholeRounds' = session \o <<UserMsg>>
    BY <1>0, <2>1, MessageTypes DEF WholeRounds
  <2>3. WholeRounds' = WholeRounds \o <<AssistantMsg(<<>>), UserMsg>>
    BY <1>6, <2>1, <2>2, MessageTypes
  <2>4. /\ lastVerify # "passed" /\ lastVerify' = "failed"
        /\ verifyAttempts' = verifyAttempts + 1 /\ verifyAttempts < MaxAttempts
    BY <1>8, <2>1 DEF VerifyFails, GateInv
  <2>5. iteration < MaxIterations /\ iteration' = iteration
    BY <1>8, <2>1 DEF VerifyFails, GateInv
  <2>6. Contract!RejectedRound
    BY <2>1, <2>3, <2>4, <2>5 DEF Contract!RejectedRound, Contract!Running,
       AssistantMsg, Contract!AssistantMsg, UserMsg, Contract!UserMsg
  <2> QED
    BY <2>6 DEF Contract!CNext
<1>9. ASSUME NEW outcome \in Outcomes, Dispatch(outcome)
      PROVE  UNCHANGED Contract!cvars
  <2> DEFINE m == ToolMsg(batch[answered + 1].id, outcome # "ok")
             a == Len(session) - answered
  <2>1. /\ pc = "dispatch" /\ pc' = "dispatch" /\ answered' = answered + 1
        /\ session' = Append(session, m) /\ answered \in Nat
        /\ batch[answered + 1] \in Call
    BY <1>9 DEF Dispatch, TypeOK
  <2>2. m \in Message
    BY <2>1, MessageTypes DEF Call
  <2>3. a \in 1..Len(session)
    BY <2>1 DEF RoundShape
  <2> HIDE DEF m
  <2>4. Len(session') - answered' - 1 = a - 1 /\ a - 1 \in 0..Len(session)
        /\ Len(session) - answered - 1 = a - 1
    BY <1>0, <2>1, <2>2, <2>3
  <2>5. SubSeq(session', 1, a - 1) = SubSeq(session, 1, a - 1)
    BY <1>0, <2>1, <2>2, <2>4, CutOfAppend
  <2>6. WholeRounds' = WholeRounds
    BY <2>1, <2>4, <2>5 DEF WholeRounds
  <2> QED
    BY <1>9, <2>1, <2>6 DEF Dispatch, Contract!cvars
<1>10. CASE BatchDone
  <2> DEFINE a == Len(session) - answered
             ids == IdsOf(batch)
             errs == [k \in 1..answered |-> CHOOSE e \in BOOLEAN :
                                              session[a + k] = ToolMsg(ids[k], e)]
             answers == [k \in 1..Len(ids) |-> ToolMsg(ids[k], errs[k])]
  <2>1. /\ pc = "dispatch" /\ pc' = "request" /\ session' = session
        /\ iteration' = iteration + 1 /\ answered = Len(batch)
    BY <1>10 DEF BatchDone
  <2>2. /\ a \in 1..Len(session) /\ batch \in Batches
        /\ session[a] = AssistantMsg(ids)
        /\ \A k \in 1..answered :
              \E e \in BOOLEAN : session[a + k] = ToolMsg(ids[k], e)
    BY <2>1 DEF RoundShape
  <2>3. ids \in Seq(CallIds) /\ Len(ids) = answered /\ answered \in Nat
    BY <2>1, <2>2, BatchIsSeq DEF TypeOK
  <2>4. ids \in Contract!IdSeqs
    <3>1. PICK n \in 1..MaxBatch : batch \in [1..n -> Call]
      BY <2>2 DEF Batches
    <3>2. n \in Nat /\ Len(batch) = n
      BY <3>1, TurnAssumption
    <3>3. \A k \in 1..n : batch[k].id \in CallIds
      BY <3>1 DEF Call
    <3>4. ids \in [1..n -> CallIds]
      BY <3>2, <3>3 DEF IdsOf
    <3> QED
      BY <3>1, <3>4 DEF Contract!IdSeqs
  <2> HIDE DEF ids
  <2>5. errs \in [1..Len(ids) -> BOOLEAN]
    BY <2>2, <2>3
  <2>6. \A k \in 1..answered : session[a + k] = ToolMsg(ids[k], errs[k])
    BY <2>2
  <2> HIDE DEF errs
  <2>7. /\ Len(answers) = answered
        /\ \A k \in 1..answered : answers[k] = session[a + k]
    BY <2>3, <2>6
  <2>8. answers \in Seq(Message)
    <3>1. \A k \in 1..answered : ToolMsg(ids[k], errs[k]) \in Message
      BY <2>3, <2>5, MessageTypes
    <3> QED
      BY <2>3, <3>1
  <2> HIDE DEF answers
  <2>9. session = SubSeq(session, 1, a - 1) \o <<session[a]>> \o answers
    <3>1. Len(answers) = Len(session) - a
      BY <1>0, <2>3, <2>7
    <3> QED
      BY <1>0, <2>2, <2>7, <2>8, <3>1, CutAndPaste
  <2>10. WholeRounds = SubSeq(session, 1, a - 1) /\ WholeRounds' = session
    BY <2>1 DEF WholeRounds
  <2>11. WholeRounds' = WholeRounds \o <<AssistantMsg(ids)>> \o answers
    BY <2>2, <2>9, <2>10
  <2>12. answers = [k \in 1..Len(ids) |-> Contract!ToolMsg(ids[k], errs[k])]
    BY DEF answers, ToolMsg, Contract!ToolMsg
  <2>13. AssistantMsg(ids) = Contract!AssistantMsg(ids)
    BY DEF AssistantMsg, Contract!AssistantMsg
  <2>14. iteration < MaxIterations
    BY <2>1 DEF GateInv
  <2>15. Contract!CallRound(ids, errs)
    BY <1>10, <2>1, <2>11, <2>12, <2>13, <2>14
       DEF BatchDone, Contract!CallRound, Contract!Running
  <2> QED
    BY <2>4, <2>5, <2>15 DEF Contract!CNext
<1>11. CASE Returned
  BY <1>11 DEF Returned, vars, turnVars, Contract!cvars, WholeRounds
<1> QED
  BY <1>1, <1>2, <1>3, <1>4, <1>5, <1>7, <1>8, <1>9, <1>10, <1>11
     DEF Next, TurnStep, Contract!CNext

\* run_turn keeps the contract: the caller, and the provider at each request,
\* see a transcript made of whole rounds, within the caps.
THEOREM TurnImplementsContract == Spec => ImplementsContract
BY InitRefines, StepRefines, RefInvHolds, PTL
   DEF Spec, ImplementsContract, Contract!CSpec

-----------------------------------------------------------------------------
(* Retry *)

(* What an attempt may cost, and what the number of attempts allows.       *)
Cost == 2 * RequestTimeout
Paid(n) == n * (Cost + MaxDelay)

RetryStarted == phase \in {"streaming", "done", "broken"}

(* While the request is before its stream nothing was yielded, afterwards  *)
(* only the last attempt yields; the attempt in flight has not been paid   *)
(* for yet.                                                                *)
RetrySettled ==
    /\ ~RetryStarted => yielded = {}
    /\ \A e \in yielded : e[1] = attempt
    /\ reached <= attempt + (IF phase = "sending" THEN 0 ELSE 1)
    /\ phase = "sleeping" => attempt < MaxRetries
    /\ phase = "sending" => elapsed <= Paid(attempt)
    /\ elapsed <= Paid(attempt) + Cost

RetryInv == RetryTypeOK /\ RetrySettled

(* The smaller of two numbers is one of them and below both.               *)
LEMMA LeastIsBelow ==
    ASSUME NEW a \in Nat, NEW b \in Nat
    PROVE  Least(a, b) \in Nat /\ Least(a, b) <= a /\ Least(a, b) <= b
    BY DEF Least

(* No sleep is longer than MaxDelay.                                       *)
LEMMA DelaysAreCapped ==
    ASSUME PolicyAssumption, hint \in RetryAfters \cup {NoHint}, NEW d \in Delays
    PROVE  d \in Nat /\ d <= MaxDelay
    <1>1. CASE hint = NoHint
        BY <1>1 DEF Delays, JitteredDelays, PolicyAssumption
    <1>2. CASE hint # NoHint
        <2>1. hint \in Nat
            BY <1>2 DEF PolicyAssumption
        <2>2. d = Least(hint, MaxDelay)
            BY <1>2 DEF Delays
        <2>3. QED
            BY <2>1, <2>2, LeastIsBelow DEF PolicyAssumption
    <1>3. QED
        BY <1>1, <1>2
(* MaxRetries is a number, at most the clamp.                              *)
LEMMA MaxRetriesType ==
    ASSUME PolicyAssumption
    PROVE  MaxRetries \in Nat /\ MaxRetries <= RetryClamp
    BY LeastIsBelow DEF MaxRetries, PolicyAssumption

(* The numbers of the policy, one by one.                                  *)
LEMMA Numbers ==
    /\ Cost \in Nat /\ MaxDelay \in Nat /\ RequestTimeout \in Nat
    /\ MaxRetries \in Nat /\ RetryClamp \in Nat /\ MaxRetries <= RetryClamp
    <1>1. RequestTimeout \in Nat /\ MaxDelay \in Nat /\ RetryClamp \in Nat
        BY PolicyAssumption DEF PolicyAssumption
    <1>2. QED
        BY <1>1, PolicyAssumption, MaxRetriesType DEF Cost

(* The invariant holds initially.                                          *)
LEMMA RetryStarts == RetryInit => RetryInv
    <1> SUFFICES ASSUME RetryInit PROVE RetryInv
        OBVIOUS
    <1>1. RetryTypeOK
        BY Numbers DEF RetryInit, RetryTypeOK
    <1>2. Paid(0) = 0
        BY Numbers DEF Paid
    <1>3. RetrySettled
        BY <1>2, Numbers DEF RetryInit, RetrySettled, RetryStarted
    <1>4. QED
        BY <1>1, <1>3 DEF RetryInv

(* One more attempt and one more sleep cost at most Cost + MaxDelay.       *)
LEMMA OneMoreRound ==
    ASSUME NEW n \in Nat
    PROVE  Paid(n) \in Nat /\ Paid(n + 1) = Paid(n) + Cost + MaxDelay
    BY Numbers DEF Paid

(* A retryable failure after d units keeps the invariant.                  *)
LEMMA FailRetryableKeeps ==
    ASSUME NEW d \in Nat, NEW h
    PROVE  /\ RetryInv /\ phase = "sending" /\ d <= Cost
           /\ h \in RetryAfters \cup {NoHint}
           /\ FailRetryable(d, h)
           /\ reached' = reached \/ reached' = reached + 1
           => RetryInv'
    <1>0. SUFFICES ASSUME RetryInv, phase = "sending", d <= Cost,
                          h \in RetryAfters \cup {NoHint},
                          FailRetryable(d, h),
                          reached' = reached \/ reached' = reached + 1
                   PROVE  RetryInv'
        OBVIOUS
    <1>1. attempt \in Nat /\ attempt <= MaxRetries /\ elapsed \in Nat /\ reached \in Nat
        BY <1>0, Numbers DEF RetryInv, RetryTypeOK
    <1>2. elapsed <= Paid(attempt) /\ reached <= attempt /\ yielded = {}
        BY <1>0, <1>1 DEF RetryInv, RetrySettled, RetryStarted
    <1>3. elapsed' = elapsed + d /\ attempt' = attempt
        BY <1>0 DEF FailRetryable
    <1>4. hint' = h /\ yielded' = yielded
        BY <1>0 DEF FailRetryable
    <1>5. phase' = "gave up" \/ (phase' = "sleeping" /\ ~(attempt >= MaxRetries))
        BY <1>0 DEF FailRetryable
    <1>6. elapsed' \in Nat /\ elapsed' <= Paid(attempt') + Cost
        BY <1>0, <1>1, <1>2, <1>3, Numbers, OneMoreRound
    <1>7. reached' \in Nat /\ reached' <= attempt' + 1
        BY <1>0, <1>1, <1>2, <1>3
    <1>8. RetryTypeOK'
        <2>1. attempt' \in 0 .. MaxRetries
            BY <1>1, <1>3, Numbers
        <2>2. hint' \in RetryAfters \cup {NoHint} /\ yielded' = {}
            BY <1>0, <1>2, <1>4
        <2>3. phase' \in {"sending", "sleeping", "streaming"} \cup Ended
            BY <1>5 DEF Ended
        <2>4. QED
            BY <1>6, <1>7, <2>1, <2>2, <2>3 DEF RetryTypeOK, Ended
    <1>9. phase' = "sleeping" => attempt' < MaxRetries
        BY <1>1, <1>3, <1>5, Numbers
    <1>10. RetrySettled'
        BY <1>2, <1>4, <1>5, <1>6, <1>7, <1>9 DEF RetrySettled, RetryStarted
    <1>11. QED
        BY <1>8, <1>10 DEF RetryInv

(* Every step keeps the invariant.                                         *)
LEMMA RetryKeeps == RetryInv /\ [RetryNext]_retryVars => RetryInv'
    <1> SUFFICES ASSUME RetryInv, [RetryNext]_retryVars PROVE RetryInv'
        OBVIOUS
    <1>0. /\ attempt \in Nat /\ elapsed \in Nat /\ reached \in Nat
          /\ Paid(attempt) \in Nat
        BY Numbers, OneMoreRound DEF RetryInv, RetryTypeOK
    <1>1. CASE TransportFails
        <2>1. PICK d \in 0 .. RequestTimeout : FailRetryable(d, NoHint)
            BY <1>1 DEF TransportFails
        <2>2. d \in Nat /\ d <= Cost
            BY Numbers DEF Cost
        <2>3. phase = "sending" /\ (reached' = reached \/ reached' = reached + 1)
            BY <1>0, <1>1 DEF TransportFails
        <2>4. QED
            BY <2>1, <2>2, <2>3, FailRetryableKeeps
    <1>2. CASE StatusRetryable
        <2>1. PICK d \in 0 .. 2 * RequestTimeout, h \in RetryAfters \cup {NoHint} : FailRetryable(d, h)
            BY <1>2 DEF StatusRetryable
        <2>2. d \in Nat /\ d <= Cost
            BY Numbers DEF Cost
        <2>3. phase = "sending" /\ (reached' = reached \/ reached' = reached + 1)
            BY <1>2 DEF StatusRetryable
        <2>4. QED
            BY <2>1, <2>2, <2>3, FailRetryableKeeps
    <1>3. CASE FailFatal \/ Headers
        <2>1. /\ phase = "sending" /\ phase' \in {"fatal", "streaming"}
              /\ UNCHANGED <<attempt, hint, yielded>>
              /\ (reached' = reached \/ reached' = reached + 1)
            BY <1>0, <1>3 DEF FailFatal, Headers
        <2>2. PICK d \in Nat : d <= Cost /\ elapsed' = elapsed + d
            <3>1. CASE FailFatal
                BY <3>1, Numbers DEF FailFatal, Cost
            <3>2. CASE Headers
                BY <3>2, Numbers DEF Headers, Cost
            <3>3. QED
                BY <1>3, <3>1, <3>2
        <2>3. elapsed <= Paid(attempt) /\ reached <= attempt /\ yielded = {}
            <3>1. phase = "sending"
                BY <2>1
            <3>2. QED
                BY <1>0, <3>1 DEF RetryInv, RetrySettled, RetryStarted
        <2>4. elapsed' \in Nat /\ elapsed' <= Paid(attempt') + Cost
            BY <1>0, <2>1, <2>2, <2>3, Numbers
        <2>5. reached' \in Nat /\ reached' <= attempt' + 1
            BY <1>0, <2>1, <2>3
        <2>6. RetryTypeOK'
            BY <2>1, <2>4, <2>5 DEF RetryInv, RetryTypeOK, Ended
        <2>7. RetrySettled'
            BY <2>1, <2>3, <2>4, <2>5 DEF RetrySettled, RetryStarted
        <2>8. QED
            BY <2>6, <2>7 DEF RetryInv
    <1>4. CASE Wake
        <2>1. /\ phase = "sleeping" /\ phase' = "sending" /\ attempt' = attempt + 1
              /\ UNCHANGED <<hint, reached, yielded>>
            BY <1>4 DEF Wake
        <2>2. PICK d \in Delays : elapsed' = elapsed + d
            BY <1>4 DEF Wake
        <2>3. d \in Nat /\ d <= MaxDelay
            BY <2>2, DelaysAreCapped, PolicyAssumption DEF RetryInv, RetryTypeOK
        <2>4. /\ attempt < MaxRetries /\ reached <= attempt + 1 /\ yielded = {}
              /\ elapsed <= Paid(attempt) + Cost
            BY <2>1 DEF RetryInv, RetrySettled, RetryStarted
        <2>5. elapsed' <= Paid(attempt')
            BY <1>0, <2>1, <2>2, <2>3, <2>4, Numbers, OneMoreRound
        <2>6. Paid(attempt') \in Nat
            BY <1>0, <2>1, Numbers, OneMoreRound
        <2>7. elapsed' <= Paid(attempt') + Cost
            BY <1>0, <2>2, <2>3, <2>5, <2>6, Numbers
        <2>8. RetryTypeOK'
            <3>1. attempt' \in 0 .. MaxRetries /\ elapsed' \in Nat
                BY <1>0, <2>1, <2>2, <2>3, <2>4, Numbers
            <3>2. QED
                BY <2>1, <3>1 DEF RetryInv, RetryTypeOK
        <2>9. RetrySettled'
            BY <1>0, <2>1, <2>4, <2>5, <2>7 DEF RetrySettled, RetryStarted
        <2>10. QED
            BY <2>8, <2>9 DEF RetryInv
    <1>5. CASE Yield
        <2>1. PICK i \in 1 .. MaxEvents : yielded' = yielded \cup {<<attempt, i>>}
            BY <1>5 DEF Yield
        <2>2. phase = "streaming" /\ UNCHANGED <<phase, attempt, hint, elapsed, reached>>
            BY <1>5 DEF Yield
        <2>3. RetryTypeOK'
            BY <2>1, <2>2 DEF RetryInv, RetryTypeOK
        <2>4. \A e \in yielded' : e[1] = attempt'
            BY <2>1, <2>2 DEF RetryInv, RetrySettled
        <2>5. RetrySettled'
            BY <2>2, <2>4 DEF RetryInv, RetrySettled, RetryStarted
        <2>6. QED
            BY <2>3, <2>5 DEF RetryInv
    <1>6. CASE StreamEnds \/ StreamBreaks
        <2>1. /\ phase = "streaming" /\ phase' \in {"done", "broken"}
              /\ UNCHANGED <<attempt, hint, elapsed, reached, yielded>>
            BY <1>6 DEF StreamEnds, StreamBreaks
        <2>2. RetryTypeOK'
            BY <2>1 DEF RetryInv, RetryTypeOK, Ended
        <2>3. RetrySettled'
            BY <2>1 DEF RetryInv, RetrySettled, RetryStarted
        <2>4. QED
            BY <2>2, <2>3 DEF RetryInv
    <1>7. CASE UNCHANGED retryVars
        BY <1>7 DEF RetryInv, RetryTypeOK, RetrySettled, RetryStarted, Ended, retryVars
    <1>8. QED
        BY <1>1, <1>2, <1>3, <1>4, <1>5, <1>6, <1>7 DEF RetryNext

(* The invariant of every behaviour.                                       *)
LEMMA RetryHolds == RetrySpec => []RetryInv
    <1>1. QED
        BY RetryStarts, RetryKeeps, PTL DEF RetrySpec

(* The state of a request is well-typed for every policy, however many     *)
(* retries config.toml asks for (RetryPolicy::from_config).                *)
THEOREM RetryTypeCorrect == RetrySpec => []RetryTypeOK
    <1>1. RetryInv => RetryTypeOK
        BY DEF RetryInv
    <1>2. QED
        BY <1>1, RetryHolds, PTL

(* The provider is reached at most once more than the clamp allows         *)
(* retries (with_retry).                                                   *)
THEOREM RequestsAreBounded == RetrySpec => []RequestBound
    <1>1. RetryInv => RequestBound
        <2> SUFFICES ASSUME RetryInv PROVE RequestBound
            OBVIOUS
        <2>1. attempt \in Nat /\ attempt <= RetryClamp /\ reached \in Nat /\ reached <= attempt + 1
            BY Numbers DEF RetryInv, RetryTypeOK, RetrySettled
        <2>2. QED
            BY <2>1, Numbers DEF RequestBound
    <1>2. QED
        BY <1>1, RetryHolds, PTL

(* Nobody waits longer than the policy allows for the stream to start,     *)
(* whatever Retry-After says (with_retry).                                 *)
THEOREM WaitIsBounded == RetrySpec => []WaitBound
    <1>1. RetryInv => WaitBound
        <2> SUFFICES ASSUME RetryInv PROVE WaitBound
            OBVIOUS
        <2>1. attempt \in Nat /\ elapsed <= Paid(attempt) + Cost
            BY Numbers DEF RetryInv, RetryTypeOK, RetrySettled
        <2>2. (attempt + 1) * 2 * RequestTimeout + attempt * MaxDelay
                = Paid(attempt) + Cost
            BY <2>1, Numbers DEF Cost, Paid
        <2>3. QED
            BY <2>1, <2>2 DEF WaitBound
    <1>2. QED
        BY <1>1, RetryHolds, PTL

(* No event is yielded by two attempts (chat_stream_compat: the stream is  *)
(* outside with_retry).                                                    *)
THEOREM OneSource == RetrySpec => []SingleSource
    <1>1. RetryInv => SingleSource
        BY DEF RetryInv, RetrySettled, SingleSource
    <1>2. QED
        BY <1>1, RetryHolds, PTL

-----------------------------------------------------------------------------
(* The system prompt *)

PSpec == PInit /\ [][PNext]_pvars

\* A prompt without the block of plan mode.
Bare(q) == \A k \in DOMAIN q : q[k].is \notin {"open", "close"}

\* A prompt and what stands before its block: of an ordinary session in its
\* mode, and of a saved one in either.
Blocked(rest, m) == IF m = "plan" THEN rest \o ModeBlock ELSE rest
BareOf(W, rest) == rest \in Seq(W) /\ Bare(rest)
IsBare(q) == \E W : BareOf(W, q)

\* The prompt is the session's own and at most the block of its mode.
PromptShaped ==
  /\ mode \in PromptModes
  /\ \E rest : /\ IsBare(rest) /\ prompt = Blocked(rest, mode)
               /\ fresh => rest = <<Part("base", <<>>)>> \o born \o SkillsIndex(tool)
  /\ frozen # <<>> => \E rest : IsBare(rest) /\ frozen \in {rest, rest \o ModeBlock}

\* Two sequences, one behind the other.
LEMMA Joined ==
  ASSUME NEW V, NEW a \in Seq(V), NEW b \in Seq(V)
  PROVE  /\ a \o b \in Seq(V) /\ Len(a \o b) = Len(a) + Len(b)
         /\ \A k \in 1 .. Len(a) : (a \o b)[k] = a[k]
         /\ \A k \in 1 .. Len(b) : (a \o b)[Len(a) + k] = b[k]
OBVIOUS

\* A prompt with the block: what stands before it, and its three parts.
LEMMA BlockBehind ==
  ASSUME NEW W, NEW rest, BareOf(W, rest)
  PROVE  LET p == rest \o ModeBlock
             n == Len(rest)
         IN /\ \E V : p \in Seq(V) /\ rest \in Seq(V)
            /\ Len(p) = n + 3 /\ DOMAIN p = 1 .. (n + 3)
            /\ \A k \in 1 .. n : p[k] = rest[k]
            /\ p[n + 1].is = "open" /\ p[n + 2].is = "plan" /\ p[n + 3].is = "close"
<1> DEFINE V == W \cup {Part("open", <<>>), Part("plan", <<>>), Part("close", <<>>)}
           b == ModeBlock
           n == Len(rest)
<1>1. b[1].is = "open" /\ b[2].is = "plan" /\ b[3].is = "close"
  BY DEF ModeBlock, Part
<1>2. b \in Seq(V) /\ Len(b) = 3 /\ rest \in Seq(V)
  BY DEF ModeBlock, Part, BareOf
<1> HIDE DEF V, b
<1>3. /\ rest \o b \in Seq(V) /\ Len(rest \o b) = n + 3
      /\ \A k \in 1 .. n : (rest \o b)[k] = rest[k]
      /\ \A k \in 1 .. 3 : (rest \o b)[n + k] = b[k]
  <2> DEFINE Joins(a, c) ==
               /\ a \o c \in Seq(V) /\ Len(a \o c) = Len(a) + Len(c)
               /\ \A k \in 1 .. Len(a) : (a \o c)[k] = a[k]
               /\ \A k \in 1 .. Len(c) : (a \o c)[Len(a) + k] = c[k]
  <2>1. \A a, c \in Seq(V) : Joins(a, c)
    BY Joined
  <2>2. Joins(rest, b)
    <3> HIDE DEF Joins
    <3> QED
      BY <1>2, <2>1
  <2> QED
    BY <1>2, <2>2
<1>4. DOMAIN (rest \o b) = 1 .. (n + 3)
  BY <1>3
<1> QED
  <2>1. \E U : rest \o b \in Seq(U) /\ rest \in Seq(U)
    BY <1>2, <1>3
  <2>2. (rest \o b)[n + 1].is = "open" /\ (rest \o b)[n + 2].is = "plan" /\ (rest \o b)[n + 3].is = "close"
    BY <1>1, <1>3
  <2> QED
    BY <1>3, <1>4, <2>1, <2>2 DEF b

\* Putting the block of a mode on a prompt takes the old one off (apply_mode_block).
LEMMA BlockIsReplaced ==
  ASSUME NEW W, NEW rest, BareOf(W, rest), NEW m \in PromptModes,
         NEW p \in {rest, rest \o ModeBlock}
  PROVE  ApplyModeBlock(p, m) = Blocked(rest, m)
<1> DEFINE n == Len(rest)
           opens == {k \in DOMAIN p : p[k].is = "open"}
           closes == {k \in DOMAIN p : p[k].is = "close"}
           First(hits) == IF hits = {} THEN 0 ELSE CHOOSE k \in hits : \A j \in hits : k <= j
<1>1. /\ rest \in Seq(W) /\ n \in Nat /\ DOMAIN rest = 1 .. n
      /\ \A k \in 1 .. n : rest[k].is \notin {"open", "close"}
  BY DEF BareOf, Bare
<1>3. FirstOf(p, "open") = First(opens) /\ FirstOf(p, "close") = First(closes)
  BY DEF FirstOf
<1>4. CASE p = rest
  <2>1. opens = {}
    BY <1>1, <1>4
  <2>2. FirstOf(p, "open") = 0
    <3> HIDE DEF opens, closes
    <3> QED
      BY <1>3, <2>1
  <2> QED
    BY <1>4, <2>2 DEF ApplyModeBlock, Blocked
<1>5. CASE p = rest \o ModeBlock
  <2>1. /\ Len(p) = n + 3 /\ DOMAIN p = 1 .. (n + 3)
        /\ \A k \in 1 .. n : p[k] = rest[k]
        /\ p[n + 1].is = "open" /\ p[n + 2].is = "plan" /\ p[n + 3].is = "close"
    BY <1>5, BlockBehind
  <2>8. PICK V : p \in Seq(V) /\ rest \in Seq(V)
    BY <1>5, BlockBehind
  <2>2. /\ \A k \in 1 .. n + 3 : k \in 1 .. n \/ k = n + 1 \/ k = n + 2 \/ k = n + 3
        /\ n + 1 \in 1 .. n + 3 /\ n + 3 \in 1 .. n + 3
    BY <1>1
  <2>3. opens = {n + 1} /\ closes = {n + 3}
    <3> HIDE DEF n
    <3> QED
      BY <1>1, <2>1, <2>2
  <2>4. \A i \in Int : First({i}) = i
    OBVIOUS
  <2>5. FirstOf(p, "open") = n + 1 /\ FirstOf(p, "close") = n + 3
    <3> HIDE DEF opens, closes, First
    <3> QED
      BY <1>1, <1>3, <2>3, <2>4
  <2>6. SubSeq(p, 1, (n + 1) - 1) \o SubSeq(p, n + 3 + 1, Len(p)) = rest
    <3>1. SubSeq(p, 1, (n + 1) - 1) = rest
      BY <1>1, <2>1, <2>8
    <3>2. SubSeq(p, n + 3 + 1, Len(p)) = <<>>
      BY <1>1, <2>1, <2>8
    <3>3. rest \o <<>> = rest
      BY <1>1
    <3> QED
      BY <3>1, <3>2, <3>3
  <2>7. 0 < n + 1 /\ n + 1 <= n + 3
    BY <1>1
  <2> HIDE DEF n, opens, closes, First
  <2> QED
    BY <2>5, <2>6, <2>7 DEF ApplyModeBlock, Blocked
<1> QED
  BY <1>4, <1>5
\* A session begins without the block.
LEMMA FreshIsBare ==
  ASSUME NEW found
  PROVE  IsBare(FreshPrompt(SkillsIndex(found)))
<1> DEFINE base == Part("base", <<>>)
           memory == LoadProjectMemory
           index == SkillsIndex(found)
<1>1. PICK m : memory = <<>> \/ memory = <<Part("memory", m)>>
  BY DEF LoadProjectMemory
<1>2. PICK i : index = <<>> \/ index = <<Part("index", i)>>
  BY DEF SkillsIndex
<1> DEFINE W == {base, Part("memory", m), Part("index", i)}
<1>3. <<base>> \in Seq(W) /\ memory \in Seq(W) /\ index \in Seq(W)
  <2> HIDE DEF base, memory, index
  <2>1. \A w \in W : <<w>> \in Seq(W)
    <3> HIDE DEF W
    <3> QED
      OBVIOUS
  <2>2. <<>> \in Seq(W)
    OBVIOUS
  <2> QED
    BY <1>1, <1>2, <2>1, <2>2
<1>4. \A w \in W : w.is \notin {"open", "close"}
  BY DEF Part
<1> HIDE DEF W, memory, index, base
<1>5. <<base>> \o memory \o index \in Seq(W)
  BY <1>3
<1>6. FreshPrompt(index) \in Seq(W)
  BY <1>5 DEF FreshPrompt, base, memory
<1>7. \A q \in Seq(W) : Bare(q)
  BY <1>4 DEF Bare
<1> QED
  BY <1>6, <1>7 DEF IsBare, BareOf, index

\* So a prompt of one mode becomes that of another.
LEMMA Reblocked ==
  ASSUME NEW rest, IsBare(rest), NEW m \in PromptModes, NEW p \in {rest, rest \o ModeBlock}
  PROVE  ApplyModeBlock(p, m) = Blocked(rest, m)
BY BlockIsReplaced DEF IsBare

\* A process starts with a prompt in that shape.
LEMMA PromptStart == PInit => PromptShaped
<1> SUFFICES ASSUME PInit PROVE PromptShaped
  OBVIOUS
<1> DEFINE rest == FreshPrompt(SkillsIndex(tool))
<1>1. /\ mode \in PromptModes /\ frozen = <<>> /\ born = LoadProjectMemory
      /\ prompt = ApplyModeBlock(rest, mode)
  BY DEF PInit, PromptModes
<1>2. IsBare(rest)
  <2>1. PICK found : found = tool
    OBVIOUS
  <2> QED
    BY <2>1, FreshIsBare
<1>3. rest = <<Part("base", <<>>)>> \o born \o SkillsIndex(tool)
  BY <1>1 DEF FreshPrompt
<1> HIDE DEF rest
<1>4. prompt = Blocked(rest, mode)
  <2>1. PICK r : r = rest
    OBVIOUS
  <2>2. PICK m \in PromptModes : m = mode
    BY <1>1
  <2>3. ApplyModeBlock(r, m) = Blocked(r, m)
    BY <1>2, <2>1, Reblocked
  <2> QED
    BY <1>1, <2>1, <2>2, <2>3
<1> QED
  BY <1>1, <1>2, <1>3, <1>4 DEF PromptShaped

\* Every command, edit and start keeps the shape of the prompts.
LEMMA PromptSteps == PromptShaped /\ [PNext]_pvars => PromptShaped'
<1> SUFFICES ASSUME PromptShaped, [PNext]_pvars PROVE PromptShaped'
  OBVIOUS
<1>1. PICK rest : /\ IsBare(rest) /\ prompt = Blocked(rest, mode)
                  /\ fresh => rest = <<Part("base", <<>>)>> \o born \o SkillsIndex(tool)
  BY DEF PromptShaped
<1>2. mode \in PromptModes /\ prompt \in {rest, rest \o ModeBlock}
  BY <1>1 DEF PromptShaped, Blocked
<1>3. PICK p \in {rest, rest \o ModeBlock} : p = prompt
  BY <1>2
<1>4. \A m \in PromptModes : ApplyModeBlock(prompt, m) = Blocked(rest, m)
  BY <1>1, <1>3, Reblocked
<1>5. frozen # <<>> => \E r : IsBare(r) /\ frozen \in {r, r \o ModeBlock}
  BY DEF PromptShaped
<1>6. CASE UNCHANGED <<mode, prompt, born, fresh, tool, frozen>>
  BY <1>6 DEF PromptShaped
<1>7. ASSUME mode' \in PromptModes, prompt' = ApplyModeBlock(prompt, mode'),
             UNCHANGED <<born, fresh, tool, frozen>>
      PROVE  PromptShaped'
  <2>1. prompt' = Blocked(rest, mode')
    BY <1>4, <1>7
  <2> QED
    BY <1>1, <1>5, <1>7, <2>1 DEF PromptShaped
<1>8. ASSUME mode' \in PromptModes, frozen' = prompt, born' = LoadProjectMemory,
             prompt' = ApplyModeBlock(FreshPrompt(SkillsIndex(tool')), mode')
      PROVE  PromptShaped'
  <2>1. PICK found : found = tool'
    OBVIOUS
  <2>2. PICK r : r = FreshPrompt(SkillsIndex(tool'))
    OBVIOUS
  <2>3. IsBare(r)
    BY <2>1, <2>2, FreshIsBare
  <2>4. PICK m \in PromptModes : m = mode'
    BY <1>8
  <2>5. prompt' = Blocked(r, mode')
    BY <1>8, <2>2, <2>3, <2>4, Reblocked
  <2>6. r = <<Part("base", <<>>)>> \o born' \o SkillsIndex(tool')
    BY <1>8, <2>2 DEF FreshPrompt
  <2> QED
    BY <1>1, <1>2, <1>8, <2>3, <2>5, <2>6 DEF PromptShaped
<1>9. CASE ResumeSession
  <2>1. PICK r : IsBare(r) /\ frozen \in {r, r \o ModeBlock}
    BY <1>5, <1>9 DEF ResumeSession
  <2>2. PICK q \in {r, r \o ModeBlock} : q = frozen
    BY <2>1
  <2>3. PICK m \in PromptModes : m = mode
    BY <1>2
  <2>4. prompt' = Blocked(r, mode')
    BY <1>9, <2>1, <2>2, <2>3, Reblocked DEF ResumeSession
  <2> QED
    BY <1>2, <1>5, <1>9, <2>1, <2>4 DEF ResumeSession, PromptShaped
<1>10. CASE \E m \in PromptModes : SwitchMode(m)
  BY <1>7, <1>10 DEF SwitchMode
<1>11. CASE ClearSession
  BY <1>2, <1>7, <1>11 DEF ClearSession
<1>12. CASE NewSession
  BY <1>2, <1>8, <1>12 DEF NewSession
<1>13. CASE StartAgain
  BY <1>8, <1>13 DEF StartAgain
<1>14. CASE \/ \E m \in Memories : RunInit(m)
            \/ EditFiles \/ TakeMention \/ PassOver \/ Expand \/ UNCHANGED pvars
  BY <1>6, <1>14 DEF RunInit, EditFiles, TakeMention, PassOver, Expand, Kept, pvars
<1> QED
  BY <1>9, <1>10, <1>11, <1>12, <1>13, <1>14 DEF PNext

\* The prompt's half of ModelIsTold.
LEMMA PromptIsTold ==
  ASSUME PromptShaped
  PROVE  /\ fresh => prompt = <<Part("base", <<>>)>> \o born \o SkillsIndex(tool)
                              \o (IF mode = "plan" THEN ModeBlock ELSE <<>>)
         /\ Cardinality({k \in DOMAIN prompt : prompt[k].is = "open"}) = IF mode = "plan" THEN 1 ELSE 0
<1>1. PICK rest : /\ IsBare(rest) /\ prompt = Blocked(rest, mode)
                  /\ fresh => rest = <<Part("base", <<>>)>> \o born \o SkillsIndex(tool)
  BY DEF PromptShaped
<1>2. PICK W : BareOf(W, rest)
  BY <1>1 DEF IsBare
<1>3. rest \in Seq(W) /\ DOMAIN rest = 1 .. Len(rest) /\ Len(rest) \in Nat /\ \A k \in DOMAIN rest : rest[k].is # "open"
  BY <1>2 DEF BareOf, Bare
<1>4. rest \o <<>> = rest
  BY <1>3
<1>5. fresh => prompt = <<Part("base", <<>>)>> \o born \o SkillsIndex(tool)
                        \o (IF mode = "plan" THEN ModeBlock ELSE <<>>)
  BY <1>1, <1>4 DEF Blocked
<1> DEFINE opens == {k \in DOMAIN prompt : prompt[k].is = "open"}
<1>6. CASE mode = "plan"
  <2> DEFINE n == Len(rest)
  <2>1. prompt = rest \o ModeBlock
    BY <1>1, <1>6 DEF Blocked
  <2>2. DOMAIN prompt = 1 .. (n + 3)
    BY <1>2, <2>1, BlockBehind
  <2>3. prompt[n + 1].is = "open" /\ prompt[n + 2].is = "plan" /\ prompt[n + 3].is = "close"
    BY <1>2, <2>1, BlockBehind
  <2>4. \A k \in 1 .. n : prompt[k] = rest[k]
    BY <1>2, <2>1, BlockBehind
  <2>5. \A k \in 1 .. n + 3 : k \in 1 .. n \/ k = n + 1 \/ k = n + 2 \/ k = n + 3
    BY <1>3
  <2>6. n + 1 \in 1 .. (n + 3)
    BY <1>3
  <2>8. opens = {n + 1}
    BY <1>3, <2>2, <2>3, <2>4, <2>5, <2>6
  <2> QED
    BY <1>5, <1>6, <2>8, FS_Singleton
<1>7. CASE mode # "plan"
  <2>1. opens = {}
    BY <1>1, <1>3, <1>7 DEF Blocked
  <2> QED
    BY <1>5, <1>7, <2>1, FS_EmptySet
<1> QED
  BY <1>6, <1>7

-----------------------------------------------------------------------------
(* The mentions of a line *)

\* The places of the line before n where a path is mentioned, and those of
\* them where it is mentioned for the first time.
Opens(k) == input[k] = "@" /\ Boundary(k)
Said(n) == {k \in DOMAIN input : k < n /\ Opens(k) /\ Mention(k) # <<>>}
Firsts(n) == {k \in Said(n) : \A j \in Said(n) : Mention(j) = Mention(k) => k <= j}

\* The numbers of S in their order.
Listing(g, S) ==
  /\ g \in Seq(Int) /\ S = {g[i] : i \in DOMAIN g}
  /\ \A i, j \in DOMAIN g : i < j => g[i] < g[j]

\* The line and the place the loop has reached in it.
LineShaped == input \in Seq(Letters) /\ at \in 1 .. Len(input) + 1

\* The paths so far are those of the first mentions before at, in their order,
\* and a message was made when the whole line had been read.
MentionsShaped ==
  /\ LineShaped
  /\ \E g : Listing(g, Firsts(at)) /\ Len(paths) = Len(g) /\ paths = [i \in DOMAIN g |-> Mention(g[i])]
  /\ message # <<>> =>
       /\ at > Len(input)
       /\ message = <<Part("text", input)>> \o Blocks(paths)[Len(paths)]

\* A listing says how many there are, and where each stands.
LEMMA ListingCounts ==
  ASSUME NEW S, NEW g, Listing(g, S)
  PROVE  /\ Cardinality(S) = Len(g)
         /\ \A i \in DOMAIN g : Cardinality({j \in S : j <= g[i]}) = i
<1>1. g \in Seq(Int) /\ Len(g) \in Nat /\ DOMAIN g = 1 .. Len(g)
  BY DEF Listing
<1>2. ASSUME NEW n \in 0 .. Len(g) PROVE Cardinality({g[i] : i \in 1 .. n}) = n
  <2> DEFINE T == {g[i] : i \in 1 .. n}
             f == [i \in 1 .. n |-> g[i]]
  <2>1. f \in [1 .. n -> T] /\ \A t \in T : \E i \in 1 .. n : f[i] = t
    OBVIOUS
  <2>2. \A i, j \in 1 .. n : f[i] = f[j] => i = j
    <3> SUFFICES ASSUME NEW i \in 1 .. n, NEW j \in 1 .. n, f[i] = f[j] PROVE i = j
      OBVIOUS
    <3>1. i \in DOMAIN g /\ j \in DOMAIN g /\ g[i] = g[j] /\ g[i] \in Int /\ i \in Int /\ j \in Int
      BY <1>1
    <3>2. (i < j => g[i] < g[j]) /\ (j < i => g[j] < g[i])
      BY <3>1 DEF Listing
    <3> QED
      BY <3>1, <3>2
  <2>3. f \in Bijection(1 .. n, T)
    <3> HIDE DEF f, T
    <3> QED
      BY <2>1, <2>2 DEF Bijection, Injection, Surjection, IsInjective
  <2>4. ExistsBijection(1 .. n, T) /\ n \in Nat
    <3> HIDE DEF f, T
    <3> QED
      BY <1>1, <2>3 DEF ExistsBijection
  <2> QED
    BY <2>4, FS_CountingElements
<1>3. S = {g[i] : i \in 1 .. Len(g)}
  BY <1>1 DEF Listing
<1>4. ASSUME NEW i \in DOMAIN g PROVE {j \in S : j <= g[i]} = {g[k] : k \in 1 .. i}
  <2>1. ASSUME NEW k \in 1 .. Len(g) PROVE g[k] <= g[i] <=> k <= i
    <3>1. i \in DOMAIN g /\ k \in DOMAIN g /\ g[i] \in Int /\ g[k] \in Int /\ i \in Int /\ k \in Int
      BY <1>1
    <3>2. (i < k => g[i] < g[k]) /\ (k < i => g[k] < g[i])
      BY <3>1 DEF Listing
    <3> QED
      BY <3>1, <3>2
  <2>2. \A k \in 1 .. Len(g) : k <= i <=> k \in 1 .. i
    BY <1>1
  <2>3. \A k \in 1 .. i : k \in 1 .. Len(g)
    BY <1>1
  <2> QED
    BY <1>3, <2>1, <2>2, <2>3
<1>5. Len(g) \in 0 .. Len(g) /\ \A i \in DOMAIN g : i \in 0 .. Len(g)
  BY <1>1
<1>6. Cardinality(S) = Len(g)
  BY <1>2, <1>3, <1>5
<1>7. ASSUME NEW i \in DOMAIN g PROVE Cardinality({j \in S : j <= g[i]}) = i
  BY <1>2, <1>4, <1>5
<1> QED
  BY <1>6, <1>7

\* One more at the end.
LEMMA ListingGrows ==
  ASSUME NEW S, NEW g, Listing(g, S), NEW k \in Int, \A j \in S : j < k
  PROVE  /\ Listing(Append(g, k), S \cup {k}) /\ Len(Append(g, k)) = Len(g) + 1
         /\ Append(g, k)[Len(g) + 1] = k /\ \A i \in DOMAIN g : Append(g, k)[i] = g[i]
<1> DEFINE h == Append(g, k)
<1>1. g \in Seq(Int) /\ Len(g) \in Nat /\ DOMAIN g = 1 .. Len(g)
  BY DEF Listing
<1>2. h \in Seq(Int) /\ Len(h) = Len(g) + 1 /\ DOMAIN h = 1 .. Len(g) + 1
  BY <1>1
<1>3. h[Len(g) + 1] = k /\ \A i \in DOMAIN g : h[i] = g[i]
  BY <1>1
<1> HIDE DEF h
<1>4. \A i \in DOMAIN h : i \in DOMAIN g \/ i = Len(g) + 1
  BY <1>1, <1>2
<1>5. Len(g) + 1 \in DOMAIN h /\ \A i \in DOMAIN g : i \in DOMAIN h
  BY <1>1, <1>2
<1>6. {h[i] : i \in DOMAIN h} = S \cup {k}
  BY <1>3, <1>4, <1>5 DEF Listing
<1>7. ASSUME NEW i \in DOMAIN h, NEW j \in DOMAIN h, i < j PROVE h[i] < h[j]
  <2>1. i \in DOMAIN g
    BY <1>1, <1>2, <1>7
  <2>2. CASE j \in DOMAIN g
    BY <1>3, <1>7, <2>1, <2>2 DEF Listing
  <2>3. CASE j = Len(g) + 1
    BY <1>3, <2>1, <2>3 DEF Listing
  <2> QED
    BY <1>4, <2>2, <2>3
<1> QED
  BY <1>2, <1>3, <1>6, <1>7 DEF Listing, h

\* A run of characters ends at the first blank behind its "@", or with the line.
LEMMA RunEnds ==
  ASSUME LineShaped, NEW k \in DOMAIN input
  PROVE  /\ RunEnd(k) \in (k + 1) .. (Len(input) + 1)
         /\ \A h \in (k + 1) .. (RunEnd(k) - 1) : input[h] # " "
<1> DEFINE n == Len(input)
           T == {j \in (k + 1) .. (n + 1) : j > n \/ input[j] = " "}
<1>1. n \in Nat /\ DOMAIN input = 1 .. n /\ k \in Nat /\ k <= n
  BY DEF LineShaped
<1> HIDE DEF n
<1>6. n + 1 \in (k + 1) .. (n + 1) /\ n + 1 > n /\ \A j \in (k + 1) .. (n + 1) : j \in Nat
  BY <1>1
<1>2. T \subseteq Nat /\ n + 1 \in T
  BY <1>6
<1>3. PICK e \in T : \A j \in T : e <= j
  <2> HIDE DEF T
  <2> QED
    BY <1>2, LeastNumber
<1>4. ASSUME NEW h \in (k + 1) .. (e - 1) PROVE input[h] # " "
  <2>1. e \in (k + 1) .. (n + 1)
    BY <1>3
  <2>2. h \in (k + 1) .. (n + 1) /\ ~(e <= h)
    <3> HIDE DEF T
    <3> QED
      BY <1>1, <2>1
  <2> QED
    BY <1>3, <2>2
<1>5. \E j \in (k + 1) .. (n + 1) : /\ j > n \/ input[j] = " "
                                  /\ \A h \in (k + 1) .. (j - 1) : input[h] # " "
  BY <1>3, <1>4
<1> QED
  BY <1>5 DEF RunEnd, n

\* A path that was mentioned was mentioned a first time.
LEMMA EachHasAFirst ==
  ASSUME LineShaped, NEW n, NEW k \in Said(n)
  PROVE  \E j \in Firsts(n) : Mention(j) = Mention(k)
<1> DEFINE T == {j \in Said(n) : Mention(j) = Mention(k)}
<1>1. T \subseteq Nat /\ T # {}
  BY DEF Said, LineShaped
<1>2. PICK j \in T : \A i \in T : j <= i
  <2> HIDE DEF T
  <2> QED
    BY <1>1, LeastNumber
<1> QED
  BY <1>2 DEF Firsts

\* The mentions before the end of a run are those before its "@" and this one.
LEMMA SaidBehindRun ==
  ASSUME LineShaped, NEW k \in DOMAIN input, Opens(k)
  PROVE  Said(RunEnd(k)) = Said(k) \cup (IF Mention(k) # <<>> THEN {k} ELSE {})
<1>1. PICK n \in Nat : n = Len(input) /\ DOMAIN input = 1 .. n
  BY DEF LineShaped
<1>2. PICK stop : stop = RunEnd(k)
  OBVIOUS
<1>3. stop \in (k + 1) .. (n + 1) /\ \A h \in (k + 1) .. (stop - 1) : input[h] # " "
  BY <1>1, <1>2, RunEnds
<1>4. PICK first \in 1 .. n : first = k
  BY <1>1
<1>5. stop \in Int /\ first < stop /\ 1 <= first /\ first \in Int
  <2>1. stop \in (first + 1) .. (n + 1)
    BY <1>3, <1>4
  <2> QED
    BY <2>1
<1>6. ASSUME NEW j \in Int, first < j, j < stop PROVE ~Opens(j)
  <2>1. j > 1 /\ (j - 1 = first \/ j - 1 \in (first + 1) .. (stop - 1))
    BY <1>5, <1>6
  <2>2. input[j - 1] # " "
    BY <1>3, <1>4, <2>1 DEF Opens
  <2> QED
    BY <2>1, <2>2 DEF Opens, Boundary
<1>7. \A j \in Int : j < stop <=> j < first \/ j = first \/ (first < j /\ j < stop)
  BY <1>5
<1>8. \A j : j \in Said(stop) <=> j \in Said(first) \/ (j = first /\ Mention(first) # <<>>)
  <2>1. \A j \in DOMAIN input : j \in Int
    BY <1>1
  <2> QED
    BY <1>4, <1>6, <1>7, <2>1 DEF Said
<1> QED
  BY <1>2, <1>4, <1>8

\* A first mention behind the others is listed behind them; another is not.
LEMMA FirstsGrow ==
  ASSUME LineShaped, NEW n, NEW k \in DOMAIN input, NEW m,
         \A j \in Said(n) : j < k, Said(m) = Said(n) \cup {k}
  PROVE  Firsts(m) = IF \E j \in Firsts(n) : Mention(j) = Mention(k) THEN Firsts(n) ELSE Firsts(n) \cup {k}
<1>1. \A j \in DOMAIN input : j \in Int
  BY DEF LineShaped
<1>2. \A j \in Said(n) : j \in Int /\ j < k /\ ~(k <= j) /\ j <= k /\ j # k
  BY <1>1 DEF Said
<1>3. k <= k
  BY <1>1
<1>4. CASE \E j \in Firsts(n) : Mention(j) = Mention(k)
  <2>1. PICK i \in Firsts(n) : Mention(i) = Mention(k)
    BY <1>4
  <2>2. k \notin Firsts(m)
    BY <1>2, <2>1 DEF Firsts
  <2>3. \A j \in Said(n) : j \in Firsts(n) <=> j \in Firsts(m)
    BY <1>2 DEF Firsts
  <2>4. Firsts(m) = Firsts(n)
    BY <2>2, <2>3 DEF Firsts
  <2> QED
    BY <1>4, <2>4
<1>5. CASE ~\E j \in Firsts(n) : Mention(j) = Mention(k)
  <2>1. \A j \in Said(n) : Mention(j) # Mention(k)
    <3> SUFFICES ASSUME NEW j \in Said(n), Mention(j) = Mention(k) PROVE FALSE
      OBVIOUS
    <3> QED
      BY <1>5, EachHasAFirst
  <2>2. k \in Firsts(m)
    BY <1>3, <2>1 DEF Firsts
  <2>3. \A j \in Said(n) : j \in Firsts(n) <=> j \in Firsts(m)
    BY <1>2 DEF Firsts
  <2>4. Firsts(m) = Firsts(n) \cup {k}
    BY <2>2, <2>3 DEF Firsts
  <2> QED
    BY <1>5, <2>4
<1> QED
  BY <1>4, <1>5

\* Before the first round nothing is listed.
LEMMA MentionsStart == PInit => MentionsShaped
<1> SUFFICES ASSUME PInit PROVE MentionsShaped
  OBVIOUS
<1>1. PICK n \in 0 .. MaxLine : input \in [1 .. n -> Letters]
  BY DEF PInit
<1>2. n \in Nat /\ input \in Seq(Letters) /\ Len(input) = n
  BY <1>1, MentionAssumption
<1>3. LineShaped
  BY <1>2 DEF PInit, LineShaped
<1>4. at = 1 /\ paths = <<>> /\ message = <<>>
  BY DEF PInit
<1>5. Firsts(at) = {}
  BY <1>3, <1>4 DEF Firsts, Said, LineShaped
<1>6. Listing(<<>>, {})
  BY DEF Listing
<1>7. paths = [i \in DOMAIN <<>> |-> Mention(<<>>[i])] /\ Len(paths) = Len(<<>>)
  BY <1>4
<1> QED
  BY <1>3, <1>4, <1>5, <1>6, <1>7 DEF MentionsShaped

\* All of it is about the line alone.
LEMMA SameLine ==
  ASSUME input' = input
  PROVE  \A n : Mention(n)' = Mention(n) /\ Opens(n)' = Opens(n)
<1>1. \A n : RunEnd(n)' = RunEnd(n)
  BY DEF RunEnd
<1>2. \A n : Mention(n)' = Mention(n)
  BY <1>1 DEF Mention
<1>3. \A n : Opens(n)' = Opens(n)
  BY DEF Opens, Boundary
<1> QED
  BY <1>2, <1>3

\* The first mentions before a place depend on the line and the place.
LEMMA SameMentions ==
  ASSUME input' = input, NEW n, at' = n
  PROVE  /\ Firsts(at)' = Firsts(n)
         /\ \A i : Mention(i)' = Mention(i)
<1>1. \A i : Mention(i)' = Mention(i) /\ Opens(i)' = Opens(i)
  BY SameLine
<1>2. Said(at)' = Said(n)
  BY <1>1 DEF Said
<1>3. Firsts(at)' = Firsts(n)
  BY <1>1, <1>2 DEF Firsts
<1> QED
  BY <1>1, <1>3

\* What a round of the loop does to the list of paths.
ListedBy(g, k) == Listing(g, Firsts(k)) /\ Len(paths) = Len(g) /\ paths = [i \in DOMAIN g |-> Mention(g[i])]
Adds(k, m) ==
  \/ Said(m) = Said(k) /\ paths' = paths
  \/ /\ Said(m) = Said(k) \cup {k}
     /\ paths' = IF Mention(k) \notin Range(paths) THEN Append(paths, Mention(k)) ELSE paths
Round(k, m) == /\ LineShaped' /\ input' = input /\ message' = <<>>
               /\ m = at' /\ Adds(k, m)

\* A sequence and one more term.
LEMMA AppendTerms ==
  ASSUME NEW T, NEW q \in Seq(T), NEW x \in T
  PROVE  /\ Len(Append(q, x)) = Len(q) + 1 /\ DOMAIN Append(q, x) = 1 .. Len(q) + 1
         /\ Append(q, x) = [i \in 1 .. Len(q) + 1 |-> Append(q, x)[i]]
         /\ Append(q, x)[Len(q) + 1] = x
         /\ \A i \in 1 .. Len(q) : Append(q, x)[i] = q[i]
<1>1. Append(q, x) \in Seq(T) /\ Len(Append(q, x)) = Len(q) + 1
  OBVIOUS
<1>2. Append(q, x)[Len(q) + 1] = x /\ \A i \in 1 .. Len(q) : Append(q, x)[i] = q[i]
  OBVIOUS
<1>3. DOMAIN Append(q, x) = 1 .. Len(q) + 1
  BY <1>1
<1>4. Append(q, x) = [i \in DOMAIN Append(q, x) |-> Append(q, x)[i]]
  <2>1. \A a \in Seq(T) : a \in [1 .. Len(a) -> T]
    OBVIOUS
  <2>2. Append(q, x) \in [1 .. Len(Append(q, x)) -> T]
    BY <1>1, <2>1
  <2> QED
    BY <2>2
<1> QED
  BY <1>1, <1>2, <1>3, <1>4

\* A round of the loop keeps the list: the paths are those of the first mentions.
LEMMA PathsGrow ==
  ASSUME LineShaped, NEW k \in DOMAIN input, NEW m, Round(k, m), NEW g, ListedBy(g, k)
  PROVE  MentionsShaped'
<1>0. g \in Seq(Int) /\ Len(g) \in Nat /\ DOMAIN g = 1 .. Len(g) /\ k \in Int
  BY DEF ListedBy, Listing, LineShaped
<1>1. Firsts(at)' = Firsts(m) /\ \A i : Mention(i)' = Mention(i)
  BY SameMentions DEF Round
<1>2. ASSUME Firsts(m) = Firsts(k), paths' = paths PROVE MentionsShaped'
  <2>1. Listing(g, Firsts(at)')
    BY <1>1, <1>2 DEF ListedBy
  <2>2. paths' = [i \in DOMAIN g |-> Mention(g[i])'] /\ Len(paths') = Len(g)
    BY <1>1, <1>2 DEF ListedBy
  <2> QED
    BY <2>1, <2>2 DEF MentionsShaped, Round
<1>3. CASE Said(m) = Said(k) /\ paths' = paths
  BY <1>2, <1>3 DEF Firsts
<1>4. CASE /\ Said(m) = Said(k) \cup {k}
           /\ paths' = IF Mention(k) \notin Range(paths) THEN Append(paths, Mention(k)) ELSE paths
  <2>1. Firsts(m) = IF \E j \in Firsts(k) : Mention(j) = Mention(k) THEN Firsts(k) ELSE Firsts(k) \cup {k}
    <3>1. \A j \in Said(k) : j < k
      BY DEF Said
    <3> QED
      BY <1>4, <3>1, FirstsGrow
  <2>2. Mention(k) \in Range(paths) <=> \E j \in Firsts(k) : Mention(j) = Mention(k)
    BY DEF ListedBy, Listing, Range
  <2>3. CASE Mention(k) \in Range(paths)
    BY <1>2, <1>4, <2>1, <2>2, <2>3
  <2>4. CASE Mention(k) \notin Range(paths)
    <3> DEFINE h == Append(g, k)
               T == {Mention(i) : i \in Int}
    <3>1. Firsts(m) = Firsts(k) \cup {k} /\ paths' = Append(paths, Mention(k))
      BY <1>4, <2>1, <2>2, <2>4
    <3>2. \A j \in Firsts(k) : j < k
      BY DEF Firsts, Said
    <3>3. /\ Listing(h, Firsts(m)) /\ Len(h) = Len(g) + 1
          /\ h[Len(g) + 1] = k /\ \A i \in DOMAIN g : h[i] = g[i]
      <4>1. PICK S : S = Firsts(k)
        OBVIOUS
      <4>2. Listing(g, S) /\ (\A j \in S : j < k)
        BY <3>2, <4>1 DEF ListedBy
      <4>3. /\ Listing(h, S \cup {k}) /\ Len(h) = Len(g) + 1
            /\ h[Len(g) + 1] = k /\ \A i \in DOMAIN g : h[i] = g[i]
        BY <1>0, <4>2, ListingGrows
      <4> QED
        BY <3>1, <4>1, <4>3
    <3>4. DOMAIN h = 1 .. Len(g) + 1
      BY <1>0, <3>3 DEF Listing
    <3>5. paths \in Seq(T) /\ Mention(k) \in T /\ Len(paths) = Len(g)
      BY <1>0 DEF ListedBy
    <3> HIDE DEF h, T
    <3>6. /\ Len(paths') = Len(g) + 1 /\ DOMAIN paths' = 1 .. Len(g) + 1
          /\ paths' = [i \in 1 .. Len(g) + 1 |-> paths'[i]]
          /\ paths'[Len(g) + 1] = Mention(k) /\ \A i \in 1 .. Len(g) : paths'[i] = paths[i]
      <4>1. PICK q \in Seq(T), x \in T : q = paths /\ x = Mention(k)
        BY <3>5
      <4>2. paths' = Append(q, x) /\ Len(q) = Len(g)
        BY <3>1, <3>5, <4>1
      <4>3. /\ Len(Append(q, x)) = Len(q) + 1 /\ DOMAIN Append(q, x) = 1 .. Len(q) + 1
            /\ Append(q, x) = [i \in 1 .. Len(q) + 1 |-> Append(q, x)[i]]
            /\ Append(q, x)[Len(q) + 1] = x
            /\ \A i \in 1 .. Len(q) : Append(q, x)[i] = q[i]
        BY AppendTerms
      <4> QED
        BY <4>1, <4>2, <4>3
    <3>7. ASSUME NEW i \in 1 .. Len(g) + 1 PROVE paths'[i] = Mention(h[i])'
      <4>1. i \in 1 .. Len(g) \/ i = Len(g) + 1
        BY <1>0
      <4>2. CASE i \in 1 .. Len(g)
        <5>1. paths[i] = Mention(g[i])
          BY <1>0, <4>2 DEF ListedBy
        <5>2. paths'[i] = paths[i] /\ h[i] = g[i]
          BY <1>0, <3>3, <3>6, <4>2
        <5> QED
          BY <1>1, <5>1, <5>2
      <4>3. CASE i = Len(g) + 1
        BY <1>1, <3>3, <3>6, <4>3
      <4> QED
        BY <4>1, <4>2, <4>3
    <3>8. paths' = [i \in DOMAIN h |-> Mention(h[i])']
      BY <3>4, <3>6, <3>7
    <3> QED
      BY <1>1, <3>3, <3>6, <3>8 DEF MentionsShaped, Round
  <2> QED
    BY <2>3, <2>4
<1> QED
  BY <1>3, <1>4 DEF Round, Adds

\* The shape of the list depends on the line, the place and the paths.
LEMMA SameBlocks ==
  ASSUME UNCHANGED <<input, at, paths>>
  PROVE  /\ LineShaped => LineShaped'
         /\ \A g : Listing(g, Firsts(at)) /\ Len(paths) = Len(g) /\ paths = [i \in DOMAIN g |-> Mention(g[i])]
              => Listing(g, Firsts(at)') /\ Len(paths') = Len(g) /\ paths' = [i \in DOMAIN g |-> Mention(g[i])']
<1>1. PICK n : n = at
  OBVIOUS
<1>2. Firsts(at)' = Firsts(n) /\ \A i : Mention(i)' = Mention(i)
  BY <1>1, SameMentions
<1> QED
  BY <1>1, <1>2 DEF LineShaped

\* What leaves these alone keeps the shape.
LEMMA MentionsKept ==
  ASSUME MentionsShaped, UNCHANGED <<input, at, paths, message>>
  PROVE  MentionsShaped'
<1>1. PICK g : Listing(g, Firsts(at)) /\ Len(paths) = Len(g) /\ paths = [i \in DOMAIN g |-> Mention(g[i])]
  BY DEF MentionsShaped
<1>2. /\ LineShaped'
      /\ Listing(g, Firsts(at)') /\ Len(paths') = Len(g) /\ paths' = [i \in DOMAIN g |-> Mention(g[i])']
  BY <1>1, SameBlocks DEF MentionsShaped
<1>3. message' # <<>> => at' > Len(input') /\ message' = <<Part("text", input')>> \o Blocks(paths')[Len(paths')]
  BY DEF MentionsShaped
<1> QED
  BY <1>2, <1>3 DEF MentionsShaped

\* Every step keeps the list of paths, and the message made from it.
LEMMA MentionsSteps == MentionsShaped /\ [PNext]_pvars => MentionsShaped'
<1> SUFFICES ASSUME MentionsShaped, [PNext]_pvars PROVE MentionsShaped'
  OBVIOUS
<1>1. LineShaped
  BY DEF MentionsShaped
<1>2. PICK g : Listing(g, Firsts(at)) /\ Len(paths) = Len(g) /\ paths = [i \in DOMAIN g |-> Mention(g[i])]
  BY DEF MentionsShaped
<1>3. PICK k : k = at
  OBVIOUS
<1>4. ListedBy(g, k)
  BY <1>2, <1>3 DEF ListedBy
<1>5. ASSUME Reading PROVE k \in DOMAIN input /\ at \in 1 .. Len(input) /\ message = <<>>
  BY <1>1, <1>3, <1>5 DEF LineShaped, Reading
<1>6. CASE TakeMention
  <2>1. Reading /\ Opens(k)
    BY <1>3, <1>6 DEF TakeMention, Opens
  <2>2. PICK m : m = RunEnd(k)
    OBVIOUS
  <2>3. m \in (k + 1) .. (Len(input) + 1)
    BY <1>1, <1>5, <2>1, <2>2, RunEnds
  <2>4. Said(m) = Said(k) \cup (IF Mention(k) # <<>> THEN {k} ELSE {})
    BY <1>1, <1>5, <2>1, <2>2, SaidBehindRun
  <2>5. at' = m /\ input' = input /\ message' = <<>>
    BY <1>3, <1>5, <1>6, <2>1, <2>2 DEF TakeMention, Kept
  <2>6. m \in 1 .. Len(input) + 1
    BY <1>1, <1>3, <1>5, <2>1, <2>3 DEF LineShaped
  <2>7. LineShaped'
    BY <1>1, <2>5, <2>6 DEF LineShaped
  <2>8. paths' = IF Mention(k) # <<>> /\ Mention(k) \notin Range(paths) THEN Append(paths, Mention(k)) ELSE paths
    BY <1>3, <1>6 DEF TakeMention
  <2>9. Adds(k, m)
    BY <2>4, <2>8 DEF Adds
  <2>10. Round(k, m)
    BY <2>5, <2>7, <2>9 DEF Round
  <2> QED
    BY <1>1, <1>4, <1>5, <2>1, <2>10, PathsGrow
<1>7. CASE PassOver
  <2>1. Reading /\ ~Opens(k)
    BY <1>3, <1>7 DEF PassOver, Opens
  <2>2. PICK m : m = k + 1
    OBVIOUS
  <2>3. at' = m /\ input' = input /\ message' = <<>> /\ paths' = paths
    BY <1>3, <1>5, <1>7, <2>1, <2>2 DEF PassOver, Kept
  <2>4. m \in 1 .. Len(input) + 1
    BY <1>1, <1>3, <1>5, <2>1, <2>2 DEF LineShaped
  <2>5. LineShaped'
    BY <1>1, <2>3, <2>4 DEF LineShaped
  <2>6. \A j \in DOMAIN input : j < m <=> j < k \/ j = k
    <3>1. PICK n \in Nat : n = Len(input) /\ DOMAIN input = 1 .. n
      BY <1>1 DEF LineShaped
    <3>3. PICK i \in 1 .. n : i = k
      BY <1>5, <2>1, <3>1
    <3>2. \A j \in 1 .. n : j < i + 1 <=> j < i \/ j = i
      OBVIOUS
    <3> QED
      BY <2>2, <3>1, <3>2, <3>3
  <2>7. Said(m) = Said(k)
    BY <2>1, <2>6 DEF Said
  <2>8. Round(k, m)
    BY <2>3, <2>5, <2>7 DEF Round, Adds
  <2> QED
    BY <1>1, <1>4, <1>5, <2>1, <2>8, PathsGrow
<1>8. CASE Expand
  <2>1. UNCHANGED <<input, at, paths>>
    BY <1>8 DEF Expand
  <2>2. /\ LineShaped'
        /\ Listing(g, Firsts(at)') /\ Len(paths') = Len(g) /\ paths' = [i \in DOMAIN g |-> Mention(g[i])']
    BY <1>1, <1>2, <2>1, SameBlocks
  <2>3. at' > Len(input') /\ message' = <<Part("text", input')>> \o Blocks(paths')[Len(paths')]
    BY <1>8 DEF Expand
  <2> QED
    BY <2>2, <2>3 DEF MentionsShaped
<1>9. CASE UNCHANGED <<input, at, paths, message>>
  BY <1>9, MentionsKept
<1> QED
  BY <1>6, <1>7, <1>8, <1>9
     DEF PNext, pvars, Step, SwitchMode, ClearSession, NewSession, ResumeSession, StartAgain, RunInit, EditFiles

\* The path of a directory or of a file that can be read.
Resolves(p) == p \in Trees \cup Files

\* The loop over the paths, a path at a time.
LEMMA BlocksSteps ==
  ASSUME NEW ps
  PROVE  /\ Blocks(ps)[0] = <<>>
         /\ \A n \in Nat : Blocks(ps)[n + 1] =
              IF Resolves(ps[n + 1]) THEN Append(Blocks(ps)[n], Block(ps[n + 1])) ELSE Blocks(ps)[n]
<1> DEFINE W == {Block(ps[n]) : n \in Nat}
           S == Seq(W)
           To(was, n) == IF Resolves(ps[n]) THEN Append(was, Block(ps[n])) ELSE was
           F == [n \in Nat |-> [was \in S |-> To(was, n + 1)]]
           zero == <<>>
           Def(f) == [n \in Nat |-> IF n = 0 THEN zero ELSE To(f[n - 1], n)]
<1>1. zero \in S
  OBVIOUS
<1>2. ASSUME NEW was \in S, NEW n \in Nat PROVE To(was, n) \in S
  <2>1. Block(ps[n]) \in W
    OBVIOUS
  <2> HIDE DEF W
  <2> QED
    BY <2>1
<1> HIDE DEF S
<1>3. F \in [Nat -> [S -> S]]
  <2>1. ASSUME NEW n \in Nat, NEW was \in S PROVE To(was, n + 1) \in S
    <3>1. n + 1 \in Nat
      OBVIOUS
    <3> HIDE DEF To
    <3> QED
      BY <1>2, <3>1
  <2> HIDE DEF To
  <2> QED
    BY <2>1
<1> HIDE DEF F, zero
<1>4. PICK f : Iterated(f, S, zero, F)
  BY <1>1, <1>3, Iterates
<1> HIDE DEF To
<1>5. \A n \in Nat : f[n + 1] = To(f[n], n + 1)
  <2>1. \A n \in Nat : f[n] \in S /\ f[n + 1] = F[n][f[n]]
    BY <1>4 DEF Iterated
  <2> QED
    BY <2>1 DEF F
<1>6. f = Def(f)
  <2>1. ASSUME NEW n \in Nat PROVE f[n] = IF n = 0 THEN zero ELSE To(f[n - 1], n)
    <3>1. CASE n = 0
      BY <1>4, <3>1 DEF Iterated
    <3>2. CASE n # 0
      <4>1. n - 1 \in Nat /\ (n - 1) + 1 = n
        BY <3>2
      <4>2. f[(n - 1) + 1] = To(f[n - 1], (n - 1) + 1)
        BY <4>1, <1>5
      <4> QED
        BY <3>2, <4>1, <4>2
    <3> QED
      BY <3>1, <3>2
  <2> QED
    BY <1>4, <2>1 DEF Iterated
<1>7. Blocks(ps) = CHOOSE to : to = Def(to)
  BY DEF Blocks, To, zero, Resolves
<1>8. Blocks(ps) = Def(Blocks(ps))
  <2> HIDE DEF Def
  <2> QED
    BY <1>6, <1>7
<1>9. Blocks(ps)[0] = zero
  BY <1>8
<1>10. ASSUME NEW n \in Nat PROVE Blocks(ps)[n + 1] = To(Blocks(ps)[n], n + 1)
  <2>1. n + 1 \in Nat /\ n + 1 # 0 /\ (n + 1) - 1 = n
    OBVIOUS
  <2>2. Blocks(ps)[n + 1] = IF n + 1 = 0 THEN zero ELSE To(Blocks(ps)[(n + 1) - 1], n + 1)
    BY <1>8, <2>1
  <2> QED
    BY <2>1, <2>2
<1> QED
  BY <1>9, <1>10 DEF zero, To

\* What the blocks so far are about: M[k] is the path mentioned at k.
Resolved(g, M, n) == {k \in {g[j] : j \in 1 .. n} : Resolves(M[k])}
BlocksOf(b, V, M, h) == b \in Seq(V) /\ Len(b) = Len(h) /\ \A i \in 1 .. Len(h) : b[i] = Block(M[h[i]])

\* The blocks are those of the listed paths that resolve, in their order.
LEMMA BlocksListed ==
  ASSUME NEW S, NEW g, Listing(g, S), NEW M, NEW ps, \A i \in DOMAIN g : ps[i] = M[g[i]],
         NEW V, \A p : Resolves(p) => Block(p) \in V
  PROVE  \E h : Listing(h, Resolved(g, M, Len(g))) /\ BlocksOf(Blocks(ps)[Len(g)], V, M, h)
<1> DEFINE P(n) == \E h : Listing(h, Resolved(g, M, n)) /\ BlocksOf(Blocks(ps)[n], V, M, h)
           T == {n \in 0 .. Len(g) : ~P(n)}
<1>1. Len(g) \in Nat /\ DOMAIN g = 1 .. Len(g) /\ g \in Seq(Int)
  BY DEF Listing
<1>2. P(0)
  <2>1. Listing(<<>>, Resolved(g, M, 0))
    BY DEF Listing, Resolved
  <2>2. BlocksOf(Blocks(ps)[0], V, M, <<>>)
    <3>1. Blocks(ps)[0] = <<>>
      BY BlocksSteps
    <3>2. <<>> \in Seq(V) /\ \A i : ~(i \in 1 .. Len(<<>>))
      OBVIOUS
    <3> QED
      BY <3>1, <3>2 DEF BlocksOf
  <2> QED
    BY <2>1, <2>2
<1>3. ASSUME NEW n \in Nat, n + 1 \in 1 .. Len(g), P(n) PROVE P(n + 1)
  <2>1. PICK k : k = g[n + 1]
    OBVIOUS
  <2>2. n + 1 \in DOMAIN g /\ k \in Int /\ ps[n + 1] = M[k] /\ \A j \in 1 .. n : j \in DOMAIN g /\ j < n + 1
    BY <1>1, <1>3, <2>1
  <2>3. \A j \in 1 .. n : g[j] < k
    BY <2>1, <2>2 DEF Listing
  <2>4. PICK h : Listing(h, Resolved(g, M, n)) /\ BlocksOf(Blocks(ps)[n], V, M, h)
    BY <1>3
  <2>5. \A j : j \in 1 .. n + 1 <=> j \in 1 .. n \/ j = n + 1
    OBVIOUS
  <2>6. {g[j] : j \in 1 .. n + 1} = {g[j] : j \in 1 .. n} \cup {k}
    BY <2>1, <2>5
  <2>7. CASE ~Resolves(M[k])
    <3>1. Resolved(g, M, n + 1) = Resolved(g, M, n)
      BY <2>6, <2>7 DEF Resolved
    <3>2. Blocks(ps)[n + 1] = Blocks(ps)[n]
      BY <2>2, <2>7, BlocksSteps
    <3> QED
      BY <2>4, <3>1, <3>2
  <2>8. CASE Resolves(M[k])
    <3>1. Resolved(g, M, n + 1) = Resolved(g, M, n) \cup {k}
      BY <2>6, <2>8 DEF Resolved
    <3>2. \A j \in Resolved(g, M, n) : j < k
      BY <2>3 DEF Resolved
    <3>3. PICK R : R = Resolved(g, M, n)
      OBVIOUS
    <3>4. /\ Listing(Append(h, k), R \cup {k}) /\ Len(Append(h, k)) = Len(h) + 1
          /\ Append(h, k)[Len(h) + 1] = k /\ \A i \in DOMAIN h : Append(h, k)[i] = h[i]
      <4>1. Listing(h, R) /\ \A j \in R : j < k
        BY <2>4, <3>2, <3>3
      <4> QED
        BY <2>2, <4>1, ListingGrows
    <3>5. PICK b, x : b = Blocks(ps)[n] /\ x = Block(M[k])
      OBVIOUS
    <3>6. b \in Seq(V) /\ x \in V /\ Len(b) = Len(h)
      BY <2>4, <2>8, <3>5 DEF BlocksOf
    <3>7. /\ Len(Append(b, x)) = Len(b) + 1 /\ Append(b, x)[Len(b) + 1] = x
          /\ \A i \in 1 .. Len(b) : Append(b, x)[i] = b[i]
      BY <3>6, AppendTerms
    <3>8. Append(b, x) \in Seq(V)
      BY <3>6
    <3>9. Blocks(ps)[n + 1] = Append(b, x)
      BY <2>2, <2>8, <3>5, BlocksSteps
    <3>10. h \in Seq(Int) /\ Len(h) \in Nat /\ DOMAIN h = 1 .. Len(h)
      BY <2>4 DEF Listing
    <3>11. ASSUME NEW i \in 1 .. Len(h) + 1 PROVE Append(b, x)[i] = Block(M[Append(h, k)[i]])
      <4>1. i \in 1 .. Len(h) \/ i = Len(h) + 1
        BY <3>10
      <4>2. CASE i \in 1 .. Len(h)
        <5>1. b[i] = Block(M[h[i]])
          BY <2>4, <3>5, <4>2 DEF BlocksOf
        <5> QED
          BY <3>4, <3>6, <3>7, <3>10, <4>2, <5>1
      <4>3. CASE i = Len(h) + 1
        BY <3>4, <3>5, <3>6, <3>7, <4>3
      <4> QED
        BY <4>1, <4>2, <4>3
    <3>12. BlocksOf(Blocks(ps)[n + 1], V, M, Append(h, k))
      BY <3>4, <3>6, <3>7, <3>8, <3>9, <3>11 DEF BlocksOf
    <3> QED
      BY <3>1, <3>3, <3>4, <3>12
  <2> QED
    BY <2>7, <2>8
<1> HIDE DEF P
<1>4. T = {}
  <2> SUFFICES ASSUME T # {} PROVE FALSE
    OBVIOUS
  <2>1. T \in SUBSET Nat
    BY <1>1
  <2>2. PICK n \in T : \A j \in T : n <= j
    <3> HIDE DEF T
    <3> QED
      BY <2>1, LeastNumber
  <2>3. n \in 1 .. Len(g) /\ ~P(n)
    BY <1>1, <1>2, <2>2
  <2>4. PICK m : m = n - 1
    OBVIOUS
  <2>5. m \in Nat /\ m + 1 = n /\ m \in 0 .. Len(g) /\ ~(n <= m)
    BY <1>1, <2>3, <2>4
  <2>6. P(m)
    BY <2>2, <2>5
  <2> QED
    BY <1>3, <2>3, <2>5, <2>6
<1> QED
  BY <1>1, <1>4 DEF P

\* A message is its first part and the others.
LEMMA FirstAndRest ==
  ASSUME NEW V, NEW x \in V, NEW b \in Seq(V)
  PROVE  /\ (<<x>> \o b)[1] = x
         /\ SubSeq(<<x>> \o b, 2, Len(<<x>> \o b)) = b
<1> DEFINE q == <<x>> \o b
           r == SubSeq(q, 2, Len(q))
<1>1. q \in Seq(V) /\ Len(q) = Len(b) + 1 /\ Len(b) \in Nat /\ q[1] = x
  OBVIOUS
<1>2. \A i \in 1 .. Len(b) : q[i + 1] = b[i]
  OBVIOUS
<1> HIDE DEF q
<1>3. r \in Seq(V) /\ Len(r) = Len(b) /\ \A i \in 1 .. Len(b) : r[i] = q[i + 1]
  BY <1>1
<1> HIDE DEF r
<1>4. \A i \in 1 .. Len(b) : r[i] = b[i]
  BY <1>2, <1>3
<1>5. r = b
  BY <1>3, <1>4
<1> QED
  BY <1>1, <1>5 DEF q, r

\* The first mentions of the paths that resolve, as ModelIsTold has them.
SaidToResolve == {k \in DOMAIN input : input[k] = "@" /\ Boundary(k) /\ Mention(k) \in Trees \cup Files}
FirstToResolve == {k \in SaidToResolve : \A j \in SaidToResolve : Mention(j) = Mention(k) => k <= j}

\* The mentions' half of ModelIsTold.
LEMMA MentionsAreTold ==
  ASSUME MentionsShaped, message # <<>>
  PROVE  LET blocks == SubSeq(message, 2, Len(message))
         IN  /\ message[1].of = input
             /\ Len(blocks) = Cardinality(FirstToResolve)
             /\ \A k \in FirstToResolve : blocks[Cardinality({j \in FirstToResolve : j <= k})].of = Mention(k)
<1> DEFINE blocks == SubSeq(message, 2, Len(message))
<1>1. LineShaped /\ at > Len(input)
  BY DEF MentionsShaped
<1>2. PICK g : Listing(g, Firsts(at)) /\ Len(paths) = Len(g) /\ paths = [i \in DOMAIN g |-> Mention(g[i])]
  BY DEF MentionsShaped
<1>3. g \in Seq(Int) /\ DOMAIN g = 1 .. Len(g) /\ \A i \in DOMAIN g : g[i] \in Int
  BY <1>2 DEF Listing
<1>4. PICK M : M = [k \in Int |-> Mention(k)]
  OBVIOUS
<1>5. \A i \in DOMAIN g : paths[i] = M[g[i]]
  BY <1>2, <1>3, <1>4
<1>6. PICK x : x = Part("text", input)
  OBVIOUS
<1>7. PICK V : V = {x} \cup {Block(p) : p \in Trees \cup Files}
  OBVIOUS
<1>8. x \in V /\ \A p : Resolves(p) => Block(p) \in V
  BY <1>7 DEF Resolves
<1>9. PICK S, ps : S = Firsts(at) /\ ps = paths
  OBVIOUS
<1>10. PICK h : Listing(h, Resolved(g, M, Len(g))) /\ BlocksOf(Blocks(ps)[Len(g)], V, M, h)
  <2>1. Listing(g, S) /\ \A i \in DOMAIN g : ps[i] = M[g[i]]
    BY <1>2, <1>5, <1>9
  <2> QED
    BY <1>8, <2>1, BlocksListed
<1>11. message = <<x>> \o Blocks(ps)[Len(g)]
  BY <1>2, <1>6, <1>9 DEF MentionsShaped
<1>12. blocks = Blocks(ps)[Len(g)] /\ message[1] = x
  <2>1. Blocks(ps)[Len(g)] \in Seq(V)
    BY <1>10 DEF BlocksOf
  <2> QED
    BY <1>8, <1>11, <2>1, FirstAndRest
<1>13. Resolved(g, M, Len(g)) = FirstToResolve
  <2>1. \A k : k \in Firsts(at) <=> k \in {g[j] : j \in 1 .. Len(g)}
    BY <1>2, <1>3 DEF Listing
  <2>2. \A k \in DOMAIN input : k \in Int /\ k < at
    BY <1>1 DEF LineShaped
  <2>3. \A k \in Firsts(at) : M[k] = Mention(k)
    BY <1>4, <2>2 DEF Firsts, Said
  <2>4. \A k : k \in SaidToResolve <=> k \in Said(at) /\ Resolves(Mention(k))
    BY <2>2, MentionAssumption DEF SaidToResolve, Said, Opens, Resolves
  <2>5. \A k : k \in FirstToResolve <=> k \in Firsts(at) /\ Resolves(Mention(k))
    BY <2>4 DEF FirstToResolve, Firsts
  <2> QED
    BY <2>1, <2>3, <2>5 DEF Resolved
<1>14. PICK R : R = FirstToResolve
  OBVIOUS
<1>15. Listing(h, R) /\ h \in Seq(Int) /\ DOMAIN h = 1 .. Len(h)
  BY <1>10, <1>13, <1>14 DEF Listing
<1>16. /\ Cardinality(R) = Len(h)
       /\ \A i \in DOMAIN h : Cardinality({j \in R : j <= h[i]}) = i
  BY <1>15, ListingCounts
<1>17. Len(blocks) = Len(h) /\ \A i \in 1 .. Len(h) : blocks[i] = Block(M[h[i]])
  BY <1>10, <1>12 DEF BlocksOf
<1>18. ASSUME NEW k \in R PROVE blocks[Cardinality({j \in R : j <= k})].of = Mention(k)
  <2>1. PICK i \in DOMAIN h : k = h[i]
    BY <1>15 DEF Listing
  <2>2. blocks[Cardinality({j \in R : j <= k})] = Block(M[k])
    BY <1>15, <1>16, <1>17, <2>1
  <2>3. M[k] = Mention(k)
    <3>1. h[i] \in Int
      BY <1>15, <2>1
    <3> QED
      BY <1>4, <2>1, <3>1
  <2>4. Block(M[k]).of = M[k]
    BY DEF Block, Part
  <2> HIDE DEF blocks
  <2> QED
    BY <2>2, <2>3, <2>4
<1>19. message[1].of = input
  BY <1>6, <1>12 DEF Part
<1> HIDE DEF blocks
<1>20. Len(blocks) = Cardinality(FirstToResolve)
  BY <1>14, <1>16, <1>17
<1>21. \A k \in FirstToResolve : blocks[Cardinality({j \in FirstToResolve : j <= k})].of = Mention(k)
  BY <1>14, <1>18
<1> QED
  BY <1>19, <1>20, <1>21 DEF blocks

(* Whatever the order of /mode, /clear, /new, /resume, edits and starts, a   *)
(* session that was not resumed tells the model the persona, AGENTS.md as it *)
(* was when the session began, the skills its tool can load and, in plan     *)
(* mode alone, one block; and the line goes out as typed with each path that *)
(* resolves once, in the order of first mention: memory.rs, skill.rs,        *)
(* mention.rs and the REPL's use of them.                                    *)
THEOREM TheModelIsTold == PSpec => []ModelIsTold
<1>1. PInit => PromptShaped /\ MentionsShaped
  BY PromptStart, MentionsStart
<1>2. (PromptShaped /\ MentionsShaped) /\ [PNext]_pvars => (PromptShaped /\ MentionsShaped)'
  BY PromptSteps, MentionsSteps
<1>3. PromptShaped /\ MentionsShaped => ModelIsTold
  <2> SUFFICES ASSUME PromptShaped, MentionsShaped PROVE ModelIsTold
    OBVIOUS
  <2>1. /\ fresh => prompt = <<Part("base", <<>>)>> \o born \o SkillsIndex(tool)
                             \o (IF mode = "plan" THEN ModeBlock ELSE <<>>)
        /\ Cardinality({k \in DOMAIN prompt : prompt[k].is = "open"}) = IF mode = "plan" THEN 1 ELSE 0
    BY PromptIsTold
  <2>2. message # <<>> =>
          LET blocks == SubSeq(message, 2, Len(message))
          IN  /\ message[1].of = input
              /\ Len(blocks) = Cardinality(FirstToResolve)
              /\ \A k \in FirstToResolve : blocks[Cardinality({j \in FirstToResolve : j <= k})].of = Mention(k)
    BY MentionsAreTold
  <2> QED
    BY <2>1, <2>2 DEF ModelIsTold, SaidToResolve, FirstToResolve
<1> QED
  BY <1>1, <1>2, <1>3, PTL DEF PSpec

-----------------------------------------------------------------------------
(* The body of a reply *)

PartialCalls == [id : Texts \cup {None}, name : Texts \cup {None}, args : Seq(Texts)]
Gots == [shown : Seq(Texts), acc : [Indices -> PartialCalls], usage : Nat \cup {None}, fine : BOOLEAN]

LEMMA NothingFits == Nothing \in Gots
<1>1. NoCall \in PartialCalls
  BY DEF NoCall, PartialCalls
<1> QED
  BY <1>1 DEF Nothing, Gots

LEMMA MergeFits ==
  ASSUME NEW a \in [Indices -> PartialCalls], NEW d \in Deltas
  PROVE  /\ Merge(a, d) \in [Indices -> PartialCalls]
         /\ \A i \in Indices : Merge(a, d)[i] =
              IF i = d.index
              THEN [id |-> IF d.id = None THEN a[i].id ELSE d.id,
                    name |-> IF d.name = None THEN a[i].name ELSE d.name,
                    args |-> a[i].args \o d.args]
              ELSE a[i]
<1> DEFINE e == [id |-> IF d.id = None THEN a[d.index].id ELSE d.id,
                 name |-> IF d.name = None THEN a[d.index].name ELSE d.name,
                 args |-> a[d.index].args \o d.args]
<1>1. d.index \in Indices /\ d.args \in Seq(Texts) /\ d.id \in Texts \cup {None} /\ d.name \in Texts \cup {None}
  BY DEF Deltas
<1>2. a[d.index] \in PartialCalls
  BY <1>1
<1>3. e \in PartialCalls
  BY <1>1, <1>2 DEF PartialCalls
<1>4. Merge(a, d) = [a EXCEPT ![d.index] = e]
  BY DEF Merge
<1> QED
  BY <1>1, <1>3, <1>4

LEMMA TakeFits ==
  ASSUME NEW g \in Gots, NEW p \in Payloads
  PROVE  Take(g, ChunkOf[p]) \in Gots /\ Take(g, ChunkOf[p]).fine = g.fine
<1> DEFINE c == ChunkOf[p]
<1>1. c.text \in Texts \cup {None} /\ c.delta \in Deltas \cup {None} /\ c.usage \in Nat \cup {None}
  BY BodyAssumption
<1>2. g.shown \in Seq(Texts) /\ g.acc \in [Indices -> PartialCalls] /\ g.usage \in Nat \cup {None} /\ g.fine \in BOOLEAN
  BY DEF Gots
<1> HIDE DEF c
<1>3. (IF c.text = None THEN g.shown ELSE Append(g.shown, c.text)) \in Seq(Texts)
  BY <1>1, <1>2
<1>4. (IF c.delta = None THEN g.acc ELSE Merge(g.acc, c.delta)) \in [Indices -> PartialCalls]
  BY <1>1, <1>2, MergeFits
<1>5. (IF c.usage = None THEN g.usage ELSE c.usage) \in Nat \cup {None}
  BY <1>1, <1>2
<1>6. PICK t, a, u : /\ t = IF c.text = None THEN g.shown ELSE Append(g.shown, c.text)
                     /\ a = IF c.delta = None THEN g.acc ELSE Merge(g.acc, c.delta)
                     /\ u = IF c.usage = None THEN g.usage ELSE c.usage
  OBVIOUS
<1>61. Take(g, c) = [g EXCEPT !.shown = t, !.acc = a, !.usage = u]
  BY <1>6, Zenon DEF Take
<1>62. Take(g, c) = [shown |-> t, acc |-> a, usage |-> u, fine |-> g.fine]
  BY <1>61 DEF Gots
<1>7. Take(g, c) \in Gots /\ Take(g, c).fine = g.fine
  BY <1>2, <1>3, <1>4, <1>5, <1>6, <1>62 DEF Gots
<1> QED
  BY <1>7 DEF c

LEMMA ReadLineFits ==
  ASSUME NEW s, NEW n, NEW g \in Gots
  PROVE  ReadLine(s, n, g) \in Gots
<1>1. [g EXCEPT !.fine = FALSE] \in Gots
  BY DEF Gots
<1> QED
  BY <1>1, TakeFits DEF ReadLine, Parses

LEMMA ReadIs ==
  ASSUME NEW s, NEW g \in Gots
  PROVE  /\ Read(s, g)[0] = g
         /\ \A n \in Nat : Read(s, g)[n] \in Gots
         /\ \A n \in Nat \ {0} : Read(s, g)[n] = ReadLine(s, n, Read(s, g)[n - 1])
<1> DEFINE F == [n \in Nat |-> [x \in Gots |-> ReadLine(s, n + 1, x)]]
           P(h) == h = [n \in Nat |-> IF n = 0 THEN g ELSE ReadLine(s, n, h[n - 1])]
           r == CHOOSE h : P(h)
<1>1. F \in [Nat -> [Gots -> Gots]]
  BY ReadLineFits
<1>2. \A n \in Nat \ {0}, x \in Gots : F[n - 1][x] = ReadLine(s, n, x)
  <2>1. ASSUME NEW n \in Nat \ {0}, NEW x \in Gots PROVE F[n - 1][x] = ReadLine(s, n, x)
    <3>1. n - 1 \in Nat /\ n - 1 + 1 = n
      OBVIOUS
    <3>2. F[n - 1][x] = ReadLine(s, n - 1 + 1, x)
      BY <3>1
    <3> QED
      BY <3>1, <3>2
  <2> QED
    BY <2>1
<1> HIDE DEF F
<1>3. PICK f \in [Nat -> Gots] : f = [n \in Nat |-> IF n = 0 THEN g ELSE F[n - 1][f[n - 1]]]
  BY <1>1, Recurs, SMTT(60)
<1>4. P(f)
  <2>1. ASSUME NEW n \in Nat \ {0} PROVE F[n - 1][f[n - 1]] = ReadLine(s, n, f[n - 1])
    <3>1. n - 1 \in Nat
      OBVIOUS
    <3> QED
      BY <1>2, <3>1
  <2>2. ASSUME NEW n \in Nat PROVE f[n] = IF n = 0 THEN g ELSE ReadLine(s, n, f[n - 1])
    BY <1>3, <2>1
  <2>3. f = [n \in Nat |-> f[n]]
    OBVIOUS
  <2>4. f = [n \in Nat |-> IF n = 0 THEN g ELSE ReadLine(s, n, f[n - 1])]
    BY <2>2, <2>3
  <2> QED
    BY <2>4
<1>5. P(r)
  BY <1>4
<1>6. r[0] = g /\ \A n \in Nat \ {0} : r[n] = ReadLine(s, n, r[n - 1])
  <2> HIDE DEF r
  <2> QED
    BY <1>5
<1>7. Read(s, g) = r
  BY DEF Read
<1> HIDE DEF r
<1> DEFINE T == {n \in Nat : r[n] \in Gots}
<1>8. 0 \in T
  BY <1>6
<1>9. \A n \in Nat : n \in T => n + 1 \in T
  <2>1. ASSUME NEW n \in T PROVE n + 1 \in T
    <3>1. n + 1 \in Nat \ {0} /\ n + 1 - 1 = n
      OBVIOUS
    <3>2. r[n + 1] = ReadLine(s, n + 1, r[n])
      BY <1>6, <3>1
    <3> QED
      BY <3>1, <3>2, ReadLineFits
  <2> QED
    BY <2>1
<1> HIDE DEF T
<1>10. Nat \subseteq T
  BY <1>8, <1>9, ReachesAll
<1> QED
  BY <1>6, <1>7, <1>10 DEF T

\* The bytes of s up to m are those of t behind d, where a line may begin, and
\* end with a blank line: the lines there are the same.
Within(s, m, t, d) ==
  /\ s \in Seq(Bytes) /\ t \in Seq(Bytes) /\ m \in 0 .. Len(s) /\ d \in Nat /\ d + m <= Len(t)
  /\ \A i \in 1 .. m : s[i] = t[d + i]
  /\ m = 0 \/ (m >= 2 /\ s[m] = NL /\ s[m - 1] = NL)
  /\ d = 0 \/ t[d] = NL

LEMMA SameLines ==
  ASSUME NEW s, NEW m, NEW t, NEW d, Within(s, m, t, d), NEW n \in 1 .. m
  PROVE  /\ IsDataLine(s, n) <=> IsDataLine(t, d + n)
         /\ IsDataLine(s, n) => n + 2 <= m
         /\ \A g : ReadLine(s, n, g) = ReadLine(t, d + n, g)
<1>1. n \in Nat /\ n >= 1 /\ n <= m /\ m \in Nat /\ d \in Nat
  BY DEF Within
<1>0. PICK k : k = d + n
  OBVIOUS
<1>2. s[n] = t[k]
  BY <1>0 DEF Within
<1>3. (n = 1 \/ s[n - 1] = NL) <=> (k = 1 \/ t[k - 1] = NL)
  <2>1. CASE n = 1
    <3>1. k - 1 = d /\ (k = 1 <=> d = 0)
      BY <1>0, <1>1, <2>1
    <3> QED
      BY <2>1, <3>1 DEF Within
  <2>2. CASE n # 1
    <3>1. n - 1 \in 1 .. m /\ d + (n - 1) = k - 1 /\ k # 1
      BY <1>0, <1>1, <2>2
    <3>2. s[n - 1] = t[k - 1]
      BY <3>1 DEF Within
    <3> QED
      BY <2>2, <3>1, <3>2
  <2> QED
    BY <2>1, <2>2
<1>4. IsDataLine(s, n) <=> IsDataLine(t, k)
  BY <1>2, <1>3 DEF IsDataLine
<1>5. ASSUME IsDataLine(s, n) PROVE n + 2 <= m
  <2>1. s[n] # NL
    BY <1>5, BodyAssumption DEF IsDataLine
  <2>2. n # m /\ n # m - 1
    BY <1>1, <2>1 DEF Within
  <2> QED
    BY <1>1, <2>2
<1>6. ASSUME IsDataLine(s, n) PROVE s[n + 1] = t[k + 1] /\ s[n + 2] = t[k + 2]
  <2>1. n + 1 \in 1 .. m /\ n + 2 \in 1 .. m /\ d + (n + 1) = k + 1 /\ d + (n + 2) = k + 2
    BY <1>0, <1>1, <1>5, <1>6
  <2>2. s[n + 1] = t[d + (n + 1)] /\ s[n + 2] = t[d + (n + 2)]
    BY <2>1 DEF Within
  <2> QED
    BY <2>1, <2>2
<1>7. ASSUME NEW g PROVE ReadLine(s, n, g) = ReadLine(t, k, g)
  BY <1>4, <1>6 DEF ReadLine, Sentinel, Parses
<1> QED
  BY <1>0, <1>4, <1>5, <1>7

LEMMA ReadsAlike ==
  ASSUME NEW s, NEW m, NEW t, NEW d, Within(s, m, t, d), NEW g \in Gots
  PROVE  /\ Read(t, g)[d] \in Gots
         /\ \A n \in 0 .. m : Read(s, Read(t, g)[d])[n] = Read(t, g)[d + n]
<1> DEFINE h == Read(t, g)[d]
           T == {n \in Nat : Read(s, h)[n] = Read(t, g)[d + n]}
<1>1. d \in Nat /\ m \in Nat
  BY DEF Within
<1>2. h \in Gots
  BY <1>1, ReadIs
<1> HIDE DEF h
<1>3. 0 \in T
  BY <1>1, <1>2, ReadIs DEF h
<1>4. ASSUME NEW n \in Nat, n < m, n \in T PROVE n + 1 \in T
  <2>1. n + 1 \in Nat \ {0} /\ n + 1 - 1 = n /\ d + n \in Nat /\ d + n + 1 \in Nat \ {0} /\ d + n + 1 - 1 = d + n
        /\ n + 1 \in 1 .. m /\ d + (n + 1) = d + n + 1
    BY <1>1, <1>4
  <2>2. Read(s, h)[n + 1] = ReadLine(s, n + 1, Read(s, h)[n])
    BY <1>2, <2>1, ReadIs
  <2>3. Read(t, g)[d + n + 1] = ReadLine(t, d + n + 1, Read(t, g)[d + n])
    BY <2>1, ReadIs
  <2>4. \A x : ReadLine(s, n + 1, x) = ReadLine(t, d + (n + 1), x)
    BY <2>1, SameLines
  <2> QED
    BY <1>4, <2>1, <2>2, <2>3, <2>4
<1> HIDE DEF T
<1>5. 0 .. m \subseteq T
  BY <1>1, <1>3, <1>4, Reaches
<1> QED
  BY <1>2, <1>5 DEF T, h

-----------------------------------------------------------------------------
\* How much has been drained.
Drawn == Len(sent) - Len(buf)

SseTypeOK ==
  /\ sent \in Seq(Bytes) /\ buf \in Seq(Bytes)
  /\ got \in Gots
  /\ body \in {"reading", "failed", "ended"}

SseInv ==
  /\ SseTypeOK
  /\ Within(buf, 0, sent, Drawn)
  /\ \A i \in 1 .. Len(buf) : buf[i] = sent[Drawn + i]
  /\ Drawn = 0 \/ (Drawn >= 2 /\ sent[Drawn] = NL /\ sent[Drawn - 1] = NL)
  /\ got = Read(sent, Nothing)[Drawn]
  /\ ~got.fine => body = "failed"
  /\ body = "reading" \/ Drained \/ ~got.fine
  /\ IF body = "ended" THEN handed = Finalize(got.acc) /\ spent = got.usage
     ELSE handed = <<>> /\ spent = None

LEMMA SseStarts == SseInit => SseInv
<1> SUFFICES ASSUME SseInit PROVE SseInv
  OBVIOUS
<1>1. /\ sent = <<>> /\ buf = <<>> /\ got = Nothing /\ handed = <<>> /\ spent = None /\ body = "reading"
  BY DEF SseInit
<1>2. Drawn = 0 /\ Len(sent) = 0 /\ Len(buf) = 0
  BY <1>1 DEF Drawn
<1>3. sent \in Seq(Bytes) /\ buf \in Seq(Bytes)
  BY <1>1
<1>4. Within(buf, 0, sent, Drawn)
  BY <1>2, <1>3 DEF Within
<1>5. Nothing \in Gots /\ Read(sent, Nothing)[0] = Nothing
  BY NothingFits, ReadIs
<1>6. got.fine
  BY <1>1 DEF Nothing
<1> QED
  BY <1>1, <1>2, <1>3, <1>4, <1>5, <1>6 DEF SseInv, SseTypeOK

\* The first separator of the buffer.
LEMMA SeparatorFound ==
  ASSUME buf \in Seq(Bytes), ~Drained
  PROVE  /\ FindSeparator(buf) \in 1 .. (Len(buf) - 1)
         /\ buf[FindSeparator(buf)] = NL /\ buf[FindSeparator(buf) + 1] = NL
<1>1. Separators(buf) \in SUBSET Nat /\ Separators(buf) # {}
  BY DEF Separators, Drained
<1>2. \E i \in Separators(buf) : \A j \in Separators(buf) : i <= j
  BY <1>1, LeastNumber
<1>3. FindSeparator(buf) \in Separators(buf)
  BY <1>2 DEF FindSeparator
<1> QED
  BY <1>3 DEF Separators, IsSeparator

LEMMA ReceiveKeeps == SseInv /\ Receive => SseInv'
<1> SUFFICES ASSUME SseInv, Receive PROVE SseInv'
  OBVIOUS
<1>1. PICK piece \in Pieces : sent' = sent \o piece /\ buf' = buf \o piece
  BY DEF Receive
<1>2. /\ got' = got /\ handed' = handed /\ spent' = spent /\ body' = body /\ body = "reading"
  BY DEF Receive
<1>3. sent \in Seq(Bytes) /\ buf \in Seq(Bytes) /\ piece \in Seq(Bytes) /\ got \in Gots
  BY BodyAssumption DEF SseInv, SseTypeOK
<1>4. PICK a, b, c \in Nat : a = Len(sent) /\ b = Len(buf) /\ c = Len(piece)
  BY <1>3
<1>5. PICK d \in Nat : d = Drawn /\ d + b = a
  <2>1. Drawn \in Nat
    BY DEF SseInv, Within
  <2>2. Drawn + b = a
    BY <1>4 DEF Drawn
  <2> QED
    BY <2>1, <2>2
<1>6. /\ sent' \in Seq(Bytes) /\ Len(sent') = a + c /\ buf' \in Seq(Bytes) /\ Len(buf') = b + c
      /\ \A i \in 1 .. a : sent'[i] = sent[i]
      /\ \A i \in 1 .. c : sent'[a + i] = piece[i]
      /\ \A i \in 1 .. b : buf'[i] = buf[i]
      /\ \A i \in 1 .. c : buf'[b + i] = piece[i]
  BY <1>1, <1>3, <1>4
<1>7. Drawn' = d
  BY <1>4, <1>5, <1>6 DEF Drawn
<1>8. \A i \in 1 .. Len(buf') : buf'[i] = sent'[d + i]
  <2> SUFFICES ASSUME NEW i \in 1 .. (b + c) PROVE buf'[i] = sent'[d + i]
    BY <1>6
  <2>1. CASE i <= b
    <3>1. i \in 1 .. b /\ d + i \in 1 .. a
      BY <1>4, <1>5, <2>1
    <3>2. buf[i] = sent[d + i]
      BY <1>4, <1>5, <3>1 DEF SseInv
    <3> QED
      BY <1>6, <3>1, <3>2
  <2>2. CASE i > b
    <3>1. PICK j : j = i - b
      OBVIOUS
    <3>2. j \in 1 .. c /\ i = b + j /\ d + i = a + j
      BY <1>4, <1>5, <2>2, <3>1
    <3> QED
      BY <1>6, <3>2
  <2> QED
    BY <1>4, <2>1, <2>2
<1>9. d = 0 \/ (d >= 2 /\ sent'[d] = NL /\ sent'[d - 1] = NL)
  <2>1. CASE d = 0
    BY <2>1
  <2>2. CASE d # 0
    <3>1. d >= 2 /\ sent[d] = NL /\ sent[d - 1] = NL
      BY <1>5, <2>2 DEF SseInv
    <3>2. d \in 1 .. a /\ d - 1 \in 1 .. a
      BY <1>4, <1>5, <3>1
    <3> QED
      BY <1>6, <3>1, <3>2
  <2> QED
    BY <2>1, <2>2
<1>10. Within(sent, d, sent', 0)
  <2>1. d \in 0 .. Len(sent) /\ 0 + d <= Len(sent')
    BY <1>4, <1>5, <1>6
  <2>2. d = 0 \/ (d >= 2 /\ sent[d] = NL /\ sent[d - 1] = NL)
    BY <1>5 DEF SseInv
  <2>3. \A i \in 1 .. d : sent[i] = sent'[0 + i]
    BY <1>4, <1>5, <1>6
  <2> QED
    BY <1>3, <1>6, <2>1, <2>2, <2>3 DEF Within
<1>11. Nothing \in Gots /\ Read(sent', Nothing)[0] = Nothing
  BY NothingFits, ReadIs
<1>12. Read(sent, Nothing)[d] = Read(sent', Nothing)[d]
  <2>1. \A n \in 0 .. d : Read(sent, Read(sent', Nothing)[0])[n] = Read(sent', Nothing)[0 + n]
    BY <1>10, <1>11, ReadsAlike
  <2>2. d \in 0 .. d /\ 0 + d = d
    OBVIOUS
  <2> QED
    BY <1>11, <2>1, <2>2
<1>13. got' = Read(sent', Nothing)[Drawn']
  BY <1>2, <1>5, <1>7, <1>12 DEF SseInv
<1>14. Within(buf', 0, sent', Drawn')
  <2>1. 0 \in 0 .. Len(buf') /\ d + 0 <= Len(sent') /\ (d = 0 \/ sent'[d] = NL)
    BY <1>4, <1>5, <1>6, <1>9
  <2> QED
    BY <1>6, <1>7, <2>1 DEF Within
<1>15. SseTypeOK'
  BY <1>2, <1>3, <1>6 DEF SseTypeOK, SseInv
<1> QED
  BY <1>2, <1>7, <1>8, <1>9, <1>13, <1>14, <1>15 DEF SseInv

LEMMA DecodeKeeps == SseInv /\ Decode => SseInv'
<1> SUFFICES ASSUME SseInv, Decode PROVE SseInv'
  OBVIOUS
<1>1. PICK m : m = FindSeparator(buf) + 1
  OBVIOUS
<1> DEFINE event == SubSeq(buf, 1, m)
<1>2. /\ got' = Read(event, got)[m] /\ buf' = SubSeq(buf, m + 1, Len(buf)) /\ sent' = sent
      /\ handed' = handed /\ spent' = spent /\ body = "reading" /\ ~Drained
      /\ body' = IF got'.fine THEN "reading" ELSE "failed"
  BY <1>1 DEF Decode
<1>3. sent \in Seq(Bytes) /\ buf \in Seq(Bytes) /\ got \in Gots
  BY DEF SseInv, SseTypeOK
<1>4. PICK a, b \in Nat : a = Len(sent) /\ b = Len(buf)
  BY <1>3
<1>5. PICK d \in Nat : d = Drawn /\ d + b = a
  <2>1. Drawn \in Nat
    BY DEF SseInv, Within
  <2>2. Drawn + b = a
    BY <1>4 DEF Drawn
  <2> QED
    BY <2>1, <2>2
<1>6. m \in 2 .. b /\ buf[m] = NL /\ buf[m - 1] = NL
  BY <1>1, <1>2, <1>3, <1>4, SeparatorFound
<1>7. /\ event \in Seq(Bytes) /\ Len(event) = m /\ \A i \in 1 .. m : event[i] = buf[i]
      /\ buf' \in Seq(Bytes) /\ Len(buf') = b - m /\ \A i \in 1 .. (b - m) : buf'[i] = buf[m + i]
  BY <1>2, <1>3, <1>4, <1>6
<1>8. Drawn' = d + m
  <2>1. Drawn' = Len(sent') - Len(buf') /\ Len(sent') = a /\ Len(buf') = b - m
    BY <1>2, <1>4, <1>7 DEF Drawn
  <2>2. m \in Nat /\ a - (b - m) = d + m
    BY <1>4, <1>5, <1>6
  <2> QED
    BY <2>1, <2>2
<1>9. \A i \in 1 .. b : buf[i] = sent[d + i]
  BY <1>4, <1>5 DEF SseInv
<1> HIDE DEF event
<1>10. Within(event, m, sent, d)
  <2>1. m \in 0 .. Len(event) /\ d + m <= Len(sent) /\ m >= 2 /\ m \in 1 .. m /\ m - 1 \in 1 .. m
    BY <1>4, <1>5, <1>6, <1>7
  <2>2. \A i \in 1 .. m : event[i] = sent[d + i]
    BY <1>4, <1>6, <1>7, <1>9
  <2>3. d = 0 \/ sent[d] = NL
    BY <1>5 DEF SseInv
  <2>4. event[m] = NL /\ event[m - 1] = NL
    BY <1>6, <1>7, <2>1
  <2> QED
    BY <1>3, <1>7, <2>1, <2>2, <2>3, <2>4 DEF Within
<1>11. got = Read(sent, Nothing)[d]
  BY <1>5 DEF SseInv
<1>12. got' = Read(sent, Nothing)[d + m] /\ got' \in Gots
  <2>1. m \in 0 .. m /\ m \in Nat
    BY <1>6
  <2>2. Read(event, got)[m] = Read(sent, Nothing)[d + m]
    BY <1>10, <1>11, <2>1, NothingFits, ReadsAlike
  <2> QED
    BY <1>2, <1>3, <2>1, <2>2, ReadIs
<1>13. sent[d + m] = NL /\ sent[d + m - 1] = NL /\ d + m >= 2
  <2>1. m \in 1 .. b /\ m - 1 \in 1 .. b /\ d + (m - 1) = d + m - 1 /\ d + m >= 2
    BY <1>4, <1>6
  <2>2. buf[m] = sent[d + m] /\ buf[m - 1] = sent[d + (m - 1)]
    BY <1>9, <2>1
  <2> QED
    BY <1>6, <2>1, <2>2
<1>14. \A i \in 1 .. Len(buf') : buf'[i] = sent'[Drawn' + i]
  <2> SUFFICES ASSUME NEW i \in 1 .. (b - m) PROVE buf'[i] = sent[d + m + i]
    BY <1>2, <1>7, <1>8
  <2>1. m + i \in 1 .. b /\ d + (m + i) = d + m + i
    BY <1>4, <1>6
  <2> QED
    BY <1>7, <1>9, <2>1
<1>15. Within(buf', 0, sent', Drawn')
  <2>1. 0 \in 0 .. Len(buf') /\ d + m \in Nat /\ d + m + 0 <= Len(sent')
    BY <1>2, <1>4, <1>5, <1>6, <1>7
  <2> QED
    BY <1>2, <1>3, <1>7, <1>8, <1>13, <2>1 DEF Within
<1>16. SseTypeOK'
  BY <1>2, <1>3, <1>7, <1>12 DEF SseTypeOK
<1>17. got'.fine \in BOOLEAN
  BY <1>12 DEF Gots
<1>18. handed = <<>> /\ spent = None
  BY <1>2 DEF SseInv
<1>19. handed' = <<>> /\ spent' = None /\ body' # "ended" /\ (body' = "reading" \/ ~got'.fine)
      /\ (~got'.fine => body' = "failed")
  BY <1>2, <1>17, <1>18
<1>20. got' = Read(sent', Nothing)[Drawn']
  BY <1>2, <1>8, <1>12
<1>21. Drawn' >= 2 /\ sent'[Drawn'] = NL /\ sent'[Drawn' - 1] = NL
  <2>1. PICK e : e = d + m
    OBVIOUS
  <2>2. e >= 2 /\ sent[e] = NL /\ sent[e - 1] = NL
    BY <1>6, <1>13, <2>1
  <2>3. Drawn' = e /\ sent' = sent
    BY <1>2, <1>8, <2>1
  <2> QED
    BY <2>2, <2>3
<1> QED
  BY <1>14, <1>15, <1>16, <1>19, <1>20, <1>21 DEF SseInv

LEMMA SseKept == SseInv /\ [SseNext]_sseVars => SseInv'
<1> SUFFICES ASSUME SseInv, [SseNext]_sseVars PROVE SseInv'
  OBVIOUS
<1>1. CASE Receive
  BY <1>1, ReceiveKeeps
<1>2. CASE Decode
  BY <1>2, DecodeKeeps
<1>3. CASE Break \/ End
  <2>1. sent' = sent /\ buf' = buf /\ got' = got /\ body = "reading" /\ Drained
    BY <1>3 DEF Break, End
  <2>2. Drawn' = Drawn /\ Drained'
    BY <2>1 DEF Drawn, Drained, Separators, IsSeparator
  <2>3. SseTypeOK' /\ Within(buf', 0, sent', Drawn')
    BY <1>3, <2>1, <2>2 DEF SseInv, SseTypeOK, Break, End
  <2>4. got.fine
    BY <2>1 DEF SseInv
  <2>5. IF body' = "ended" THEN handed' = Finalize(got'.acc) /\ spent' = got'.usage
        ELSE handed' = <<>> /\ spent' = None
    BY <1>3, <2>1 DEF SseInv, Break, End
  <2> QED
    BY <2>1, <2>2, <2>3, <2>4, <2>5 DEF SseInv
<1>4. CASE UNCHANGED sseVars
  <2>1. UNCHANGED <<sent, buf, got, handed, spent, body>>
    BY <1>4 DEF sseVars
  <2> QED
    BY <2>1 DEF SseInv, SseTypeOK, Within, Drawn, Drained, Separators, IsSeparator
<1> QED
  BY <1>1, <1>2, <1>3, <1>4 DEF SseNext

-----------------------------------------------------------------------------
\* The lines that were drained are the ones that count.

LEMMA DrawnBytes ==
  ASSUME SseInv
  PROVE  /\ Drawn \in Nat /\ Drawn <= Len(sent) /\ Len(sent) \in Nat
         /\ \A n \in 1 .. Drawn : IsDataLine(sent, n) => n + 2 <= Drawn
         /\ \A n \in 1 .. Drawn : n \in DataLines <=> IsDataLine(sent, n)
         /\ Drained => \A n \in DataLines : n <= Drawn
<1>1. Drawn \in Nat /\ Drawn <= Len(sent) /\ Len(sent) \in Nat /\ sent \in Seq(Bytes)
  BY DEF SseInv, SseTypeOK, Within
<1>2. PICK d \in Nat : d = Drawn
  BY <1>1
<1>3. d = 0 \/ (d >= 2 /\ sent[d] = NL /\ sent[d - 1] = NL)
  BY <1>2 DEF SseInv
<1>4. Within(sent, d, sent, 0)
  BY <1>1, <1>2, <1>3 DEF Within
<1>5. \A n \in 1 .. d : IsDataLine(sent, n) => n + 2 <= d
  BY <1>4, SameLines
<1>6. ASSUME NEW n \in 1 .. d PROVE n \in DataLines <=> IsDataLine(sent, n)
  <2>1. ASSUME IsDataLine(sent, n) PROVE Delivered(n)
    <3>1. n + 2 <= d
      BY <1>5, <2>1
    <3>2. d - 1 \in n + 1 .. Len(sent) - 1 /\ d >= 2
      BY <1>1, <1>2, <3>1
    <3>3. IsSeparator(sent, d - 1)
      <4>1. d - 1 + 1 = d
        OBVIOUS
      <4> QED
        BY <1>3, <3>2, <4>1 DEF IsSeparator
    <3> QED
      BY <3>2, <3>3 DEF Delivered
  <2>2. n \in 1 .. Len(sent)
    BY <1>1, <1>2
  <2> QED
    BY <2>1, <2>2 DEF DataLines
<1>7. ASSUME Drained, NEW n \in DataLines PROVE n <= d
  <2>1. n \in 1 .. Len(sent) /\ Delivered(n)
    BY <1>7 DEF DataLines
  <2>2. PICK j \in n + 1 .. Len(sent) - 1 : IsSeparator(sent, j)
    BY <2>1 DEF Delivered
  <2>3. PICK b \in Nat : b = Len(buf)
    BY DEF SseInv, SseTypeOK
  <2>4. Len(sent) = d + b
    BY <1>1, <1>2, <2>3 DEF Drawn
  <2>5. CASE n <= d
    BY <2>5
  <2>6. CASE n > d
    <3>1. PICK k : k = j - d
      OBVIOUS
    <3>2. k \in 1 .. b - 1 /\ j = d + k /\ j + 1 = d + (k + 1) /\ k \in 1 .. b /\ k + 1 \in 1 .. b
      BY <2>1, <2>2, <2>3, <2>4, <2>6, <3>1
    <3>3. buf[k] = sent[d + k] /\ buf[k + 1] = sent[d + (k + 1)]
      BY <1>2, <2>3, <3>2 DEF SseInv
    <3>4. k \in Separators(buf)
      BY <2>2, <2>3, <3>2, <3>3 DEF Separators, IsSeparator
    <3> QED
      BY <1>7, <3>4 DEF Drained
  <2> QED
    BY <1>1, <2>1, <2>5, <2>6
<1> QED
  BY <1>1, <1>2, <1>5, <1>6, <1>7

\* What the reader has after n bytes.
At(n) == Read(sent, Nothing)[n]

LEMMA AtIs ==
  /\ At(0) = Nothing
  /\ \A n \in Nat : At(n) \in Gots
  /\ \A n \in Nat \ {0} : At(n) = ReadLine(sent, n, At(n - 1))
  BY NothingFits, ReadIs DEF At

LEMMA FineMeans ==
  ASSUME SseInv
  PROVE  \A n \in 0 .. Drawn : At(n).fine <=> \A j \in Spoiled : j > n
<1> DEFINE T == {n \in Nat : At(n).fine <=> \A j \in Spoiled : j > n}
<1>1. Drawn \in Nat
  BY DrawnBytes
<1>2. Spoiled \subseteq Nat \ {0}
  BY DEF Spoiled, DataLines
<1>3. 0 \in T
  <2>1. At(0).fine
    BY AtIs DEF Nothing
  <2> QED
    BY <1>2, <2>1
<1>4. ASSUME NEW n \in Nat, n < Drawn, n \in T PROVE n + 1 \in T
  <2>1. PICK k \in Nat \ {0} : k = n + 1 /\ k - 1 = n
    OBVIOUS
  <2>2. At(k) = ReadLine(sent, k, At(n)) /\ At(n) \in Gots /\ k \in 1 .. Drawn
    BY <1>1, <1>4, <2>1, AtIs
  <2>3. At(n).fine \in BOOLEAN /\ (At(n).fine <=> \A j \in Spoiled : j > n)
    BY <1>4, <2>2 DEF Gots
  <2>4. k \in Spoiled <=> IsDataLine(sent, k) /\ ~Sentinel(sent, k) /\ ~Parses(sent, k)
    BY <2>2, DrawnBytes DEF Spoiled
  <2>5. At(k).fine <=> At(n).fine /\ k \notin Spoiled
    <3>1. CASE ~At(n).fine \/ ~IsDataLine(sent, k) \/ Sentinel(sent, k)
      BY <2>2, <2>4, <3>1 DEF ReadLine
    <3>2. CASE At(n).fine /\ IsDataLine(sent, k) /\ ~Sentinel(sent, k) /\ Parses(sent, k)
      <4>1. At(k) = Take(At(n), ChunkOf[sent[k + 1]]) /\ sent[k + 1] \in Payloads
        BY <2>2, <3>2 DEF ReadLine, Parses
      <4>2. At(k).fine = At(n).fine
        BY <2>2, <4>1, TakeFits
      <4> QED
        BY <2>4, <3>2, <4>2
    <3>3. CASE At(n).fine /\ IsDataLine(sent, k) /\ ~Sentinel(sent, k) /\ ~Parses(sent, k)
      <4>1. At(k) = [At(n) EXCEPT !.fine = FALSE]
        BY <2>2, <3>3 DEF ReadLine
      <4>2. ~At(k).fine
        BY <2>2, <4>1 DEF Gots
      <4> QED
        BY <2>4, <3>3, <4>2
    <3> QED
      BY <3>1, <3>2, <3>3
  <2>6. (\A j \in Spoiled : j > k) <=> (\A j \in Spoiled : j > n) /\ k \notin Spoiled
    BY <1>2, <2>1
  <2>7. k \in T
    BY <2>3, <2>5, <2>6
  <2> QED
    BY <2>1, <2>7
<1> HIDE DEF T
<1>5. 0 .. Drawn \subseteq T
  BY <1>1, <1>3, <1>4, Reaches
<1> QED
  BY <1>5 DEF T

\* A line that counts is taken, and no other byte brings anything.
LEMMA CountedIsTaken ==
  ASSUME SseInv, NEW n \in 1 .. Drawn
  PROVE  /\ n \in Counted => sent[n + 1] \in Payloads /\ At(n) = Take(At(n - 1), Meant(n))
         /\ n \notin Counted => /\ At(n).shown = At(n - 1).shown
                               /\ At(n).acc = At(n - 1).acc
                               /\ At(n).usage = At(n - 1).usage
<1>1. n \in Nat \ {0} /\ n - 1 \in 0 .. Drawn /\ n - 1 \in Nat
  BY DrawnBytes
<1>2. At(n) = ReadLine(sent, n, At(n - 1)) /\ At(n - 1) \in Gots
  BY <1>1, AtIs
<1>3. At(n - 1).fine \in BOOLEAN /\ (At(n - 1).fine <=> \A j \in Spoiled : j > n - 1)
  BY <1>1, <1>2, FineMeans DEF Gots
<1>4. n \in DataLines <=> IsDataLine(sent, n)
  BY DrawnBytes
<1>5. n \in Counted <=> IsDataLine(sent, n) /\ Parses(sent, n) /\ At(n - 1).fine
  <2>1. ASSUME Parses(sent, n) PROVE (\A j \in Spoiled : j > n - 1) <=> (\A j \in Spoiled : n < j)
    <3>1. n \notin Spoiled /\ Spoiled \subseteq Nat
      BY <2>1 DEF Spoiled, DataLines
    <3> QED
      BY <1>1, <3>1
  <2> QED
    BY <1>3, <1>4, <2>1 DEF Counted
<1>6. Parses(sent, n) => ~Sentinel(sent, n)
  BY BodyAssumption DEF Parses, Sentinel
<1>7. CASE n \in Counted
  <2>1. At(n) = Take(At(n - 1), Meant(n))
    BY <1>2, <1>5, <1>6, <1>7 DEF ReadLine, Meant
  <2> QED
    BY <1>5, <1>7, <2>1 DEF Parses
<1>8. CASE n \notin Counted
  <2>1. At(n) = At(n - 1) \/ At(n) = [At(n - 1) EXCEPT !.fine = FALSE]
    BY <1>2, <1>5, <1>8 DEF ReadLine
  <2> QED
    BY <1>2, <1>8, <2>1 DEF Gots
<1> QED
  BY <1>7, <1>8

\* Nothing that counts is still in the buffer.
LEMMA CountedIsDrawn ==
  ASSUME SseInv, Drained \/ body = "failed"
  PROVE  /\ Counted \subseteq 1 .. Drawn
         /\ body # "failed" => Spoiled = {}
         /\ got = At(Drawn)
<1>1. got = At(Drawn)
  BY DEF SseInv, At
<1>2. Drawn \in Nat /\ Drawn \in 0 .. Drawn
  BY DrawnBytes
<1>3. got.fine <=> \A j \in Spoiled : j > Drawn
  BY <1>1, <1>2, FineMeans
<1>4. Counted \subseteq DataLines /\ Spoiled \subseteq DataLines /\ DataLines \subseteq Nat \ {0}
  BY DEF Counted, Spoiled, DataLines
<1>5. CASE ~got.fine
  <2>1. PICK j \in Spoiled : ~(j > Drawn)
    BY <1>3, <1>5
  <2>2. \A i \in Counted : i < j
    BY <2>1 DEF Counted
  <2>3. body = "failed"
    BY <1>5 DEF SseInv
  <2>4. ASSUME NEW i \in Counted PROVE i \in 1 .. Drawn
    <3>1. i \in Nat \ {0} /\ j \in Nat /\ i < j /\ ~(j > Drawn)
      BY <1>4, <2>1, <2>2
    <3> QED
      BY <1>2, <3>1
  <2> QED
    BY <1>1, <2>3, <2>4
<1>6. CASE got.fine
  <2>1. Drained
    BY <1>6 DEF SseInv
  <2>2. \A i \in DataLines : i <= Drawn
    BY <2>1, DrawnBytes
  <2>3. ASSUME NEW j \in Spoiled PROVE FALSE
    <3>1. j > Drawn /\ j <= Drawn /\ j \in Nat
      BY <1>3, <1>4, <1>6, <2>2
    <3> QED
      BY <1>2, <3>1
  <2>4. ASSUME NEW i \in Counted PROVE i \in 1 .. Drawn
    <3>1. i \in Nat \ {0} /\ i <= Drawn
      BY <1>4, <2>2
    <3> QED
      BY <1>2, <3>1
  <2> QED
    BY <1>1, <2>3, <2>4
<1> QED
  BY <1>5, <1>6

-----------------------------------------------------------------------------
\* Values that come in the order of their places.

\* q lists the values of f at the places in S, which are in ascending order.
Lists(q, S, f) ==
  \E place \in [DOMAIN q -> S] :
    /\ Enumerates(place, S)
    /\ \A k \in DOMAIN place : q[k] = f[place[k]]

LEMMA ListsNone == ASSUME NEW f PROVE Lists(<<>>, {}, f)
<1>1. DOMAIN <<>> = {}
  OBVIOUS
<1> DEFINE place == [k \in {} |-> k]
<1>2. place \in [DOMAIN <<>> -> {}] /\ Enumerates(place, {})
  BY <1>1 DEF Enumerates, Range
<1> QED
  BY <1>1, <1>2 DEF Lists

LEMMA ListsMore ==
  ASSUME NEW V, NEW q \in Seq(V), NEW S \in SUBSET Nat, NEW f, Lists(q, S, f),
         NEW n \in Nat, \A m \in S : m < n, f[n] \in V
  PROVE  Lists(Append(q, f[n]), S \cup {n}, f)
<1>1. PICK c \in Nat : c = Len(q)
  OBVIOUS
<1>2. DOMAIN q = 1 .. c
  BY <1>1
<1>3. PICK place \in [1 .. c -> S] : Enumerates(place, S) /\ \A k \in 1 .. c : q[k] = f[place[k]]
  BY <1>2 DEF Lists
<1> DEFINE r == Append(q, f[n])
           next == [k \in 1 .. (c + 1) |-> IF k = c + 1 THEN n ELSE place[k]]
<1>4. DOMAIN r = 1 .. (c + 1) /\ (\A k \in 1 .. c : r[k] = q[k]) /\ r[c + 1] = f[n]
  BY <1>1
<1>5. \A k \in 1 .. (c + 1) : k # c + 1 => k \in 1 .. c
  BY <1>1
<1>6. next \in [1 .. (c + 1) -> S \cup {n}]
  BY <1>3, <1>5
<1>7. \A k \in 1 .. c : k # c + 1 /\ k \in 1 .. (c + 1) /\ next[k] = place[k]
  BY <1>1
<1>8. c + 1 \in 1 .. (c + 1) /\ next[c + 1] = n
  BY <1>1
<1> HIDE DEF next, r
<1>9. \A k \in 1 .. (c + 1) : r[k] = f[next[k]]
  BY <1>3, <1>4, <1>5, <1>7, <1>8
<1>10. Range(next) = S \cup {n}
  <2>1. Range(next) \subseteq S \cup {n}
    BY <1>6 DEF Range
  <2>2. n \in Range(next)
    BY <1>6, <1>8 DEF Range
  <2>3. S \subseteq Range(next)
    <3>1. ASSUME NEW m \in S PROVE m \in Range(next)
      <4>1. PICK k \in 1 .. c : place[k] = m
        BY <1>3 DEF Enumerates, Range
      <4> QED
        BY <1>6, <1>7, <4>1 DEF Range
    <3> QED
      BY <3>1
  <2> QED
    BY <2>1, <2>2, <2>3
<1>11. ASSUME NEW j \in 1 .. (c + 1), NEW k \in 1 .. (c + 1), j < k PROVE next[j] < next[k]
  <2>1. j \in 1 .. c
    BY <1>1, <1>11
  <2>2. CASE k \in 1 .. c
    BY <1>3, <1>7, <1>11, <2>1, <2>2 DEF Enumerates
  <2>3. CASE k = c + 1
    BY <1>3, <1>7, <1>8, <2>1, <2>3
  <2> QED
    BY <1>5, <2>2, <2>3
<1>12. Enumerates(next, S \cup {n})
  BY <1>6, <1>10, <1>11 DEF Enumerates
<1>13. Lists(r, S \cup {n}, f)
  BY <1>4, <1>6, <1>9, <1>12 DEF Lists
<1> QED
  BY <1>13 DEF r

LEMMA LastIsNew ==
  ASSUME NEW S \in SUBSET Nat, NEW n \in Nat, \A m \in S : m < n
  PROVE  LastOf(S \cup {n}) = n
<1>1. n \in S \cup {n} /\ \A m \in S \cup {n} : m <= n
  OBVIOUS
<1>2. ASSUME NEW k \in S \cup {n}, \A m \in S \cup {n} : m <= k PROVE k = n
  <2>1. n <= k
    BY <1>2
  <2> QED
    BY <1>2, <2>1
<1> QED
  BY <1>1, <1>2 DEF LastOf

\* What is given up to n of a set of places.
Upto(S, n) == S \cap 1 .. n

LEMMA UptoGrows ==
  ASSUME NEW S, NEW n \in Nat, NEW k \in Nat, k = n + 1
  PROVE  /\ Upto(S, k) = IF k \in S THEN Upto(S, n) \cup {k} ELSE Upto(S, n)
         /\ Upto(S, n) \in SUBSET Nat
         /\ \A m \in Upto(S, n) : m < k
  BY DEF Upto

-----------------------------------------------------------------------------
\* The texts.

Say == [n \in Nat |-> Meant(n).text]

LEMMA CountedFits ==
  ASSUME SseInv, NEW n \in Counted, n \in 1 .. Drawn
  PROVE  /\ Meant(n).text \in Texts \cup {None}
         /\ Meant(n).delta \in Deltas \cup {None}
         /\ Meant(n).usage \in Nat \cup {None}
  BY CountedIsTaken, BodyAssumption DEF Meant

LEMMA TextsAreListed ==
  ASSUME SseInv
  PROVE  \A n \in 0 .. Drawn : Lists(At(n).shown, Upto(Spoken, n), Say)
<1> DEFINE T == {n \in Nat : Lists(At(n).shown, Upto(Spoken, n), Say)}
<1>1. Drawn \in Nat
  BY DrawnBytes
<1>2. 0 \in T
  <2>1. At(0).shown = <<>> /\ Upto(Spoken, 0) = {}
    BY AtIs DEF Nothing, Upto
  <2> QED
    BY <2>1, ListsNone
<1>3. ASSUME NEW n \in Nat, n < Drawn, n \in T PROVE n + 1 \in T
  <2>1. PICK k \in Nat \ {0} : k = n + 1 /\ k - 1 = n /\ k \in 1 .. Drawn
    BY <1>1, <1>3
  <2>2. /\ Upto(Spoken, k) = IF k \in Spoken THEN Upto(Spoken, n) \cup {k} ELSE Upto(Spoken, n)
        /\ Upto(Spoken, n) \in SUBSET Nat
        /\ \A m \in Upto(Spoken, n) : m < k
    BY <2>1, UptoGrows
  <2>3. Upto(Spoken, n) \in SUBSET Nat /\ \A m \in Upto(Spoken, n) : m < k
    BY <2>2
  <2>4. Lists(At(n).shown, Upto(Spoken, n), Say) /\ At(n).shown \in Seq(Texts) /\ At(n) \in Gots
    BY <1>3, AtIs DEF Gots
  <2>5. CASE k \notin Counted
    <3>1. At(k).shown = At(n).shown /\ k \notin Spoken
      BY <2>1, <2>5, CountedIsTaken DEF Spoken
    <3> QED
      BY <2>1, <2>2, <2>4, <3>1
  <2>6. CASE k \in Counted
    <3>1. At(k) = Take(At(n), Meant(k)) /\ Meant(k).text \in Texts \cup {None}
      BY <2>1, <2>6, CountedIsTaken, CountedFits
    <3>2. At(k).shown = IF Meant(k).text = None THEN At(n).shown ELSE Append(At(n).shown, Meant(k).text)
      BY <2>4, <3>1 DEF Take, Gots
    <3>3. k \in Spoken <=> Meant(k).text # None
      BY <2>6 DEF Spoken
    <3>4. Say[k] = Meant(k).text
      BY DEF Say
    <3>5. CASE Meant(k).text = None
      BY <2>1, <2>2, <2>4, <3>2, <3>3, <3>5
    <3>6. CASE Meant(k).text # None
      <4>1. Say[k] \in Texts
        BY <3>1, <3>4, <3>6
      <4>2. Lists(Append(At(n).shown, Say[k]), Upto(Spoken, n) \cup {k}, Say)
        BY <2>3, <2>4, <4>1, ListsMore
      <4> QED
        BY <2>1, <2>2, <3>2, <3>3, <3>4, <3>6, <4>2
    <3> QED
      BY <3>5, <3>6
  <2> QED
    BY <2>5, <2>6
<1> HIDE DEF T
<1>4. 0 .. Drawn \subseteq T
  BY <1>1, <1>2, <1>3, Reaches
<1> QED
  BY <1>4 DEF T

LEMMA TextsAreSent == SseInv => TextAsSent
<1> SUFFICES ASSUME SseInv, Drained \/ body = "failed"
             PROVE  /\ body # "failed" => Spoiled = {}
                    /\ \E place \in [DOMAIN got.shown -> Spoken] :
                          /\ Enumerates(place, Spoken)
                          /\ \A k \in DOMAIN place : got.shown[k] = Meant(place[k]).text
  BY DEF TextAsSent
<1>1. Counted \subseteq 1 .. Drawn /\ (body # "failed" => Spoiled = {}) /\ got = At(Drawn)
  BY CountedIsDrawn
<1>5. Drawn \in Nat /\ Spoken \subseteq Counted /\ Spoken \subseteq Nat
  <2>1. Drawn \in Nat /\ Spoken \subseteq Counted
    BY DrawnBytes DEF Spoken
  <2> QED
    BY <1>1, <2>1
<1>2. Upto(Spoken, Drawn) = Spoken /\ Drawn \in 0 .. Drawn
  <2>1. Spoken \subseteq 1 .. Drawn
    BY <1>1, <1>5
  <2>2. Drawn \in 0 .. Drawn
    BY <1>5
  <2> QED
    BY <2>1, <2>2 DEF Upto
<1>3. Lists(got.shown, Spoken, Say)
  BY <1>1, <1>2, TextsAreListed
<1>4. PICK place \in [DOMAIN got.shown -> Spoken] :
        Enumerates(place, Spoken) /\ \A k \in DOMAIN place : got.shown[k] = Say[place[k]]
  BY <1>3 DEF Lists
<1>6. \A k \in DOMAIN place : Say[place[k]] = Meant(place[k]).text
  BY <1>4, <1>5 DEF Say
<1> QED
  BY <1>1, <1>4, <1>6

-----------------------------------------------------------------------------
\* The calls and the usage.

LEMMA PartsFit ==
  ASSUME NEW n \in Counted
  PROVE  /\ n \in Nat
         /\ Meant(n).delta \in Deltas \cup {None}
         /\ Meant(n).usage \in Nat \cup {None}
<1>1. sent[n + 1] \in Payloads /\ n \in Nat
  BY DEF Counted, DataLines, Parses
<1> QED
  BY <1>1, BodyAssumption DEF Meant

LEMMA LastIn ==
  ASSUME NEW S, NEW n \in Nat, Upto(S, n) # {}
  PROVE  LastOf(Upto(S, n)) \in Upto(S, n)
<1> DEFINE T == {m \in Nat : Upto(S, m) # {} => LastOf(Upto(S, m)) \in Upto(S, m)}
<1>1. 0 \in T
  BY DEF Upto
<1>2. ASSUME NEW m \in Nat, m \in T PROVE m + 1 \in T
  <2>1. PICK k \in Nat : k = m + 1
    OBVIOUS
  <2>2. /\ Upto(S, k) = IF k \in S THEN Upto(S, m) \cup {k} ELSE Upto(S, m)
        /\ Upto(S, m) \in SUBSET Nat
        /\ \A j \in Upto(S, m) : j < k
    BY <2>1, UptoGrows
  <2>3. CASE k \in S
    <3>1. LastOf(Upto(S, m) \cup {k}) = k
      BY <2>2, LastIsNew
    <3> QED
      BY <2>1, <2>2, <2>3, <3>1
  <2>4. CASE k \notin S
    BY <1>2, <2>1, <2>2, <2>4
  <2> QED
    BY <2>3, <2>4
<1> HIDE DEF T
<1>3. Nat \subseteq T
  BY <1>1, <1>2, ReachesAll
<1> QED
  BY <1>3 DEF T

\* The value at the last place of S up to n.
Given(S, f, n) == IF Upto(S, n) = {} THEN None ELSE f[LastOf(Upto(S, n))]

LEMMA GivenGrows ==
  ASSUME NEW S, NEW f, NEW n \in Nat, NEW k \in Nat, k = n + 1
  PROVE  Given(S, f, k) = IF k \in S THEN f[k] ELSE Given(S, f, n)
<1>1. /\ Upto(S, k) = IF k \in S THEN Upto(S, n) \cup {k} ELSE Upto(S, n)
      /\ Upto(S, n) \in SUBSET Nat
      /\ \A j \in Upto(S, n) : j < k
  BY UptoGrows
<1>2. CASE k \in S
  <2>1. LastOf(Upto(S, n) \cup {k}) = k
    BY <1>1, LastIsNew
  <2> QED
    BY <1>1, <1>2, <2>1 DEF Given
<1>3. CASE k \notin S
  BY <1>1, <1>3 DEF Given
<1> QED
  BY <1>2, <1>3

IdSaid == [n \in Nat |-> Meant(n).delta.id]
NameSaid == [n \in Nat |-> Meant(n).delta.name]
UsageSaid == [n \in Nat |-> Meant(n).usage]

LEMMA JoinedIs ==
  ASSUME NEW i
  PROVE  /\ Assembled(i)[0] = <<>>
         /\ \A n \in Nat \ {0} : Assembled(i)[n] = IF n \in PartsOf(i) THEN Assembled(i)[n - 1] \o Meant(n).delta.args
                                               ELSE Assembled(i)[n - 1]
<1> DEFINE One(n, x) == IF n \in PartsOf(i) THEN x \o Meant(n).delta.args ELSE x
           F == [n \in Nat |-> [x \in Seq(Texts) |-> One(n + 1, x)]]
           P(h) == h = [n \in Nat |-> IF n = 0 THEN <<>> ELSE One(n, h[n - 1])]
           r == CHOOSE h : P(h)
<1>1. ASSUME NEW n, NEW x \in Seq(Texts) PROVE One(n, x) \in Seq(Texts)
  <2>1. CASE n \in PartsOf(i)
    <3>1. Meant(n).delta \in Deltas
      BY <2>1, PartsFit DEF PartsOf
    <3>2. Meant(n).delta.args \in Seq(Texts)
      BY <3>1 DEF Deltas
    <3> QED
      BY <2>1, <3>2
  <2>2. CASE n \notin PartsOf(i)
    BY <2>2
  <2> QED
    BY <2>1, <2>2
<1> HIDE DEF One
<1>2. F \in [Nat -> [Seq(Texts) -> Seq(Texts)]]
  BY <1>1
<1>3. \A n \in Nat \ {0}, x \in Seq(Texts) : F[n - 1][x] = One(n, x)
  <2>1. ASSUME NEW n \in Nat \ {0}, NEW x \in Seq(Texts) PROVE F[n - 1][x] = One(n, x)
    <3>1. n - 1 \in Nat /\ n - 1 + 1 = n
      OBVIOUS
    <3>2. F[n - 1][x] = One(n - 1 + 1, x)
      BY <3>1
    <3> QED
      BY <3>1, <3>2
  <2> QED
    BY <2>1
<1>4. <<>> \in Seq(Texts)
  OBVIOUS
<1> HIDE DEF F
<1>5. PICK f \in [Nat -> Seq(Texts)] : f = [n \in Nat |-> IF n = 0 THEN <<>> ELSE F[n - 1][f[n - 1]]]
  <2>1. PICK S, x0 : S = Seq(Texts) /\ x0 = <<>>
    OBVIOUS
  <2>2. x0 \in S /\ F \in [Nat -> [S -> S]]
    BY <1>2, <1>4, <2>1
  <2>3. \E f \in [Nat -> S] : f = [n \in Nat |-> IF n = 0 THEN x0 ELSE F[n - 1][f[n - 1]]]
    BY <2>2, Recurs, SMTT(60)
  <2> QED
    BY <2>1, <2>3
<1>6. P(f)
  <2>1. ASSUME NEW n \in Nat \ {0} PROVE F[n - 1][f[n - 1]] = One(n, f[n - 1])
    <3>1. n - 1 \in Nat
      OBVIOUS
    <3> QED
      BY <1>3, <3>1
  <2>2. ASSUME NEW n \in Nat PROVE f[n] = IF n = 0 THEN <<>> ELSE One(n, f[n - 1])
    BY <1>5, <2>1
  <2>3. f = [n \in Nat |-> f[n]]
    OBVIOUS
  <2>4. f = [n \in Nat |-> IF n = 0 THEN <<>> ELSE One(n, f[n - 1])]
    BY <2>2, <2>3
  <2> QED
    BY <2>4
<1>7. P(r)
  BY <1>6
<1>8. r[0] = <<>> /\ \A n \in Nat \ {0} : r[n] = One(n, r[n - 1])
  <2> HIDE DEF r
  <2> QED
    BY <1>7
<1>9. Assembled(i) = r
  BY DEF Assembled, One
<1> HIDE DEF r
<1> QED
  BY <1>8, <1>9 DEF One

\* What ToolCallAcc holds of call i is what its parts up to there said.
LEMMA AccMeans ==
  ASSUME SseInv, NEW i \in Indices
  PROVE  \A n \in 0 .. Drawn :
           At(n).acc[i] = [id |-> Given(IdentifiedIn(i), IdSaid, n), name |-> Given(NamedIn(i), NameSaid, n),
                           args |-> Assembled(i)[n]]
<1> DEFINE Brought(n) == [id |-> Given(IdentifiedIn(i), IdSaid, n), name |-> Given(NamedIn(i), NameSaid, n),
                       args |-> Assembled(i)[n]]
           T == {n \in Nat : At(n).acc[i] = Brought(n)}
<1>1. Drawn \in Nat
  BY DrawnBytes
<1>2. 0 \in T
  <2>1. At(0).acc[i] = NoCall
    BY AtIs DEF Nothing
  <2>2. Given(IdentifiedIn(i), IdSaid, 0) = None /\ Given(NamedIn(i), NameSaid, 0) = None
    BY DEF Given, Upto
  <2> QED
    BY <2>1, <2>2, JoinedIs DEF NoCall
<1>3. ASSUME NEW n \in Nat, n < Drawn, n \in T PROVE n + 1 \in T
  <2>1. PICK k \in Nat \ {0} : k = n + 1 /\ k - 1 = n /\ k \in 1 .. Drawn
    BY <1>1, <1>3
  <2>2. /\ Given(IdentifiedIn(i), IdSaid, k) = IF k \in IdentifiedIn(i) THEN IdSaid[k] ELSE Given(IdentifiedIn(i), IdSaid, n)
        /\ Given(NamedIn(i), NameSaid, k) = IF k \in NamedIn(i) THEN NameSaid[k] ELSE Given(NamedIn(i), NameSaid, n)
    BY <2>1, GivenGrows
  <2>3. Assembled(i)[k] = IF k \in PartsOf(i) THEN Assembled(i)[n] \o Meant(k).delta.args ELSE Assembled(i)[n]
    BY <2>1, JoinedIs
  <2>4. At(n).acc[i] = Brought(n) /\ At(n) \in Gots /\ At(n).acc \in [Indices -> PartialCalls]
    BY <1>3, AtIs DEF Gots
  <2>5. CASE k \notin PartsOf(i)
    <3>1. k \notin IdentifiedIn(i) /\ k \notin NamedIn(i)
      BY <2>5 DEF IdentifiedIn, NamedIn
    <3>2. Brought(k) = Brought(n)
      BY <2>2, <2>3, <2>5, <3>1
    <3>3. At(k).acc[i] = At(n).acc[i]
      <4>1. CASE k \notin Counted
        BY <2>1, <4>1, CountedIsTaken
      <4>2. CASE k \in Counted
        <5>1. At(k) = Take(At(n), Meant(k)) /\ Meant(k).delta \in Deltas \cup {None}
          BY <2>1, <4>2, CountedIsTaken, PartsFit
        <5>2. At(k).acc = IF Meant(k).delta = None THEN At(n).acc ELSE Merge(At(n).acc, Meant(k).delta)
          BY <2>4, <5>1 DEF Take, Gots
        <5>3. Meant(k).delta = None \/ Meant(k).delta.index # i
          BY <2>5, <4>2 DEF PartsOf
        <5>4. PICK a \in [Indices -> PartialCalls] : a = At(n).acc
          BY <2>4
        <5>5. CASE Meant(k).delta # None
          <6>1. PICK d \in Deltas : d = Meant(k).delta
            BY <5>1, <5>5
          <6>2. d.index # i
            BY <5>3, <5>5, <6>1
          <6>3. Merge(a, d)[i] = a[i]
            BY <6>2, MergeFits
          <6> QED
            BY <5>2, <5>4, <5>5, <6>1, <6>3
        <5> QED
          BY <5>2, <5>4, <5>5
      <4> QED
        BY <4>1, <4>2
    <3>4. At(k).acc[i] = Brought(k)
      BY <2>4, <3>2, <3>3
    <3> QED
      BY <2>1, <3>4
  <2>6. CASE k \in PartsOf(i)
    <3>1. k \in Counted /\ Meant(k).delta # None /\ Meant(k).delta.index = i
      BY <2>6 DEF PartsOf
    <3>2. PICK d \in Deltas : d = Meant(k).delta
      BY <3>1, PartsFit
    <3>3. At(k) = Take(At(n), Meant(k))
      BY <2>1, <3>1, CountedIsTaken
    <3>4. At(k).acc = Merge(At(n).acc, d)
      BY <2>4, <3>1, <3>2, <3>3 DEF Take, Gots
    <3>5. PICK a \in [Indices -> PartialCalls] : a = At(n).acc
      BY <2>4
    <3>6. Merge(a, d)[i] = [id |-> IF d.id = None THEN a[i].id ELSE d.id,
                            name |-> IF d.name = None THEN a[i].name ELSE d.name,
                            args |-> a[i].args \o d.args]
      <4>1. i = d.index
        BY <3>1, <3>2
      <4> QED
        BY <4>1, MergeFits
    <3>7. At(k).acc[i] = Merge(a, d)[i]
      BY <3>4, <3>5
    <3>8. a[i] = Brought(n)
      BY <2>4, <3>5
    <3>9. /\ a[i].id = Given(IdentifiedIn(i), IdSaid, n)
          /\ a[i].name = Given(NamedIn(i), NameSaid, n)
          /\ a[i].args = Assembled(i)[n]
      BY <3>8
    <3>10. IdSaid[k] = d.id /\ NameSaid[k] = d.name
      BY <2>1, <3>2 DEF IdSaid, NameSaid
    <3>11. (k \in IdentifiedIn(i) <=> d.id # None) /\ (k \in NamedIn(i) <=> d.name # None)
      BY <2>6, <3>2 DEF IdentifiedIn, NamedIn
    <3>12. Given(IdentifiedIn(i), IdSaid, k) = IF d.id = None THEN a[i].id ELSE d.id
      BY <2>2, <3>9, <3>10, <3>11
    <3>13. Given(NamedIn(i), NameSaid, k) = IF d.name = None THEN a[i].name ELSE d.name
      BY <2>2, <3>9, <3>10, <3>11
    <3>14. Assembled(i)[k] = a[i].args \o d.args
      BY <2>3, <2>6, <3>2, <3>9
    <3>15. At(k).acc[i] = Brought(k)
      BY <3>6, <3>7, <3>12, <3>13, <3>14
    <3> QED
      BY <2>1, <3>15
  <2> QED
    BY <2>5, <2>6
<1> HIDE DEF T
<1>4. 0 .. Drawn \subseteq T
  BY <1>1, <1>2, <1>3, Reaches
<1> QED
  BY <1>4 DEF T

LEMMA UsageMeans ==
  ASSUME SseInv
  PROVE  \A n \in 0 .. Drawn : At(n).usage = Given(Billed, UsageSaid, n)
<1> DEFINE T == {n \in Nat : At(n).usage = Given(Billed, UsageSaid, n)}
<1>1. Drawn \in Nat
  BY DrawnBytes
<1>2. 0 \in T
  BY AtIs DEF Nothing, Given, Upto
<1>3. ASSUME NEW n \in Nat, n < Drawn, n \in T PROVE n + 1 \in T
  <2>1. PICK k \in Nat \ {0} : k = n + 1 /\ k - 1 = n /\ k \in 1 .. Drawn
    BY <1>1, <1>3
  <2>2. Given(Billed, UsageSaid, k) = IF k \in Billed THEN UsageSaid[k] ELSE Given(Billed, UsageSaid, n)
    BY <2>1, GivenGrows
  <2>3. At(n).usage = Given(Billed, UsageSaid, n) /\ At(n) \in Gots
    BY <1>3, AtIs
  <2>4. CASE k \notin Counted
    BY <2>1, <2>2, <2>3, <2>4, CountedIsTaken DEF Billed
  <2>5. CASE k \in Counted
    <3>1. At(k) = Take(At(n), Meant(k))
      BY <2>1, <2>5, CountedIsTaken
    <3>2. At(k).usage = IF Meant(k).usage = None THEN At(n).usage ELSE Meant(k).usage
      BY <2>3, <3>1 DEF Take, Gots
    <3>3. UsageSaid[k] = Meant(k).usage /\ (k \in Billed <=> Meant(k).usage # None)
      BY <2>5 DEF UsageSaid, Billed
    <3>4. At(k).usage = Given(Billed, UsageSaid, k)
      BY <2>2, <2>3, <3>2, <3>3
    <3> QED
      BY <2>1, <3>4
  <2> QED
    BY <2>4, <2>5
<1> HIDE DEF T
<1>4. 0 .. Drawn \subseteq T
  BY <1>1, <1>2, <1>3, Reaches
<1> QED
  BY <1>4 DEF T
\* The complete calls, in the order of their indices.
LEMMA FinalizeLists ==
  ASSUME NEW a \in [Indices -> PartialCalls]
  PROVE  Lists(Finalize(a), {i \in Indices : Complete(a, i)}, a)
<1> DEFINE V == {a[j] : j \in Nat}
           One(n, x) == IF Complete(a, n) THEN Append(x, a[n]) ELSE x
           F == [n \in Nat |-> [x \in Seq(V) |-> One(n, x)]]
           P(h) == h = [n \in Nat |-> IF n = 0 THEN <<>> ELSE One(n - 1, h[n - 1])]
           r == CHOOSE h : P(h)
           Whole(n) == {i \in 0 .. n - 1 : Complete(a, i)}
<1>1. ASSUME NEW n \in Nat, NEW x \in Seq(V) PROVE One(n, x) \in Seq(V)
  <2>1. PICK e, W : e = a[n] /\ W = V /\ e \in W
    OBVIOUS
  <2>2. Append(x, e) \in Seq(W)
    BY <2>1
  <2> QED
    BY <2>1, <2>2
<1> HIDE DEF One, V
<1>2. F \in [Nat -> [Seq(V) -> Seq(V)]]
  BY <1>1
<1>3. \A n \in Nat, x \in Seq(V) : F[n][x] = One(n, x)
  OBVIOUS
<1> HIDE DEF F
<1>4. PICK f \in [Nat -> Seq(V)] : f = [n \in Nat |-> IF n = 0 THEN <<>> ELSE F[n - 1][f[n - 1]]]
  <2>1. PICK S, x0, G : S = Seq(V) /\ x0 = <<>> /\ G = F
    OBVIOUS
  <2> HIDE DEF P, r, Whole
  <2>2. x0 \in S /\ G \in [Nat -> [S -> S]]
    BY <1>2, <2>1
  <2>3. \E f \in [Nat -> S] : f = [n \in Nat |-> IF n = 0 THEN x0 ELSE G[n - 1][f[n - 1]]]
    BY <2>2, Recurs, SMTT(60)
  <2> QED
    BY <2>1, <2>3
<1>5. P(f)
  <2>1. ASSUME NEW n \in Nat \ {0} PROVE F[n - 1][f[n - 1]] = One(n - 1, f[n - 1])
    <3>1. n - 1 \in Nat
      OBVIOUS
    <3> QED
      BY <1>3, <3>1
  <2>2. ASSUME NEW n \in Nat PROVE f[n] = IF n = 0 THEN <<>> ELSE One(n - 1, f[n - 1])
    BY <1>4, <2>1
  <2>3. f = [n \in Nat |-> f[n]]
    OBVIOUS
  <2>4. f = [n \in Nat |-> IF n = 0 THEN <<>> ELSE One(n - 1, f[n - 1])]
    BY <2>2, <2>3
  <2> QED
    BY <2>4
<1>6. P(r)
  BY <1>5
<1>7. r[0] = <<>> /\ \A n \in Nat \ {0} : r[n] = One(n - 1, r[n - 1])
  <2> HIDE DEF r
  <2> QED
    BY <1>6
<1>8. Finalize(a) = r[MaxIndex + 1]
  BY DEF Finalize, One
<1> HIDE DEF r
<1> DEFINE T == {n \in Nat : r[n] \in Seq(V) /\ Lists(r[n], Whole(n), a)}
<1>9. 0 \in T
  <2>1. Whole(0) = {}
    OBVIOUS
  <2>2. <<>> \in Seq(V)
    OBVIOUS
  <2> HIDE DEF Whole
  <2> QED
    BY <1>7, <2>1, <2>2, ListsNone
<1>10. ASSUME NEW n \in Nat, n < MaxIndex + 1, n \in T PROVE n + 1 \in T
  <2>1. PICK k \in Nat \ {0} : k = n + 1 /\ k - 1 = n
    OBVIOUS
  <2>2. r[k] = One(n, r[n])
    BY <1>7, <2>1
  <2>3. r[k] \in Seq(V)
    BY <1>1, <1>10, <2>2
  <2>4. /\ Whole(k) = IF Complete(a, n) THEN Whole(n) \cup {n} ELSE Whole(n)
        /\ Whole(n) \in SUBSET Nat
        /\ \A m \in Whole(n) : m < n
    <3>1. 0 .. k - 1 = 0 .. n - 1 \cup {n}
      BY <2>1
    <3> QED
      BY <3>1
  <2>5. Lists(r[n], Whole(n), a) /\ r[n] \in Seq(V)
    BY <1>10
  <2> HIDE DEF Whole
  <2>6. CASE Complete(a, n)
    <3>1. a[n] \in V
      BY DEF V
    <3>2. Lists(Append(r[n], a[n]), Whole(n) \cup {n}, a)
      BY <2>4, <2>5, <3>1, ListsMore
    <3> QED
      BY <2>1, <2>2, <2>3, <2>4, <2>6, <3>2 DEF One
  <2>7. CASE ~Complete(a, n)
    BY <2>1, <2>2, <2>3, <2>4, <2>5, <2>7 DEF One
  <2> QED
    BY <2>6, <2>7
<1>11. MaxIndex + 1 \in Nat /\ MaxIndex + 1 \in 0 .. MaxIndex + 1 /\ 0 .. MaxIndex + 1 - 1 = Indices
  BY BodyAssumption DEF Indices
<1>12. Whole(MaxIndex + 1) = {i \in Indices : Complete(a, i)}
  <2>1. PICK k \in Nat : k = MaxIndex + 1 /\ 0 .. k - 1 = Indices
    <3>1. MaxIndex \in Nat
      BY BodyAssumption
    <3> QED
      BY <3>1 DEF Indices
  <2>2. Whole(k) = {i \in Indices : Complete(a, i)}
    BY <2>1
  <2> QED
    BY <2>1, <2>2
<1> HIDE DEF T
<1>13. 0 .. MaxIndex + 1 \subseteq T
  BY <1>9, <1>10, <1>11, Reaches
<1>14. MaxIndex + 1 \in T
  BY <1>11, <1>13
<1> QED
  BY <1>8, <1>12, <1>14 DEF T

\* Behind the last part of a call its arguments stay as they are.
LEMMA JoinedStays ==
  ASSUME NEW i, NEW d \in Nat, NEW m \in Nat, d <= m, PartsOf(i) \subseteq 1 .. d
  PROVE  Assembled(i)[m] = Assembled(i)[d]
<1> DEFINE T == {n \in Nat : n >= d => Assembled(i)[n] = Assembled(i)[d]}
<1>1. 0 \in T
  <2>1. CASE d = 0
    BY <2>1
  <2>2. CASE d # 0
    BY <2>2
  <2> QED
    BY <2>1, <2>2
<1>2. ASSUME NEW n \in Nat, n \in T PROVE n + 1 \in T
  <2>1. PICK k \in Nat \ {0} : k = n + 1 /\ k - 1 = n
    OBVIOUS
  <2>2. CASE n >= d
    <3>1. k \notin PartsOf(i)
      BY <2>1, <2>2
    <3>2. Assembled(i)[k] = Assembled(i)[n]
      BY <2>1, <3>1, JoinedIs
    <3> QED
      BY <1>2, <2>1, <2>2, <3>2
  <2>3. CASE ~(n >= d)
    <3>1. k >= d => k = d
      BY <2>1, <2>3
    <3> QED
      BY <2>1, <3>1
  <2> QED
    BY <2>2, <2>3
<1> HIDE DEF T
<1>3. Nat \subseteq T
  BY <1>1, <1>2, ReachesAll
<1> QED
  BY <1>3 DEF T

LEMMA CallsAreWhole == SseInv => CallsWhole
<1> SUFFICES ASSUME SseInv PROVE CallsWhole
  OBVIOUS
<1>1. CASE body # "ended"
  BY <1>1 DEF SseInv, CallsWhole
<1>2. CASE body = "ended"
  <2> DEFINE whole == {i \in Indices : NamedIn(i) # {} /\ IdentifiedIn(i) # {}}
  <2>1. Drained /\ handed = Finalize(got.acc) /\ spent = got.usage
    BY <1>2 DEF SseInv
  <2>2. Counted \subseteq 1 .. Drawn /\ got = At(Drawn)
    BY <2>1, CountedIsDrawn
  <2>3. Drawn \in Nat /\ Drawn \in 0 .. Drawn /\ Len(sent) \in Nat /\ Drawn <= Len(sent)
    <3>1. Drawn \in Nat /\ Len(sent) \in Nat /\ Drawn <= Len(sent)
      BY DrawnBytes DEF SseInv, Within
    <3> QED
      BY <3>1
  <2>4. ASSUME NEW S \in SUBSET Counted PROVE Upto(S, Drawn) = S
    BY <2>2 DEF Upto
  <2>5. PICK a \in [Indices -> PartialCalls] : a = got.acc
    <3>1. got \in Gots
      BY <2>2, <2>3, AtIs
    <3> QED
      BY <3>1 DEF Gots
  <2>6. ASSUME NEW i \in Indices
        PROVE  /\ Complete(a, i) <=> i \in whole
               /\ i \in whole => a[i] = MeantCall(i)
    <3>1. PartsOf(i) \in SUBSET Counted /\ IdentifiedIn(i) \in SUBSET Counted /\ NamedIn(i) \in SUBSET Counted
      BY DEF PartsOf, IdentifiedIn, NamedIn
    <3>2. Upto(IdentifiedIn(i), Drawn) = IdentifiedIn(i) /\ Upto(NamedIn(i), Drawn) = NamedIn(i)
      BY <2>4, <3>1
    <3>3. Assembled(i)[Len(sent)] = Assembled(i)[Drawn]
      <4>1. PartsOf(i) \subseteq 1 .. Drawn
        BY <2>2, <3>1
      <4> QED
        BY <2>3, <4>1, JoinedStays
    <3>4. a[i] = [id |-> Given(IdentifiedIn(i), IdSaid, Drawn), name |-> Given(NamedIn(i), NameSaid, Drawn),
                  args |-> Assembled(i)[Drawn]]
      BY <2>2, <2>3, <2>5, AccMeans
    <3>5. /\ a[i].id = Given(IdentifiedIn(i), IdSaid, Drawn)
          /\ a[i].name = Given(NamedIn(i), NameSaid, Drawn)
          /\ a[i].args = Assembled(i)[Drawn]
      BY <3>4
    <3>6. ASSUME IdentifiedIn(i) # {}
          PROVE  /\ Given(IdentifiedIn(i), IdSaid, Drawn) = Meant(LastOf(IdentifiedIn(i))).delta.id
                 /\ Meant(LastOf(IdentifiedIn(i))).delta.id # None
      <4>1. PICK n : n = LastOf(IdentifiedIn(i)) /\ n \in IdentifiedIn(i)
        BY <2>3, <3>2, <3>6, LastIn
      <4>2. n \in Nat /\ Meant(n).delta.id # None
        BY <3>1, <4>1, PartsFit DEF IdentifiedIn
      <4>3. Given(IdentifiedIn(i), IdSaid, Drawn) = IdSaid[n]
        BY <3>2, <3>6, <4>1 DEF Given
      <4>4. IdSaid[n] = Meant(n).delta.id
        BY <4>2 DEF IdSaid
      <4> QED
        BY <4>1, <4>2, <4>3, <4>4
    <3>7. ASSUME NamedIn(i) # {}
          PROVE  /\ Given(NamedIn(i), NameSaid, Drawn) = Meant(LastOf(NamedIn(i))).delta.name
                 /\ Meant(LastOf(NamedIn(i))).delta.name # None
      <4>1. PICK n : n = LastOf(NamedIn(i)) /\ n \in NamedIn(i)
        BY <2>3, <3>2, <3>7, LastIn
      <4>2. n \in Nat /\ Meant(n).delta.name # None
        BY <3>1, <4>1, PartsFit DEF NamedIn
      <4>3. Given(NamedIn(i), NameSaid, Drawn) = NameSaid[n]
        BY <3>2, <3>7, <4>1 DEF Given
      <4>4. NameSaid[n] = Meant(n).delta.name
        BY <4>2 DEF NameSaid
      <4> QED
        BY <4>1, <4>2, <4>3, <4>4
    <3>8. /\ IdentifiedIn(i) = {} => Given(IdentifiedIn(i), IdSaid, Drawn) = None
          /\ NamedIn(i) = {} => Given(NamedIn(i), NameSaid, Drawn) = None
      BY <3>2 DEF Given
    <3>9. Complete(a, i) <=> i \in whole
      BY <3>5, <3>6, <3>7, <3>8 DEF Complete
    <3>10. ASSUME i \in whole PROVE a[i] = MeantCall(i)
      BY <3>3, <3>4, <3>6, <3>7, <3>10 DEF MeantCall
    <3> QED
      BY <3>9, <3>10
  <2>7. {i \in Indices : Complete(a, i)} = whole
    BY <2>6
  <2> HIDE DEF whole
  <2>8. Lists(handed, whole, a)
    BY <2>1, <2>5, <2>7, FinalizeLists
  <2>9. PICK order \in [DOMAIN handed -> whole] :
          Enumerates(order, whole) /\ \A k \in DOMAIN order : handed[k] = a[order[k]]
    BY <2>8 DEF Lists
  <2>10. \A k \in DOMAIN order : order[k] \in whole /\ order[k] \in Indices
    <3>1. whole \subseteq Indices
      BY DEF whole
    <3> QED
      BY <2>9, <3>1
  <2>11. \A k \in DOMAIN order : handed[k] = MeantCall(order[k])
    BY <2>6, <2>9, <2>10
  <2>12. spent = IF Billed = {} THEN None ELSE Meant(LastOf(Billed)).usage
    <3>1. Billed \in SUBSET Counted
      BY DEF Billed
    <3>2. Upto(Billed, Drawn) = Billed
      BY <2>4, <3>1
    <3>3. spent = Given(Billed, UsageSaid, Drawn)
      BY <2>1, <2>2, <2>3, UsageMeans
    <3>4. ASSUME Billed # {} PROVE UsageSaid[LastOf(Billed)] = Meant(LastOf(Billed)).usage
      <4>1. LastOf(Billed) \in Billed
        BY <2>3, <3>2, <3>4, LastIn
      <4>2. LastOf(Billed) \in Nat
        BY <3>1, <4>1, PartsFit
      <4> QED
        BY <4>2 DEF UsageSaid
    <3> QED
      BY <3>2, <3>3, <3>4 DEF Given
  <2> QED
    BY <1>2, <2>9, <2>11, <2>12 DEF CallsWhole, whole
<1> QED
  BY <1>1, <1>2

\* Wherever the reads cut the body, its invariant is kept (the loop over
\* find_separator in openai_compat.rs).
THEOREM BodyInvariant == SseSpec => []SseInv
<1>1. SseInit => SseInv
  BY SseStarts
<1>2. SseInv /\ [SseNext]_sseVars => SseInv'
  BY SseKept
<1> QED
  BY <1>1, <1>2, PTL DEF SseSpec

\* For every body and every way to cut it, the text handed on is that of its
\* delivered lines, each once and in order (chat_stream, openai_compat.rs).
THEOREM TextIsAsSent == SseSpec => []TextAsSent
<1>1. SseSpec => []SseInv
  BY BodyInvariant
<1>2. SseInv => TextAsSent
  BY TextsAreSent
<1> QED
  BY <1>1, <1>2, PTL

\* For every body, every number of calls and every interleaving of their
\* pieces, the calls handed on are those the lines describe, whole and in the
\* order of their indices (ToolCallAcc, openai_compat.rs).
THEOREM HandedCallsAreWhole == SseSpec => []CallsWhole
<1>1. SseSpec => []SseInv
  BY BodyInvariant
<1>2. SseInv => CallsWhole
  BY CallsAreWhole
<1> QED
  BY <1>1, <1>2, PTL
=============================================================================
