-------------------------------- MODULE Repl --------------------------------
(***************************************************************************)
(* The REPL (crates/orcarein/src/main.rs) around the agent loop: what it   *)
(* does with the live session after a turn, between turns and at startup,  *)
(* and what reaches the session files (orcarein-core: session.rs,          *)
(* compact.rs).                                                            *)
(*                                                                         *)
(* The REPL awaits run_turn and compact_session and reads no input during  *)
(* them, and nothing of a turn is on disk before it returns, so a turn is  *)
(* one action here: it appends whole rounds (AgentTurn, ImplementsContract *)
(* and Replayable).  Of the four modes only plan puts a block into the     *)
(* system prompt.                                                          *)
(***************************************************************************)
EXTENDS SessionLog

CONSTANTS
  Ids,           \* session ids: creation times in milliseconds
  None,          \* no session, no file
  Corrupt,       \* a session file cut short by a crash
  Keep,          \* KEEP_RECENT_USER_TURNS
  Batches,       \* bound of the model: the calls one reply may make
  MaxRounds,     \* bound of the model: rounds a turn appends
  MaxLog,        \* bound of the model: messages in a session
  MaxSpend,      \* bound of the model: requests a session records
  LateFailures,  \* turns may fail after the model has produced a reply
  ResumeAtStart  \* OrcaRein may be started with `session resume`

\* A session.  log: messages.  block, seat: whether the plan block stands in messages[0]
\* and in Session::system.  usage: requests recorded.  origin: history, the id
\* the session was created under.
Sessions == [log : Seq(Message), block : BOOLEAN, seat : BOOLEAN, usage : Nat, origin : Ids]

ASSUME ReplAssumption ==
  /\ None \notin Ids
  /\ None # Corrupt
  /\ {None, Corrupt} \cap Sessions = {}
  /\ Keep \in Nat \ {0}
  /\ Batches \subseteq Seq(CallIds) \ {<<>>}
  /\ {MaxRounds, MaxLog, MaxSpend} \subseteq Nat
  /\ {LateFailures, ResumeAtStart} \subseteq BOOLEAN

VARIABLES
  session,    \* the live Session, None while OrcaRein is not running
  sessionId,  \* the id it is saved under
  plan,       \* the SharedMode is Plan
  disk,       \* the session files, by id
  missed      \* history: ids whose last save failed

vars == <<session, sessionId, plan, disk, missed>>

Running == session # None

NewSession(id, p) == [log |-> <<SystemMsg>>, block |-> p, seat |-> p, usage |-> 0, origin |-> id]

\* set_system_prompt(apply_mode_block(current prompt, mode)): both copies.
WithBlock(s, p) == [s EXCEPT !.block = p, !.seat = p]

FreshIds == {id \in Ids : disk[id] = None} \ {sessionId}

Init ==
  /\ session = None
  /\ sessionId = None
  /\ plan \in BOOLEAN
  /\ disk = [id \in Ids |-> None]
  /\ missed = {}

-----------------------------------------------------------------------------
(* SessionStore::save: the file is rewritten whole, or not at all (the error *)
(* is a warning).                                                            *)

SavedAs(id, s) ==
  \/ /\ disk' = [disk EXCEPT ![id] = s]
     /\ missed' = missed \ {id}
  \/ /\ disk' = disk
     /\ missed' = missed \cup {id}

-----------------------------------------------------------------------------
(* Turns *)

CallRound(calls) == <<AssistantMsg(calls)>> \o [k \in 1..Len(calls) |-> ToolMsg(calls[k], FALSE)]
RejectedRound == <<AssistantMsg(<<>>), UserMsg>>
Rounds == {CallRound(calls) : calls \in Batches} \cup {RejectedRound}

\* Everything at most n rounds append.
Played[n \in Nat] ==
  IF n = 0 THEN {<<>>}
  ELSE Played[n - 1] \cup {p \o r : p \in Played[n - 1], r \in Rounds}

\* run_turn appends the final reply, or stops at the cap after a batch of calls.
Successes ==
  {p \o <<AssistantMsg(<<>>)>> : p \in Played[MaxRounds]}
    \cup {p \in Played[MaxRounds] : p # <<>> /\ p[Len(p)].role = "tool"}

\* A request fails: the first one leaves nothing, a later one whole rounds.
Failures == IF LateFailures THEN Played[MaxRounds] ELSE {<<>>}

Asked == Append(session.log, UserMsg)
Roomy(log) == Len(log) <= MaxLog

\* Mutant: a successful turn is not saved.
TurnSucceeds_Unsaved ==
  /\ Running /\ session.usage < MaxSpend
  /\ \E played \in Successes :
       LET s == [session EXCEPT !.log = Asked \o played, !.usage = @ + 1]
       IN  Roomy(s.log) /\ session' = s
  /\ UNCHANGED <<sessionId, plan, disk, missed>>

\* Ok: the session is saved under its id.
TurnSucceeds ==
  /\ Running /\ session.usage < MaxSpend
  /\ \E played \in Successes :
       LET s == [session EXCEPT !.log = Asked \o played, !.usage = @ + 1]
       IN  Roomy(s.log) /\ session' = s /\ SavedAs(sessionId, s)
  /\ UNCHANGED <<sessionId, plan>>

\* Err: pop_last, nothing saved, no usage recorded.
TurnFails ==
  /\ Running
  /\ \E played \in Failures :
       LET log == PopLast(Asked \o played)
       IN  Roomy(log) /\ session' = [session EXCEPT !.log = log]
  /\ UNCHANGED <<sessionId, plan, disk, missed>>

-----------------------------------------------------------------------------
(* Commands *)

\* Mutant: /clear resets the usage with the messages.
Clear_Usage ==
  /\ Running
  /\ session' = WithBlock([session EXCEPT !.log = Cleared, !.block = session.seat, !.usage = 0], plan)
  /\ UNCHANGED <<sessionId, plan, disk, missed>>

\* /clear: messages[0] is the seated prompt again, then the block is reapplied.
Clear ==
  /\ Running
  /\ session' = WithBlock([session EXCEPT !.log = Cleared, !.block = session.seat], plan)
  /\ UNCHANGED <<sessionId, plan, disk, missed>>

\* /compact with a summary; without one, or on an error, the session is untouched.
Compact ==
  /\ Running /\ session.usage < MaxSpend
  /\ CanCompact(session.log, Keep)
  /\ LET s == [session EXCEPT !.log = CompactAt(@, CompactionBoundary(@, Keep)), !.usage = @ + 1]
     IN  session' = s /\ SavedAs(sessionId, s)
  /\ UNCHANGED <<sessionId, plan>>

\* /mode: the SharedMode and the prompt change together.
SwitchMode(p) ==
  /\ Running
  /\ plan' = p
  /\ session' = WithBlock(session, p)
  /\ UNCHANGED <<sessionId, disk, missed>>

\* /save
Save ==
  /\ Running
  /\ SavedAs(sessionId, session)
  /\ UNCHANGED <<session, sessionId, plan>>

\* Mutant: the loaded session keeps the block it was saved with.
Resume_Verbatim(id) ==
  /\ Running
  /\ SavedAs(sessionId, session)
  /\ disk'[id] \notin {None, Corrupt}
  /\ session' = disk'[id]
  /\ sessionId' = id
  /\ UNCHANGED plan

\* Mutant: the session is swapped and its id is not.
Resume_KeepsId(id) ==
  /\ Running
  /\ SavedAs(sessionId, session)
  /\ disk'[id] \notin {None, Corrupt}
  /\ session' = WithBlock(disk'[id], plan)
  /\ UNCHANGED <<sessionId, plan>>

\* /resume: the live session is saved, then the file is loaded (it may be the
\* live session's own); the live mode's block replaces the file's.
Resume(id) ==
  /\ Running
  /\ SavedAs(sessionId, session)
  /\ disk'[id] \notin {None, Corrupt}
  /\ session' = WithBlock(disk'[id], plan)
  /\ sessionId' = id
  /\ UNCHANGED plan

\* /new
New(id) ==
  /\ Running
  /\ id \in FreshIds
  /\ SavedAs(sessionId, session)
  /\ session' = NewSession(id, plan)
  /\ sessionId' = id
  /\ UNCHANGED plan

-----------------------------------------------------------------------------
(* The process *)

Stop ==
  /\ Running
  /\ session' = None
  /\ sessionId' = None
  /\ UNCHANGED <<plan, disk, missed>>

\* The process dies inside fs::write, which truncates before it writes.
CrashInSave ==
  /\ Running
  /\ session' = None
  /\ sessionId' = None
  /\ disk' = [disk EXCEPT ![sessionId] = Corrupt]
  /\ UNCHANGED <<plan, missed>>

StartFresh(id, p) ==
  /\ ~Running
  /\ id \in FreshIds
  /\ session' = NewSession(id, p)
  /\ sessionId' = id
  /\ plan' = p
  /\ missed' = missed \ {id}
  /\ UNCHANGED disk

\* `session resume`: the loaded session keeps its frozen prompt.
StartResumed(id, p) ==
  /\ ~Running /\ ResumeAtStart
  /\ disk[id] \notin {None, Corrupt}
  /\ session' = disk[id]
  /\ sessionId' = id
  /\ plan' = p
  /\ UNCHANGED <<disk, missed>>

\* `session delete`; a corrupt file, which its listing skips, is removed by hand.
Delete(id) ==
  /\ ~Running
  /\ disk[id] # None
  /\ disk' = [disk EXCEPT ![id] = None]
  /\ UNCHANGED <<session, sessionId, plan, missed>>

Next ==
  \/ TurnSucceeds
  \/ TurnFails
  \/ Clear
  \/ Compact
  \/ \E p \in BOOLEAN : SwitchMode(p)
  \/ Save
  \/ \E id \in Ids : Resume(id)
  \/ \E id \in Ids : New(id)
  \/ Stop
  \/ CrashInSave
  \/ \E id \in Ids, p \in BOOLEAN : StartFresh(id, p)
  \/ \E id \in Ids, p \in BOOLEAN : StartResumed(id, p)
  \/ \E id \in Ids : Delete(id)

Spec == Init /\ [][Next]_vars

-----------------------------------------------------------------------------
(* Properties *)

\* The live transcript can be sent: turns, failed first requests, compactions,
\* resumes and clears never separate a tool call from its result (compact.rs:
\* "the cut never orphans a tool result").
Sendable == Running => WellFormed(session.log)

\* The prompt tells the model it is in plan mode exactly when it is: no turn,
\* command or compaction loses the match, and every switch of session or mode
\* restores it ("Reapply the live mode block").  Only a session resumed at the
\* start may begin without it.
BlockFollowsMode ==
  [][Running /\ Running' /\ (session.block = plan \/ <<sessionId, plan>>' # <<sessionId, plan>>) =>
       session'.block = plan']_vars

\* "Cumulative usage is preserved across clears": while a session is live its
\* recorded spend never goes down, unless a save has failed: /resume of the
\* live session's own id then loads the older file over it.
SpendNeverForgotten ==
  [][Running /\ sessionId' = sessionId /\ sessionId \notin missed' =>
       session'.usage >= session.usage]_vars

\* Every recorded turn is in the file of its own session by the next prompt,
\* unless the save failed: a crash between turns loses no successful turn
\* ("Auto-save after a successful turn"), and no /resume, /new or later save
\* writes one session over another's file.
TurnsAreSaved ==
  /\ Running /\ sessionId \notin missed =>
       session.usage = IF disk[sessionId] = None THEN 0 ELSE disk[sessionId].usage
  /\ Running => session.origin = sessionId
  /\ \A id \in Ids : disk[id] \notin {None, Corrupt} => disk[id].origin = id
=============================================================================
