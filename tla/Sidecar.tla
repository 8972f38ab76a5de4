------------------------------ MODULE Sidecar ------------------------------
(* orcarein-hardware's Sidecar: one Python child, one request at a time    *)
(* over line-delimited JSON, a timeout on the wait for the reply line and  *)
(* a kill when the exchange can no longer be trusted.                      *)
(*                                                                         *)
(* The child runs driver code, which may print to the protocol's own       *)
(* stdout, raise, hang or end the process.  A kill is asynchronous: until  *)
(* it takes effect the child may still do anything.                        *)
EXTENDS Naturals, Sequences

CONSTANTS
    None,
    MaxId,      \* bound: requests of one sidecar
    MaxLines    \* bound: lines waiting when the child prints

ASSUME BoundsAssumption == {MaxId, MaxLines} \subseteq Nat /\ None \notin Nat

VARIABLES
    phase,      \* spawn's init request, then ready, then dropped
    nextId,     \* Sidecar::next_id
    pending,    \* id of the request awaiting its reply, or None
    stdin,      \* ids written and not yet read by the child
    running,    \* id of the request the child is executing, or None
    tainted,    \* the code printed without ending the line
    dead,       \* the child has exited
    killed,     \* start_kill was called
    stdout,     \* lines in the pipe from the child
    outcome     \* what the last request returned

sideVars == <<phase, nextId, pending, stdin, running, tainted, dead, killed, stdout, outcome>>
child == <<running, tainted, dead>>

Ids == 1 .. MaxId
Reply(id, ok) == [kind |-> "reply", id |-> id, ok |-> ok]
Junk == [kind |-> "junk", id |-> 0, ok |-> FALSE]

SideInit ==
    /\ phase = "init" /\ nextId = 1 /\ pending = None
    /\ stdin = <<>> /\ stdout = <<>>
    /\ running = None /\ tainted = FALSE
    /\ dead = FALSE /\ killed = FALSE
    /\ outcome = [by |-> "none", ok |-> FALSE, asked |-> 0, told |-> 0]

-----------------------------------------------------------------------------
(* Sidecar::request *)

CanSend == phase # "dropped" /\ pending = None /\ nextId <= MaxId

Send ==
    /\ CanSend /\ ~dead
    /\ pending' = nextId
    /\ nextId' = nextId + 1
    /\ stdin' = Append(stdin, nextId)
    /\ UNCHANGED <<phase, child, killed, stdout, outcome>>

\* How a request ends.  A failed init makes spawn drop the sidecar it built.
Return(id, by, ok, told) ==
    /\ pending' = None
    /\ outcome' = [by |-> by, ok |-> ok, asked |-> id, told |-> told]
    /\ phase' = IF phase = "init" THEN IF ok THEN "ready" ELSE "dropped" ELSE phase

\* start_kill, by request itself or by the drop of a sidecar whose init failed.
Kill(wanted) == killed' = (killed \/ wanted \/ phase' = "dropped")

WriteFails ==
    /\ CanSend /\ dead
    /\ nextId' = nextId + 1
    /\ Return(nextId, "write", FALSE, 0)
    /\ Kill(FALSE)
    /\ UNCHANGED <<child, stdin, stdout>>

\* Mutant: the child is left running after a timeout.
Timeout_NoKill ==
    /\ pending # None /\ stdout = <<>>
    /\ Return(pending, "timeout", FALSE, 0)
    /\ Kill(FALSE)
    /\ UNCHANGED <<nextId, child, stdin, stdout>>

\* The clock may run out whenever no line is there; one that is there wins.
Timeout ==
    /\ pending # None /\ stdout = <<>>
    /\ Return(pending, "timeout", FALSE, 0)
    /\ Kill(TRUE)
    /\ UNCHANGED <<nextId, child, stdin, stdout>>

Eof ==
    /\ pending # None /\ stdout = <<>> /\ dead
    /\ Return(pending, "eof", FALSE, 0)
    /\ Kill(TRUE)
    /\ UNCHANGED <<nextId, child, stdin, stdout>>

\* A reply to another request: the two sides are out of step for good.
ReadMismatch ==
    /\ pending # None /\ stdout # <<>>
    /\ Head(stdout).kind = "reply" /\ Head(stdout).id # pending
    /\ stdout' = Tail(stdout)
    /\ Return(pending, "mismatch", FALSE, 0)
    /\ Kill(TRUE)
    /\ UNCHANGED <<nextId, child, stdin>>

\* A line that is no response returns early, before any kill.
ReadJunk ==
    /\ pending # None /\ stdout # <<>>
    /\ Head(stdout) = Junk
    /\ stdout' = Tail(stdout)
    /\ Return(pending, "junk", FALSE, 0)
    /\ Kill(FALSE)
    /\ UNCHANGED <<nextId, child, stdin>>

\* Mutant: the id of the reply is not compared.
ReadReply_AnyId ==
    /\ pending # None /\ stdout # <<>>
    /\ Head(stdout).kind = "reply"
    /\ stdout' = Tail(stdout)
    /\ Return(pending, "reply", Head(stdout).ok, Head(stdout).id)
    /\ Kill(FALSE)
    /\ UNCHANGED <<nextId, child, stdin>>

ReadReply ==
    /\ pending # None /\ stdout # <<>>
    /\ Head(stdout).kind = "reply" /\ Head(stdout).id = pending
    /\ stdout' = Tail(stdout)
    /\ Return(pending, "reply", Head(stdout).ok, pending)
    /\ Kill(FALSE)
    /\ UNCHANGED <<nextId, child, stdin>>

\* spawn without init code.
SkipInit ==
    /\ phase = "init" /\ nextId = 1
    /\ phase' = "ready"
    /\ UNCHANGED <<nextId, pending, stdin, child, killed, stdout, outcome>>

Drop ==
    /\ phase = "ready" /\ pending = None
    /\ phase' = "dropped"
    /\ killed' = TRUE
    /\ UNCHANGED <<nextId, pending, stdin, child, stdout, outcome>>

Wait == Timeout \/ Eof \/ ReadMismatch \/ ReadJunk \/ ReadReply

-----------------------------------------------------------------------------
(* sidecar.py, main *)

Receive ==
    /\ ~dead /\ running = None /\ stdin # <<>>
    /\ running' = Head(stdin)
    /\ stdin' = Tail(stdin)
    /\ UNCHANGED <<phase, nextId, pending, tainted, dead, killed, stdout, outcome>>

\* The code prints a line, or the beginning of one.
PrintLine ==
    /\ ~dead /\ running # None
    /\ Len(stdout) < MaxLines
    /\ stdout' = Append(stdout, Junk)
    /\ tainted' = FALSE
    /\ UNCHANGED <<phase, nextId, pending, stdin, running, dead, killed, outcome>>

PrintNoNewline ==
    /\ ~dead /\ running # None
    /\ tainted' = TRUE
    /\ UNCHANGED <<phase, nextId, pending, stdin, running, dead, killed, stdout, outcome>>

\* The reply, behind whatever the code left on its line.
Answer ==
    /\ ~dead /\ running # None
    /\ \E ok \in BOOLEAN :
         stdout' = Append(stdout, IF tainted THEN Junk ELSE Reply(running, ok))
    /\ running' = None
    /\ tainted' = FALSE
    /\ UNCHANGED <<phase, nextId, pending, stdin, dead, killed, outcome>>

\* SystemExit and a result json.dumps refuses are not caught.
CodeExits ==
    /\ ~dead /\ running # None
    /\ dead' = TRUE
    /\ UNCHANGED <<phase, nextId, pending, stdin, running, tainted, killed, stdout, outcome>>

KillTakesEffect ==
    /\ killed /\ ~dead
    /\ dead' = TRUE
    /\ UNCHANGED <<phase, nextId, pending, stdin, running, tainted, killed, stdout, outcome>>

SideNext ==
    \/ Send \/ WriteFails \/ SkipInit \/ Drop
    \/ Timeout \/ Eof \/ ReadMismatch \/ ReadJunk \/ ReadReply
    \/ Receive \/ PrintLine \/ PrintNoNewline \/ Answer \/ CodeExits \/ KillTakesEffect

\* The runtime polls the wait and its timer; the kernel delivers the signal.
\* Nothing is assumed of the code the child runs.
SideFairness == WF_sideVars(Wait) /\ WF_sideVars(KillTakesEffect)

-----------------------------------------------------------------------------
(* Properties *)

\* A value returned to a tool is the value of that tool's own expression, not
\* of an earlier one that timed out or failed on a printed line (request).
OwnReply == outcome.ok => outcome.told = outcome.asked

\* Driver code that hangs costs the caller no more than the timeout, and does
\* not go on driving the hardware: every request returns, and the process of
\* one that timed out ends (Sidecar::timeout, start_kill in request).
HangIsContained ==
    /\ (pending # None) ~> (pending = None)
    /\ (outcome.by = "timeout") ~> dead
=============================================================================
