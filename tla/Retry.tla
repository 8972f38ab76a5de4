------------------------------- MODULE Retry -------------------------------
(* One chat request of a provider: with_retry around the phase before the  *)
(* stream (connect, headers, status), then the streamed body, whose errors *)
(* are the caller's to surface.                                            *)
(*                                                                         *)
(* Time is counted in units; an attempt, the reading of an error body and  *)
(* a sleep each add what they took to elapsed.                             *)
EXTENDS Naturals

CONSTANTS
    Configured,      \* max_retries of config.toml
    RetryClamp,      \* what from_config clamps it to (10)
    BaseDelay, MaxDelay, RequestTimeout,
    RetryAfters,     \* delays a server may ask for
    NoHint,          \* no (numeric) Retry-After header
    MaxEvents        \* bound: distinct events of one stream

ASSUME PolicyAssumption ==
    /\ {Configured, RetryClamp, BaseDelay, MaxDelay, RequestTimeout, MaxEvents} \subseteq Nat
    /\ RetryAfters \subseteq Nat
    /\ NoHint \notin Nat

VARIABLES
    phase,     \* sending, sleeping, streaming, or how the request ended
    attempt,   \* with_retry's counter
    hint,      \* Retry-After of the failure being slept on
    elapsed,   \* time since the request was made
    reached,   \* attempts that reached the server
    yielded    \* the attempt each event handed to the caller came from

retryVars == <<phase, attempt, hint, elapsed, reached, yielded>>

Least(a, b) == IF a <= b THEN a ELSE b

MaxRetries == Least(Configured, RetryClamp)

\* Full jitter: any point below the doubled base delay and the cap.
JitteredDelays(n) == {d \in 0 .. MaxDelay : d <= BaseDelay * 2 ^ n}

RetryInit ==
    /\ phase = "sending" /\ attempt = 0 /\ hint = NoHint
    /\ elapsed = 0 /\ reached = 0 /\ yielded = {}

\* The attempt took d, and failed in a way worth retrying.
FailRetryable(d, h) ==
    /\ elapsed' = elapsed + d
    /\ hint' = h
    /\ phase' = IF attempt >= MaxRetries THEN "gave up" ELSE "sleeping"
    /\ UNCHANGED <<attempt, yielded>>

\* A transport failure, or no headers in time.
TransportFails ==
    /\ phase = "sending"
    /\ \E d \in 0 .. RequestTimeout : FailRetryable(d, NoHint)
    /\ \E arrived \in {0, 1} : reached' = reached + arrived

\* 408, 429 or 5xx: the error body is read for at most another timeout.
StatusRetryable ==
    /\ phase = "sending"
    /\ \E d \in 0 .. 2 * RequestTimeout, h \in RetryAfters \cup {NoHint} : FailRetryable(d, h)
    /\ reached' = reached + 1

\* Another status, a malformed request or a redirect loop.
FailFatal ==
    /\ phase = "sending"
    /\ phase' = "fatal"
    /\ \E d \in 0 .. 2 * RequestTimeout : elapsed' = elapsed + d
    /\ \E arrived \in {0, 1} : reached' = reached + arrived
    /\ UNCHANGED <<attempt, hint, yielded>>

\* Mutant: a server's Retry-After is slept in full.
Delays_Uncapped == IF hint # NoHint THEN {hint} ELSE JitteredDelays(attempt)

\* The server's hint under the cap, or the backoff with its jitter.
Delays == IF hint # NoHint THEN {Least(hint, MaxDelay)} ELSE JitteredDelays(attempt)

Wake ==
    /\ phase = "sleeping"
    /\ \E d \in Delays : elapsed' = elapsed + d
    /\ attempt' = attempt + 1
    /\ phase' = "sending"
    /\ UNCHANGED <<hint, reached, yielded>>

Headers ==
    /\ phase = "sending"
    /\ phase' = "streaming"
    /\ \E d \in 0 .. RequestTimeout : elapsed' = elapsed + d
    /\ reached' = reached + 1
    /\ UNCHANGED <<attempt, hint, yielded>>

-----------------------------------------------------------------------------
(* The streamed body; its time is not bounded. *)

Yield ==
    /\ phase = "streaming"
    /\ \E i \in 1 .. MaxEvents : yielded' = yielded \cup {<<attempt, i>>}
    /\ UNCHANGED <<phase, attempt, hint, elapsed, reached>>

StreamEnds ==
    /\ phase = "streaming"
    /\ phase' = "done"
    /\ UNCHANGED <<attempt, hint, elapsed, reached, yielded>>

StreamBreaks ==
    /\ phase = "streaming"
    /\ phase' = "broken"
    /\ UNCHANGED <<attempt, hint, elapsed, reached, yielded>>

RetryNext == \/ TransportFails \/ StatusRetryable \/ FailFatal \/ Wake \/ Headers
             \/ Yield \/ StreamEnds \/ StreamBreaks

RetrySpec == RetryInit /\ [][RetryNext]_retryVars

-----------------------------------------------------------------------------
(* Properties *)

Ended == {"gave up", "fatal", "broken", "done"}

\* The counters are well-typed and attempt stays within the policy.
RetryTypeOK ==
    /\ phase \in {"sending", "sleeping", "streaming"} \cup Ended
    /\ attempt \in 0 .. MaxRetries
    /\ hint \in RetryAfters \cup {NoHint}
    /\ elapsed \in Nat /\ reached \in Nat
    /\ yielded \subseteq (0 .. MaxRetries) \X (1 .. MaxEvents)

\* A provider is asked at most ten times more than once, whatever
\* config.toml says (from_config, with_retry).
RequestBound == reached <= RetryClamp + 1

\* The caller waits for the first byte no longer than the policy allows: every
\* attempt may time out twice (headers, error body) and every sleep is at most
\* MaxDelay, whatever Retry-After the server sends (with_retry).
WaitBound == elapsed <= (attempt + 1) * 2 * RequestTimeout + attempt * MaxDelay

\* What the caller has been given comes from one response: "a retried attempt
\* never double-emits streamed tokens" (retry.rs, module comment).
SingleSource == \A e, f \in yielded : e[1] = f[1]
=============================================================================
