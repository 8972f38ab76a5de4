-------------------------------- MODULE Mcp --------------------------------
(* The MCP client of orcarein-core: setup_servers starts the configured    *)
(* servers one after the other, registers the tools they offer under       *)
(* exposed names, and the agent then calls them.  Each server is a child   *)
(* process at the end of two pipes; a line it writes may be the answer to  *)
(* a request, a notification, a request of its own, or no JSON-RPC at all. *)
(*                                                                         *)
(* The client has one request outstanding at a time (the agent dispatches  *)
(* calls in sequence and each connection sits behind a mutex), numbered    *)
(* per connection, and waits for its answer without a timeout.             *)
EXTENDS Naturals, Sequences, Functions

CONSTANTS
    Servers,          \* the configured servers
    Tools,            \* the servers' own tool names
    Names,            \* exposed names in the registry
    Order,            \* the servers in the order of the configuration
    Offers,           \* Offers[s]: the tools server s lists, in its order
    ExposedName(_, _), \* "mcp__<server>__<tool>"
    ServerIds,        \* ids the servers give to requests of their own
    None,
    MaxId,            \* bound: requests per connection
    MaxInbox          \* bound: lines waiting in one pipe

ASSUME ConfigAssumption ==
    /\ Order \in Seq(Servers) /\ IsInjective(Order)
    /\ Offers \in [Servers -> Seq(Tools)]
    /\ \A s \in Servers, t \in Tools : ExposedName(s, t) \in Names
    /\ ServerIds \subseteq Nat
    /\ {MaxId, MaxInbox} \subseteq Nat
    /\ None \notin Servers \cup Tools

VARIABLES
    phase,      \* where setup_servers or the agent stands
    at,         \* setup_servers: index of the server in hand
    alive,      \* the server processes that run
    nextId,     \* McpConnection::next_id
    pending,    \* the request being awaited, or None
    unanswered, \* requests a server has read and not answered: <<id, tool>>
    inbox,      \* lines in the pipe from each server
    clients,    \* the live clients, killed when dropped
    registry,   \* ToolRegistry: exposed name to route, or None
    outcome     \* what the last request ended with

vars == <<phase, at, alive, nextId, pending, unanswered, inbox, clients, registry, outcome>>
client == <<phase, at, nextId, pending, clients, registry, outcome>>

\* A line as JsonRpcResponse reads it.  "junk" does not deserialize (free
\* text, or a request of the server with a string id); a line of white space
\* is skipped like a notification and stands with it.
Line(kind, id, tool) == [kind |-> kind, id |-> id, tool |-> tool]
Noise == {Line(k, 0, None) : k \in {"notify", "junk"}}
            \cup {Line("request", i, None) : i \in ServerIds}

NoOutcome == [ok |-> FALSE, by |-> "none", asked |-> None, told |-> None]

Init ==
    /\ phase = (IF Order = <<>> THEN "ready" ELSE "connect") /\ at = 1
    /\ alive = {}
    /\ nextId = [s \in Servers |-> 1]
    /\ pending = None
    /\ unanswered = [s \in Servers |-> {}]
    /\ inbox = [s \in Servers |-> <<>>]
    /\ clients = {}
    /\ registry = [n \in Names |-> None]
    /\ outcome = NoOutcome

\* McpConnection::request up to the flush: takes an id and writes the line.
Send(s, t) ==
    /\ nextId[s] <= MaxId
    /\ pending' = [server |-> s, id |-> nextId[s], tool |-> t]
    /\ nextId' = [nextId EXCEPT ![s] = @ + 1]
    /\ unanswered' = [unanswered EXCEPT ![s] = @ \cup {<<nextId[s], t>>}]

-----------------------------------------------------------------------------
(* setup_servers *)

InHand == Order[at]

NextServer ==
    /\ at' = at + 1
    /\ phase' = IF at < Len(Order) THEN "connect" ELSE "ready"

\* The command cannot be spawned, or exits before it reads: warn and skip.
SpawnFails ==
    /\ phase = "connect" /\ pending = None
    /\ NextServer
    /\ UNCHANGED <<alive, nextId, pending, unanswered, inbox, clients, registry, outcome>>

Connect ==
    /\ phase = "connect" /\ pending = None
    /\ alive' = alive \cup {InHand}
    /\ Send(InHand, None)
    /\ UNCHANGED <<phase, at, inbox, clients, registry, outcome>>

\* After the handshake: notifications/initialized, then tools/list.
List ==
    /\ phase = "list" /\ pending = None
    /\ InHand \in alive
    /\ Send(InHand, None)
    /\ UNCHANGED <<phase, at, alive, inbox, clients, registry, outcome>>

\* The pipe of a server that has died breaks the write of the request.
ListWriteFails ==
    /\ phase = "list" /\ pending = None
    /\ InHand \notin alive
    /\ clients' = clients \cup {InHand}
    /\ NextServer
    /\ UNCHANGED <<alive, nextId, pending, unanswered, inbox, registry, outcome>>

\* The tools of s that come out under the exposed name n, by their places.
OffersAs(s, n) == {i \in DOMAIN Offers[s] : ExposedName(s, Offers[s][i]) = n}

\* The first server to offer an exposed name keeps it, for the first of its
\* tools with that name.
Register(reg, s) ==
    [n \in Names |->
        IF reg[n] # None \/ OffersAs(s, n) = {} THEN reg[n]
        ELSE LET first == CHOOSE i \in OffersAs(s, n) : \A j \in OffersAs(s, n) : i <= j
             IN [server |-> s, tool |-> Offers[s][first]]]

-----------------------------------------------------------------------------
(* McpTool::execute *)

Call(n) ==
    /\ phase = "ready" /\ pending = None
    /\ registry[n] # None
    /\ registry[n].server \in alive
    /\ Send(registry[n].server, registry[n].tool)
    /\ UNCHANGED <<phase, at, alive, inbox, clients, registry, outcome>>

CallWriteFails(n) ==
    /\ phase = "ready" /\ pending = None
    /\ registry[n] # None
    /\ registry[n].server \notin alive
    /\ outcome' = [ok |-> FALSE, by |-> "eof", asked |-> registry[n].tool, told |-> None]
    /\ UNCHANGED <<phase, at, alive, nextId, pending, unanswered, inbox, clients, registry>>

-----------------------------------------------------------------------------
(* McpConnection::request, from the first read on *)

\* Mutant: any line with an id is taken for the response.
Skipped_OnlyWithoutId(line) == line.kind # "junk" /\ line.id = 0

Skipped(line) == line.kind # "junk" /\ line.id # pending.id

SkipLine ==
    /\ pending # None
    /\ LET s == pending.server IN
         /\ inbox[s] # <<>>
         /\ Skipped(Head(inbox[s]))
         /\ inbox' = [inbox EXCEPT ![s] = Tail(@)]
    /\ UNCHANGED <<phase, at, alive, nextId, pending, unanswered, clients, registry, outcome>>

\* What the caller of request does with its result.
Return(ok, by, told) ==
    /\ pending' = None
    /\ outcome' = [ok |-> ok, by |-> by, asked |-> pending.tool, told |-> told]
    /\ \/ /\ phase = "connect" /\ ok /\ InHand \in alive
          /\ phase' = "list"
          /\ UNCHANGED <<at, clients, registry>>
       \/ /\ phase = "connect" /\ ~(ok /\ InHand \in alive)
          /\ NextServer
          /\ UNCHANGED <<clients, registry>>
       \/ /\ phase = "list"
          /\ registry' = IF ok THEN Register(registry, InHand) ELSE registry
          /\ clients' = clients \cup {InHand}
          /\ NextServer
       \/ /\ phase = "ready"
          /\ UNCHANGED <<phase, at, clients, registry>>

\* A line with the id ends the request.  One without a result (a request of
\* the server's own that happens to bear the id) is Ok(Null), which no caller
\* can deserialize.
TakeLine ==
    /\ pending # None
    /\ LET s == pending.server IN
         /\ inbox[s] # <<>>
         /\ LET line == Head(inbox[s]) IN
              /\ ~Skipped(line)
              /\ Return(line.kind = "result", line.kind, line.tool)
         /\ inbox' = [inbox EXCEPT ![s] = Tail(@)]
    /\ UNCHANGED <<alive, nextId, unanswered>>

\* Mutant: an empty read is retried like an empty line.
ReadEof_Retries ==
    /\ pending # None
    /\ inbox[pending.server] = <<>>
    /\ pending.server \notin alive
    /\ UNCHANGED vars

ReadEof ==
    /\ pending # None
    /\ inbox[pending.server] = <<>>
    /\ pending.server \notin alive
    /\ Return(FALSE, "eof", None)
    /\ UNCHANGED <<alive, nextId, unanswered, inbox>>

\* The REPL ends: dropping the clients kills their servers.
Exit ==
    /\ phase = "ready" /\ pending = None
    /\ phase' = "exited"
    /\ alive' = alive \ clients
    /\ UNCHANGED <<at, nextId, pending, unanswered, inbox, clients, registry, outcome>>

ClientStep ==
    \/ Connect \/ List \/ ListWriteFails
    \/ SkipLine \/ TakeLine \/ ReadEof

-----------------------------------------------------------------------------
(* The servers *)

\* Answers what it was asked, in any order.
Answer(s) ==
    /\ s \in alive
    /\ \E r \in unanswered[s], k \in {"result", "error"} :
         /\ inbox' = [inbox EXCEPT ![s] = Append(@, Line(k, r[1], r[2]))]
         /\ unanswered' = [unanswered EXCEPT ![s] = @ \ {r}]
    /\ UNCHANGED <<client, alive>>

\* Leaves room for the answers it owes.
Chatter(s) ==
    /\ s \in alive
    /\ Len(inbox[s]) < MaxInbox
    /\ \E line \in Noise : inbox' = [inbox EXCEPT ![s] = Append(@, line)]
    /\ UNCHANGED <<client, alive, unanswered>>

Die(s) ==
    /\ s \in alive
    /\ alive' = alive \ {s}
    /\ UNCHANGED <<client, unanswered, inbox>>

Next ==
    \/ ClientStep \/ SpawnFails \/ Exit
    \/ \E n \in Names : Call(n) \/ CallWriteFails(n)
    \/ \E s \in Servers : Answer(s) \/ Chatter(s) \/ Die(s)

\* The runtime keeps polling the client; a server that is not mute answers.
Fairness ==
    /\ WF_vars(ClientStep)
    /\ \A s \in Servers : WF_vars(Answer(s))

Spec == Init /\ [][Next]_vars /\ Fairness

-----------------------------------------------------------------------------
(* Properties *)

\* A call that succeeds returns what its server answered to that very call: an
\* answer left in the pipe by a call that failed before it is never taken for
\* the answer of a later one (transport.rs, request).
OwnAnswer == outcome.ok => outcome.told = outcome.asked

\* A request ends: with the answer, or when the server dies (transport.rs,
\* request).  It takes servers that answer.
RequestEnds == (pending # None) ~> (pending = None)

=============================================================================
