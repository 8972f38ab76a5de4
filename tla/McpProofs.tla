----------------------------- MODULE McpProofs -----------------------------
(* Whatever the servers write, in whatever order, and whenever they die, a  *)
(* call that succeeds returns the answer to that call.                      *)
EXTENDS Mcp, BasicLemmas

Replies == {"result", "error"}
Routes == [server : Servers, tool : Tools]
Lines == [kind : Replies \cup {"notify", "junk", "request"}, id : Nat, tool : Tools \cup {None}]

Typed ==
    /\ at \in Nat \ {0}
    /\ phase \in {"connect", "list", "ready", "exited"}
    /\ phase \in {"connect", "list"} => at <= Len(Order)
    /\ alive \subseteq Servers
    /\ nextId \in [Servers -> Nat]
    /\ unanswered \in [Servers -> SUBSET (Nat \X (Tools \cup {None}))]
    /\ inbox \in [Servers -> Seq(Lines)]
    /\ registry \in [Names -> Routes \cup {None}]
    /\ pending # None => /\ pending.server \in Servers
                         /\ pending.id \in Nat /\ pending.id < nextId[pending.server]

\* The answers of server s, those it owes and those in its pipe, bear ids the
\* connection has given out.
IdsGivenOut(s) ==
    /\ \A r \in unanswered[s] : r[1] < nextId[s]
    /\ \A i \in DOMAIN inbox[s] : inbox[s][i].kind \in Replies => inbox[s][i].id < nextId[s]

\* The answers of the server of the awaited request that bear its id are
\* answers to it.
AnswersThePending ==
    pending # None =>
        LET s == pending.server IN
          /\ \A r \in unanswered[s] : r[1] = pending.id => r[2] = pending.tool
          /\ \A i \in DOMAIN inbox[s] :
               inbox[s][i].kind \in Replies /\ inbox[s][i].id = pending.id
                 => inbox[s][i].tool = pending.tool

IInv ==
    /\ Typed
    /\ \A s \in Servers : IdsGivenOut(s)
    /\ AnswersThePending
    /\ OwnAnswer

(* While setup_servers runs it has a configured server in hand.             *)
LEMMA InHandIsConfigured ==
    ASSUME Typed, phase \in {"connect", "list"}
    PROVE  InHand \in Servers
    <1>1. Order \in Seq(Servers) /\ at \in 1..Len(Order)
        BY ConfigAssumption DEF Typed, ConfigAssumption
    <1>2. QED
        BY <1>1 DEF InHand

(* The server handed over to is configured too.                             *)
LEMMA NextInHand ==
    ASSUME Typed, phase \in {"connect", "list"}, NextServer
    PROVE  /\ at' \in Nat \ {0}
           /\ phase' \in {"connect", "ready"}
           /\ phase' = "connect" => at' <= Len(Order)
    <1>1. Len(Order) \in Nat
        BY ConfigAssumption DEF ConfigAssumption
    <1>2. QED
        BY <1>1 DEF Typed, NextServer

(* Registering gives names to tools of the server only.                     *)
LEMMA RegisterRoutes ==
    ASSUME NEW reg \in [Names -> Routes \cup {None}], NEW s \in Servers
    PROVE  Register(reg, s) \in [Names -> Routes \cup {None}]
    <1>1. Offers[s] \in Seq(Tools)
        BY ConfigAssumption DEF ConfigAssumption
    <1>2. ASSUME NEW n \in Names PROVE Register(reg, s)[n] \in Routes \cup {None}
        <2>1. CASE reg[n] # None \/ OffersAs(s, n) = {}
            BY <2>1 DEF Register
        <2>2. CASE reg[n] = None /\ OffersAs(s, n) # {}
            <3>1. OffersAs(s, n) \subseteq Nat
                BY <1>1 DEF OffersAs
            <3>2. PICK first \in OffersAs(s, n) : \A j \in OffersAs(s, n) : first <= j
                BY <2>2, <3>1, LeastNumber
            <3>3. \E i \in OffersAs(s, n) : Register(reg, s)[n] = [server |-> s, tool |-> Offers[s][i]]
                BY <2>2, <3>2 DEF Register
            <3>4. \A i \in OffersAs(s, n) : Offers[s][i] \in Tools
                BY <1>1 DEF OffersAs
            <3>5. QED
                BY <3>3, <3>4 DEF Routes
        <2>3. QED
            BY <2>1, <2>2
    <1>3. QED
        BY <1>2 DEF Register

LEMMA InitEstablishes == Init => IInv
    <1> SUFFICES ASSUME Init PROVE IInv
        OBVIOUS
    <1>1. Order \in Seq(Servers)
        BY ConfigAssumption DEF ConfigAssumption
    <1>2. Order # <<>> => 1 <= Len(Order)
        BY <1>1
    <1>3. Typed
        BY <1>1, <1>2 DEF Init, Typed
    <1>4. QED
        BY <1>3 DEF Init, IInv, IdsGivenOut, AnswersThePending, OwnAnswer, NoOutcome

(* A request takes an id nothing bears yet.                                 *)
LEMMA SendKeeps ==
    ASSUME IInv, NEW s \in Servers, NEW t \in Tools \cup {None}, Send(s, t),
           UNCHANGED <<inbox, outcome>>
    PROVE  /\ nextId' \in [Servers -> Nat]
           /\ unanswered' \in [Servers -> SUBSET (Nat \X (Tools \cup {None}))]
           /\ inbox' \in [Servers -> Seq(Lines)]
           /\ pending'.server \in Servers /\ pending'.id \in Nat
           /\ pending'.id < nextId'[pending'.server]
           /\ \A x \in Servers : IdsGivenOut(x)'
           /\ AnswersThePending'
           /\ OwnAnswer'
    <1> USE DEF IInv
    <1>1. nextId' = [nextId EXCEPT ![s] = @ + 1] /\ nextId \in [Servers -> Nat]
        BY DEF Send, Typed
    <1>2. unanswered' = [unanswered EXCEPT ![s] = @ \cup {<<nextId[s], t>>}]
        BY DEF Send
    <1>3. unanswered \in [Servers -> SUBSET (Nat \X (Tools \cup {None}))]
        BY DEF Typed
    <1>4. pending' = [server |-> s, id |-> nextId[s], tool |-> t]
        BY DEF Send
    <1>5. ASSUME NEW x \in Servers PROVE IdsGivenOut(x)'
        <2>1. \A r \in unanswered'[x] : r[1] < nextId'[x]
            BY <1>1, <1>2, <1>3 DEF IdsGivenOut
        <2>2. \A i \in DOMAIN inbox[x] : inbox[x][i] \in Lines
            BY DEF Typed
        <2>3. ASSUME NEW i \in DOMAIN inbox[x], inbox[x][i].kind \in Replies
              PROVE  inbox[x][i].id < nextId'[x]
            <3>1. inbox[x][i].id \in Nat /\ inbox[x][i].id < nextId[x]
                BY <2>2, <2>3 DEF IdsGivenOut, Lines
            <3>2. QED
                BY <1>1, <3>1
        <2>4. QED
            BY <2>1, <2>3 DEF IdsGivenOut
    <1>6. AnswersThePending'
        <2>1. ASSUME NEW r \in unanswered'[s], r[1] = nextId[s] PROVE r[2] = t
            BY <1>1, <1>2, <1>3, <2>1 DEF IdsGivenOut
        <2>2. ASSUME NEW i \in DOMAIN inbox[s], inbox[s][i].kind \in Replies
              PROVE  inbox[s][i].id # nextId[s]
            BY <1>1, <2>2 DEF IdsGivenOut
        <2>3. QED
            BY <1>4, <2>1, <2>2 DEF AnswersThePending
    <1>7. QED
        BY <1>1, <1>2, <1>3, <1>4, <1>5, <1>6 DEF OwnAnswer, Typed

(* What request returns is the answer to the request, or no success.        *)
LEMMA ReturnKeeps ==
    ASSUME IInv, pending # None, NEW ok, NEW by, NEW told, Return(ok, by, told),
           ok => told = pending.tool
    PROVE  /\ at' \in Nat \ {0}
           /\ phase' \in {"connect", "list", "ready", "exited"}
           /\ phase' \in {"connect", "list"} => at' <= Len(Order)
           /\ registry' \in [Names -> Routes \cup {None}]
           /\ pending' = None
           /\ AnswersThePending'
           /\ OwnAnswer'
    <1>1. pending' = None
          /\ outcome' = [ok |-> ok, by |-> by, asked |-> pending.tool, told |-> told]
        BY DEF Return
    <1>2. at' \in Nat \ {0}
          /\ phase' \in {"connect", "list", "ready", "exited"}
          /\ (phase' \in {"connect", "list"} => at' <= Len(Order))
        <2>1. CASE phase = "connect" /\ phase' = "list" /\ UNCHANGED at
            BY <2>1 DEF IInv, Typed
        <2>2. CASE phase \in {"connect", "list"} /\ NextServer
            BY <2>2, NextInHand DEF IInv
        <2>3. CASE phase = "ready" /\ UNCHANGED <<phase, at>>
            BY <2>3 DEF IInv, Typed
        <2>4. QED
            BY <2>1, <2>2, <2>3 DEF Return
    <1>3. registry' \in [Names -> Routes \cup {None}]
        <2>1. registry \in [Names -> Routes \cup {None}]
            BY DEF IInv, Typed
        <2>2. CASE phase = "list" /\ registry' = IF ok THEN Register(registry, InHand) ELSE registry
            BY <2>1, <2>2, InHandIsConfigured, RegisterRoutes DEF IInv
        <2>3. CASE UNCHANGED registry
            BY <2>1, <2>3
        <2>4. QED
            BY <2>2, <2>3 DEF Return
    <1>4. QED
        BY <1>1, <1>2, <1>3 DEF AnswersThePending, OwnAnswer

(* A line read is gone from the pipe, and nothing else is.                  *)
LEMMA TailKeeps ==
    ASSUME IInv, NEW s \in Servers, inbox[s] # <<>>,
           inbox' = [inbox EXCEPT ![s] = Tail(@)], UNCHANGED <<nextId, unanswered>>
    PROVE  /\ inbox' \in [Servers -> Seq(Lines)]
           /\ \A x \in Servers : IdsGivenOut(x)'
           /\ UNCHANGED pending => AnswersThePending'
    <1>1. inbox \in [Servers -> Seq(Lines)]
        BY DEF IInv, Typed
    <1>2. inbox' \in [Servers -> Seq(Lines)]
        BY <1>1
    <1>3. ASSUME NEW x \in Servers, NEW i \in DOMAIN inbox'[x]
          PROVE  \E j \in DOMAIN inbox[x] : inbox'[x][i] = inbox[x][j]
        <2>1. CASE x # s
            BY <1>1, <1>3, <2>1
        <2>2. CASE x = s
            <3>1. inbox'[x] = Tail(inbox[x]) /\ inbox[x] \in Seq(Lines) /\ inbox[x] # <<>>
                BY <1>1, <2>2
            <3>2. QED
                BY <1>3, <3>1, TailTerms
        <2>3. QED
            BY <2>1, <2>2
    <1>4. ASSUME NEW x \in Servers PROVE IdsGivenOut(x)'
        BY <1>3, <1>4 DEF IInv, IdsGivenOut
    <1>5. ASSUME UNCHANGED pending, pending # None PROVE AnswersThePending'
        <2>1. pending.server \in Servers
            BY <1>5 DEF IInv, Typed
        <2>2. ASSUME NEW i \in DOMAIN inbox'[pending.server],
                     inbox'[pending.server][i].kind \in Replies,
                     inbox'[pending.server][i].id = pending.id
              PROVE  inbox'[pending.server][i].tool = pending.tool
            BY <1>3, <1>5, <2>1, <2>2 DEF IInv, AnswersThePending
        <2>3. QED
            BY <1>5, <2>2 DEF IInv, AnswersThePending
    <1>6. QED
        BY <1>2, <1>4, <1>5 DEF AnswersThePending

(* A line written comes after those in the pipe.                            *)
LEMMA AppendKeeps ==
    ASSUME IInv, NEW s \in Servers, NEW line \in Lines,
           inbox' = [inbox EXCEPT ![s] = Append(@, line)],
           UNCHANGED <<client, alive>>,
           unanswered' \in [Servers -> SUBSET (Nat \X (Tools \cup {None}))],
           \A x \in Servers : unanswered'[x] \subseteq unanswered[x],
           line.kind \in Replies => <<line.id, line.tool>> \in unanswered[s]
    PROVE  IInv'
    <1>1. inbox \in [Servers -> Seq(Lines)]
        BY DEF IInv, Typed
    <1>2. inbox' \in [Servers -> Seq(Lines)]
        BY <1>1
    <1>3. ASSUME NEW x \in Servers, NEW i \in DOMAIN inbox'[x]
          PROVE  \/ i \in DOMAIN inbox[x] /\ inbox'[x][i] = inbox[x][i]
                 \/ x = s /\ inbox'[x][i] = line
        BY <1>1, <1>3
    <1>4. Typed'
        BY <1>2 DEF IInv, Typed, client
    <1>5. ASSUME NEW x \in Servers PROVE IdsGivenOut(x)'
        <2>1. \A r \in unanswered[x] : r[1] < nextId[x]
            BY DEF IInv, IdsGivenOut
        <2>2. nextId' = nextId
            BY DEF client
        <2>3. ASSUME NEW i \in DOMAIN inbox'[x], inbox'[x][i].kind \in Replies
              PROVE  inbox'[x][i].id < nextId[x]
            <3>1. CASE i \in DOMAIN inbox[x] /\ inbox'[x][i] = inbox[x][i]
                BY <2>3, <3>1 DEF IInv, IdsGivenOut
            <3>2. CASE x = s /\ inbox'[x][i] = line
                BY <2>1, <2>3, <3>2
            <3>3. QED
                BY <1>3, <3>1, <3>2
        <2>4. QED
            BY <2>1, <2>2, <2>3 DEF IdsGivenOut
    <1>6. AnswersThePending'
        <2> SUFFICES ASSUME pending # None
                     PROVE  LET x == pending.server IN
                              /\ \A r \in unanswered'[x] : r[1] = pending.id => r[2] = pending.tool
                              /\ \A i \in DOMAIN inbox'[x] :
                                   inbox'[x][i].kind \in Replies /\ inbox'[x][i].id = pending.id
                                     => inbox'[x][i].tool = pending.tool
            BY DEF AnswersThePending, client
        <2> DEFINE x == pending.server
        <2>1. x \in Servers
            BY DEF IInv, Typed
        <2>2. \A r \in unanswered[x] : r[1] = pending.id => r[2] = pending.tool
            BY DEF IInv, AnswersThePending
        <2>3. ASSUME NEW i \in DOMAIN inbox'[x], inbox'[x][i].kind \in Replies,
                     inbox'[x][i].id = pending.id
              PROVE  inbox'[x][i].tool = pending.tool
            <3>1. CASE i \in DOMAIN inbox[x] /\ inbox'[x][i] = inbox[x][i]
                BY <2>3, <3>1 DEF IInv, AnswersThePending
            <3>2. CASE x = s /\ inbox'[x][i] = line
                BY <2>2, <2>3, <3>2
            <3>3. QED
                BY <1>3, <2>1, <3>1, <3>2
        <2>4. QED
            BY <2>1, <2>2, <2>3
    <1>7. QED
        BY <1>4, <1>5, <1>6 DEF IInv, OwnAnswer, client

(* Steps of setup_servers and of the calls that move no line and take no id *)
(* leave the answers as they were.                                          *)
LEMMA QuietKeeps ==
    ASSUME IInv, UNCHANGED <<nextId, pending, unanswered, inbox>>, alive' \subseteq Servers,
           at' \in Nat \ {0}, phase' \in {"connect", "list", "ready", "exited"},
           phase' \in {"connect", "list"} => at' <= Len(Order),
           UNCHANGED registry, outcome'.ok => UNCHANGED outcome
    PROVE  IInv'
    <1>1. Typed'
        BY DEF IInv, Typed
    <1>2. \A s \in Servers : IdsGivenOut(s)'
        BY DEF IInv, IdsGivenOut
    <1>3. AnswersThePending'
        BY DEF IInv, AnswersThePending
    <1>4. OwnAnswer'
        BY DEF IInv, OwnAnswer
    <1>5. QED
        BY <1>1, <1>2, <1>3, <1>4 DEF IInv

LEMMA StepKeeps == IInv /\ [Next]_vars => IInv'
    <1> SUFFICES ASSUME IInv, [Next]_vars PROVE IInv'
        OBVIOUS
    <1>1. ASSUME SpawnFails PROVE IInv'
        BY <1>1, NextInHand, QuietKeeps DEF SpawnFails, IInv, Typed
    <1>2. ASSUME Connect PROVE IInv'
        <2>1. InHand \in Servers
            BY <1>2, InHandIsConfigured DEF Connect, IInv
        <2>2. alive' \subseteq Servers
            BY <1>2, <2>1 DEF Connect, IInv, Typed
        <2>3. UNCHANGED <<at, phase, inbox, registry, outcome>>
            BY <1>2 DEF Connect
        <2>4. QED
            BY <1>2, <2>1, <2>2, <2>3, SendKeeps DEF Connect, IInv, Typed
    <1>3. ASSUME List PROVE IInv'
        <2>1. InHand \in Servers
            BY <1>3, InHandIsConfigured DEF List, IInv
        <2>2. UNCHANGED <<at, phase, alive, inbox, registry, outcome>>
            BY <1>3 DEF List
        <2>3. QED
            BY <1>3, <2>1, <2>2, SendKeeps DEF List, IInv, Typed
    <1>4. ASSUME ListWriteFails PROVE IInv'
        BY <1>4, NextInHand, QuietKeeps DEF ListWriteFails, IInv, Typed
    <1>5. ASSUME SkipLine PROVE IInv'
        <2> DEFINE s == pending.server
        <2>1. s \in Servers /\ inbox[s] # <<>> /\ inbox' = [inbox EXCEPT ![s] = Tail(@)]
            BY <1>5 DEF SkipLine, IInv, Typed
        <2>2. UNCHANGED <<phase, at, alive, nextId, pending, unanswered, registry, outcome>>
            BY <1>5 DEF SkipLine
        <2>3. QED
            BY <2>1, <2>2, TailKeeps DEF IInv, Typed, OwnAnswer
    <1>6. ASSUME TakeLine PROVE IInv'
        <2> DEFINE s == pending.server
                   line == Head(inbox[s])
        <2>1. s \in Servers /\ inbox[s] # <<>> /\ inbox' = [inbox EXCEPT ![s] = Tail(@)]
            BY <1>6 DEF TakeLine, IInv, Typed
        <2>2. pending # None /\ UNCHANGED alive /\ UNCHANGED <<nextId, unanswered>>
            BY <1>6 DEF TakeLine
        <2>3. ~Skipped(line) /\ Return(line.kind = "result", line.kind, line.tool)
            BY <1>6 DEF TakeLine
        <2>4. line.kind = "result" => line.tool = pending.tool
            <3>1. 1 \in DOMAIN inbox[s] /\ line = inbox[s][1]
                BY <2>1 DEF IInv, Typed
            <3>2. line.kind = "result" => line.id = pending.id
                BY <2>3 DEF Skipped
            <3>3. QED
                BY <2>2, <3>1, <3>2 DEF IInv, AnswersThePending, Replies
        <2>5. inbox' \in [Servers -> Seq(Lines)] /\ \A x \in Servers : IdsGivenOut(x)'
            BY <2>1, <2>2, TailKeeps
        <2>6. /\ at' \in Nat \ {0} /\ phase' \in {"connect", "list", "ready", "exited"}
              /\ phase' \in {"connect", "list"} => at' <= Len(Order)
              /\ registry' \in [Names -> Routes \cup {None}]
              /\ pending' = None /\ AnswersThePending' /\ OwnAnswer'
            BY <2>2, <2>3, <2>4, ReturnKeeps
        <2>7. QED
            <3>1. UNCHANGED <<alive, nextId, unanswered>>
                BY <2>2
            <3>2. Typed'
                BY <2>5, <2>6, <3>1 DEF IInv, Typed
            <3>3. QED
                BY <2>5, <2>6, <3>2 DEF IInv
    <1>7. ASSUME ReadEof PROVE IInv'
        <2>1. pending # None /\ Return(FALSE, "eof", None)
            BY <1>7 DEF ReadEof
        <2>2. UNCHANGED <<alive, nextId, unanswered, inbox>>
            BY <1>7 DEF ReadEof
        <2>3. QED
            BY <2>1, <2>2, ReturnKeeps DEF IInv, Typed, IdsGivenOut
    <1>8. ASSUME Exit PROVE IInv'
        BY <1>8, QuietKeeps DEF Exit, IInv, Typed
    <1>9. ASSUME NEW n \in Names, Call(n) PROVE IInv'
        <2>1. registry[n] \in Routes
            BY <1>9 DEF Call, IInv, Typed
        <2>2. UNCHANGED <<phase, at, alive, inbox, registry, outcome>>
            BY <1>9 DEF Call
        <2>3. QED
            BY <1>9, <2>1, <2>2, SendKeeps DEF Call, IInv, Typed, Routes
    <1>10. ASSUME NEW n \in Names, CallWriteFails(n) PROVE IInv'
        BY <1>10, QuietKeeps DEF CallWriteFails, IInv, Typed
    <1>11. ASSUME NEW s \in Servers, Answer(s) PROVE IInv'
        <2>1. PICK r \in unanswered[s], k \in Replies :
                /\ inbox' = [inbox EXCEPT ![s] = Append(@, Line(k, r[1], r[2]))]
                /\ unanswered' = [unanswered EXCEPT ![s] = @ \ {r}]
            BY <1>11 DEF Answer, Replies
        <2>2. r \in Nat \X (Tools \cup {None})
            BY DEF IInv, Typed
        <2>3. Line(k, r[1], r[2]) \in Lines /\ <<r[1], r[2]>> = r
            BY <2>2 DEF Line, Lines
        <2>4. /\ unanswered' \in [Servers -> SUBSET (Nat \X (Tools \cup {None}))]
              /\ \A x \in Servers : unanswered'[x] \subseteq unanswered[x]
            BY <2>1 DEF IInv, Typed
        <2>5. UNCHANGED <<client, alive>>
            BY <1>11 DEF Answer
        <2>6. QED
            BY <2>1, <2>3, <2>4, <2>5, AppendKeeps DEF Line
    <1>12. ASSUME NEW s \in Servers, Chatter(s) PROVE IInv'
        <2>1. PICK line \in Noise : inbox' = [inbox EXCEPT ![s] = Append(@, line)]
            BY <1>12 DEF Chatter
        <2>2. line \in Lines /\ line.kind \notin Replies
            BY ConfigAssumption DEF ConfigAssumption, Noise, Line, Lines, Replies
        <2>3. UNCHANGED <<client, alive, unanswered>>
            BY <1>12 DEF Chatter
        <2>4. QED
            BY <2>1, <2>2, <2>3, AppendKeeps DEF IInv, Typed
    <1>13. ASSUME NEW s \in Servers, Die(s) PROVE IInv'
        BY <1>13, QuietKeeps DEF Die, client, IInv, Typed
    <1>14. CASE UNCHANGED vars
        BY <1>14, QuietKeeps DEF vars, IInv, Typed
    <1>15. QED
        BY <1>1, <1>2, <1>3, <1>4, <1>5, <1>6, <1>7, <1>8, <1>9, <1>10, <1>11, <1>12, <1>13, <1>14
           DEF Next, ClientStep

(* A call of an MCP tool that succeeds returns the server's answer to that   *)
(* very call (transport.rs, request): ids are not given out twice, so an     *)
(* answer a failed call left behind can only be skipped.                     *)
THEOREM AnswersBelong == Spec => []OwnAnswer
    <1>1. IInv => OwnAnswer
        BY DEF IInv
    <1>2. QED
        BY InitEstablishes, StepKeeps, <1>1, PTL DEF Spec

-----------------------------------------------------------------------------
(* The registry *)

\* A name stands for a tool its server offers and exposes under that name.
RoutesAreOffered ==
    \A n \in Names : registry[n] # None =>
        \E i \in DOMAIN Offers[registry[n].server] :
            /\ registry[n].tool = Offers[registry[n].server][i]
            /\ ExposedName(registry[n].server, registry[n].tool) = n

\* A name keeps the tool it stands for.
RoutesKept == \A n \in Names : registry[n] # None => registry'[n] = registry[n]

(* Registering a server's tools takes no name away, and gives each of the   *)
(* names to a tool that is exposed under it.                                *)
LEMMA RegisterKeepsRoutes ==
    ASSUME Typed, RoutesAreOffered, NEW s \in Servers, registry' = Register(registry, s)
    PROVE  RoutesKept /\ RoutesAreOffered'
    <1>1. RoutesKept
        BY DEF RoutesKept, Register
    <1>2. ASSUME NEW n \in Names, registry[n] = None, registry'[n] # None
          PROVE  \E i \in DOMAIN Offers[registry'[n].server] :
                    /\ registry'[n].tool = Offers[registry'[n].server][i]
                    /\ ExposedName(registry'[n].server, registry'[n].tool) = n
        <2>1. OffersAs(s, n) # {}
            BY <1>2 DEF Register
        <2>2. OffersAs(s, n) \subseteq Nat
            <3>1. Offers[s] \in Seq(Tools)
                BY ConfigAssumption DEF ConfigAssumption
            <3>2. QED
                BY <3>1 DEF OffersAs
        <2>3. PICK first \in OffersAs(s, n) : \A j \in OffersAs(s, n) : first <= j
            BY <2>1, <2>2, LeastNumber
        <2>4. PICK i \in OffersAs(s, n) : registry'[n] = [server |-> s, tool |-> Offers[s][i]]
            BY <1>2, <2>1, <2>3 DEF Register
        <2>5. QED
            BY <2>4 DEF OffersAs
    <1>3. RoutesAreOffered'
        BY <1>1, <1>2 DEF RoutesAreOffered, RoutesKept
    <1>4. QED
        BY <1>1, <1>3

LEMMA StepKeepsRoutes ==
    ASSUME IInv, RoutesAreOffered, [Next]_vars
    PROVE  RoutesKept /\ RoutesAreOffered'
    <1>1. \/ UNCHANGED registry
          \/ phase = "list" /\ registry' \in {Register(registry, InHand), registry}
        BY DEF Next, ClientStep, SpawnFails, Connect, List, ListWriteFails, SkipLine, TakeLine,
               Return, ReadEof, Exit, Call, CallWriteFails, Answer, Chatter, Die, client, vars
    <1>2. CASE UNCHANGED registry
        BY <1>2 DEF RoutesKept, RoutesAreOffered
    <1>3. CASE phase = "list" /\ registry' = Register(registry, InHand)
        <2>1. Typed
            BY DEF IInv
        <2>2. QED
            BY <1>3, <2>1, InHandIsConfigured, RegisterKeepsRoutes
    <1>4. QED
        BY <1>1, <1>2, <1>3

(* A registered name stands for a tool that its own server listed and that   *)
(* is exposed under that name, never for another server's (setup_servers).  *)
THEOREM NamesAreRouted == Spec => []RoutesAreOffered
    <1>1. Init => RoutesAreOffered
        BY DEF Init, RoutesAreOffered
    <1>2. QED
        BY <1>1, InitEstablishes, StepKeeps, StepKeepsRoutes, PTL DEF Spec

(* The first server to offer a name keeps it for good: neither a second      *)
(* offer nor the server's death moves a name to another tool.                *)
THEOREM FirstOfferKeeps == Spec => [][RoutesKept]_vars
    <1>1. Init => RoutesAreOffered
        BY DEF Init, RoutesAreOffered
    <1>2. QED
        BY <1>1, InitEstablishes, StepKeeps, StepKeepsRoutes, PTL DEF Spec
=============================================================================
