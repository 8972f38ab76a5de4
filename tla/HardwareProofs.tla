--------------------------- MODULE HardwareProofs ---------------------------
(* A profile's tools run nothing but vetted code and are never out of reach; *)
(* the Python sidecar answers each request at most once and in order; the    *)
(* GPIO backend keeps every line it was told to drive.                       *)
EXTENDS ProfileTool, Sidecar, BoardGpio, BasicLemmas

-----------------------------------------------------------------------------
(* The sidecar *)

SideSpec == SideInit /\ [][SideNext]_sideVars /\ SideFairness

PipeLines == [kind : {"reply", "junk"}, id : Nat, ok : BOOLEAN]

SideTyped ==
    /\ nextId \in Nat \ {0}
    /\ pending # None => pending \in Nat
    /\ running # None => running \in Nat
    /\ stdin \in Seq(Nat)
    /\ stdout \in Seq(PipeLines)

Answered == {i \in DOMAIN stdout : stdout[i].kind = "reply"}

\* What is in flight is in the order it was asked: answers in the pipe, then
\* the request being run, then those waiting; nothing is in two places.
InOrder ==
    /\ \A i \in Answered :
         /\ stdout[i].id < nextId
         /\ running # None => stdout[i].id < running
         /\ \A k \in DOMAIN stdin : stdout[i].id < stdin[k]
    /\ \A i, j \in Answered : i < j => stdout[i].id < stdout[j].id
    /\ running # None => running < nextId /\ \A k \in DOMAIN stdin : running < stdin[k]
    /\ \A k \in DOMAIN stdin : stdin[k] < nextId
    /\ \A k, l \in DOMAIN stdin : k < l => stdin[k] < stdin[l]

\* Once a request has got its answer the child is idle and owes no other.
IdleOnceAnswered ==
    outcome.by = "reply" /\ pending = None =>
        stdin = <<>> /\ running = None /\ Answered = {}

SideInv ==
    /\ SideTyped
    /\ InOrder
    /\ pending # None => pending = nextId - 1
    /\ IdleOnceAnswered
    /\ OwnReply

LEMMA SideInitEstablishes == SideInit => SideInv
    BY BoundsAssumption DEF BoundsAssumption, SideInit, SideInv, SideTyped, InOrder, Answered,
       IdleOnceAnswered, OwnReply

(* The lines of a pipe bear numbers.                                         *)
LEMMA LineIds ==
    ASSUME NEW q \in Seq(PipeLines), NEW i \in DOMAIN q
    PROVE  q[i].id \in Nat
    <1>1. q[i] \in PipeLines
        OBVIOUS
    <1>2. QED
        BY <1>1 DEF PipeLines

(* Reading a line off the pipe keeps the order of the others.                *)
LEMMA ReadLineKeeps ==
    ASSUME SideInv, stdout # <<>>, stdout' = Tail(stdout), UNCHANGED <<nextId, stdin, running>>
    PROVE  /\ stdout' \in Seq(PipeLines)
           /\ InOrder'
           /\ \A i \in Answered' : Head(stdout).kind = "reply" => Head(stdout).id < stdout'[i].id
    <1>1. /\ stdout \in Seq(PipeLines) /\ Len(stdout) \in Nat \ {0} /\ stdout' \in Seq(PipeLines)
          /\ \A i \in DOMAIN stdout' : i + 1 \in DOMAIN stdout /\ stdout'[i] = stdout[i + 1]
        BY TailTerms DEF SideInv, SideTyped
    <1>2. \A i \in DOMAIN stdout' : i \in Nat \ {0}
        BY <1>1
    <1>3. ASSUME NEW i \in Answered' PROVE i + 1 \in Answered /\ stdout'[i] = stdout[i + 1]
        BY <1>1, <1>3 DEF Answered
    <1>4. InOrder'
        <2>1. ASSUME NEW i \in Answered', NEW j \in Answered', i < j
              PROVE  stdout'[i].id < stdout'[j].id
            <3>1. i \in Nat /\ j \in Nat /\ i + 1 < j + 1
                BY <1>2, <2>1 DEF Answered
            <3>2. QED
                BY <1>3, <3>1 DEF SideInv, InOrder
        <2>2. QED
            BY <1>3, <2>1 DEF SideInv, InOrder
    <1>5. ASSUME NEW i \in Answered', Head(stdout).kind = "reply"
          PROVE  Head(stdout).id < stdout'[i].id
        <2>1. 1 \in Answered /\ Head(stdout) = stdout[1]
            BY <1>1, <1>5 DEF Answered
        <2>2. 1 < i + 1
            BY <1>2 DEF Answered
        <2>3. QED
            BY <1>3, <2>1, <2>2 DEF SideInv, InOrder
    <1>6. QED
        BY <1>1, <1>4, <1>5

(* A request that ends without an answer leaves the pipes as they were.      *)
LEMMA FailureKeeps ==
    ASSUME SideInv, SideTyped', InOrder', pending' = None,
           outcome'.by # "reply", ~outcome'.ok
    PROVE  SideInv'
    BY DEF SideInv, IdleOnceAnswered, OwnReply

LEMMA SideStepKeeps == SideInv /\ [SideNext]_sideVars => SideInv'
    <1> SUFFICES ASSUME SideInv, [SideNext]_sideVars PROVE SideInv'
        OBVIOUS
    <1> USE DEF child
    <1>1. ASSUME Send PROVE SideInv'
        <2>1. /\ pending' = nextId /\ nextId' = nextId + 1 /\ stdin' = Append(stdin, nextId)
              /\ UNCHANGED <<running, stdout, outcome>>
            BY <1>1 DEF Send
        <2>2. nextId \in Nat \ {0} /\ stdin \in Seq(Nat) /\ Len(stdin) \in Nat
            BY DEF SideInv, SideTyped
        <2>3. /\ DOMAIN stdin' = 1 .. Len(stdin) + 1
              /\ \A k \in DOMAIN stdin' : k <= Len(stdin) => k \in DOMAIN stdin /\ stdin'[k] = stdin[k]
              /\ stdin'[Len(stdin) + 1] = nextId
            BY <2>1, <2>2
        <2>4. \A k \in DOMAIN stdin : stdin[k] \in Nat
            BY <2>2
        <2>5. SideTyped'
            BY <2>1, <2>2 DEF SideInv, SideTyped
        <2>6. Answered' = Answered /\ \A i \in Answered : stdout[i].id \in Nat
            BY <2>1, LineIds DEF Answered, SideInv, SideTyped
        <2>7. ASSUME NEW k \in DOMAIN stdin'
              PROVE  /\ stdin'[k] < nextId'
                     /\ \A i \in Answered : stdout[i].id < stdin'[k]
                     /\ running # None => running < stdin'[k]
            <3>1. CASE k <= Len(stdin)
                BY <2>1, <2>2, <2>3, <2>4, <3>1 DEF SideInv, InOrder
            <3>2. CASE k = Len(stdin) + 1
                BY <2>1, <2>2, <2>3, <3>2 DEF SideInv, InOrder
            <3>3. QED
                BY <2>2, <2>3, <3>1, <3>2
        <2>8. ASSUME NEW k \in DOMAIN stdin', NEW l \in DOMAIN stdin', k < l
              PROVE  stdin'[k] < stdin'[l]
            <3>1. CASE l <= Len(stdin)
                BY <2>2, <2>3, <2>8, <3>1 DEF SideInv, InOrder
            <3>2. CASE l = Len(stdin) + 1
                <4>1. k <= Len(stdin)
                    BY <2>2, <2>3, <2>8, <3>2
                <4>2. QED
                    BY <2>3, <3>2, <4>1 DEF SideInv, InOrder
            <3>3. QED
                BY <2>2, <2>3, <3>1, <3>2
        <2>9. InOrder'
            <3>1. \A i \in Answered : stdout[i].id < nextId'
                BY <2>1, <2>2, <2>6 DEF SideInv, InOrder
            <3>2. running # None => running \in Nat /\ running < nextId'
                BY <2>1, <2>2 DEF SideInv, InOrder, SideTyped
            <3>3. \A i \in Answered : running # None => stdout[i].id < running
                BY DEF SideInv, InOrder
            <3>4. \A i, j \in Answered : i < j => stdout[i].id < stdout[j].id
                BY DEF SideInv, InOrder
            <3>5. QED
                BY <2>1, <2>6, <2>7, <2>8, <3>1, <3>2, <3>3, <3>4 DEF InOrder
        <2>10. pending' = nextId' - 1 /\ pending' # None
            BY <2>1, <2>2, BoundsAssumption DEF BoundsAssumption
        <2>11. QED
            BY <2>1, <2>5, <2>9, <2>10 DEF SideInv, IdleOnceAnswered, OwnReply
    <1>2. ASSUME WriteFails PROVE SideInv'
        <2>1. /\ pending' = None /\ outcome'.by = "write" /\ ~outcome'.ok
              /\ nextId' = nextId + 1 /\ UNCHANGED <<stdin, stdout, running>>
            BY <1>2 DEF WriteFails, Return
        <2>2. SideTyped'
            BY <2>1 DEF SideInv, SideTyped
        <2>3. nextId \in Nat /\ (\A k \in DOMAIN stdin : stdin[k] \in Nat)
              /\ (\A i \in Answered : stdout[i].id \in Nat)
            BY LineIds DEF SideInv, SideTyped, Answered
        <2>4. InOrder'
            BY <2>1, <2>3 DEF SideInv, SideTyped, InOrder, Answered
        <2>5. QED
            BY <2>1, <2>2, <2>4, FailureKeeps
    <1>3. ASSUME Timeout \/ Eof PROVE SideInv'
        <2>1. /\ pending' = None /\ outcome'.by # "reply" /\ ~outcome'.ok
              /\ UNCHANGED <<nextId, stdin, stdout, running>>
            <3>1. CASE Timeout
                BY <3>1 DEF Timeout, Return
            <3>2. CASE Eof
                BY <3>2 DEF Eof, Return
            <3>3. QED
                BY <1>3, <3>1, <3>2
        <2>2. SideTyped' /\ InOrder'
            BY <2>1 DEF SideInv, SideTyped, InOrder, Answered
        <2>3. QED
            BY <2>1, <2>2, FailureKeeps
    <1>4. ASSUME ReadMismatch \/ ReadJunk PROVE SideInv'
        <2>1. /\ pending' = None /\ outcome'.by # "reply" /\ ~outcome'.ok
              /\ stdout # <<>> /\ stdout' = Tail(stdout)
              /\ UNCHANGED <<nextId, stdin, running>>
            <3>1. CASE ReadMismatch
                BY <3>1 DEF ReadMismatch, Return
            <3>2. CASE ReadJunk
                BY <3>2 DEF ReadJunk, Return
            <3>3. QED
                BY <1>4, <3>1, <3>2
        <2>2. stdout' \in Seq(PipeLines) /\ InOrder'
            BY <2>1, ReadLineKeeps
        <2>3. SideTyped'
            BY <2>1, <2>2 DEF SideInv, SideTyped
        <2>4. QED
            BY <2>1, <2>2, <2>3, FailureKeeps
    <1>5. ASSUME ReadReply PROVE SideInv'
        <2>1. /\ pending # None /\ stdout # <<>> /\ stdout' = Tail(stdout)
              /\ Head(stdout).kind = "reply" /\ Head(stdout).id = pending
              /\ pending' = None
              /\ outcome' = [by |-> "reply", ok |-> Head(stdout).ok, asked |-> pending, told |-> pending]
              /\ UNCHANGED <<nextId, stdin, running>>
            BY <1>5 DEF ReadReply, Return
        <2>2. stdout' \in Seq(PipeLines) /\ InOrder' /\ \A i \in Answered' : pending < stdout'[i].id
            BY <2>1, ReadLineKeeps
        <2>3. SideTyped'
            BY <2>1, <2>2 DEF SideInv, SideTyped
        <2>4. pending = nextId - 1 /\ nextId \in Nat \ {0}
            BY <2>1 DEF SideInv, SideTyped
        <2>5. 1 \in Answered /\ stdout[1].id = pending
            BY <2>1 DEF Answered, SideInv, SideTyped
        <2>6. Answered' = {}
            <3>1. \A i \in Answered' : stdout'[i].id \in Nat /\ stdout'[i].id < nextId
                BY <2>1, <2>2, LineIds DEF InOrder, Answered
            <3>2. QED
                BY <2>2, <2>4, <3>1
        <2>7. running = None
            BY <2>4, <2>5 DEF SideInv, SideTyped, InOrder
        <2>8. stdin = <<>>
            <3>1. \A k \in DOMAIN stdin : stdin[k] \in Nat /\ pending < stdin[k] /\ stdin[k] < nextId
                BY <2>5 DEF SideInv, SideTyped, InOrder
            <3>2. ASSUME NEW k \in DOMAIN stdin PROVE FALSE
                BY <2>4, <3>1
            <3>3. QED
                <4>1. stdin \in Seq(Nat)
                    BY DEF SideInv, SideTyped
                <4>2. stdin # <<>> => 1 \in DOMAIN stdin
                    BY <4>1
                <4>3. QED
                    BY <3>2, <4>2
        <2>9. QED
            BY <2>1, <2>2, <2>3, <2>6, <2>7, <2>8 DEF SideInv, IdleOnceAnswered, OwnReply
    <1>6. ASSUME Receive PROVE SideInv'
        <2>1. /\ running = None /\ stdin # <<>> /\ running' = Head(stdin) /\ stdin' = Tail(stdin)
              /\ UNCHANGED <<nextId, pending, stdout, outcome>>
            BY <1>6 DEF Receive
        <2>2. /\ stdin \in Seq(Nat) /\ Len(stdin) \in Nat \ {0} /\ stdin' \in Seq(Nat)
              /\ \A k \in DOMAIN stdin' : k + 1 \in DOMAIN stdin /\ stdin'[k] = stdin[k + 1]
            BY <2>1, TailTerms DEF SideInv, SideTyped
        <2>3. 1 \in DOMAIN stdin /\ running' = stdin[1] /\ running' \in Nat
            BY <2>1, <2>2
        <2>4. SideTyped'
            BY <2>1, <2>2, <2>3 DEF SideInv, SideTyped
        <2>5. Answered' = Answered
            BY <2>1 DEF Answered
        <2>6. ASSUME NEW k \in DOMAIN stdin'
              PROVE  /\ running' < stdin'[k] /\ stdin'[k] < nextId
                     /\ \A i \in Answered : stdout[i].id < stdin'[k]
                     /\ \A l \in DOMAIN stdin' : k < l => stdin'[k] < stdin'[l]
            <3>1. k \in Nat \ {0} /\ \A l \in DOMAIN stdin' : l \in Nat
                BY <2>2
            <3>2. QED
                BY <2>2, <2>3, <3>1 DEF SideInv, InOrder
        <2>7. InOrder'
            <3>1. running' < nextId /\ \A i \in Answered : stdout[i].id < running'
                BY <2>3 DEF SideInv, InOrder
            <3>2. \A i \in Answered : stdout[i].id < nextId
                BY DEF SideInv, InOrder
            <3>3. \A i, j \in Answered : i < j => stdout[i].id < stdout[j].id
                BY DEF SideInv, InOrder
            <3>4. QED
                BY <2>1, <2>5, <2>6, <3>1, <3>2, <3>3 DEF InOrder
        <2>8. QED
            BY <2>1, <2>4, <2>7 DEF SideInv, IdleOnceAnswered, OwnReply
    <1>7. ASSUME NEW line \in PipeLines, stdout' = Append(stdout, line),
                 UNCHANGED <<nextId, pending, stdin, outcome>>,
                 running # None, running' \in {running, None},
                 line.kind = "reply" => line.id = running /\ running' = None
          PROVE  SideInv'
        <2>1. stdout \in Seq(PipeLines) /\ Len(stdout) \in Nat
            BY DEF SideInv, SideTyped
        <2>2. /\ DOMAIN stdout' = 1 .. Len(stdout) + 1
              /\ \A i \in DOMAIN stdout' : i <= Len(stdout) => i \in DOMAIN stdout /\ stdout'[i] = stdout[i]
              /\ stdout'[Len(stdout) + 1] = line
            BY <1>7, <2>1
        <2>3. SideTyped'
            BY <1>7, <2>1 DEF SideInv, SideTyped
        <2>4. ASSUME NEW i \in Answered'
              PROVE  \/ i \in Answered /\ stdout'[i] = stdout[i]
                     \/ i = Len(stdout) + 1 /\ stdout'[i] = line /\ line.kind = "reply"
            BY <2>1, <2>2 DEF Answered
        <2>5. ASSUME NEW i \in Answered'
              PROVE  /\ stdout'[i].id < nextId
                     /\ running' # None => stdout'[i].id < running'
                     /\ \A k \in DOMAIN stdin : stdout'[i].id < stdin[k]
            <3>1. CASE i \in Answered /\ stdout'[i] = stdout[i]
                BY <1>7, <3>1 DEF SideInv, InOrder
            <3>2. CASE stdout'[i] = line /\ line.kind = "reply"
                BY <1>7, <3>2 DEF SideInv, InOrder
            <3>3. QED
                BY <2>4, <3>1, <3>2
        <2>6. ASSUME NEW i \in Answered', NEW j \in Answered', i < j
              PROVE  stdout'[i].id < stdout'[j].id
            <3>1. i \in Answered /\ stdout'[i] = stdout[i]
                BY <2>1, <2>2, <2>4, <2>6 DEF Answered
            <3>2. CASE j \in Answered /\ stdout'[j] = stdout[j]
                BY <2>6, <3>1, <3>2 DEF SideInv, InOrder
            <3>3. CASE stdout'[j] = line /\ line.kind = "reply"
                BY <1>7, <3>1, <3>3 DEF SideInv, InOrder
            <3>4. QED
                BY <2>4, <3>2, <3>3
        <2>7. InOrder'
            <3>1. running' # None => running' < nextId /\ \A k \in DOMAIN stdin : running' < stdin[k]
                BY <1>7 DEF SideInv, InOrder
            <3>2. /\ \A k \in DOMAIN stdin : stdin[k] < nextId
                  /\ \A k, l \in DOMAIN stdin : k < l => stdin[k] < stdin[l]
                BY DEF SideInv, InOrder
            <3>3. QED
                BY <1>7, <2>5, <2>6, <3>1, <3>2 DEF InOrder
        <2>8. QED
            BY <1>7, <2>3, <2>7 DEF SideInv, IdleOnceAnswered, OwnReply
    <1>8. ASSUME PrintLine PROVE SideInv'
        <2>1. Junk \in PipeLines /\ Junk.kind # "reply"
            BY DEF Junk, PipeLines
        <2>2. QED
            BY <1>7, <1>8, <2>1 DEF PrintLine
    <1>9. ASSUME Answer PROVE SideInv'
        <2>1. PICK ok \in BOOLEAN : stdout' = Append(stdout, IF tainted THEN Junk ELSE Reply(running, ok))
            BY <1>9 DEF Answer
        <2>2. running # None /\ running' = None /\ UNCHANGED <<nextId, pending, stdin, outcome>>
            BY <1>9 DEF Answer
        <2>3. /\ Junk \in PipeLines /\ Junk.kind # "reply"
              /\ Reply(running, ok) \in PipeLines /\ Reply(running, ok).id = running
            BY <2>2 DEF Junk, Reply, PipeLines, SideInv, SideTyped
        <2>4. QED
            BY <1>7, <2>1, <2>2, <2>3
    <1>10. ASSUME UNCHANGED <<nextId, pending, stdin, running, stdout, outcome>> PROVE SideInv'
        BY <1>10 DEF SideInv, SideTyped, InOrder, Answered, IdleOnceAnswered, OwnReply
    <1>11. QED
        BY <1>1, <1>2, <1>3, <1>4, <1>5, <1>6, <1>8, <1>9, <1>10
           DEF SideNext, SkipInit, Drop, PrintNoNewline, CodeExits, KillTakesEffect, sideVars

(* A value returned to a tool is the value of its own expression             *)
(* (Sidecar::request).                                                       *)
THEOREM RepliesAreOwn == SideSpec => []OwnReply
    <1>1. SideInv => OwnReply
        BY DEF SideInv
    <1>2. QED
        BY SideInitEstablishes, SideStepKeeps, <1>1, PTL DEF SideSpec

(* Each request is run at most once and the answers come in the order of the *)
(* requests, whatever timed out and whatever the code printed.               *)
THEOREM RequestsInOrder == SideSpec => []InOrder
    <1>1. SideInv => InOrder
        BY DEF SideInv
    <1>2. QED
        BY SideInitEstablishes, SideStepKeeps, <1>1, PTL DEF SideSpec

(* When request returns with the answer it waited for, the child has nothing *)
(* left to run and the pipe holds no other answer: the two sides are in step *)
(* for the next request.                                                     *)
THEOREM AnswerMeansInStep == SideSpec => []IdleOnceAnswered
    <1>1. SideInv => IdleOnceAnswered
        BY DEF SideInv
    <1>2. QED
        BY SideInitEstablishes, SideStepKeeps, <1>1, PTL DEF SideSpec

-----------------------------------------------------------------------------
(* The GPIO backend *)

BoardSpec == GInit /\ [][GNext]_gvars

Owners == {"nobody", "backend", "another"}

GTyped ==
    /\ board = NoBoard \/ (board \in Boards /\ BoardLoads(board) /\ chips \in ChipSets)
    /\ owner \in [Lines -> Owners]
    /\ level \in [Lines -> Levels]

\* The requests kept, the kernel's loans and the levels set are of one set of
\* lines, each of which a pin of the board resolves to.
Kept ==
    /\ held = {l \in Lines : owner[l] = "backend"}
    /\ DOMAIN wanted = held
    /\ \A l \in held : level[l] = wanted[l]
    /\ \A l \in held : \E pin \in AllPins : ResolveLine(board, pin, chips) = <<l>>
    /\ answer # "own"
    /\ board = NoBoard => held = {}

BoardInv == GTyped /\ Kept

(* A pin of a loaded board stands for one line or for none.                  *)
LEMMA ResolvedIsLine ==
    ASSUME GTyped, board # NoBoard, NEW pin \in AllPins, ResolveLine(board, pin, chips) # <<>>
    PROVE  /\ ResolveLine(board, pin, chips)[1] \in Lines
           /\ ResolveLine(board, pin, chips) = <<ResolveLine(board, pin, chips)[1]>>
    <1> DEFINE found == ResolveLine(board, pin, chips)
    <1>1. board \in {b \in Boards : BoardLoads(b)} /\ chips \in ChipSets
        BY DEF GTyped
    <1>2. found \in {ResolveLine(raw, p, f) : raw \in {b \in Boards : BoardLoads(b)},
                                              p \in AllPins, f \in ChipSets} \ {<<>>}
        BY <1>1
    <1>3. found[1] \in Lines
        BY <1>2 DEF Lines
    <1>4. \E x : found = <<x>>
        BY DEF ResolveLine
    <1>5. QED
        BY <1>3, <1>4

LEMMA BoardInitEstablishes == GInit => BoardInv
    BY DEF GInit, BoardInv, GTyped, Kept, Owners, Levels

(* A step that touches no line keeps them all.                               *)
LEMMA FailsKeeps ==
    ASSUME BoardInv, NEW a, a # "own", Fails(a)
    PROVE  BoardInv'
    BY DEF BoardInv, GTyped, Kept, Fails, Answers

(* Driving a line that is the backend's by then keeps the levels set.        *)
LEMMA DrivesKeeps ==
    ASSUME BoardInv, board # NoBoard, NEW pin \in AllPins, NEW v \in Levels,
           ResolveLine(board, pin, chips) # <<>>,
           Answers("ok"), Drives(ResolveLine(board, pin, chips)[1], v),
           held' = held \cup {ResolveLine(board, pin, chips)[1]},
           owner' = [owner EXCEPT ![ResolveLine(board, pin, chips)[1]] = "backend"]
    PROVE  BoardInv'
    <1> DEFINE line == ResolveLine(board, pin, chips)[1]
    <1>1. line \in Lines /\ ResolveLine(board, pin, chips) = <<line>>
        BY ResolvedIsLine DEF BoardInv
    <1>2. UNCHANGED <<board, chips>> /\ answer' = "ok"
        BY DEF Answers
    <1>3. /\ level' = [level EXCEPT ![line] = v]
          /\ wanted' = [l \in DOMAIN wanted \cup {line} |-> IF l = line THEN v ELSE wanted[l]]
          /\ held' = held \cup {line} /\ owner' = [owner EXCEPT ![line] = "backend"]
        BY DEF Drives
    <1> HIDE DEF line
    <1>4. GTyped'
        BY <1>1, <1>2, <1>3 DEF BoardInv, GTyped, Owners
    <1>5. held' = {l \in Lines : owner'[l] = "backend"}
        BY <1>1, <1>3 DEF BoardInv, Kept, GTyped
    <1>6. DOMAIN wanted' = held' /\ \A l \in held' : level'[l] = wanted'[l]
        BY <1>1, <1>3 DEF BoardInv, Kept, GTyped
    <1>7. \A l \in held' : \E p \in AllPins : ResolveLine(board, p, chips) = <<l>>
        BY <1>1, <1>3 DEF BoardInv, Kept
    <1>8. QED
        BY <1>2, <1>4, <1>5, <1>6, <1>7 DEF BoardInv, Kept

LEMMA BoardStepKeeps == BoardInv /\ [GNext]_gvars => BoardInv'
    <1> SUFFICES ASSUME BoardInv, [GNext]_gvars PROVE BoardInv'
        OBVIOUS
    <1>1. ASSUME board = NoBoard, NEW raw \in Boards, NEW found \in ChipSets, Open(raw, found)
          PROVE  BoardInv'
        BY <1>1 DEF Open, BoardInv, GTyped, Kept
    <1>2. ASSUME NEW pin \in AllPins, Unresolved(pin) PROVE BoardInv'
        BY <1>2, FailsKeeps DEF Unresolved
    <1>3. ASSUME NEW pin \in AllPins, Read(pin) PROVE BoardInv'
        BY <1>3, FailsKeeps DEF Read
    <1>4. ASSUME NEW pin \in AllPins, NEW v \in Levels, Set(pin, v) PROVE BoardInv'
        <2> DEFINE line == ResolveLine(board, pin, chips)[1]
        <2>1. board # NoBoard /\ ResolveLine(board, pin, chips) # <<>>
            BY <1>4 DEF Set
        <2>2. line \in Lines
            BY <2>1, ResolvedIsLine DEF BoardInv
        <2>3. CASE line \in held /\ Answers("ok") /\ Drives(line, v) /\ UNCHANGED <<held, owner>>
            <3>1. owner[line] = "backend" /\ owner \in [Lines -> Owners]
                BY <2>3 DEF BoardInv, Kept, GTyped
            <3>2. held' = held \cup {line} /\ owner' = [owner EXCEPT ![line] = "backend"]
                BY <2>2, <2>3, <3>1
            <3>3. QED
                BY <2>1, <2>3, <3>2, DrivesKeeps
        <2>4. CASE /\ Answers("ok") /\ Drives(line, v)
                   /\ held' = held \cup {line} /\ owner' = [owner EXCEPT ![line] = "backend"]
            BY <2>1, <2>4, DrivesKeeps
        <2>5. CASE line \notin held /\ Fails(IF owner[line] = "backend" THEN "own" ELSE "busy")
            <3>1. owner[line] # "backend"
                BY <2>2, <2>5 DEF BoardInv, Kept
            <3>2. QED
                BY <2>5, <3>1, FailsKeeps
        <2>6. CASE Fails("error")
            BY <2>6, FailsKeeps
        <2>7. QED
            BY <1>4, <2>3, <2>4, <2>5, <2>6 DEF Set, Key
    <1>5. ASSUME Close PROVE BoardInv'
        BY <1>5 DEF Close, BoardInv, GTyped, Kept, Owners, Levels
    <1>6. ASSUME NEW line \in Lines, OtherProcess(line) PROVE BoardInv'
        <2>1. /\ UNCHANGED <<board, chips, held, wanted, answer>>
              /\ owner[line] # "backend"
              /\ \E o \in Owners \ {"backend"} : owner' = [owner EXCEPT ![line] = o]
              /\ \E v \in Levels : level' = [level EXCEPT ![line] = v]
            BY <1>6 DEF OtherProcess, Owners, Levels
        <2>2. GTyped'
            BY <2>1 DEF BoardInv, GTyped
        <2>3. held' = {l \in Lines : owner'[l] = "backend"}
            BY <2>1 DEF BoardInv, Kept, GTyped
        <2>4. \A l \in held : level'[l] = wanted'[l]
            BY <2>1 DEF BoardInv, Kept, GTyped
        <2>5. QED
            BY <2>1, <2>2, <2>3, <2>4 DEF BoardInv, Kept
    <1>7. CASE UNCHANGED gvars
        BY <1>7 DEF gvars, BoardInv, GTyped, Kept
    <1>8. QED
        BY <1>1, <1>2, <1>3, <1>4, <1>5, <1>6, <1>7 DEF GNext

(* A level that was set lasts, no line is driven that the board has no pin   *)
(* for, and the backend never stands in its own way (CdevGpio::set).         *)
THEOREM LevelsLast == BoardSpec => []SetLevelLasts
    <1>1. BoardInv => SetLevelLasts
        BY DEF BoardInv, GTyped, Kept, SetLevelLasts
    <1>2. QED
        BY BoardInitEstablishes, BoardStepKeeps, <1>1, PTL DEF BoardSpec

-----------------------------------------------------------------------------
(* The profile's tools *)

ToolSpec == TInit /\ [][TNext]_tvars

\* The arguments have the parameters' names and JSON values.
Given(args, params) == DOMAIN args = Named(params) => \A n \in DOMAIN args : args[n] \in Values

ToolInv ==
    /\ profile # <<>> => profile[1] \in Raws /\ Loads(profile[1])
    /\ last # NoCall =>
        /\ profile # <<>> /\ last.intent \in DOMAIN profile[1].intents
        /\ last.plan = Plan(LastIntent, last.args)
        /\ Given(last.args, LastIntent.params)

(* What is tried as arguments are values, where the keys are right.          *)
LEMMA ArgsAreGiven ==
    ASSUME NEW i, NEW args \in ArgSets(i)
    PROVE  Given(args, profile[1].intents[i].params)
    <1> DEFINE names == Named(profile[1].intents[i].params)
    <1> SUFFICES ASSUME DOMAIN args = names, NEW n \in names PROVE args[n] \in Values
        BY DEF Given
    <1>1. CASE args \in [names -> Values]
        BY <1>1
    <1>2. CASE \E f \in [names -> Values] :
                args = [a \in names \cup {"extra"} |-> IF a = "extra" THEN CHOOSE v \in Values : TRUE ELSE f[a]]
        <2>1. PICK f \in [names -> Values] :
                args = [a \in names \cup {"extra"} |-> IF a = "extra" THEN CHOOSE v \in Values : TRUE ELSE f[a]]
            BY <1>2
        <2>2. f[n] \in Values
            OBVIOUS
        <2>3. (CHOOSE v \in Values : TRUE) \in Values
            BY <2>2
        <2>4. QED
            BY <2>1, <2>2, <2>3
    <1>3. CASE \E m \in names : args \in [names \ {m} -> Values]
        BY <1>3
    <1>4. QED
        BY <1>1, <1>2, <1>3 DEF ArgSets

LEMMA ToolInitEstablishes == TInit => ToolInv
    BY DEF TInit, ToolInv

LEMMA ToolStepKeeps == ToolInv /\ [TNext]_tvars => ToolInv'
    <1> SUFFICES ASSUME ToolInv, [TNext]_tvars PROVE ToolInv'
        OBVIOUS
    <1>1. ASSUME profile = <<>>, NEW raw \in Raws, Load(raw) PROVE ToolInv'
        <2>1. Loads(raw) /\ profile' = <<raw>> /\ last' = last
            BY <1>1 DEF Load
        <2>2. last = NoCall
            BY <1>1 DEF ToolInv
        <2>3. profile'[1] = raw
            BY <2>1
        <2>4. QED
            BY <2>1, <2>2, <2>3 DEF ToolInv
    <1>2. ASSUME NEW byte, PushRead(byte) PROVE ToolInv'
        BY <1>2 DEF PushRead, ToolInv, LastIntent
    <1>3. ASSUME NEW i \in DOMAIN profile[1].intents, NEW args \in ArgSets(i), profile # <<>>,
                 NEW dry, NEW result,
                 Called(i, args, dry, Plan(profile[1].intents[i], args), result)
          PROVE  ToolInv'
        <2>1. /\ profile' = profile
              /\ last' = [intent |-> i, args |-> args, dry |-> dry,
                          plan |-> Plan(profile[1].intents[i], args), result |-> result]
            BY <1>3 DEF Called
        <2>2. LastIntent' = profile[1].intents[i]
            BY <2>1 DEF LastIntent
        <2>3. Given(args, profile[1].intents[i].params)
            BY ArgsAreGiven
        <2>4. QED
            BY <1>3, <2>1, <2>2, <2>3 DEF ToolInv
    <1>4. ASSUME NEW i \in DOMAIN profile[1].intents, NEW args \in ArgSets(i), profile # <<>>,
                 \/ DryRun(i, args) \/ Refuse(i, args) \/ RunNative(i, args)
                 \/ \E result \in {"ok", "device", "no sidecar"} : RunPython(i, args, result)
          PROVE  ToolInv'
        BY <1>3, <1>4 DEF DryRun, Refuse, RunNative, RunPython
    <1>5. CASE UNCHANGED tvars
        BY <1>5 DEF tvars, ToolInv, LastIntent
    <1>6. QED
        BY <1>1, <1>2, <1>4, <1>5 DEF TNext

\* A piece of code that comes from the profile's text, or from an argument
\* that its parameter vouches for.
Vetted(intent, piece) ==
    \/ piece.kind = "text" /\ piece.str \in Range(intent.python[1].call)
    \/ /\ piece.kind = "str"
       /\ \E p \in Range(intent.params) : p.enum # <<>> /\ piece.str \in p.enum[1]
       /\ piece.str \in PlainWords
    \/ /\ piece.kind \in {"int", "float"}
       /\ \E p \in Range(intent.params) : Numeric(p) /\ InRange(p, piece.num)
    \/ piece.kind = "bool"

(* An argument bound to a parameter of a valid Python intent is vetted.      *)
LEMMA BoundIsVetted ==
    ASSUME NEW intent, ValidIntent(intent), intent.python # <<>>,
           \A p \in Range(intent.params) : ParamIsTyped(p),
           NEW args, Binds(args, intent.params), Given(args, intent.params),
           NEW n \in Named(intent.params)
    PROVE  Vetted(intent, Bound(args, intent.params)[n])
    <1> DEFINE params == intent.params
               p == CHOOSE p \in Range(params) : p.name = n
               v == args[n]
    <1>1. p \in Range(params) /\ p.name = n
        BY DEF Named, Range
    <1>2. PICK j \in DOMAIN params : p = params[j]
        BY <1>1 DEF Range
    <1>3. Fits(p, v) /\ ValidParam(p) /\ (p.ty = "string" => p.enum # <<>>)
        BY <1>1, <1>2 DEF Binds, ValidIntent, ValidPython
    <1>4. v \in [kind : {"int", "float", "str", "bool"}, num : Numbers, str : STRING]
        BY ValuesAssumption DEF ValuesAssumption, Binds, Given
    <1>5. Bound(args, params)[n] = BindParam(p, v)
        BY DEF Bound
    <1>6. p.ty \in {"int", "float", "string", "bool"}
        BY <1>1 DEF ParamIsTyped
    <1> HIDE DEF p, v
    <1>7. CASE p.ty = "int"
        <2>1. BindParam(p, v) = v /\ v.kind = "int" /\ InRange(p, v.num) /\ Numeric(p)
            BY <1>3, <1>7 DEF BindParam, Fits, Numeric
        <2>2. QED
            BY <1>1, <1>5, <2>1 DEF Vetted
    <1>8. CASE p.ty = "float"
        <2> DEFINE f == AsF64[v.num]
        <2>1. BindParam(p, v) = [v EXCEPT !.kind = "float", !.num = f] /\ InRange(p, v.num) /\ Numeric(p)
            BY <1>3, <1>8 DEF BindParam, Fits, Numeric
        <2>2. AsF64[f] = f
            BY <1>4, NumbersAssumption
        <2>3. InRange(p, f)
            BY <2>1, <2>2 DEF InRange
        <2> HIDE DEF f
        <2>4. BindParam(p, v).kind = "float" /\ BindParam(p, v).num = f
            BY <1>4, <2>1
        <2>5. QED
            BY <1>1, <1>5, <2>1, <2>3, <2>4 DEF Vetted
    <1>9. CASE p.ty = "string"
        <2>1. BindParam(p, v) = v /\ v.kind = "str" /\ p.enum # <<>> /\ v.str \in p.enum[1]
            BY <1>3, <1>9 DEF BindParam, Fits
        <2>2. v.str \in PlainWords
            BY <1>3, <1>9, <2>1 DEF ValidParam, Numeric
        <2>3. QED
            BY <1>1, <1>5, <2>1, <2>2 DEF Vetted
    <1>10. CASE p.ty = "bool"
        <2>1. BindParam(p, v) = v /\ v.kind = "bool"
            BY <1>3, <1>10 DEF BindParam, Fits
        <2>2. QED
            BY <1>5, <2>1 DEF Vetted
    <1>11. QED
        BY <1>6, <1>7, <1>8, <1>9, <1>10

(* So is every piece of the code rendered from a valid template.             *)
LEMMA RenderedIsVetted ==
    ASSUME NEW intent, ValidIntent(intent), intent.python # <<>>,
           intent.python[1].call \in Seq(STRING),
           \A p \in Range(intent.params) : ParamIsTyped(p),
           NEW args, Binds(args, intent.params), Given(args, intent.params),
           NEW i \in DOMAIN Render(intent.python[1].call, Bound(args, intent.params))
    PROVE  Vetted(intent, Render(intent.python[1].call, Bound(args, intent.params))[i])
    <1> DEFINE t == intent.python[1].call
    <1>1. i \in DOMAIN t /\ i \in Int
        <2>1. i \in {j \in DOMAIN t : t[j] \notin {"{", "}"}}
            BY DEF Render
        <2>2. DOMAIN t \subseteq Int
            OBVIOUS
        <2> HIDE DEF t
        <2>3. QED
            BY <2>1, <2>2
    <1>2. CASE i - 1 \in Opens(t)
        <2>1. t[(i - 1) + 1] \in Placeholders(t)
            BY <1>2 DEF Placeholders
        <2>2. t[i] \in Placeholders(t)
            BY <1>1, <2>1
        <2>3. Placeholders(t) = Named(intent.params)
            BY DEF ValidIntent, ValidPython, CoversParams
        <2>4. QED
            BY <1>1, <1>2, <2>2, <2>3, BoundIsVetted DEF Render
    <1>3. CASE i - 1 \notin Opens(t)
        <2>1. Render(t, Bound(args, intent.params))[i] = Text(t[i])
            BY <1>1, <1>3 DEF Render
        <2>2. QED
            BY <1>1, <2>1 DEF Vetted, Text, Range
    <1>4. QED
        BY <1>2, <1>3

(* An operation of the transport is no code.                                 *)
LEMMA OperationsAreNoCode ==
    ASSUME NEW native, native.op \in AllowedOps, NEW bound
    PROVE  BuildNativeOp(native, bound).way \in {"refused", "native"}
    BY DEF BuildNativeOp, AllowedOps, Refused, Native

(* Code given to Python is the profile's own text with numbers in their      *)
(* bounds, booleans and whitelisted words in its holes, for any profile that *)
(* loads and any arguments (validate_python_call, bind_param, render).       *)
THEOREM ModelWritesNoCode == ToolSpec => []OnlyVettedValues
    <1>1. ASSUME ToolInv, last.plan.way \in {"eval", "exec"} PROVE OnlyVettedValues
        <2> DEFINE intent == LastIntent
        <2>1. last # NoCall
            BY <1>1 DEF NoCall, Refused
        <2>2. /\ profile[1] \in Raws /\ Loads(profile[1]) /\ last.intent \in DOMAIN profile[1].intents
              /\ last.plan = Plan(intent, last.args) /\ Given(last.args, intent.params)
            BY <1>1, <2>1 DEF ToolInv
        <2>3. /\ ValidIntent(intent) /\ (\A p \in Range(intent.params) : ParamIsTyped(p))
              /\ intent.python # <<>> => intent.python[1].call \in Seq(STRING)
            BY <2>2, RawsAssumption DEF RawsAssumption, Loads, LastIntent
        <2> HIDE DEF intent
        <2>4. /\ Binds(last.args, intent.params) /\ intent.python # <<>>
              /\ last.plan.code = Render(intent.python[1].call, Bound(last.args, intent.params))
            <3>1. CASE ~Binds(last.args, intent.params)
                BY <1>1, <2>2, <3>1 DEF Plan, Refused
            <3>2. CASE Binds(last.args, intent.params) /\ intent.python = <<>>
                <4>1. last.plan = BuildNativeOp(intent.native[1], Bound(last.args, intent.params))
                    BY <2>2, <3>2 DEF Plan
                <4>2. intent.native # <<>>
                    <5>1. Len(intent.native) + Len(intent.python) = 1
                        BY <2>3 DEF ValidIntent
                    <5>2. Len(intent.python) = 0
                        BY <3>2
                    <5>3. intent.native = <<>> => Len(intent.native) = 0
                        OBVIOUS
                    <5>4. QED
                        BY <5>1, <5>2, <5>3
                <4>3. intent.native[1].op \in AllowedOps
                    BY <2>3, <4>2 DEF ValidIntent, ValidNative
                <4>4. QED
                    BY <1>1, <4>1, <4>3, OperationsAreNoCode
            <3>3. CASE Binds(last.args, intent.params) /\ intent.python # <<>>
                <4> DEFINE code == Render(intent.python[1].call, Bound(last.args, intent.params))
                <4>1. last.plan \in {Python("eval", code), Python("exec", code)}
                    BY <2>2, <3>3 DEF Plan
                <4>2. Python("eval", code).code = code /\ Python("exec", code).code = code
                    BY DEF Python
                <4>3. last.plan.code = code
                    BY <4>1, <4>2
                <4>4. QED
                    BY <3>3, <4>3
            <3>4. QED
                BY <3>1, <3>2, <3>3
        <2>5. \A k \in DOMAIN last.plan.code : Vetted(intent, last.plan.code[k])
            BY <2>2, <2>3, <2>4, RenderedIsVetted
        <2>6. QED
            BY <2>5 DEF OnlyVettedValues, Vetted, intent
    <1>2. ToolInv => OnlyVettedValues
        BY <1>1 DEF OnlyVettedValues
    <1>3. QED
        BY ToolInitEstablishes, ToolStepKeeps, <1>2, PTL DEF ToolSpec

(* An i64 is on the same side of a bound and of the bound cut to an i64.     *)
LEMMA CuttingTheBound ==
    ASSUME NEW h \in Int, NEW n \in Int, n % 2 = 0, IsI64(n)
    PROVE  /\ n >= h => n >= 2 * AsI64(h)
           /\ n <= h => n <= 2 * AsI64(h)
    <1>1. MaxInt \in Nat /\ MinInt \in Int
        BY NumbersAssumption DEF MinInt
    <1>2. CASE h < 2 * MinInt \/ h > 2 * MaxInt
        BY <1>1, <1>2 DEF AsI64, IsI64, MinInt
    <1>3. CASE ~(h < 2 * MinInt) /\ ~(h > 2 * MaxInt)
        BY <1>1, <1>3 DEF AsI64
    <1>4. QED
        BY <1>2, <1>3

(* Rounding takes no number past a bound, which is an f64.                   *)
LEMMA RoundingKeepsSides ==
    ASSUME NEW p, ParamIsTyped(p), NEW n \in Numbers, Within(p, n)
    PROVE  InRange(p, n)
    <1>1. ASSUME p.min # <<>> PROVE AsF64[n] >= p.min[1]
        <2>1. p.min[1] \in Numbers /\ AsF64[p.min[1]] = p.min[1] /\ n >= p.min[1]
            BY <1>1 DEF ParamIsTyped, Within
        <2>2. QED
            BY <2>1, NumbersAssumption
    <1>2. ASSUME p.max # <<>> PROVE AsF64[n] <= p.max[1]
        <2>1. p.max[1] \in Numbers /\ AsF64[p.max[1]] = p.max[1] /\ n <= p.max[1]
            BY <1>2 DEF ParamIsTyped, Within
        <2>2. QED
            BY <2>1, NumbersAssumption
    <1>3. QED
        BY <1>1, <1>2 DEF InRange, Within

LEMMA BoundArgsMeetSchema ==
    ASSUME NEW p, ParamIsTyped(p), NEW v \in Values, Fits(p, v), AsF64[v.num] = v.num
    PROVE  SchemaFits(p, v)
    <1>1. v.num \in Int /\ (v.kind = "int" => v.num % 2 = 0)
        BY ValuesAssumption, NumbersAssumption DEF ValuesAssumption
    <1>2. CASE p.ty = "int"
        <2>1. v.kind = "int" /\ IsI64(v.num) /\ Within(p, v.num)
            BY <1>2 DEF Fits, InRange
        <2>2. /\ p.min # <<>> => p.min[1] \in Int /\ v.num >= p.min[1]
              /\ p.max # <<>> => p.max[1] \in Int /\ v.num <= p.max[1]
            BY <2>1, NumbersAssumption DEF ParamIsTyped, Within
        <2>3. /\ p.min # <<>> => v.num >= 2 * AsI64(p.min[1])
              /\ p.max # <<>> => v.num <= 2 * AsI64(p.max[1])
            BY <1>1, <2>1, <2>2, CuttingTheBound
        <2>4. QED
            BY <1>1, <1>2, <2>1, <2>3 DEF SchemaFits
    <1>3. CASE p.ty = "float"
        BY <1>3 DEF Fits, SchemaFits, InRange
    <1>4. CASE p.ty \notin {"int", "float"}
        BY <1>4 DEF SchemaFits
    <1>5. QED
        BY <1>2, <1>3, <1>4

LEMMA SchemaArgsBind ==
    ASSUME NEW p, ParamIsTyped(p), NEW v \in Values, SchemaFits(p, v),
           p.ty = "int" => v.kind = "int" /\ IsI64(v.num),
           p.ty = "int" => \A b \in {p.min, p.max} : b # <<>> => b[1] = 2 * AsI64(b[1])
    PROVE  Fits(p, v)
    <1>1. v.num \in Numbers
        BY ValuesAssumption DEF ValuesAssumption
    <1>2. CASE p.ty = "int"
        <2>1. Within(p, v.num)
            BY <1>2 DEF SchemaFits, Within
        <2>2. QED
            BY <1>1, <1>2, <2>1, RoundingKeepsSides DEF Fits
    <1>3. CASE p.ty = "float"
        BY <1>1, <1>3, RoundingKeepsSides DEF SchemaFits, Fits
    <1>4. CASE p.ty \notin {"int", "float"}
        BY <1>4 DEF SchemaFits
    <1>5. QED
        BY <1>2, <1>3, <1>4

(* The value bound to a name is that of the parameter with the name.         *)
LEMMA BoundByName ==
    ASSUME NEW params, NoDuplicates(params), NEW args, NEW p \in Range(params)
    PROVE  Bound(args, params)[p.name] = BindParam(p, args[p.name])
    <1> DEFINE q == CHOOSE r \in Range(params) : r.name = p.name
    <1>1. q \in Range(params) /\ q.name = p.name
        OBVIOUS
    <1>2. PICK i \in DOMAIN params, j \in DOMAIN params : p = params[i] /\ q = params[j]
        BY <1>1 DEF Range
    <1>3. q = p
        BY <1>1, <1>2 DEF NoDuplicates
    <1>4. p.name \in Named(params)
        BY <1>2 DEF Named
    <1>5. Bound(args, params)[p.name] = BindParam(q, args[p.name])
        BY <1>4 DEF Bound
    <1>6. QED
        BY <1>3, <1>5

LEMMA HalvesOfByte ==
    ASSUME NEW n \in Int, 0 <= n, n <= 510
    PROVE  n \div 2 \in 0 .. 255
    OBVIOUS

(* A careful native argument comes to a byte, or to a level.                 *)
LEMMA CarefulArgsResolve ==
    ASSUME NEW params, NoDuplicates(params), \A p \in Range(params) : ParamIsTyped(p),
           NEW args, Binds(args, params), Given(args, params), NEW t
    PROVE  /\ IntArg(t, params) => ToU8(ResolveInt(t, Bound(args, params))) # <<>>
           /\ BoolArg(t, params) => ResolveBool(t, Bound(args, params)) # <<>>
    <1>1. ASSUME NEW p \in Range(params)
          PROVE  Fits(p, args[p.name]) /\ args[p.name] \in Values
        <2>1. PICK j \in DOMAIN params : p = params[j]
            BY DEF Range
        <2>2. p.name \in Named(params)
            BY <2>1 DEF Named
        <2>3. QED
            BY <2>1, <2>2 DEF Binds, Given
    <1>2. ASSUME IntArg(t, params), SinglePlaceholder(t)
          PROVE  ToU8(ResolveInt(t, Bound(args, params))) # <<>>
        <2>1. PICK p \in Range(params) :
                /\ p.name = t[2] /\ p.ty = "int" /\ p.min # <<>> /\ p.max # <<>>
                /\ p.min[1] >= 0 /\ p.max[1] <= 510
            BY <1>2 DEF IntArg
        <2> DEFINE v == args[p.name]
        <2>2. v.kind = "int" /\ AsF64[v.num] >= p.min[1] /\ AsF64[v.num] <= p.max[1]
            BY <1>1, <2>1 DEF Fits, InRange, Within
        <2>3. v.num \in Numbers /\ v.num \in Int /\ AsF64[v.num] \in Int /\ p.min[1] \in Int /\ p.max[1] \in Int
            BY <1>1, <2>1, ValuesAssumption, NumbersAssumption DEF ValuesAssumption, ParamIsTyped
        <2>4. v.num \div 2 \in 0 .. 255
            <3> HIDE DEF v
            <3>1. p.min[1] <= AsF64[v.num] /\ 0 <= p.min[1] /\ p.max[1] <= 510 /\ AsF64[v.num] <= p.max[1]
                BY <2>1, <2>2, <2>3
            <3>4. AsF64[v.num] \in 0 .. 510
                BY <2>3, <3>1
            <3>5. \A n \in Numbers : AsF64[n] \in 0 .. 510 => AsF64[n] = n
                BY NumbersAssumption
            <3>6. PICK n \in Numbers : n = v.num
                BY <2>3
            <3>7. AsF64[n] = n
                BY <3>4, <3>5, <3>6, Zenon
            <3>2. 0 <= v.num /\ v.num <= 510
                BY <3>4, <3>6, <3>7
            <3>3. QED
                BY <2>3, <3>2, HalvesOfByte
        <2>5. Bound(args, params)[t[2]] = v
            BY <2>1, BoundByName DEF BindParam
        <2>6. ResolveInt(t, Bound(args, params)) = <<v.num \div 2>>
            BY <1>2, <2>2, <2>5 DEF ResolveInt
        <2> HIDE DEF v
        <2>7. QED
            BY <2>4, <2>6 DEF ToU8
    <1>3. ASSUME BoolArg(t, params), SinglePlaceholder(t)
          PROVE  ResolveBool(t, Bound(args, params)) # <<>>
        <2>1. PICK p \in Range(params) : p.name = t[2] /\ p.ty = "bool"
            BY <1>3 DEF BoolArg
        <2>2. args[p.name].kind = "bool"
            BY <1>1, <2>1 DEF Fits
        <2>3. Bound(args, params)[t[2]] = args[p.name]
            BY <2>1, BoundByName DEF BindParam
        <2>4. QED
            BY <1>3, <2>2, <2>3 DEF ResolveBool
    <1>4. ASSUME ~SinglePlaceholder(t)
          PROVE  /\ ResolveInt(t, Bound(args, params)) = ResolveInt(t, NoArgs)
                 /\ ResolveBool(t, Bound(args, params)) = ResolveBool(t, NoArgs)
        BY <1>4 DEF ResolveInt, ResolveBool
    <1>5. QED
        BY <1>2, <1>3, <1>4 DEF IntArg, BoolArg

(* An operation whose arguments all resolve is built.                        *)
LEMMA ResolvedIsBuilt ==
    ASSUME NEW native, NEW bound, native.op \in AllowedOps,
           DOMAIN native.args = RequiredNativeArgs(native.op),
           \A k \in DOMAIN native.args :
             IF k = "high" THEN ResolveBool(native.args[k], bound) # <<>>
             ELSE ToU8(ResolveInt(native.args[k], bound)) # <<>>
    PROVE  BuildNativeOp(native, bound).way = "native"
    <1>1. CASE native.op = "i2c_scan"
        BY <1>1 DEF BuildNativeOp, Native
    <1>2. CASE native.op = "i2c_write_reg"
        BY <1>2 DEF BuildNativeOp, Native, RequiredNativeArgs
    <1>3. CASE native.op = "i2c_read_reg"
        BY <1>3 DEF BuildNativeOp, Native, RequiredNativeArgs
    <1>4. CASE native.op = "gpio_set"
        BY <1>4 DEF BuildNativeOp, Native, RequiredNativeArgs
    <1>5. CASE native.op = "gpio_read"
        BY <1>5 DEF BuildNativeOp, Native, RequiredNativeArgs
    <1>6. QED
        BY <1>1, <1>2, <1>3, <1>4, <1>5 DEF AllowedOps

(* The checks at load and the schema shown to the model agree with what a    *)
(* call needs, whatever the range of integers and the rounding: a careful    *)
(* profile that loads refuses no arguments that meet its schema, unless an   *)
(* integer is no i64 or is not written as one                                *)
(* (validate_and_convert, json_schema, bind_param, build_native_op).         *)
THEOREM LoadedProfilesReach == ToolSpec => []LoadedCallsReach
    <1>1. ASSUME ToolInv, last # NoCall PROVE LoadedCallsReach
        <2> DEFINE intent == LastIntent
                   params == intent.params
                   args == last.args
        <2>1. /\ profile[1] \in Raws /\ Loads(profile[1]) /\ last.intent \in DOMAIN profile[1].intents
              /\ last.plan = Plan(intent, args) /\ Given(args, params)
            BY <1>1 DEF ToolInv
        <2>2. ValidIntent(intent) /\ \A p \in Range(params) : ParamIsTyped(p)
            BY <2>1, RawsAssumption DEF RawsAssumption, Loads, LastIntent
        <2> HIDE DEF intent
        <2>3. ASSUME DOMAIN args = Named(params), NEW i \in DOMAIN params
              PROVE  ParamIsTyped(params[i]) /\ args[params[i].name] \in Values
            <3>1. params[i] \in Range(params) /\ params[i].name \in Named(params)
                BY DEF Range, Named
            <3>2. QED
                BY <2>1, <2>2, <2>3, <3>1 DEF Given
        <2>4. Binds(args, params) /\ IsExact(args) => SchemaAccepts(args, params)
            <3>1. ASSUME Binds(args, params), IsExact(args), NEW i \in DOMAIN params
                  PROVE  SchemaFits(params[i], args[params[i].name])
                <4>1. params[i].name \in DOMAIN args
                    BY <3>1 DEF Binds, Named
                <4>2. QED
                    BY <2>3, <3>1, <4>1, BoundArgsMeetSchema DEF Binds, IsExact
            <3>2. QED
                BY <3>1 DEF Binds, SchemaAccepts
        <2>5. ASSUME CarefulIntent(intent), SchemaAccepts(args, params), TakesInts(args, params)
              PROVE  last.plan.way # "refused"
            <3>1. Binds(args, params)
                <4>1. ASSUME NEW i \in DOMAIN params PROVE Fits(params[i], args[params[i].name])
                    <5>1. params[i] \in Range(params)
                        BY DEF Range
                    <5>2. /\ SchemaFits(params[i], args[params[i].name])
                          /\ ParamIsTyped(params[i]) /\ args[params[i].name] \in Values
                        BY <2>3, <2>5 DEF SchemaAccepts
                    <5>3. params[i].ty = "int" =>
                            /\ args[params[i].name].kind = "int" /\ IsI64(args[params[i].name].num)
                            /\ \A b \in {params[i].min, params[i].max} : b # <<>> => b[1] = 2 * AsI64(b[1])
                        BY <2>5, <5>1 DEF CarefulIntent, TakesInts
                    <5>4. QED
                        BY <5>2, <5>3, SchemaArgsBind
                <4>2. QED
                    BY <2>5, <4>1 DEF Binds, SchemaAccepts
            <3>2. CASE intent.python # <<>>
                <4>1. \E code : last.plan \in {Python("eval", code), Python("exec", code)}
                    BY <2>1, <3>1, <3>2 DEF Plan
                <4>2. \A code : Python("eval", code).way # "refused" /\ Python("exec", code).way # "refused"
                    BY DEF Python
                <4>3. QED
                    BY <4>1, <4>2
            <3>3. CASE intent.python = <<>>
                <4> DEFINE native == intent.native[1]
                <4>1. last.plan = BuildNativeOp(native, Bound(args, params))
                    BY <2>1, <3>1, <3>3 DEF Plan
                <4>2. intent.native # <<>>
                    <5>1. Len(intent.native) + Len(intent.python) = 1
                        BY <2>2 DEF ValidIntent
                    <5>2. Len(intent.python) = 0
                        BY <3>3
                    <5>3. intent.native = <<>> => Len(intent.native) = 0
                        OBVIOUS
                    <5>4. QED
                        BY <5>1, <5>2, <5>3
                <4>3. /\ NoDuplicates(params) /\ native.op \in AllowedOps
                      /\ DOMAIN native.args = RequiredNativeArgs(native.op)
                    BY <2>2, <4>2 DEF ValidIntent, ValidNative
                <4>4. ASSUME NEW k \in DOMAIN native.args
                      PROVE  IF k = "high" THEN ResolveBool(native.args[k], Bound(args, params)) # <<>>
                             ELSE ToU8(ResolveInt(native.args[k], Bound(args, params))) # <<>>
                    <5>1. IF k = "high" THEN BoolArg(native.args[k], params)
                          ELSE IntArg(native.args[k], params)
                        BY <2>5, <4>2 DEF CarefulIntent
                    <5>2. QED
                        BY <2>1, <2>2, <3>1, <4>3, <5>1, CarefulArgsResolve
                <4>5. QED
                    BY <4>1, <4>3, <4>4, ResolvedIsBuilt
            <3>4. QED
                BY <3>2, <3>3
        <2>6. QED
            BY <2>4, <2>5 DEF LoadedCallsReach, intent
    <1>2. ToolInv => LoadedCallsReach
        BY <1>1 DEF LoadedCallsReach
    <1>3. QED
        BY ToolInitEstablishes, ToolStepKeeps, <1>2, PTL DEF ToolSpec
=============================================================================
