---------------------------- MODULE EventEmitter ----------------------------
(***************************************************************************)
(* net/EventEmitter.c, the bus between the core and its pathfinders, and   *)
(* the pathfinders' side of it (dht/Pathfinder.c).  Messages cross in both *)
(* directions through an ASynchronizer: in order, later.  What a message   *)
(* carries is left out, except for the count of a ping and the pathfinder  *)
(* that a PATHFINDER message is about.                                     *)
(***************************************************************************)
EXTENDS Integers, Sequences, FiniteSets

CONSTANTS
    Pathfinders,
    Honest,       \* the pathfinders that answer pings as PFChan.h asks
    Internal,     \* the pathfinders of dht/Pathfinder.c, in the core's own process
    Sizes,        \* sizes of the core's messages
    PingAt,       \* 8192 in the code
    MaxBytes,     \* bound: no more core messages above this count
    MaxQueue,     \* bound: messages on their way to or from a pathfinder
    MaxAnswers,   \* bound: messages that answer one PEERS or SESSIONS
    Requests      \* Requests[p]: the events, PING to PATHFINDERS, that p sends

ASSUME EmitterAssumption ==
    /\ IsFiniteSet(Pathfinders) /\ Internal \subseteq Honest /\ Honest \subseteq Pathfinders
    /\ Sizes \subseteq Nat \ {0}
    /\ PingAt \in Nat \ {0, 1}    \* no ping is due before the answer to CONNECT
    /\ MaxBytes \in Nat
    /\ MaxQueue \in Nat /\ MaxAnswers \in Nat
    /\ Requests \in [Pathfinders -> SUBSET {"SUPERIORITY", "PING", "PATHFINDERS", "PEERS"}]

VARIABLES
    pf,        \* pf[p]: state and bytesSinceLastPing of struct Pathfinder
    toPf,      \* toPf[p]: messages on their way from the emitter to p
    fromPf,    \* fromPf[p]: messages on their way from p to the emitter
    running,   \* the pathfinders that saw the answer to their CONNECT
    aborted    \* an assertion of Pathfinder.c ended the process

emitterVars == <<pf, toPf, fromPf, running, aborted>>

Event(ev) == [ev |-> ev]
Ping(count) == [ev |-> "PING", count |-> count]
Pong(count) == [ev |-> "PONG", count |-> count]
About(ev, p) == [ev |-> ev, about |-> p]

EmitterInit ==
    /\ pf = [p \in Pathfinders |-> [state |-> "DISCONNECTED", bytesSinceLastPing |-> 0]]
    /\ toPf = [p \in Pathfinders |-> <<>>]
    /\ fromPf = [p \in Pathfinders |-> <<>>]
    /\ running = {}
    /\ aborted = FALSE

-----------------------------------------------------------------------------
(* Sending.  A channel is a pathfinder's record with the queue to it. *)

Channel(p) == [pf |-> pf[p], queue |-> toPf[p]]

(* Mutant of PingDue: a ping with every message above PingAt. *)
PingWheneverOver(c, size) ==
    c.pf.bytesSinceLastPing + size >= PingAt

(* A ping goes out with the message that takes the count to PingAt. *)
PingDue(c, size) ==
    c.pf.bytesSinceLastPing < PingAt /\ c.pf.bytesSinceLastPing + size >= PingAt

(* Mutant of sendToPathfinder: the state is not looked at. *)
SendToAnyState(c, msg, size) ==
    [pf |-> [c.pf EXCEPT !.bytesSinceLastPing = @ + size], queue |-> Append(c.queue, msg)]

sendToPathfinder(c, msg, size) ==
    IF c.pf.state # "CONNECTED" THEN c
    ELSE [pf |-> [c.pf EXCEPT !.bytesSinceLastPing = @ + size],
          queue |-> c.queue
                    \o (IF PingDue(c, size) THEN <<Ping(c.pf.bytesSinceLastPing)>> ELSE <<>>)
                    \o <<msg>>]

(* A message n times, one after the other. *)
SendEach(c, n, msg, size) ==
    LET sent[i \in 0 .. n] == IF i = 0 THEN c ELSE sendToPathfinder(sent[i - 1], msg, size)
    IN  sent[n]

(* All channels after p's became c, and the new state of the emitter. *)
With(p, c) == [q \in Pathfinders |-> IF q = p THEN c ELSE Channel(q)]

Become(channels) ==
    /\ pf' = [p \in Pathfinders |-> channels[p].pf]
    /\ toPf' = [p \in Pathfinders |-> channels[p].queue]

(* incomingFromCore for pathfinderNum 0xffffffff: to every pathfinder. *)
Broadcast(channels, msg, size) ==
    [q \in Pathfinders |-> sendToPathfinder(channels[q], msg, size)]

(* Bounds: the emitter is handed a message while its queues are short, and  *)
(* nothing new is said once a count is at MaxBytes.                         *)
QueuesShort == \A p \in Pathfinders : Len(toPf[p]) < MaxQueue

CountsLow == \A p \in Pathfinders : pf[p].bytesSinceLastPing < MaxBytes

(* An event of the core that every pathfinder is to hear of. *)
incomingFromCore ==
    /\ QueuesShort /\ CountsLow
    /\ \E size \in Sizes : Become(Broadcast([p \in Pathfinders |-> Channel(p)], Event("CORE"), size))
    /\ UNCHANGED <<fromPf, running, aborted>>

-----------------------------------------------------------------------------
(* The pathfinders: dht/Pathfinder.c, and what PFChan.h lets others send. *)

Send(p, msg) ==
    /\ Len(fromPf[p]) < MaxQueue
    /\ fromPf' = [fromPf EXCEPT ![p] = Append(@, msg)]

(* Pathfinder.c init: the one CONNECT, before anything else is sent. *)
Unconnected(p) ==
    /\ pf[p].state = "DISCONNECTED"
    /\ fromPf[p] = <<>>

init(p) ==
    /\ Unconnected(p)
    /\ Send(p, Event("CONNECT"))
    /\ UNCHANGED <<pf, toPf, running, aborted>>

(* Requests, at any time once connected. *)
sendEvent(p, ev) ==
    /\ p \in running /\ CountsLow
    /\ Send(p, Event(ev))
    /\ UNCHANGED <<pf, toPf, running, aborted>>

(* A pong that answers no ping: not what an honest pathfinder sends. *)
StrayPong(p) ==
    /\ p \in running \ Honest /\ CountsLow
    /\ Send(p, Pong(PingAt))
    /\ UNCHANGED <<pf, toPf, running, aborted>>

(* The events that the switch of Pathfinder.c has no case for. *)
Unexpected == {"CONNECT", "PATHFINDER", "PATHFINDER_GONE", "Pathfinder_PING"}

(* Pathfinder.c incomingFromEventIf: the first event makes it run, a ping is *)
(* answered by a pong with the ping's own content, and an event that it does *)
(* not expect fails an assertion.                                            *)
incomingFromEventIf(p) ==
    /\ toPf[p] # <<>>
    /\ toPf' = [toPf EXCEPT ![p] = Tail(@)]
    /\ running' = running \cup {p}
    /\ IF p \in running /\ Head(toPf[p]).ev = "PING"
       THEN fromPf' = [fromPf EXCEPT ![p] = Append(@, Pong(Head(toPf[p]).count))]
       ELSE UNCHANGED fromPf
    /\ aborted' = (p \in running \cap Internal /\ Head(toPf[p]).ev \in Unexpected)
    /\ UNCHANGED pf

-----------------------------------------------------------------------------
(* handleFromPathfinder: one operator for each event, the channels after it. *)

ConnectAnswer(p) ==
    With(p, sendToPathfinder([Channel(p) EXCEPT !.pf.state = "CONNECTED"], Event("CONNECT"), 1))

SuperiorityAnswer(p) ==
    Broadcast([q \in Pathfinders |-> Channel(q)], About("PATHFINDER", p), 1)

(* The ping goes back as it came, and past sendToPathfinder. *)
PingAnswer(p) ==
    With(p, [Channel(p) EXCEPT !.queue = Append(@, Event("Pathfinder_PING"))])

PongAnswer(p, count) ==
    IF count > pf[p].bytesSinceLastPing
    THEN Broadcast(With(p, [Channel(p) EXCEPT !.pf.state = "ERROR"]),
                   About("PATHFINDER_GONE", p), 1)
    ELSE With(p, [Channel(p) EXCEPT !.pf.bytesSinceLastPing = @ - count])

Connected == {q \in Pathfinders : pf[q].state = "CONNECTED"}

(* One message for each connected pathfinder, each about the one that asks. *)
PathfindersAnswer(p) ==
    With(p, SendEach(Channel(p), Cardinality(Connected), About("PATHFINDER", p), 1))

(* PEERS, SESSIONS: the handlers' answers, addressed to the one that asks. *)
HandlersAnswer(p, n, size) ==
    With(p, SendEach(Channel(p), n, Event("CORE"), size))

(* Mutant of Taken: a pathfinder in ERROR is still heard. *)
TakenInAnyState(p, ev) ==
    ev = "CONNECT" \/ pf[p].state # "DISCONNECTED"

(* What incomingFromPathfinder does not drop. *)
Taken(p, ev) ==
    \/ pf[p].state = "CONNECTED"
    \/ pf[p].state = "DISCONNECTED" /\ ev = "CONNECT"

Handle(p, msg) ==
    \/ msg.ev = "CONNECT" /\ Become(ConnectAnswer(p))
    \/ msg.ev = "SUPERIORITY" /\ Become(SuperiorityAnswer(p))
    \/ msg.ev = "PING" /\ Become(PingAnswer(p))
    \/ msg.ev = "PONG" /\ Become(PongAnswer(p, msg.count))
    \/ msg.ev = "PATHFINDERS" /\ Become(PathfindersAnswer(p))
    \/ msg.ev = "PEERS" /\ \E n \in 0 .. MaxAnswers, size \in Sizes : Become(HandlersAnswer(p, n, size))

incomingFromPathfinder(p) ==
    /\ QueuesShort
    /\ fromPf[p] # <<>>
    /\ fromPf' = [fromPf EXCEPT ![p] = Tail(@)]
    /\ IF Taken(p, Head(fromPf[p]).ev)
       THEN Handle(p, Head(fromPf[p]))
       ELSE UNCHANGED <<pf, toPf>>
    /\ UNCHANGED <<running, aborted>>

EmitterNext ==
    /\ ~aborted
    /\ \/ incomingFromCore
       \/ \E p \in Pathfinders :
              \/ init(p)
              \/ \E ev \in Requests[p] : sendEvent(p, ev)
              \/ StrayPong(p)
              \/ incomingFromEventIf(p)
              \/ incomingFromPathfinder(p)

EmitterSpec == EmitterInit /\ [][EmitterNext]_emitterVars

-----------------------------------------------------------------------------
(* What is between a ping being sent and its pong handled. *)
PingsTo(p) == {i \in DOMAIN toPf[p] : toPf[p][i].ev = "PING"}
PongsFrom(p) == {i \in DOMAIN fromPf[p] : fromPf[p][i].ev = "PONG"}

UnderWay(p) == ({"ping"} \X PingsTo(p)) \cup ({"pong"} \X PongsFrom(p))

(* Pathfinder.c:438 asserts that the first event it is sent is the answer  *)
(* to its CONNECT, whatever the core and other pathfinders send meanwhile. *)
ConnectFirst ==
    \A p \in Pathfinders \ running : toPf[p] # <<>> => Head(toPf[p]).ev = "CONNECT"

(* A pathfinder that answers each ping with its content is never put in    *)
(* the ERROR state, however late its pongs are and whatever was sent to it *)
(* in between, and at most one ping or pong of its is ever under way.  The *)
(* unsigned count that pongs are subtracted from never passes below zero,  *)
(* whatever the pongs of another say.                                      *)
HonestNeverErrs ==
    /\ \A p \in Honest :
         /\ pf[p].state # "ERROR"
         /\ \A x, y \in UnderWay(p) : x = y
         /\ \A i \in PingsTo(p) : toPf[p][i].count <= pf[p].bytesSinceLastPing
         /\ \A i \in PongsFrom(p) : fromPf[p][i].count <= pf[p].bytesSinceLastPing
    /\ \A p \in Pathfinders : pf[p].bytesSinceLastPing >= 0

(* A pathfinder in the ERROR state has been announced as gone: it stays    *)
(* there and nothing more is queued to it, answers to its own requests     *)
(* still under way included.                                               *)
GoneForGood ==
    [][\A p \in Pathfinders : pf[p].state = "ERROR" =>
           /\ pf'[p].state = "ERROR"
           /\ Len(toPf'[p]) <= Len(toPf[p])]_emitterVars
=============================================================================
