---------------------------- MODULE SwitchPinger ----------------------------
(***************************************************************************)
(* net/SwitchPinger.c on top of util/Pinger.c: pings sent along labels,    *)
(* each waiting for its pong under a handle and a cookie, and the answers  *)
(* that net/ControlHandler.c gives at the other end.  Answers are lost,    *)
(* duplicated, reordered and late, may come back by another path, and some *)
(* answer pings of an earlier life of this node.                           *)
(*                                                                         *)
(* The table of outstanding pings is the HandleTable that Map implements.  *)
(* The node at the end of label l has version l and key l.  The cookie of  *)
(* a ping is a random number: it is its handle here, Strays having others. *)
(*                                                                         *)
(* ControlHandler passes on to SwitchPinger only PONG and KEYPONG: errors, *)
(* GETSNODE and RPATH replies go to the pathfinder instead, and no caller  *)
(* makes a ping of those types, so that Type has the two that are sent.    *)
(***************************************************************************)
EXTENDS Integers, FiniteSets

CONSTANTS
    Label, Data,
    Sent,                \* the data that pings are sent with
    Strays,              \* pongs from before a restart, still on their way
    maxConcurrentPings,  \* 50 in the code
    MaxPings             \* bound: pings made

Type == {"PING", "KEYPING"}
None == 0    \* the zero version and the zero key

Pong == [handle : Nat, cookie : Int, label : Label, data : Data,
         version : Label, key : Label \cup {None}]

ASSUME PingerAssumption ==
    /\ maxConcurrentPings \in Nat /\ MaxPings \in Nat
    /\ None \notin Label /\ Sent \subseteq Data
    /\ Strays \subseteq Pong /\ \A m \in Strays : m.cookie < 0

VARIABLES
    pings,             \* Map_OutstandingPings
    nextHandle,
    outstandingPings,  \* the count that SwitchPinger keeps
    incomingVersion,   \* of the last message from a switch
    incomingKey,
    net,               \* pongs that may arrive, any number of times or never
    ended              \* history: how every ping that is gone ended

vars == <<pings, nextHandle, outstandingPings, incomingVersion, incomingKey, net, ended>>

Init ==
    /\ pings = {} /\ nextHandle = 0 /\ outstandingPings = 0
    /\ incomingVersion = None /\ incomingKey = None
    /\ net = Strays
    /\ ended = {}

(* Mutant of newPing: the handle is the number of pings. *)
NewPingReusesHandle(l, d, t) ==
    /\ nextHandle < MaxPings
    /\ outstandingPings <= maxConcurrentPings
    /\ pings' = pings \cup {[handle |-> outstandingPings, label |-> l, data |-> d,
                             type |-> t, sent |-> FALSE]}
    /\ nextHandle' = nextHandle + 1
    /\ outstandingPings' = outstandingPings + 1
    /\ UNCHANGED <<incomingVersion, incomingKey, net, ended>>

(* SwitchPinger_newPing, Pinger_newPing.  (Too many pings: NULL is returned.) *)
newPing(l, d, t) ==
    /\ nextHandle < MaxPings
    /\ outstandingPings <= maxConcurrentPings
    /\ pings' = pings \cup {[handle |-> nextHandle, label |-> l, data |-> d,
                             type |-> t, sent |-> FALSE]}
    /\ nextHandle' = nextHandle + 1
    /\ outstandingPings' = outstandingPings + 1
    /\ UNCHANGED <<incomingVersion, incomingKey, net, ended>>

KeyOf(p) == IF p.type = "KEYPING" THEN p.label ELSE None

(* ControlHandler's handlePing at the node that p reaches: the ping comes back *)
(* with that node's version and, if it is a key ping, its key.  The label it   *)
(* comes back with is the way back that the switches recorded.                 *)
handlePing(p, l, d) ==
    [handle |-> p.handle, cookie |-> p.handle, label |-> l, data |-> d,
     version |-> p.label, key |-> KeyOf(p)]

(* The pong that will come back, if it does.  Of its label and its data at     *)
(* most one is wrong: onPingResponse looks at the data of a right label only.  *)
asyncSendPing(p) ==
    /\ ~p.sent
    /\ pings' = (pings \ {p}) \cup {[p EXCEPT !.sent = TRUE]}
    /\ \E l \in Label, d \in Data :
           /\ l = p.label \/ d = p.data
           /\ net' = net \cup {handlePing(p, l, d)}
    /\ UNCHANGED <<nextHandle, outstandingPings, incomingVersion, incomingKey, ended>>

(* The ping's allocator is freed: freePing and onPingFree. *)
Free(p, how) ==
    /\ pings' = pings \ {p}
    /\ outstandingPings' = outstandingPings - 1
    /\ ended' = ended \cup {how}

(* SwitchPinger's onPingResponse, given the version and key that are in the    *)
(* SwitchPinger at the time.                                                   *)
Response(p, res, version, key) ==
    [ping |-> p, res |-> res, version |-> version, key |-> key]

Result(p, m) ==
    IF m.label # p.label THEN "LABEL_MISMATCH"
    ELSE IF m.data # p.data THEN "WRONG_DATA"
    ELSE "OK"

(* Mutant of PongFor: the cookie is not compared. *)
PongForAnyCookie(p, m) == p.handle = m.handle

(* Pinger_pongReceived: the ping that a pong answers. *)
PongFor(p, m) == p.handle = m.handle /\ p.handle = m.cookie

(* incomingKey after the message was handled; incomingVersion stays. *)
KeyAfter(m) == None

messageFromControlHandler(m) ==
    /\ incomingVersion' = m.version
    /\ incomingKey' = KeyAfter(m)
    /\ \/ \E p \in pings :
              /\ PongFor(p, m)
              /\ Free(p, Response(p, Result(p, m), m.version, m.key))
       \/ /\ \A p \in pings : ~PongFor(p, m)
          /\ UNCHANGED <<pings, outstandingPings, ended>>
    /\ UNCHANGED <<nextHandle, net>>

(* Mutant of timeoutCallback: the ping is not freed. *)
TimeoutOnlyLogs(p) == p.sent /\ UNCHANGED vars

timeoutCallback(p) ==
    /\ p.sent
    /\ Free(p, Response(p, "TIMEOUT", incomingVersion, incomingKey))
    /\ UNCHANGED <<nextHandle, incomingVersion, incomingKey, net>>

(* Whoever made the ping frees its allocator. *)
Cancel(p) ==
    /\ Free(p, Response(p, "cancelled", None, None))
    /\ UNCHANGED <<nextHandle, incomingVersion, incomingKey, net>>

Next ==
    \/ \E l \in Label, d \in Sent, t \in Type : newPing(l, d, t)
    \/ \E p \in pings : asyncSendPing(p) \/ timeoutCallback(p) \/ Cancel(p)
    \/ \E m \in net : messageFromControlHandler(m)

Spec == Init /\ [][Next]_vars

(* The event loop runs every timer that is due. *)
Fairness ==
    \A h \in 0 .. MaxPings - 1 :
        WF_vars(\E p \in pings : p.handle = h /\ (asyncSendPing(p) \/ timeoutCallback(p)))

LiveSpec == Spec /\ Fairness

-----------------------------------------------------------------------------
Ping == [handle : Nat, label : Label, data : Data, type : Type, sent : BOOLEAN]
Ended == [ping : Ping,
          res : {"OK", "LABEL_MISMATCH", "WRONG_DATA", "TIMEOUT", "cancelled"},
          version : Label \cup {None}, key : Label \cup {None}]

(* The types of the pings, of the answers under way and of the endings; the    *)
(* count that onPingFree decrements never passes below zero.                   *)
TypeOK ==
    /\ pings \subseteq Ping /\ IsFiniteSet(pings)
    /\ nextHandle \in Nat /\ outstandingPings \in Nat
    /\ incomingVersion \in Label \cup {None} /\ incomingKey \in Label \cup {None}
    /\ net \subseteq Pong
    /\ ended \subseteq Ended

(* Every ping ever made is either outstanding, once, or has ended, once, under *)
(* its own handle: no pong, late, duplicated or stray, no timeout and no       *)
(* cancellation ends a ping twice or ends another ping.                        *)
OneEnding ==
    /\ \A p, q \in pings : p.handle = q.handle => p = q
    /\ \A e, f \in ended : e.ping.handle = f.ping.handle => e = f
    /\ \A p \in pings, e \in ended : p.handle # e.ping.handle
    /\ {p.handle : p \in pings} \cup {e.ping.handle : e \in ended} = 0 .. nextHandle - 1

(* SwitchPinger's own count follows Pinger's table on every path, so the       *)
(* assertion of onPingFree holds and no slot is lost: new pings are refused    *)
(* only while others are really outstanding.                                   *)
CountExact == outstandingPings = Cardinality(pings)

(* A ping that ended OK was answered over the label it was sent to, by the     *)
(* node there: the version and, for a key ping, the key are that node's.  A    *)
(* timeout carries no key left over from another node's answer.                *)
AnswerIsPingedNodes ==
    \A e \in ended :
        /\ e.res = "OK" => e.version = e.ping.label /\ e.key = KeyOf(e.ping)
        /\ e.res \in {"TIMEOUT", "cancelled"} => e.key = None

(* What makes the four above inductive: a pong under way that an outstanding   *)
(* ping would take came from the node that was pinged, none answers a ping yet *)
(* to be made, and no key is left over.                                        *)
Inv ==
    /\ TypeOK /\ OneEnding /\ CountExact /\ AnswerIsPingedNodes
    /\ \A m \in net : m.cookie < nextHandle
    /\ \A m \in net, p \in pings :
           PongFor(p, m) => m.version = p.label /\ m.key = KeyOf(p)
    /\ incomingKey = None

(* Every ping ends, even if no answer ever comes. *)
EveryPingEnds ==
    \A h \in 0 .. MaxPings - 1 : h < nextHandle ~> \E e \in ended : e.ping.handle = h
=============================================================================
