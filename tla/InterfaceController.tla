------------------------- MODULE InterfaceController -------------------------
(***************************************************************************)
(* net/InterfaceController.c: the peers of one interface, from the three   *)
(* places that make one to the two that free it, the periodic ping that    *)
(* finds the silent ones, and what the pathfinder is told of them.  The    *)
(* peers' CryptoAuth sessions appear by their state only (CryptoAuth.tla   *)
(* has the rest), their switch interfaces by up or down.                   *)
(***************************************************************************)
EXTENDS Integers, Sequences, Functions

CONSTANTS
    Addrs,               \* link-layer addresses that peers have
    Mute,                \* the addresses that send beacons at most: the node is not there
    MaxPeers,            \* bound on the peers made
    PingAfter, UnresponsiveAfter, ForgetAfter,   \* in ticks of the clock
    PingSkip,            \* 8: an unresponsive peer is pinged once in so many rounds
    Redial               \* bootstrapPeer may be asked for an address that has a peer

ASSUME ControllerAssumption ==
    /\ Mute \subseteq Addrs
    /\ MaxPeers \in Nat /\ PingSkip \in Nat \ {0}
    /\ PingAfter \in Nat /\ UnresponsiveAfter \in Nat /\ ForgetAfter \in Nat
    /\ PingAfter <= UnresponsiveAfter /\ UnresponsiveAfter < ForgetAfter
    /\ Redial \in BOOLEAN

VARIABLES
    peer,             \* peer[p]: struct Peer; its domain is the peers not yet freed
    peerMap,          \* EndpointsBySockaddr: the peers in the order of their handles
    lastPeerPinged,
    pings,            \* peers with a switch ping under way
    told,             \* peers that the pathfinder was last sent PEER for
    made,             \* number of peers made
    aborted           \* an assertion failed

vars == <<peer, peerMap, lastPeerPinged, pings, told, made, aborted>>

Live == DOMAIN peer

Init ==
    /\ peer = <<>>
    /\ peerMap = <<>>
    /\ lastPeerPinged = 0
    /\ pings = {} /\ told = {} /\ made = 0 /\ aborted = FALSE

(* Everything that handlers change, passed through their parts. *)
World == [peer |-> peer, map |-> peerMap, pings |-> pings, told |-> told, aborted |-> aborted]

Become(world) ==
    \E w \in {world} :
        /\ peer' = w.peer /\ peerMap' = w.map /\ pings' = w.pings
        /\ told' = w.told /\ aborted' = w.aborted

Set(w, p, ep) == [w EXCEPT !.peer = [q \in DOMAIN @ \cup {p} |-> IF q = p THEN ep ELSE @[q]]]

-----------------------------------------------------------------------------
(* sendPeer: nothing is said of a peer whose version is unknown or bad. *)

Speakable(ep) == ep.version = "ok"

sendPeer(w, p, ev) ==
    IF ~Speakable(w.peer[p]) THEN w
    ELSE [w EXCEPT !.told = IF ev = "PEER" THEN @ \cup {p} ELSE @ \ {p}]

sendPing(w, p) ==
    [w EXCEPT !.peer[p].pingCount = (@ + 1) % PingSkip, !.pings = @ \cup {p}]

Without(map, i) == SubSeq(map, 1, i - 1) \o SubSeq(map, i + 1, Len(map))

(* Map_remove, of the entry that the peer's handle leads to. *)
Unmapped(map, p) ==
    IF p \in Range(map) THEN Without(map, CHOOSE i \in DOMAIN map : map[i] = p) ELSE map

(* Mutant of Close: no PEER_GONE. *)
CloseSaysNothing(w, p) ==
    [peer |-> [q \in DOMAIN w.peer \ {p} |-> w.peer[q]],
     map |-> Unmapped(w.map, p),
     pings |-> w.pings \ {p},
     told |-> w.told,
     aborted |-> w.aborted \/ p \notin Range(w.map)]

(* Mutant of Close: the ping outlives its peer. *)
CloseLeavesPing(w, p) ==
    [peer |-> [q \in DOMAIN w.peer \ {p} |-> w.peer[q]],
     map |-> Unmapped(w.map, p),
     pings |-> w.pings,
     told |-> sendPeer(w, p, "PEER_GONE").told,
     aborted |-> w.aborted \/ p \notin Range(w.map)]

(* Allocator_free(ep->alloc): closeInterface, the end of the peer's pings   *)
(* and of its switch interface.  A peer that is not in the map where its    *)
(* handle says fails the assertions of closeInterface.                      *)
Close(w, p) ==
    [peer |-> [q \in DOMAIN w.peer \ {p} |-> w.peer[q]],
     map |-> Unmapped(w.map, p),
     pings |-> w.pings \ {p},
     told |-> sendPeer(w, p, "PEER_GONE").told,
     aborted |-> w.aborted \/ p \notin Range(w.map)]

-----------------------------------------------------------------------------
(* Making peers. *)

NewPeer(lladdr, incoming, state, version) ==
    [lladdr |-> lladdr, incoming |-> incoming, state |-> state, version |-> version,
     ca |-> "SETUP", up |-> TRUE, idle |-> PingAfter + 1, sincePing |-> PingAfter, pingCount |-> 0]

AtAddr(lladdr) == {p \in Range(peerMap) : peer[p].lladdr = lladdr}

(* Map_put: a new entry at the end, or the value of an entry that is there. *)
Put(map, p, lladdr) ==
    IF AtAddr(lladdr) = {} THEN Append(map, p)
    ELSE [i \in DOMAIN map |-> IF peer[map[i]].lladdr = lladdr THEN p ELSE map[i]]

(* The peer is put into the map first and given a switch interface then:   *)
(* without room there, which all interfaces share, it is freed again.      *)
Add(p, ep) == LET w == Set(World, p, ep)
              IN  [w EXCEPT !.map = Put(@, p, ep.lladdr)]

Making(p) ==
    /\ ~aborted /\ made < MaxPeers
    /\ p = made + 1
    /\ made' = p
    /\ UNCHANGED lastPeerPinged

(* The beacon of a node whose version we can talk to: others are dropped. *)
handleBeacon(lladdr) ==
    /\ AtAddr(lladdr) = {}
    /\ \E p \in 1 .. MaxPeers, room \in BOOLEAN :
           /\ Making(p)
           /\ LET w == Add(p, NewPeer(lladdr, TRUE, "SETUP", "ok"))
              IN  Become(IF room THEN sendPeer(w, p, "PEER") ELSE Close(w, p))

bootstrapPeer(lladdr) ==
    /\ Redial \/ AtAddr(lladdr) = {}
    /\ \E p \in 1 .. MaxPeers, room \in BOOLEAN :
           /\ Making(p)
           /\ LET w == Add(p, NewPeer(lladdr, FALSE, "SETUP", "unknown"))
              IN  Become(IF room THEN sendPing(w, p) ELSE Close(w, p))

-----------------------------------------------------------------------------
(* Messages from the wire. *)

(* Mutant of receivedPostCryptoAuth: the interface stays down. *)
ResetEvenEstablished(w, p, pinging) ==
    LET state == w.peer[p].ca
        up == [w EXCEPT !.peer[p].state = state]
    IN  IF pinging /\ state # "ESTABLISHED" THEN sendPing(up, p) ELSE up

(* The branch for UNRESPONSIVE peers is never taken: UNRESPONSIVE is less   *)
(* than ESTABLISHED.  pinging: the message is for this router and the       *)
(* limit on pings lets one through.                                         *)
receivedPostCryptoAuth(w, p, pinging) ==
    IF w.peer[p].state = "ESTABLISHED"
    THEN [w EXCEPT !.peer[p].idle = 0]
    ELSE LET up == [w EXCEPT !.peer[p].state = w.peer[p].ca, !.peer[p].up = TRUE]
         IN  IF pinging /\ w.peer[p].ca # "ESTABLISHED" THEN sendPing(up, p) ELSE up

(* onPingResponse with a result of OK. *)
onPingResponse(w, p, version) ==
    LET known == [w EXCEPT !.peer[p].version = version, !.pings = @ \ {p}]
    IN  IF version = "bad" THEN known
        ELSE LET said == IF known.peer[p].state = "ESTABLISHED"
                         THEN sendPeer(known, p, "PEER") ELSE known
             IN  [said EXCEPT !.peer[p].sincePing = 0]

(* The first packet must be a handshake packet: the session is not yet      *)
(* established when it is read.                                             *)
handleUnexpectedIncoming(lladdr) ==
    /\ AtAddr(lladdr) = {} /\ lladdr \notin Mute
    /\ \E p \in 1 .. MaxPeers, room, pinging \in BOOLEAN :
           /\ Making(p)
           /\ LET w == Add(p, NewPeer(lladdr, TRUE, "UNAUTHENTICATED", "unknown"))
              IN  Become(IF room THEN receivedPostCryptoAuth(w, p, pinging) ELSE Close(w, p))

(* The peer gone that was established and whose session is not any more.    *)
Renegotiating(w, p) ==
    IF w.peer[p].state = "ESTABLISHED" /\ w.peer[p].ca # "ESTABLISHED"
    THEN sendPeer(w, p, "PEER_GONE") ELSE w

(* A message that CryptoAuth_decrypt accepts, after which the session is    *)
(* in the state ca.                                                         *)
Read(p, ca, pinging) ==
    receivedPostCryptoAuth(Renegotiating(Set(World, p, [peer[p] EXCEPT !.ca = ca]), p), p, pinging)

(* The message may carry the answer to a switch ping. *)
handleIncomingFromWire(p) ==
    /\ ~aborted /\ p \in Range(peerMap) /\ peer[p].version # "bad" /\ peer[p].lladdr \notin Mute
    /\ \E ca \in {"SETUP", "ESTABLISHED"}, pinging \in BOOLEAN :
           \/ Become(Read(p, ca, pinging))
           \/ /\ p \in pings
              /\ \E version \in {"ok", "bad"} :
                     Become(onPingResponse(Read(p, ca, pinging), p, version))
    /\ UNCHANGED <<lastPeerPinged, made>>

(* SwitchPinger gives the ping up, or had no room for it. *)
PingTimesOut(p) ==
    /\ ~aborted /\ p \in pings
    /\ pings' = pings \ {p}
    /\ UNCHANGED <<peer, peerMap, lastPeerPinged, told, made, aborted>>

(* resetPeering, or CryptoAuth_resetIfTimeout on a message either way. *)
resetPeering(p) ==
    /\ ~aborted /\ p \in Live
    /\ peer' = [peer EXCEPT ![p].ca = "SETUP"]
    /\ UNCHANGED <<peerMap, lastPeerPinged, pings, told, made, aborted>>

-----------------------------------------------------------------------------
(* The periodic ping.  Time is counted in ticks up to the last threshold.   *)

Tick ==
    /\ ~aborted
    /\ peer' = [p \in Live |-> [peer[p] EXCEPT
                   !.idle = IF @ > ForgetAfter THEN @ ELSE @ + 1,
                   !.sincePing = IF @ >= PingAfter THEN @ ELSE @ + 1]]
    /\ UNCHANGED <<peerMap, lastPeerPinged, pings, told, made, aborted>>

MarkUnresponsive(w, p) ==
    LET said == sendPeer(w, p, "PEER_GONE")
    IN  [said EXCEPT !.peer[p].state = "UNRESPONSIVE", !.peer[p].up = FALSE]

(* One turn of the loop: the world after it, and whether a peer was pinged. *)
Visit(w, p, first) ==
    LET ep == w.peer[p]
        unresponsive == ep.idle > UnresponsiveAfter
        Leave(v) == [w |-> v, pinged |-> FALSE]
    IN  IF ep.version = "bad" THEN Leave([w EXCEPT !.peer[p].state = "INCOMPATIBLE"])
        ELSE IF ep.version = "ok" /\ ep.idle < PingAfter
             THEN Leave(IF first /\ ep.state = "ESTABLISHED" THEN sendPeer(w, p, "PEER") ELSE w)
        ELSE IF ep.sincePing < PingAfter THEN Leave(w)
        ELSE IF ep.incoming /\ ep.idle > ForgetAfter
             THEN Leave(Close(sendPeer(w, p, "PEER_GONE"), p))
        ELSE IF unresponsive /\ ep.pingCount # 0
             THEN Leave([w EXCEPT !.peer[p].pingCount = (@ + 1) % PingSkip])
        ELSE [w |-> sendPing(IF unresponsive THEN MarkUnresponsive(w, p) ELSE w, p),
              pinged |-> TRUE]

(* Another turn, unless a peer was pinged or all have been looked at, as    *)
(* the set of its one outcome.  A peer freed on the way shortens the map    *)
(* under the loop.                                                          *)
Turn(t, count) ==
    IF t.pinged \/ count >= Len(t.w.map) THEN {t}
    ELSE LET next == (t.i + 1) % Len(t.w.map)
         IN  {[w |-> visit.w, i |-> next, pinged |-> visit.pinged] :
                  visit \in {Visit(t.w, t.w.map[next + 1], count = 0)}}

(* The loop of iciPing: turn[n] is where it stands after n turns. *)
Scan(w, i) ==
    LET turn[n \in 0 .. Len(w.map)] ==
            IF n = 0 THEN {[w |-> w, i |-> i, pinged |-> FALSE]}
            ELSE UNION {Turn(t, n - 1) : t \in turn[n - 1]}
    IN  turn[Len(w.map)]

(* Mutant of StartAt: every round begins at the same peer. *)
StartWhereWeWere == lastPeerPinged % Len(peerMap)

StartAt == (lastPeerPinged + 1) % Len(peerMap)

iciPing ==
    /\ ~aborted /\ peerMap # <<>>
    /\ lastPeerPinged' = StartAt
    /\ \E t \in Scan(World, StartAt) : Become(t.w)
    /\ UNCHANGED made

-----------------------------------------------------------------------------
(* The pathfinder asks for the peers. *)
incomingFromEventEmitterIf ==
    /\ ~aborted
    /\ told' = told \cup {p \in Range(peerMap) :
                             peer[p].state = "ESTABLISHED" /\ Speakable(peer[p])}
    /\ UNCHANGED <<peer, peerMap, lastPeerPinged, pings, made, aborted>>

disconnectPeer(p) ==
    /\ ~aborted /\ p \in Range(peerMap)
    /\ Become(Close(World, p))
    /\ UNCHANGED <<lastPeerPinged, made>>

(* Core_exit frees every allocator: all peers are closed, in whatever order *)
(* (Close of one does not change what it does to another), and the process  *)
(* starts again with none.                                                  *)
exit ==
    /\ ~aborted /\ Live # {}
    /\ peer' = <<>> /\ peerMap' = <<>> /\ pings' = {} /\ told' = {}
    /\ aborted' = (Live \ Range(peerMap) # {})
    /\ lastPeerPinged' = 0
    /\ UNCHANGED made

Next ==
    \/ \E lladdr \in Addrs :
           handleBeacon(lladdr) \/ bootstrapPeer(lladdr) \/ handleUnexpectedIncoming(lladdr)
    \/ \E p \in 1 .. MaxPeers :
           \/ handleIncomingFromWire(p) \/ PingTimesOut(p)
           \/ resetPeering(p) \/ disconnectPeer(p)
    \/ Tick \/ iciPing \/ incomingFromEventEmitterIf \/ exit

Spec == Init /\ [][Next]_vars

(* The interval timer that calls iciPing does not stop. *)
FairSpec == Spec /\ WF_vars(iciPing)

-----------------------------------------------------------------------------
(* Properties.                                                              *)

PeerStates == {"SETUP", "ESTABLISHED", "UNRESPONSIVE", "INCOMPATIBLE"}

Endpoint(states) ==
    [lladdr : Addrs, incoming : BOOLEAN, state : states, version : {"unknown", "ok", "bad"},
     ca : {"SETUP", "ESTABLISHED"}, up : BOOLEAN, idle : 0 .. ForgetAfter + 1,
     sincePing : 0 .. PingAfter, pingCount : 0 .. PingSkip - 1]

(* The types of the peers and of the tables of them; between handlers no    *)
(* peer is UNAUTHENTICATED, and the map has one peer for an address.        *)
TypeOK ==
    /\ Live \subseteq 1 .. made /\ made \in 0 .. MaxPeers
    /\ peer \in [Live -> Endpoint(PeerStates)]
    /\ Range(peerMap) \subseteq Live /\ pings \subseteq Live
    /\ \A i, j \in DOMAIN peerMap :
           peer[peerMap[i]].lladdr = peer[peerMap[j]].lladdr => i = j
    /\ lastPeerPinged \in 0 .. MaxPeers /\ aborted \in BOOLEAN

(* The pathfinder never keeps a peer that closeInterface has closed or      *)
(* iciPing has found unresponsive: by whatever way a peer goes, the last    *)
(* event about it is PEER_GONE, and no event brings it back.  The only      *)
(* peers that may go unannounced are those whose node changed to a version  *)
(* that sendPeer does not speak of.                                         *)
ToldOfLivePeers ==
    [][\A p \in told' :
           /\ p \in Live' => peer'[p].state # "UNRESPONSIVE"
           /\ p \notin Live' => p \notin Live \/ peer[p].version = "bad"]_vars

(* The switch forwards to a peer exactly while iciPing has not found it     *)
(* unresponsive: the interface that setInterfaceState takes down comes up   *)
(* with the first message, however peer and session states went meanwhile.  *)
DownWhenUnresponsive ==
    \A p \in Live : /\ peer[p].state = "UNRESPONSIVE" => ~peer[p].up
                    /\ ~peer[p].up => peer[p].state \in {"UNRESPONSIVE", "INCOMPATIBLE"}

Overdue(p) ==
    /\ p \in Range(peerMap) /\ peer[p].lladdr \in Mute /\ peer[p].state \notin {"UNRESPONSIVE", "INCOMPATIBLE"}
    /\ peer[p].idle > UnresponsiveAfter /\ peer[p].sincePing >= PingAfter

(* A peer that stays silent does not stay in a state in which it is routed  *)
(* to: although iciPing pings one peer in a round, skips most rounds of a   *)
(* silent one and finds others to ping all the time, it gets its turn.      *)
SilenceNoticed == []<>~\E p \in 1 .. MaxPeers : Overdue(p)

(* The assertions of closeInterface: the peer that is closed is the one     *)
(* its handle finds in the map.                                             *)
ClosesWhatIsMapped == ~aborted
=============================================================================
