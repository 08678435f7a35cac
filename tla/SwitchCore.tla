------------------------------ MODULE SwitchCore ------------------------------
(***************************************************************************)
(* switch/SwitchCore.c in every node of a small network, and one packet    *)
(* with its answer: the packet a router sends, the reply of the router it  *)
(* reaches (sent to the bit-reversed label, SessionManager.c) or the error *)
(* of a switch on its way.  Switches keep nothing of a packet, so packets  *)
(* meet only the interface tables, and one at a time is enough.            *)
(***************************************************************************)
EXTENDS SwitchLabels, Functions

CONSTANTS
    Nodes,
    Table,          \* Table[n]: the peers on n's interfaces at the start
    Newcomers,      \* nodes outside the network that may become peers
    SentLabels,     \* the labels that routers send to
    MaxChanges      \* bound on changes of the interface tables

Router == 1

ASSUME SwitchAssumption ==
    /\ DOMAIN Table = Nodes
    /\ \A n \in Nodes : DOMAIN Table[n] \subseteq (0 .. INTERFACES - 1) \ {Router}
    /\ \A n \in Nodes : IsInjective(Table[n]) /\ n \notin Range(Table[n])
    /\ SentLabels \subseteq Labels
    /\ MaxChanges \in Nat

VARIABLES
    interfaces,   \* interfaces[n][slot]: peer and state; no entry for a vacant slot
    packet,       \* the packet under way, or NoPacket
    ended,        \* how the last exchange ended, until the next begins
    changes       \* changes of the tables so far

vars == <<interfaces, packet, ended, changes>>

NoPacket == [kind |-> "none"]

Interface(peer) == [peer |-> peer, state |-> "UP"]

Init ==
    /\ interfaces = [n \in Nodes |-> [s \in DOMAIN Table[n] \cup {Router} |->
                        Interface(IF s = Router THEN n ELSE Table[n][s])]]
    /\ packet = NoPacket
    /\ ended = NoPacket
    /\ changes = 0

-----------------------------------------------------------------------------
(* receiveMessage, for a packet that comes in on slot source.              *)

(* In the v3x5x8 scheme the router's own director is never longer than the *)
(* label's and only 0001 stands for it: two branches are never taken.      *)
DirectorBits(label) == bitsUsedForLabel(label)

Destination(label) == getDecompressed(label, DirectorBits(label))

SourceTooLong(source, label) == bitsUsedForNumber(source) > DirectorBits(label)

(* Behind 0001 the label is zero far enough for a long source director. *)
ReturnPathFits(source, label) == Low(label, bitsUsedForNumber(source) + 4) = 1

(* Mutant of BitsUsed: the destination's bits, however long the source is. *)
BitsOfDestination(source, label) == DirectorBits(label)

(* The bits that are taken off the label, and that the source is put into. *)
BitsUsed(source, label) ==
    IF SourceTooLong(source, label) THEN bitsUsedForNumber(source) ELSE DirectorBits(label)

(* The error a switch answers with, or "none". *)
Refusal(table, source, label) ==
    LET dest == Destination(label)
    IN  CASE SourceTooLong(source, label) /\ dest = Router /\ ~ReturnPathFits(source, label) ->
               "RETURN_PATH_INVALID"
          [] SourceTooLong(source, label) /\ dest # Router -> "MALFORMED_ADDRESS"
          [] OTHER ->
               IF dest \notin DOMAIN table THEN "MALFORMED_ADDRESS"
               ELSE IF table[dest].state = "DOWN" /\ source # Router THEN "UNDELIVERABLE"
               ELSE "none"

TargetLabel(source, label) ==
    LET bits == BitsUsed(source, label)
    IN  High(label, bits) + Bits_bitReverse64(getCompressed(source, bits))

(* Mutant of LabelShift: the shift is not counted. *)
ShiftForgotten(source, p) == 0

(* labelShift, six bits in the header: no packet is shifted over its label. *)
LabelShift(source, p) == p.shift + BitsUsed(source, p.label)

(* Where a packet that leaves n by slot is next: n's own router or a peer. *)
Leave(n, slot, p) ==
    [p EXCEPT !.at = interfaces[n][slot].peer, !.from = n, !.inRouter = slot = Router]

End(how, n) ==
    /\ packet' = NoPacket
    /\ ended' = [kind |-> packet.kind, how |-> how, at |-> n, origin |-> packet.origin]

sendError(n, source, p) ==
    IF p.suppress THEN End("suppressed", n)
    ELSE /\ packet' = Leave(n, source, [p EXCEPT !.kind = "error", !.shift = 0, !.suppress = TRUE,
                                                 !.label = Bits_bitReverse64(p.label)])
         /\ UNCHANGED ended

receiveMessage(n, source, p) ==
    IF Refusal(interfaces[n], source, p.label) # "none" THEN sendError(n, source, p)
    ELSE IF LabelShift(source, p) > LabelBits - 1 THEN End("rolled over", n)
    ELSE /\ packet' = Leave(n, Destination(p.label),
                            [p EXCEPT !.label = TargetLabel(source, p.label),
                                      !.shift = LabelShift(source, p)])
         /\ UNCHANGED ended

-----------------------------------------------------------------------------
Packet(kind, n, label) ==
    [kind |-> kind, at |-> n, from |-> n, inRouter |-> FALSE, label |-> label, shift |-> 0,
     suppress |-> FALSE, origin |-> n]

(* A router hands its switch a packet. *)
Send(n, label) ==
    /\ packet = NoPacket
    /\ packet' = Packet("data", n, label)
    /\ ended' = NoPacket
    /\ UNCHANGED <<interfaces, changes>>

SlotOf(n, peer) == {s \in DOMAIN interfaces[n] : interfaces[n][s].peer = peer}

(* The packet comes out of the router or of the link to the node before;   *)
(* what comes over a link that has no interface at this end is not heard.  *)
(* Where a change has made a second link to that node, it may come over    *)
(* either.                                                                 *)
Switch ==
    /\ packet # NoPacket /\ ~packet.inRouter
    /\ LET n == packet.at
           slots == SlotOf(n, packet.from)
       IN  IF n \notin Nodes \/ slots = {} THEN End("left", n)
           ELSE \E source \in slots : receiveMessage(n, source, packet)
    /\ UNCHANGED <<interfaces, changes>>

(* SessionManager.c incomingFromSwitchIf: data is answered over the         *)
(* reversed label, an answer has arrived.                                   *)
ReplyTo(p) ==
    [p EXCEPT !.kind = "reply", !.inRouter = FALSE, !.from = p.at, !.shift = 0,
              !.label = Bits_bitReverse64(p.label)]

incomingFromSwitchIf ==
    /\ packet # NoPacket /\ packet.inRouter
    /\ IF packet.kind = "data" THEN packet' = ReplyTo(packet) /\ UNCHANGED ended
       ELSE End("arrived", packet.at)
    /\ UNCHANGED <<interfaces, changes>>

-----------------------------------------------------------------------------
(* The interface tables. *)

Change(n, table) ==
    /\ changes < MaxChanges
    /\ changes' = changes + 1
    /\ interfaces' = [interfaces EXCEPT ![n] = table]
    /\ UNCHANGED <<packet, ended>>

Vacant(n) == (0 .. INTERFACES - 1) \ DOMAIN interfaces[n]

(* Mutant of FirstVacant: slot 0 whether vacant or not. *)
FirstOfAll(n) == 0

FirstVacant(n) == CHOOSE s \in Vacant(n) : \A t \in Vacant(n) : s <= t

With(table, slot, entry) ==
    [s \in DOMAIN table \cup {slot} |-> IF s = slot THEN entry ELSE table[s]]

SwitchCore_addInterface(n, peer) ==
    /\ Vacant(n) # {}
    /\ Change(n, With(interfaces[n], FirstVacant(n), Interface(peer)))

removeInterface(n, slot) ==
    /\ slot # Router
    /\ Change(n, Restrict(interfaces[n], DOMAIN interfaces[n] \ {slot}))

SwitchCore_setInterfaceState(n, slot, state) ==
    /\ slot # Router /\ interfaces[n][slot].state # state
    /\ Change(n, [interfaces[n] EXCEPT ![slot].state = state])

Next ==
    \/ \E n \in Nodes, label \in SentLabels : Send(n, label)
    \/ Switch
    \/ incomingFromSwitchIf
    \/ \E n \in Nodes :
           \/ \E peer \in Range(Table[n]) \cup Newcomers : SwitchCore_addInterface(n, peer)
           \/ \E slot \in DOMAIN interfaces[n] :
                  \/ removeInterface(n, slot)
                  \/ \E state \in {"UP", "DOWN"} : SwitchCore_setInterfaceState(n, slot, state)

Spec == Init /\ [][Next]_vars

(* A packet handed to a switch or a router is dealt with at once. *)
Fairness == WF_vars(Switch) /\ WF_vars(incomingFromSwitchIf)

FairSpec == Spec /\ Fairness

-----------------------------------------------------------------------------
(* A label is a route: reading its directors one after the other, at the   *)
(* places in cuts, one comes to its end bit, which is at the place end.    *)
IsRouteWith(label, end, cuts) ==
    /\ label \in Labels
    /\ end \in 0 .. LongestRoute
    /\ High(label, end) = 1
    /\ cuts \subseteq 0 .. end /\ 0 \in cuts
    /\ \A p \in cuts \ {end} : p + DirectorBits(High(label, p)) \in cuts

IsRoute(label) == \E end, cuts : IsRouteWith(label, end, cuts)

(* A reply, and an error from any switch on the way, comes back to the      *)
(* router that sent the packet, whatever forms the directors are in, as     *)
(* long as the links stay as they are.                                      *)
AnswersReachSender ==
    changes = 0 /\ ended.kind \in {"reply", "error"} =>
        ended.how = "arrived" /\ ended.at = ended.origin

(* No packet stays in the network for ever, however its label leads it.     *)
PacketsEnd == []<>(packet = NoPacket)

(* The label of a peer holds for as long as the peer has its interface:     *)
(* peers that come and go never move the others, and never take 0001.       *)
LabelsStay ==
    [][\A n \in Nodes : \A s \in DOMAIN interfaces[n] \cap DOMAIN interfaces'[n] :
           interfaces'[n][s].peer = interfaces[n][s].peer]_vars
===============================================================================
