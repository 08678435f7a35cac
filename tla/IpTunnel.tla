------------------------------ MODULE IpTunnel ------------------------------
(***************************************************************************)
(* Tunnels for addresses of other networks: nodes that may tunnel through  *)
(* this one are issued addresses here, and this node is issued addresses   *)
(* by nodes it connects to.  Requests and answers may be lost, late or     *)
(* repeated.  An answer brings blocks that its node has configured for us, *)
(* and any number: the connections are counted from 0 again when this node *)
(* restarts, and the answer may be to a request of before.                 *)
(*                                                                         *)
(* A block of addresses is the set of those that match the address up to   *)
(* connectionIp4Alloc or connectionIp6Alloc bits, {} if none is assigned   *)
(* and Bitless if an address is, with no bits to match.                    *)
(* The TUN device, with the addresses and routes that are set on it and    *)
(* nothing here reads, and layouts and checksums of packets are left out.  *)
(***************************************************************************)
EXTENDS Integers, FiniteSets, Sequences, Functions

CONSTANTS
    PublicKeys,    \* other nodes
    Ip4, Ip6,      \* addresses in packets, the zero addresses apart
    Mesh,          \* those of Ip6 that are addresses of nodes
    Issues,        \* for a node, what it may be issued here: blocks ip4 and ip6
    Offers,        \* for a node, what it may issue to us
    MaxMade        \* bound: the number of connections made

NoBits == "no bits"
Bitless == {NoBits}
Blocks == [ip4 : SUBSET Ip4 \cup {Bitless}, ip6 : SUBSET Ip6 \cup {Bitless}]

ASSUME TunnelAssumption ==
    /\ Ip4 \cap Ip6 = {} /\ Mesh \subseteq Ip6 /\ NoBits \notin Ip4 \cup Ip6
    /\ \A k \in PublicKeys : \A b \in Issues[k] \cup Offers[k] :
           b \in Blocks /\ b.ip4 \cup b.ip6 # {}
    /\ \A k \in PublicKeys : \A b \in Issues[k] : NoBits \notin b.ip4 \cup b.ip6

VARIABLES
    connections,             \* connectionList
    nextConnectionNumber,
    requests,                \* sent by us
    given,                   \* the answers that we gave
    made, removed,           \* history: the connections as made, and the removed numbers
    replaced                 \* history: incoming connections that an answer was taken for

tunnelVars == <<connections, nextConnectionNumber, requests, given, made, removed, replaced>>

NoBlocks == [ip4 |-> {}, ip6 |-> {}]

TunnelInit ==
    /\ connections = <<>> /\ nextConnectionNumber = 0
    /\ requests = {} /\ given = {}
    /\ made = {} /\ removed = {} /\ replaced = {}

-----------------------------------------------------------------------------
(* The place of an incoming connection: from the end, each connection that *)
(* follows an incoming one moves to the gap, which takes its place.        *)
Gap ==
    LET count == Len(connections)
        Move(s, i) ==
            IF ~s.list[i].isOutgoing /\ s.gap # i + 1
            THEN [list |-> [s.list EXCEPT ![s.gap] = s.list[i + 1]], gap |-> i + 1]
            ELSE s
        moved[n \in 0 .. count] ==
            IF n = 0 THEN [list |-> Append(connections, "free"), gap |-> count + 1]
            ELSE Move(moved[n - 1], count + 1 - n)
    IN  moved[count]

(* Mutant of newConnection: the connection in the gap is not moved first. *)
NewConnectionOverwrites(conn) ==
    [Append(connections, conn) EXCEPT
        ![IF conn.isOutgoing THEN Len(connections) + 1 ELSE Gap.gap] = conn]

newConnection(conn) ==
    IF conn.isOutgoing THEN Append(connections, conn) ELSE [Gap.list EXCEPT ![Gap.gap] = conn]

Make(k, isOutgoing, blocks) ==
    LET conn == [number |-> nextConnectionNumber, publicKey |-> k,
                 isOutgoing |-> isOutgoing, blocks |-> blocks]
    IN  /\ nextConnectionNumber < MaxMade
        /\ connections' = newConnection(conn)
        /\ nextConnectionNumber' = nextConnectionNumber + 1
        /\ made' = made \cup {conn}

IpTunnel_allowConnection(k, blocks) ==
    /\ Make(k, FALSE, blocks)
    /\ UNCHANGED <<requests, given, removed, replaced>>

IpTunnel_connectTo(k) ==
    /\ Make(k, TRUE, NoBlocks)
    /\ requests' = requests \cup {[to |-> k, number |-> nextConnectionNumber]}
    /\ UNCHANGED <<given, removed, replaced>>

(* Those that follow move up. *)
deleteConnection(i) == [j \in 1 .. Len(connections) - 1 |-> connections[IF j < i THEN j ELSE j + 1]]

IpTunnel_removeConnection(i) ==
    /\ connections' = deleteConnection(i)
    /\ removed' = removed \cup {connections[i].number}
    /\ UNCHANGED <<nextConnectionNumber, requests, given, made, replaced>>

(* The first of some places in the list, 0 if there is none. *)
FirstOf(places) == IF places = {} THEN 0 ELSE CHOOSE i \in places : \A j \in places : i <= j

(* The first connection with the node of key k. *)
connectionByPubKey(k) == FirstOf({i \in DOMAIN connections : connections[i].publicKey = k})

(* A node with a connection to this one asks for its addresses. *)
requestForAddresses(k) ==
    LET i == connectionByPubKey(k)
    IN  /\ i # 0 /\ ~connections[i].isOutgoing /\ connections[i].blocks # NoBlocks
        /\ given' = given \cup {[to |-> k, blocks |-> connections[i].blocks]}
        /\ UNCHANGED <<connections, nextConnectionNumber, requests, made, removed, replaced>>

(* The connection that an answer of node k with this number is taken for:  *)
(* the first with the node, which must be outgoing, unless the number is   *)
(* that of another with it, which need not be; 0 if it is dropped.         *)
Answered(k, number) ==
    LET first == connectionByPubKey(k)
        named == FirstOf({i \in DOMAIN connections : connections[i].number = number})
    IN  IF \/ first = 0 \/ ~connections[first].isOutgoing
           \/ number < 0 \/ number >= nextConnectionNumber
        THEN 0
        ELSE IF named = 0 THEN first
        ELSE IF connections[named].publicKey = k THEN named ELSE 0

(* An absent family leaves what is there. *)
incomingAddresses(k, number, blocks) ==
    LET i == Answered(k, number)
        Given(family, old) == IF blocks[family] # {} THEN blocks[family] ELSE old[family]
    IN  /\ i # 0
        /\ connections' = [connections EXCEPT ![i].blocks =
                              [ip4 |-> Given("ip4", @), ip6 |-> Given("ip6", @)]]
        /\ replaced' = replaced \cup {n \in {number} : ~connections[i].isOutgoing}
        /\ UNCHANGED <<nextConnectionNumber, requests, given, made, removed>>

(* Every ten seconds the first connection after a random one that has no   *)
(* address is asked for, which may be any of them.                         *)
timeout(i) ==
    /\ connections[i].isOutgoing /\ connections[i].blocks = NoBlocks
    /\ requests' = requests \cup {[to |-> connections[i].publicKey, number |-> connections[i].number]}
    /\ UNCHANGED <<connections, nextConnectionNumber, given, made, removed, replaced>>

TunnelNext ==
    \/ \E k \in PublicKeys : \/ \E b \in Issues[k] : IpTunnel_allowConnection(k, b)
                             \/ IpTunnel_connectTo(k)
                             \/ requestForAddresses(k)
    \/ \E i \in DOMAIN connections : IpTunnel_removeConnection(i) \/ timeout(i)
    \/ \E k \in PublicKeys, number \in -1 .. MaxMade :
           \E b \in Offers[k] : incomingAddresses(k, number, b)

TunnelSpec == TunnelInit /\ [][TunnelNext]_tunnelVars

-----------------------------------------------------------------------------
(* Packets.                                                                *)

Packet == (Ip4 \X Ip4) \cup (Ip6 \X Ip6)

isValidAddress4(compared, c) == compared \in c.blocks.ip4
isValidAddress6(src, dest, compared, c) == {src, dest} \cap Mesh = {} /\ compared \in c.blocks.ip6

isValidAddress(src, dest, isFromTun, c) ==
    LET compared == IF isFromTun <=> c.isOutgoing THEN src ELSE dest
    IN  \/ {src, dest} \subseteq Ip4 /\ isValidAddress4(compared, c)
        \/ {src, dest} \subseteq Ip6 /\ isValidAddress6(src, dest, compared, c)

(* Comparing with an address that has no bits to match fails the assertion *)
(* of prefixMatches4 or prefixMatches6, which ends the process.            *)
Fails(src, dest, c) ==
    \/ {src, dest} \subseteq Ip4 /\ c.blocks.ip4 = Bitless
    \/ {src, dest} \subseteq Ip6 /\ {src, dest} \cap Mesh = {} /\ c.blocks.ip6 = Bitless

(* The connection at which a packet from the device goes out or fails, 0   *)
(* if there is none.                                                       *)
findConnection(src, dest) ==
    FirstOf({i \in DOMAIN connections :
                isValidAddress(src, dest, TRUE, connections[i]) \/ Fails(src, dest, connections[i])})

(* A packet of node k goes to the device. *)
incomingFromNode(k, src, dest) ==
    LET i == connectionByPubKey(k)
    IN  i # 0 /\ isValidAddress(src, dest, FALSE, connections[i])

-----------------------------------------------------------------------------
(* Properties.                                                             *)

IssuedTo(k) == UNION {c.blocks.ip4 \cup c.blocks.ip6 :
                        c \in {m \in made : /\ m.number \notin removed /\ ~m.isOutgoing
                                            /\ m.publicKey = k}}
OfferedBy(k) == UNION {b.ip4 \cup b.ip6 : b \in Offers[k]}

(* An answer was taken for a connection that k made to this node. *)
Overridden(k) ==
    \E c \in made : ~c.isOutgoing /\ c.publicKey = k /\ c.number \in replaced \ removed

(* A packet may pass with this address at k's end and that one at ours. *)
Rightful(k, hers, ours) ==
    \/ hers \in IssuedTo(k) \/ ours \in OfferedBy(k)
    \/ Overridden(k) /\ hers \in OfferedBy(k)

(* The answer g is what this node issued to its receiver, or what took the *)
(* place of it.                                                            *)
Due(g) ==
    \E c \in made :
        /\ ~c.isOutgoing /\ c.publicKey = g.to
        /\ \/ g.blocks.ip4 = c.blocks.ip4
           \/ c.number \in replaced /\ \E b \in Offers[g.to] : g.blocks.ip4 = b.ip4
        /\ \/ g.blocks.ip6 = c.blocks.ip6
           \/ c.number \in replaced /\ \E b \in Offers[g.to] : g.blocks.ip6 = b.ip6

(* newConnection, deleteConnection and incomingAddresses keep the list     *)
(* exactly the connections made and not removed, each with its own node.   *)
(* Whatever answers came, late, repeated or with the number of another     *)
(* connection, a packet passes between the device and a node only with an  *)
(* address that this node issued to it and has not withdrawn, or that it   *)
(* issued to us; the latter takes the place of the former only if the      *)
(* node's own answer bore the number of its connection to this one.  The   *)
(* assertion of prefixMatches fails only at a node that issued an address  *)
(* with no bits to match.                                                  *)
TunnelsExact ==
    /\ {<<c.number, c.publicKey, c.isOutgoing>> : c \in Range(connections)} =
           {<<c.number, c.publicKey, c.isOutgoing>> : c \in {m \in made : m.number \notin removed}}
    /\ Len(connections) = Cardinality(made) - Cardinality(removed)
    /\ \A p \in Packet :
         /\ \A k \in PublicKeys : incomingFromNode(k, p[1], p[2]) => Rightful(k, p[1], p[2])
         /\ LET i == findConnection(p[1], p[2])
            IN  i # 0 => LET k == connections[i].publicKey
                         IN  IF Fails(p[1], p[2], connections[i]) THEN NoBits \in OfferedBy(k)
                             ELSE Rightful(k, p[2], p[1])
    /\ \A g \in given : Due(g)
=============================================================================
