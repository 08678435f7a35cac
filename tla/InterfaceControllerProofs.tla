---------------------- MODULE InterfaceControllerProofs ----------------------
(***************************************************************************)
(* What the peers of an interface keep to, for any number of peers and     *)
(* addresses and any timeouts, whether addresses are dialled again or not. *)
(*                                                                         *)
(* The handlers are sequences of small changes, most of them to one peer.  *)
(* Each of those is shown to keep the tables in order (Good), and to take  *)
(* no peer away that the pathfinder still counts on (Later); the loop of   *)
(* iciPing is any number of them.                                          *)
(***************************************************************************)
EXTENDS InterfaceController, SequenceTheorems, WellFoundedInduction, TLAPS

Numbers == 1 .. MaxPeers
States == PeerStates \cup {"UNAUTHENTICATED"}
Tables == UNION {[D -> Endpoint(States)] : D \in SUBSET Numbers}
Worlds == [peer : Tables, map : Seq(Numbers), pings : SUBSET Numbers, told : SUBSET Numbers,
           aborted : BOOLEAN]

(* What holds of a peer between handlers, told: the pathfinder counts on it. *)
SoundPeer(ep, isTold) ==
    /\ ep.state \in PeerStates
    /\ ep.state = "UNRESPONSIVE" => ~ep.up
    /\ ~ep.up => ep.state \in {"UNRESPONSIVE", "INCOMPATIBLE"}
    /\ isTold => ep.state # "UNRESPONSIVE"

Sound(w, p) == SoundPeer(w.peer[p], p \in w.told)

(* The map leads to live peers, to one for an address; the pathfinder was    *)
(* never told of a peer whose version is not known.                          *)
Shape(w) ==
    /\ w \in Worlds
    /\ \A i \in DOMAIN w.map : w.map[i] \in DOMAIN w.peer
    /\ \A i, j \in DOMAIN w.map : w.peer[w.map[i]].lladdr = w.peer[w.map[j]].lladdr => i = j
    /\ w.pings \subseteq DOMAIN w.peer
    /\ \A p \in DOMAIN w.peer : p \in w.told => w.peer[p].version # "unknown"

Good(w) == Shape(w) /\ \A p \in DOMAIN w.peer : Sound(w, p)

(* From v to w: no peer came, and one that went was taken back from the      *)
(* pathfinder, unless its version is one that sendPeer does not speak of.    *)
Later(v, w) ==
    /\ DOMAIN w.peer \subseteq DOMAIN v.peer
    /\ \A p \in DOMAIN w.peer : w.peer[p].version = v.peer[p].version
    /\ \A p \in w.told \ DOMAIN w.peer :
           IF p \in DOMAIN v.peer THEN v.peer[p].version = "bad" ELSE p \in v.told
    /\ Len(w.map) <= Len(v.map)

Inv ==
    /\ Good(World)
    /\ made \in 0 .. MaxPeers /\ Live \subseteq 1 .. made /\ told \subseteq 1 .. made
    /\ Len(peerMap) <= made
    /\ lastPeerPinged \in 0 .. MaxPeers

-----------------------------------------------------------------------------
(* Tables and worlds. *)

(* A table of peers is a function on some of the numbers. *)
LEMMA TableIs ==
    ASSUME NEW t
    PROVE  t \in Tables <=> /\ DOMAIN t \subseteq Numbers
                            /\ t \in [DOMAIN t -> Endpoint(States)]
<1>1. ASSUME NEW D \in SUBSET Numbers, t \in [D -> Endpoint(States)]
      PROVE  DOMAIN t = D
    BY <1>1, Zenon
<1>2. ASSUME DOMAIN t \subseteq Numbers, t \in [DOMAIN t -> Endpoint(States)]
      PROVE  \E D \in SUBSET Numbers : t \in [D -> Endpoint(States)]
    BY <1>2, Zenon
<1> QED
    BY <1>1, <1>2 DEF Tables

(* The parts of a world. *)
LEMMA WorldIs ==
    ASSUME NEW w \in Worlds
    PROVE  /\ DOMAIN w.peer \subseteq Numbers
           /\ w.peer \in [DOMAIN w.peer -> Endpoint(States)]
           /\ \A p \in DOMAIN w.peer : w.peer[p] \in Endpoint(States)
           /\ w.map \in Seq(Numbers) /\ w.pings \subseteq Numbers /\ w.told \subseteq Numbers
           /\ w.aborted \in BOOLEAN
<1>1. /\ w.peer \in Tables /\ w.map \in Seq(Numbers) /\ w.pings \subseteq Numbers
      /\ w.told \subseteq Numbers /\ w.aborted \in BOOLEAN
    BY Zenon DEF Worlds
<1>2. DOMAIN w.peer \subseteq Numbers /\ w.peer \in [DOMAIN w.peer -> Endpoint(States)]
    BY <1>1, TableIs, Zenon
<1>3. ASSUME NEW t, NEW E, t \in [DOMAIN t -> E]
      PROVE  \A p \in DOMAIN t : t[p] \in E
    BY <1>3, Zenon
<1> QED
    BY <1>1, <1>2, <1>3, Zenon

(* A world is later than itself, and than what it is later than was. *)
LEMMA LaterSame ==
    ASSUME NEW w \in Worlds
    PROVE  Later(w, w)
<1>1. Len(w.map) \in Nat
    BY WorldIs
<1> QED
    BY <1>1 DEF Later

(* Later is transitive. *)
LEMMA LaterStill ==
    ASSUME NEW u \in Worlds, NEW v \in Worlds, NEW w \in Worlds, Later(u, v), Later(v, w)
    PROVE  Later(u, w)
<1>1. Len(u.map) \in Nat /\ Len(v.map) \in Nat /\ Len(w.map) \in Nat
    BY WorldIs
<1>2. Len(w.map) <= Len(u.map)
    BY <1>1 DEF Later
<1>3. /\ DOMAIN w.peer \subseteq DOMAIN v.peer /\ DOMAIN v.peer \subseteq DOMAIN u.peer
      /\ \A p \in DOMAIN w.peer : w.peer[p].version = v.peer[p].version
      /\ \A p \in DOMAIN v.peer : v.peer[p].version = u.peer[p].version
      /\ \A p \in w.told \ DOMAIN w.peer :
             IF p \in DOMAIN v.peer THEN v.peer[p].version = "bad" ELSE p \in v.told
      /\ \A p \in v.told \ DOMAIN v.peer :
             IF p \in DOMAIN u.peer THEN u.peer[p].version = "bad" ELSE p \in u.told
    BY Zenon DEF Later
<1>4. ASSUME NEW p \in w.told \ DOMAIN w.peer
      PROVE  IF p \in DOMAIN u.peer THEN u.peer[p].version = "bad" ELSE p \in u.told
  <2>1. CASE p \in DOMAIN v.peer
    BY <1>3, <2>1, Zenon
  <2>2. CASE p \notin DOMAIN v.peer
    BY <1>3, <2>2, Zenon
  <2> QED
    BY <2>1, <2>2, Zenon
<1> QED
    BY <1>2, <1>3, <1>4, Zenon DEF Later

-----------------------------------------------------------------------------
(* Changes to one peer. *)

(* w becomes v by what is done to peer p, which is ep then. *)
Touches(w, v, p, ep) ==
    /\ v = [peer |-> [w.peer EXCEPT ![p] = ep], map |-> w.map, pings |-> v.pings,
            told |-> v.told, aborted |-> w.aborted]
    /\ v.pings \subseteq w.pings \cup {p}
    /\ v.told \subseteq w.told \cup {p}
    /\ w.told \subseteq v.told \cup {p}

(* A world of which everything but p is known to be in order. *)
GoodBut(w, p) ==
    Shape(w) /\ p \in DOMAIN w.peer /\ \A q \in DOMAIN w.peer : q # p => Sound(w, q)

(* What is in order but for p, and p then is, is in order. *)
LEMMA TouchGood ==
    ASSUME NEW w, NEW p, GoodBut(w, p), NEW v, NEW ep \in Endpoint(States),
           Touches(w, v, p, ep), ep.lladdr = w.peer[p].lladdr,
           p \in v.told => ep.version # "unknown"
    PROVE  /\ GoodBut(v, p) /\ v.peer[p] = ep /\ DOMAIN v.peer = DOMAIN w.peer
           /\ v.map = w.map
           /\ SoundPeer(ep, p \in v.told) => Good(v)
           /\ ep.version = w.peer[p].version => Later(w, v)
<1> DEFINE t == [w.peer EXCEPT ![p] = ep]
           D == DOMAIN w.peer
<1>1. /\ w \in Worlds /\ p \in D /\ w.pings \subseteq D
      /\ \A i \in DOMAIN w.map : w.map[i] \in D
      /\ \A i, j \in DOMAIN w.map : w.peer[w.map[i]].lladdr = w.peer[w.map[j]].lladdr => i = j
      /\ \A q \in D : q \in w.told => w.peer[q].version # "unknown"
      /\ \A q \in D : q # p => Sound(w, q)
    BY Zenon DEF GoodBut, Shape
<1>2. /\ D \subseteq Numbers /\ w.peer \in [D -> Endpoint(States)] /\ w.map \in Seq(Numbers)
      /\ w.pings \subseteq Numbers /\ w.told \subseteq Numbers /\ w.aborted \in BOOLEAN
    BY <1>1, WorldIs, Zenon
<1>3. /\ t \in [D -> Endpoint(States)] /\ DOMAIN t = D /\ t[p] = ep
      /\ \A q \in D : q # p => t[q] = w.peer[q]
      /\ \A q \in D : t[q].lladdr = w.peer[q].lladdr
    BY <1>1, <1>2, Zenon
<1>4. t \in Tables
    BY <1>2, <1>3, TableIs, Zenon
<1> HIDE DEF t
<1>5. /\ v = [peer |-> t, map |-> w.map, pings |-> v.pings, told |-> v.told,
              aborted |-> w.aborted]
      /\ v.pings \subseteq w.pings \cup {p}
      /\ v.told \subseteq w.told \cup {p} /\ w.told \subseteq v.told \cup {p}
    BY Zenon DEF Touches, t
<1>6. v.peer = t /\ v.map = w.map /\ v.aborted = w.aborted
    BY <1>5
<1>7. v.pings \subseteq D /\ v.pings \in SUBSET Numbers /\ v.told \in SUBSET Numbers
    BY <1>1, <1>2, <1>5, Zenon
<1>8. v \in Worlds
    BY <1>2, <1>4, <1>5, <1>7 DEF Worlds
<1>9. \A i, j \in DOMAIN v.map : v.peer[v.map[i]].lladdr = v.peer[v.map[j]].lladdr => i = j
    BY <1>1, <1>3, <1>6
<1>10. \A q \in D : q \in v.told => v.peer[q].version # "unknown"
    BY <1>1, <1>3, <1>5, <1>6, Zenon
<1>11. Shape(v)
    BY <1>1, <1>3, <1>6, <1>7, <1>8, <1>9, <1>10, Zenon DEF Shape
<1>12. ASSUME NEW q \in D, q # p
       PROVE  Sound(v, q)
  <2>1. v.peer[q] = w.peer[q] /\ (q \in v.told <=> q \in w.told) /\ Sound(w, q)
    BY <1>1, <1>3, <1>5, <1>6, <1>12, Zenon
  <2> QED
    BY <2>1, Zenon DEF Sound, SoundPeer
<1>13. GoodBut(v, p)
    BY <1>1, <1>3, <1>6, <1>11, <1>12, Zenon DEF GoodBut
<1>14. ASSUME SoundPeer(ep, p \in v.told)
       PROVE  Good(v)
  <2>1. Sound(v, p)
    BY <1>3, <1>6, <1>14, Zenon DEF Sound
  <2> QED
    BY <1>3, <1>6, <1>11, <1>12, <2>1, Zenon DEF Good
<1>15. ASSUME ep.version = w.peer[p].version
       PROVE  Later(w, v)
  <2>1. Len(v.map) <= Len(w.map)
    BY <1>2, <1>6
  <2>2. \A q \in D : v.peer[q].version = w.peer[q].version
    BY <1>3, <1>6, <1>15, Zenon
  <2>3. \A q \in v.told \ D : q \in w.told
    BY <1>1, <1>5, Zenon
  <2> QED
    BY <1>3, <1>6, <2>1, <2>2, <2>3, Zenon DEF Later
<1> QED
    BY <1>3, <1>6, <1>13, <1>14, <1>15, Zenon

-----------------------------------------------------------------------------
(* Peers that are closed. *)

(* An array with one entry taken out: those above have moved down. *)
LEMMA WithoutIs ==
    ASSUME NEW S, NEW q \in Seq(S), NEW i \in DOMAIN q
    PROVE  /\ Without(q, i) \in Seq(S)
           /\ DOMAIN Without(q, i) = 1 .. Len(q) - 1
           /\ \A j \in 1 .. Len(q) - 1 : Without(q, i)[j] = IF j < i THEN q[j] ELSE q[j + 1]
<1> DEFINE low == SubSeq(q, 1, i - 1)
           high == SubSeq(q, i + 1, Len(q))
<1>1. Len(q) \in Nat /\ i \in 1 .. Len(q) /\ \A j \in 1 .. Len(q) : q[j] \in S
    OBVIOUS
<1>2. low \in Seq(S) /\ Len(low) = i - 1 /\ \A j \in 1 .. i - 1 : low[j] = q[j]
    BY <1>1
<1>3. /\ high \in Seq(S) /\ Len(high) = Len(q) - i
      /\ \A j \in 1 .. Len(q) - i : high[j] = q[i + j]
    BY <1>1
<1> HIDE DEF low, high
<1>4. /\ low \o high \in Seq(S) /\ Len(low \o high) = Len(q) - 1
      /\ \A j \in 1 .. Len(q) - 1 :
             (low \o high)[j] = IF j <= i - 1 THEN low[j] ELSE high[j - (i - 1)]
  <2>1. Len(low) + Len(high) = Len(q) - 1
    BY <1>1, <1>2, <1>3
  <2>2. /\ low \o high \in Seq(S) /\ Len(low \o high) = Len(low) + Len(high)
        /\ \A j \in 1 .. Len(low) + Len(high) :
               (low \o high)[j] = IF j <= Len(low) THEN low[j] ELSE high[j - Len(low)]
    BY <1>2, <1>3, ConcatProperties, Zenon
  <2> QED
    BY <1>2, <2>1, <2>2, Zenon
<1>5. \A j \in 1 .. Len(q) - 1 : /\ j < i => j <= i - 1 /\ low[j] = q[j]
                                 /\ ~(j < i) => ~(j <= i - 1) /\ high[j - (i - 1)] = q[j + 1]
  <2> SUFFICES ASSUME NEW j \in 1 .. Len(q) - 1
               PROVE  /\ j < i => j <= i - 1 /\ low[j] = q[j]
                      /\ ~(j < i) => ~(j <= i - 1) /\ high[j - (i - 1)] = q[j + 1]
    BY Zenon
  <2>1. CASE j < i
    <3>1. j \in 1 .. i - 1
      BY <1>1, <2>1
    <3> QED
      BY <1>1, <1>2, <2>1, <3>1
  <2>2. CASE ~(j < i)
    <3>1. j - (i - 1) \in 1 .. Len(q) - i /\ i + (j - (i - 1)) = j + 1 /\ ~(j <= i - 1)
      BY <1>1, <2>2
    <3>2. high[j - (i - 1)] = q[i + (j - (i - 1))]
      BY <1>3, <3>1, Zenon
    <3> QED
      BY <2>2, <3>1, <3>2, Zenon
  <2> QED
    BY <2>1, <2>2, Zenon
<1>6. Without(q, i) = low \o high
    BY Zenon DEF Without, low, high
<1>7. DOMAIN (low \o high) = 1 .. Len(q) - 1
    BY <1>4
<1> QED
    BY <1>4, <1>5, <1>6, <1>7, Zenon
(* The map without p, which it had once at most. *)
LEMMA UnmappedIs ==
    ASSUME NEW S, NEW m \in Seq(S), NEW p, \A i, j \in DOMAIN m : m[i] = m[j] => i = j
    PROVE  /\ Unmapped(m, p) \in Seq(S) /\ Len(Unmapped(m, p)) <= Len(m)
           /\ \A a \in DOMAIN Unmapped(m, p) :
                  Unmapped(m, p)[a] # p /\ \E k \in DOMAIN m : Unmapped(m, p)[a] = m[k]
           /\ \A a, b \in DOMAIN Unmapped(m, p) :
                  \E k, l \in DOMAIN m : /\ Unmapped(m, p)[a] = m[k] /\ Unmapped(m, p)[b] = m[l]
                                         /\ k = l => a = b
<1>1. Len(m) \in Nat /\ DOMAIN m = 1 .. Len(m)
    OBVIOUS
<1>2. CASE p \notin Range(m)
  <2>1. Unmapped(m, p) = m
    BY <1>2, Zenon DEF Unmapped
  <2>2. \A a \in DOMAIN m : m[a] # p
    BY <1>1, <1>2, Zenon DEF Range
  <2> QED
    BY <1>1, <2>1, <2>2
<1>3. CASE p \in Range(m)
  <2> DEFINE i == CHOOSE j \in DOMAIN m : m[j] = p
             u == Without(m, i)
  <2>1. i \in DOMAIN m /\ m[i] = p
    BY <1>1, <1>3, Zenon DEF Range
  <2>2. Unmapped(m, p) = u
    BY <1>3, Zenon DEF Unmapped
  <2> HIDE DEF i
  <2>3. /\ u \in Seq(S) /\ DOMAIN u = 1 .. Len(m) - 1
        /\ \A a \in 1 .. Len(m) - 1 : u[a] = IF a < i THEN m[a] ELSE m[a + 1]
    BY <2>1, WithoutIs, Zenon
  <2> HIDE DEF u
  <2>4. Len(u) <= Len(m)
    BY <1>1, <2>1, <2>3
  <2>5. \A a \in DOMAIN u : \E k \in DOMAIN m : u[a] = m[k] /\ k = IF a < i THEN a ELSE a + 1
    BY <1>1, <2>1, <2>3
  <2>6. \A a \in DOMAIN u : u[a] # p
    <3> SUFFICES ASSUME NEW a \in DOMAIN u
                 PROVE  u[a] # p
      BY Zenon
    <3>1. PICK k \in DOMAIN m : u[a] = m[k] /\ k = IF a < i THEN a ELSE a + 1
      BY <2>5, Zenon
    <3>2. k # i
      BY <1>1, <2>1, <2>3, <3>1
    <3> QED
      BY <2>1, <3>1, <3>2, Zenon
  <2>7. \A a, b \in DOMAIN u :
            \E k, l \in DOMAIN m : u[a] = m[k] /\ u[b] = m[l] /\ (k = l => a = b)
    <3> SUFFICES ASSUME NEW a \in DOMAIN u, NEW b \in DOMAIN u
                 PROVE  \E k, l \in DOMAIN m : u[a] = m[k] /\ u[b] = m[l] /\ (k = l => a = b)
      BY Zenon
    <3>1. PICK k \in DOMAIN m : u[a] = m[k] /\ k = IF a < i THEN a ELSE a + 1
      BY <2>5, Zenon
    <3>2. PICK l \in DOMAIN m : u[b] = m[l] /\ l = IF b < i THEN b ELSE b + 1
      BY <2>5, Zenon
    <3>3. k = l => a = b
      BY <1>1, <2>1, <2>3, <3>1, <3>2
    <3> QED
      BY <3>1, <3>2, <3>3, Zenon
  <2> QED
    BY <2>2, <2>3, <2>4, <2>5, <2>6, <2>7
<1> QED
    BY <1>2, <1>3, Zenon

(* What is in order but for p is in order when p is closed: p was not told   *)
(* of, or is taken back, unless its version is one that is not spoken of.    *)
LEMMA CloseGood ==
    ASSUME NEW w, NEW p, GoodBut(w, p)
    PROVE  /\ Good(Close(w, p)) /\ Later(w, Close(w, p))
           /\ DOMAIN Close(w, p).peer = DOMAIN w.peer \ {p}
           /\ Close(w, p).told \subseteq w.told
<1> DEFINE D == DOMAIN w.peer
           t == [q \in D \ {p} |-> w.peer[q]]
           m == Unmapped(w.map, p)
           s == sendPeer(w, p, "PEER_GONE").told
           v == Close(w, p)
<1>1. /\ w \in Worlds /\ p \in D /\ w.pings \subseteq D
      /\ \A i \in DOMAIN w.map : w.map[i] \in D
      /\ \A i, j \in DOMAIN w.map : w.peer[w.map[i]].lladdr = w.peer[w.map[j]].lladdr => i = j
      /\ \A q \in D : q \in w.told => w.peer[q].version # "unknown"
      /\ \A q \in D : q # p => Sound(w, q)
    BY Zenon DEF GoodBut, Shape
<1>2. /\ D \subseteq Numbers /\ w.peer \in [D -> Endpoint(States)] /\ w.map \in Seq(Numbers)
      /\ w.pings \subseteq Numbers /\ w.told \subseteq Numbers /\ w.aborted \in BOOLEAN
      /\ \A q \in D : w.peer[q] \in Endpoint(States)
    BY <1>1, WorldIs, Zenon
<1>3. /\ t \in [D \ {p} -> Endpoint(States)] /\ DOMAIN t = D \ {p}
      /\ \A q \in D : q # p => t[q] = w.peer[q]
    BY <1>2, Zenon
<1>4. t \in Tables
    BY <1>2, <1>3, TableIs, Zenon
<1>5. \A i, j \in DOMAIN w.map : w.map[i] = w.map[j] => i = j
    BY <1>1, Zenon
<1>6. /\ m \in Seq(Numbers) /\ Len(m) <= Len(w.map)
      /\ \A a \in DOMAIN m : m[a] # p /\ \E k \in DOMAIN w.map : m[a] = w.map[k]
      /\ \A a, b \in DOMAIN m :
             \E k, l \in DOMAIN w.map : m[a] = w.map[k] /\ m[b] = w.map[l] /\ (k = l => a = b)
  <2>1. w.map \in Seq(Numbers)
    BY <1>2, Zenon
  <2> QED
    <3> DEFINE c == w.map
    <3>1. c \in Seq(Numbers) /\ (\A i, j \in DOMAIN c : c[i] = c[j] => i = j) /\ m = Unmapped(c, p)
      BY <1>5, <2>1, Zenon
    <3> HIDE DEF c, m
    <3>2. /\ m \in Seq(Numbers) /\ Len(m) <= Len(c)
          /\ \A a \in DOMAIN m : m[a] # p /\ \E k \in DOMAIN c : m[a] = c[k]
          /\ \A a, b \in DOMAIN m :
                 \E k, l \in DOMAIN c : m[a] = c[k] /\ m[b] = c[l] /\ (k = l => a = b)
      BY <3>1, UnmappedIs
    <3> QED
      BY <3>2, Zenon DEF c
<1>7. s = IF w.peer[p].version = "ok" THEN w.told \ {p} ELSE w.told
    BY <1>1, Zenon DEF sendPeer, Speakable, Worlds
<1> HIDE DEF t, m, s
<1>8. v = [peer |-> t, map |-> m, pings |-> w.pings \ {p}, told |-> s,
           aborted |-> w.aborted \/ p \notin Range(w.map)]
    BY Zenon DEF Close, t, m, s
<1>9. (w.aborted \/ p \notin Range(w.map)) \in BOOLEAN
    BY Zenon
<1>10. v \in Worlds
  <2>1. w.pings \ {p} \in SUBSET Numbers /\ s \in SUBSET Numbers
    BY <1>2, <1>7, Zenon
  <2> QED
    BY <1>4, <1>6, <1>8, <1>9, <2>1 DEF Worlds
<1>11. v.peer = t /\ v.map = m /\ v.pings = w.pings \ {p} /\ v.told = s
    BY <1>8
<1> HIDE DEF v
<1>12. \A i \in DOMAIN m : m[i] \in D \ {p}
    BY <1>1, <1>6, Zenon
<1>13. \A i, j \in DOMAIN m : t[m[i]].lladdr = t[m[j]].lladdr => i = j
  <2> SUFFICES ASSUME NEW i \in DOMAIN m, NEW j \in DOMAIN m, t[m[i]].lladdr = t[m[j]].lladdr
               PROVE  i = j
    BY Zenon
  <2>1. PICK k \in DOMAIN w.map, l \in DOMAIN w.map :
            m[i] = w.map[k] /\ m[j] = w.map[l] /\ (k = l => i = j)
    BY <1>6, Zenon
  <2>2. w.peer[w.map[k]].lladdr = w.peer[w.map[l]].lladdr
    BY <1>3, <1>12, <2>1, Zenon
  <2> QED
    BY <1>1, <2>1, <2>2, Zenon
<1>14. Shape(v)
  <2>1. v.pings \subseteq DOMAIN v.peer
    BY <1>1, <1>3, <1>11, Zenon
  <2>2. \A q \in DOMAIN v.peer : q \in v.told => v.peer[q].version # "unknown"
    BY <1>1, <1>3, <1>7, <1>11
  <2> QED
    BY <1>3, <1>10, <1>11, <1>12, <1>13, <2>1, <2>2, Zenon DEF Shape
<1>15. \A q \in DOMAIN v.peer : Sound(v, q)
  <2> SUFFICES ASSUME NEW q \in D, q # p
               PROVE  Sound(v, q)
    BY <1>3, <1>11, Zenon
  <2>1. v.peer[q] = w.peer[q] /\ (q \in v.told <=> q \in w.told) /\ Sound(w, q)
    BY <1>1, <1>3, <1>7, <1>11, Zenon
  <2> QED
    BY <2>1, Zenon DEF Sound, SoundPeer
<1>16. Later(w, v)
  <2>1. \A q \in v.told \ (D \ {p}) :
            IF q \in D THEN w.peer[q].version = "bad" ELSE q \in w.told
    <3> SUFFICES ASSUME NEW q \in s, q \notin D \ {p}
                 PROVE  IF q \in D THEN w.peer[q].version = "bad" ELSE q \in w.told
      BY <1>11, Zenon
    <3>1. q \in w.told /\ (q = p => w.peer[p].version # "ok")
      BY <1>7, Zenon
    <3>2. w.peer[p].version \in {"unknown", "ok", "bad"}
      BY <1>1, <1>2, Zenon DEF Endpoint
    <3> QED
      BY <1>1, <3>1, <3>2, Zenon
  <2>2. \A q \in DOMAIN v.peer : v.peer[q].version = w.peer[q].version
    BY <1>3, <1>11, Zenon
  <2> QED
    BY <1>3, <1>6, <1>11, <2>1, <2>2, Zenon DEF Later
<1>17. v.told \subseteq w.told
    BY <1>7, <1>11, Zenon
<1> QED
    BY <1>3, <1>11, <1>14, <1>15, <1>16, <1>17, Zenon DEF Good, v

-----------------------------------------------------------------------------
(* What the parts of handlers do to a peer. *)

(* sendPeer only tells, or takes back. *)
LEMMA SendPeerTouches ==
    ASSUME NEW w \in Worlds, NEW p \in DOMAIN w.peer, NEW ev
    PROVE  /\ Touches(w, sendPeer(w, p, ev), p, w.peer[p])
           /\ p \in sendPeer(w, p, ev).told => IF w.peer[p].version = "ok" THEN ev = "PEER"
                                                                          ELSE p \in w.told
<1> DEFINE v == sendPeer(w, p, ev)
<1>1. w.peer = [w.peer EXCEPT ![p] = w.peer[p]]
    BY WorldIs, Zenon
<1>2. CASE ~Speakable(w.peer[p])
  <2>1. v = w
    BY <1>2, Zenon DEF sendPeer
  <2>2. w = [peer |-> w.peer, map |-> w.map, pings |-> w.pings, told |-> w.told,
             aborted |-> w.aborted]
    BY Zenon DEF Worlds
  <2> QED
    BY <1>1, <1>2, <2>1, <2>2, Zenon DEF Touches, Speakable
<1>3. CASE Speakable(w.peer[p])
  <2>1. v.told = IF ev = "PEER" THEN w.told \cup {p} ELSE w.told \ {p}
    BY <1>3, Zenon DEF sendPeer, Worlds
  <2>2. v = [peer |-> w.peer, map |-> w.map, pings |-> w.pings, told |-> v.told,
             aborted |-> w.aborted]
    BY <1>3, <2>1, Zenon DEF sendPeer, Worlds
  <2>3. v.pings = w.pings
    BY <2>2
  <2> HIDE DEF v
  <2>4. Touches(w, v, p, w.peer[p])
    BY <1>1, <2>1, <2>2, <2>3, Zenon DEF Touches
  <2> QED
    BY <1>3, <2>1, <2>4, Zenon DEF Speakable, v
<1> QED
    BY <1>2, <1>3, Zenon

(* sendPing counts the ping and has one under way. *)
LEMMA SendPingTouches ==
    ASSUME NEW w \in Worlds, NEW p \in DOMAIN w.peer
    PROVE  \E ep \in Endpoint(States) :
               /\ Touches(w, sendPing(w, p), p, ep)
               /\ sendPing(w, p).told = w.told
               /\ \E n : ep = [w.peer[p] EXCEPT !.pingCount = n]
<1> DEFINE v == sendPing(w, p)
           n == (w.peer[p].pingCount + 1) % PingSkip
           ep == [w.peer[p] EXCEPT !.pingCount = n]
<1>1. w.peer[p] \in Endpoint(States)
    BY WorldIs, Zenon
<1>2. n \in 0 .. PingSkip - 1
    BY <1>1, ControllerAssumption DEF Endpoint
<1>3. ep \in Endpoint(States)
    BY <1>1, <1>2, Zenon DEF Endpoint
<1>4. v = [w EXCEPT !.peer[p].pingCount = (@ + 1) % PingSkip, !.pings = @ \cup {p}]
    BY Zenon DEF sendPing
<1>5. ep = [w.peer[p] EXCEPT !.pingCount = (w.peer[p].pingCount + 1) % PingSkip]
    BY Zenon
<1>6. \E k : ep = [w.peer[p] EXCEPT !.pingCount = k]
    BY Zenon
<1> HIDE DEF v, ep, n
<1>7. v.told = w.told /\ v.pings = w.pings \cup {p}
    BY <1>4, Zenon DEF Worlds
<1>8. v = [peer |-> [w.peer EXCEPT ![p] = ep], map |-> w.map, pings |-> v.pings,
           told |-> v.told, aborted |-> w.aborted]
    BY <1>4, <1>5, <1>7, Zenon DEF Worlds
<1>9. Touches(w, v, p, ep)
    BY <1>7, <1>8, Zenon DEF Touches
<1> QED
    BY <1>3, <1>6, <1>7, <1>9, Zenon DEF v

(* An assignment to the peer. *)
LEMMA AssignTouches ==
    ASSUME NEW w \in Worlds, NEW p \in DOMAIN w.peer, NEW ep
    PROVE  /\ Touches(w, [w EXCEPT !.peer[p] = ep], p, ep)
           /\ [w EXCEPT !.peer[p] = ep].told = w.told
<1> DEFINE v == [w EXCEPT !.peer[p] = ep]
<1>1. v = [w EXCEPT !.peer[p] = ep]
    BY Zenon
<1> HIDE DEF v
<1>2. v.told = w.told /\ v.pings = w.pings
    BY <1>1, Zenon DEF Worlds
<1>3. v = [peer |-> [w.peer EXCEPT ![p] = ep], map |-> w.map, pings |-> w.pings,
           told |-> w.told, aborted |-> w.aborted]
    BY <1>1, Zenon DEF Worlds
<1>4. Touches(w, v, p, ep)
    BY <1>2, <1>3, Zenon DEF Touches
<1> QED
    BY <1>2, <1>4, Zenon DEF v

(* The record of a peer that there is, set. *)
LEMMA SetIs ==
    ASSUME NEW w \in Worlds, NEW p \in DOMAIN w.peer, NEW ep
    PROVE  Set(w, p, ep) = [w EXCEPT !.peer[p] = ep]
<1> DEFINE t == [q \in DOMAIN w.peer \cup {p} |-> IF q = p THEN ep ELSE w.peer[q]]
<1>1. t = [w.peer EXCEPT ![p] = ep]
    BY WorldIs, Zenon
<1>2. Set(w, p, ep) = [w EXCEPT !.peer = t]
    BY Zenon DEF Set
<1> HIDE DEF t
<1> QED
    BY <1>1, <1>2, Zenon

(* Pinging a peer leaves in order what was. *)
LEMMA PingGood ==
    ASSUME NEW w, NEW p, GoodBut(w, p), NEW v, v = sendPing(w, p)
    PROVE  /\ GoodBut(v, p) /\ DOMAIN v.peer = DOMAIN w.peer /\ v.map = w.map
           /\ v.told = w.told /\ Later(w, v)
           /\ SoundPeer(w.peer[p], p \in w.told) => Good(v)
<1>1. w \in Worlds /\ p \in DOMAIN w.peer /\ (p \in w.told => w.peer[p].version # "unknown")
    BY Zenon DEF GoodBut, Shape
<1>2. PICK ep \in Endpoint(States) : /\ Touches(w, v, p, ep) /\ v.told = w.told
                                     /\ \E n : ep = [w.peer[p] EXCEPT !.pingCount = n]
    BY <1>1, SendPingTouches
<1>3. w.peer[p] \in Endpoint(States)
    BY <1>1, WorldIs, Zenon
<1>4. /\ ep.lladdr = w.peer[p].lladdr /\ ep.version = w.peer[p].version
      /\ ep.state = w.peer[p].state /\ ep.up = w.peer[p].up
    BY <1>2, <1>3, Zenon DEF Endpoint
<1>5. p \in v.told => ep.version # "unknown"
    BY <1>1, <1>2, <1>4, Zenon
<1>6. /\ GoodBut(v, p) /\ DOMAIN v.peer = DOMAIN w.peer /\ v.map = w.map /\ Later(w, v)
      /\ SoundPeer(ep, p \in v.told) => Good(v)
  <2>1. Touches(w, v, p, ep) /\ ep.lladdr = w.peer[p].lladdr /\ ep.version = w.peer[p].version
    BY <1>2, <1>4, Zenon
  <2> QED
    BY <1>5, <2>1, TouchGood
<1>7. SoundPeer(w.peer[p], p \in w.told) => SoundPeer(ep, p \in v.told)
    BY <1>2, <1>4, Zenon DEF SoundPeer
<1> QED
    BY <1>2, <1>6, <1>7, Zenon

(* So does telling of it, or taking it back. *)
LEMMA SayGood ==
    ASSUME NEW w, NEW p, GoodBut(w, p), NEW ev, NEW v, v = sendPeer(w, p, ev)
    PROVE  /\ GoodBut(v, p) /\ v.peer[p] = w.peer[p] /\ DOMAIN v.peer = DOMAIN w.peer
           /\ v.map = w.map /\ Later(w, v)
           /\ p \in v.told => IF w.peer[p].version = "ok" THEN ev = "PEER" ELSE p \in w.told
           /\ v.told \subseteq w.told \cup {p}
           /\ SoundPeer(w.peer[p], p \in v.told) => Good(v)
<1>1. w \in Worlds /\ p \in DOMAIN w.peer /\ (p \in w.told => w.peer[p].version # "unknown")
    BY Zenon DEF GoodBut, Shape
<1>2. /\ Touches(w, v, p, w.peer[p])
      /\ p \in v.told => IF w.peer[p].version = "ok" THEN ev = "PEER" ELSE p \in w.told
    BY <1>1, SendPeerTouches, Zenon
<1>3. w.peer[p] \in Endpoint(States)
    BY <1>1, WorldIs, Zenon
<1>4. p \in v.told => w.peer[p].version # "unknown"
    BY <1>1, <1>2, Zenon
<1>5. /\ GoodBut(v, p) /\ v.peer[p] = w.peer[p] /\ DOMAIN v.peer = DOMAIN w.peer
      /\ v.map = w.map /\ Later(w, v) /\ (SoundPeer(w.peer[p], p \in v.told) => Good(v))
    BY <1>2, <1>3, <1>4, TouchGood
<1>6. v.told \subseteq w.told \cup {p}
    BY <1>2, Zenon DEF Touches
<1> QED
    BY <1>2, <1>5, <1>6, Zenon

(* So does an assignment that leaves the address alone. *)
LEMMA AssignGood ==
    ASSUME NEW w, NEW p, GoodBut(w, p), NEW ep \in Endpoint(States),
           ep.lladdr = w.peer[p].lladdr, p \in w.told => ep.version # "unknown",
           NEW v, v = [w EXCEPT !.peer[p] = ep]
    PROVE  /\ GoodBut(v, p) /\ v.peer[p] = ep /\ DOMAIN v.peer = DOMAIN w.peer
           /\ v.map = w.map /\ v.told = w.told
           /\ SoundPeer(ep, p \in w.told) => Good(v)
           /\ ep.version = w.peer[p].version => Later(w, v)
<1>1. w \in Worlds /\ p \in DOMAIN w.peer
    BY Zenon DEF GoodBut, Shape
<1>2. Touches(w, v, p, ep) /\ v.told = w.told
    BY <1>1, AssignTouches, Zenon
<1>3. ASSUME NEW u, Touches(w, u, p, ep), u.told = w.told
      PROVE  /\ GoodBut(u, p) /\ u.peer[p] = ep /\ DOMAIN u.peer = DOMAIN w.peer
             /\ u.map = w.map
             /\ SoundPeer(ep, p \in w.told) => Good(u)
             /\ ep.version = w.peer[p].version => Later(w, u)
  <2>1. p \in u.told => ep.version # "unknown"
    BY <1>3, Zenon
  <2>2. /\ GoodBut(u, p) /\ u.peer[p] = ep /\ DOMAIN u.peer = DOMAIN w.peer /\ u.map = w.map
        /\ SoundPeer(ep, p \in u.told) => Good(u)
        /\ ep.version = w.peer[p].version => Later(w, u)
    BY <1>3, <2>1, TouchGood
  <2>3. SoundPeer(ep, p \in w.told) => SoundPeer(ep, p \in u.told)
    BY <1>3, Zenon DEF SoundPeer
  <2> QED
    BY <2>2, <2>3, Zenon
<1> QED
    BY <1>2, <1>3, Zenon

(* What a message does to its peer. *)
LEMMA ReceivedGood ==
    ASSUME NEW w, NEW p, GoodBut(w, p), w.peer[p].state = "ESTABLISHED" => w.peer[p].up,
           NEW pinging, NEW v, v = receivedPostCryptoAuth(w, p, pinging)
    PROVE  Good(v) /\ DOMAIN v.peer = DOMAIN w.peer /\ v.map = w.map /\ v.told = w.told
<1>1. w \in Worlds /\ p \in DOMAIN w.peer /\ (p \in w.told => w.peer[p].version # "unknown")
    BY Zenon DEF GoodBut, Shape
<1>2. w.peer[p] \in Endpoint(States)
    BY <1>1, WorldIs, Zenon
<1>3. CASE w.peer[p].state = "ESTABLISHED"
  <2> DEFINE ep == [w.peer[p] EXCEPT !.idle = 0]
  <2>1. ep \in Endpoint(States)
    BY <1>2, ControllerAssumption DEF Endpoint
  <2>2. /\ ep.lladdr = w.peer[p].lladdr /\ ep.version = w.peer[p].version
        /\ ep.state = "ESTABLISHED" /\ ep.up
    BY <1>2, <1>3, Zenon DEF Endpoint
  <2>3. v = [w EXCEPT !.peer[p] = ep]
    BY <1>1, <1>3, Zenon DEF receivedPostCryptoAuth, Worlds
  <2> HIDE DEF ep
  <2>4. SoundPeer(ep, p \in w.told)
    BY <2>2, Zenon DEF SoundPeer, PeerStates
  <2> QED
    BY <1>1, <2>1, <2>2, <2>3, <2>4, AssignGood
<1>4. CASE w.peer[p].state # "ESTABLISHED"
  <2> DEFINE ep == [w.peer[p] EXCEPT !.state = w.peer[p].ca, !.up = TRUE]
             up == [w EXCEPT !.peer[p].state = w.peer[p].ca, !.peer[p].up = TRUE]
  <2>1. ep \in Endpoint(States)
    BY <1>2, Zenon DEF Endpoint, States, PeerStates
  <2>2. /\ ep.lladdr = w.peer[p].lladdr /\ ep.version = w.peer[p].version
        /\ ep.state \in {"SETUP", "ESTABLISHED"} /\ ep.up
    BY <1>2, Zenon DEF Endpoint
  <2>3. up = [w EXCEPT !.peer[p] = ep]
    BY <1>1, <1>2, Zenon DEF Worlds, Endpoint
  <2>4. v = up \/ v = sendPing(up, p)
    BY <1>4, Zenon DEF receivedPostCryptoAuth
  <2> HIDE DEF ep, up
  <2>5. SoundPeer(ep, p \in w.told)
    BY <2>2, Zenon DEF SoundPeer, PeerStates
  <2>6. /\ GoodBut(up, p) /\ up.peer[p] = ep /\ DOMAIN up.peer = DOMAIN w.peer
        /\ up.map = w.map /\ up.told = w.told /\ Good(up)
    BY <1>1, <2>1, <2>2, <2>3, <2>5, AssignGood
  <2> QED
    BY <2>4, <2>5, <2>6, PingGood
<1> QED
    BY <1>3, <1>4, Zenon

(* What is in order is in order but for any peer, which is sound. *)
LEMMA GoodHas ==
    ASSUME NEW w, Good(w), NEW p \in DOMAIN w.peer
    PROVE  /\ w \in Worlds /\ GoodBut(w, p) /\ w.peer[p] \in Endpoint(States)
           /\ SoundPeer(w.peer[p], p \in w.told)
           /\ p \in w.told => w.peer[p].version # "unknown"
<1>1. w \in Worlds /\ (p \in w.told => w.peer[p].version # "unknown") /\ Sound(w, p)
    BY Zenon DEF Good, Shape
<1>2. GoodBut(w, p)
    BY Zenon DEF Good, GoodBut
<1>3. w.peer[p] \in Endpoint(States)
    BY <1>1, WorldIs, Zenon
<1> QED
    BY <1>1, <1>2, <1>3, Zenon DEF Sound

(* The answer to a ping: the peer's version is known, and it is told of.     *)
LEMMA AnsweredGood ==
    ASSUME NEW w, Good(w), NEW p \in DOMAIN w.peer, NEW version \in {"ok", "bad"},
           NEW v, v = onPingResponse(w, p, version)
    PROVE  Good(v) /\ DOMAIN v.peer = DOMAIN w.peer /\ v.map = w.map
           /\ v.told \subseteq w.told \cup {p}
<1> DEFINE ep == [w.peer[p] EXCEPT !.version = version]
           known == [w EXCEPT !.peer[p].version = version, !.pings = @ \ {p}]
           said == IF known.peer[p].state = "ESTABLISHED"
                   THEN sendPeer(known, p, "PEER") ELSE known
<1>1. /\ w \in Worlds /\ GoodBut(w, p) /\ w.peer[p] \in Endpoint(States)
      /\ SoundPeer(w.peer[p], p \in w.told)
    BY GoodHas, Zenon
<1>2. ep \in Endpoint(States)
    BY <1>1, Zenon DEF Endpoint
<1>3. /\ ep.lladdr = w.peer[p].lladdr /\ ep.version = version /\ ep.version # "unknown"
      /\ ep.state = w.peer[p].state /\ ep.up = w.peer[p].up
    BY <1>1, Zenon DEF Endpoint
<1>4. /\ known = [w EXCEPT !.peer[p].version = version, !.pings = @ \ {p}]
      /\ ep = [w.peer[p] EXCEPT !.version = version]
    BY Zenon
<1>5. v = known \/ v = [said EXCEPT !.peer[p].sincePing = 0]
    BY Zenon DEF onPingResponse
<1>6. said = known \/ (known.peer[p].state = "ESTABLISHED" /\ said = sendPeer(known, p, "PEER"))
    BY Zenon
<1> HIDE DEF ep, known, said
<1>7. Touches(w, known, p, ep) /\ known.told = w.told
  <2>1. known.told = w.told /\ known.pings = w.pings \ {p}
    BY <1>1, <1>4, Zenon DEF Worlds
  <2>2. known = [peer |-> [w.peer EXCEPT ![p] = ep], map |-> w.map, pings |-> known.pings,
                 told |-> known.told, aborted |-> w.aborted]
    BY <1>1, <1>4, <2>1, Zenon DEF Worlds
  <2> QED
    BY <2>1, <2>2, Zenon DEF Touches
<1>8. SoundPeer(ep, p \in known.told)
    BY <1>1, <1>3, <1>7, Zenon DEF SoundPeer
<1>9. /\ Good(known) /\ known.peer[p] = ep /\ DOMAIN known.peer = DOMAIN w.peer
      /\ known.map = w.map
  <2>1. Touches(w, known, p, ep) /\ ep.lladdr = w.peer[p].lladdr /\ ep.version # "unknown"
    BY <1>3, <1>7, Zenon
  <2> QED
    BY <1>1, <1>2, <1>8, <2>1, TouchGood
<1>10. /\ Good(said) /\ DOMAIN said.peer = DOMAIN w.peer /\ said.map = w.map
       /\ said.told \subseteq w.told \cup {p}
  <2>1. CASE said = known
    BY <1>7, <1>9, <2>1, Zenon
  <2>2. CASE known.peer[p].state = "ESTABLISHED" /\ said = sendPeer(known, p, "PEER")
    <3>1. GoodBut(known, p)
      BY <1>9, GoodHas, Zenon
    <3>2. SoundPeer(known.peer[p], p \in said.told)
      BY <1>8, <1>9, <2>2, Zenon DEF SoundPeer
    <3>3. /\ DOMAIN said.peer = DOMAIN known.peer /\ said.map = known.map
          /\ said.told \subseteq known.told \cup {p}
          /\ SoundPeer(known.peer[p], p \in said.told) => Good(said)
      BY <2>2, <3>1, SayGood
    <3> QED
      BY <1>7, <1>9, <3>2, <3>3, Zenon
  <2> QED
    BY <1>6, <2>1, <2>2, Zenon
<1>11. ASSUME v = [said EXCEPT !.peer[p].sincePing = 0]
       PROVE  Good(v) /\ DOMAIN v.peer = DOMAIN said.peer /\ v.map = said.map
              /\ v.told = said.told
  <2> DEFINE e2 == [said.peer[p] EXCEPT !.sincePing = 0]
  <2>1. /\ said \in Worlds /\ GoodBut(said, p) /\ said.peer[p] \in Endpoint(States)
        /\ SoundPeer(said.peer[p], p \in said.told)
        /\ p \in said.told => said.peer[p].version # "unknown"
    BY <1>10, GoodHas, Zenon
  <2>2. e2 \in Endpoint(States)
    BY <2>1, ControllerAssumption DEF Endpoint
  <2>3. /\ e2.lladdr = said.peer[p].lladdr /\ e2.version = said.peer[p].version
        /\ e2.state = said.peer[p].state /\ e2.up = said.peer[p].up
    BY <2>1, Zenon DEF Endpoint
  <2>4. v = [said EXCEPT !.peer[p] = e2]
    BY <1>11, <2>1, Zenon DEF Worlds
  <2> HIDE DEF e2
  <2>5. SoundPeer(e2, p \in said.told)
    BY <2>1, <2>3, Zenon DEF SoundPeer
  <2>6. p \in said.told => e2.version # "unknown"
    BY <2>1, <2>3, Zenon
  <2>7. /\ DOMAIN v.peer = DOMAIN said.peer /\ v.map = said.map /\ v.told = said.told
        /\ SoundPeer(e2, p \in said.told) => Good(v)
    BY <2>1, <2>2, <2>3, <2>4, <2>6, AssignGood
  <2> QED
    BY <2>5, <2>7, Zenon
<1>12. CASE v = known
    BY <1>7, <1>9, <1>12, Zenon
<1>13. CASE v = [said EXCEPT !.peer[p].sincePing = 0]
    BY <1>10, <1>11, <1>13, Zenon
<1> QED
    BY <1>5, <1>12, <1>13, Zenon

-----------------------------------------------------------------------------
(* The periodic ping. *)

(* A silent peer is taken back before it is marked. *)
LEMMA MarkGood ==
    ASSUME NEW w, Good(w), NEW p \in DOMAIN w.peer, w.peer[p].version # "bad",
           NEW v, v = MarkUnresponsive(w, p)
    PROVE  Good(v) /\ Later(w, v) /\ DOMAIN v.peer = DOMAIN w.peer
<1> DEFINE said == sendPeer(w, p, "PEER_GONE")
           ep == [said.peer[p] EXCEPT !.state = "UNRESPONSIVE", !.up = FALSE]
<1>1. /\ w \in Worlds /\ GoodBut(w, p) /\ w.peer[p] \in Endpoint(States)
      /\ p \in w.told => w.peer[p].version # "unknown"
    BY GoodHas, Zenon
<1>2. v = [said EXCEPT !.peer[p].state = "UNRESPONSIVE", !.peer[p].up = FALSE]
    BY Zenon DEF MarkUnresponsive
<1>3. said = sendPeer(w, p, "PEER_GONE")
    BY Zenon
<1> HIDE DEF said
<1>4. /\ GoodBut(said, p) /\ said.peer[p] = w.peer[p] /\ DOMAIN said.peer = DOMAIN w.peer
      /\ Later(w, said)
      /\ p \in said.told => IF w.peer[p].version = "ok" THEN FALSE ELSE p \in w.told
    BY <1>1, <1>3, SayGood
<1>5. w.peer[p].version \in {"unknown", "ok", "bad"}
    BY <1>1, Zenon DEF Endpoint
<1>6. p \notin said.told
    BY <1>1, <1>4, <1>5, Zenon
<1>7. said \in Worlds
    BY <1>4, Zenon DEF GoodBut, Shape
<1>8. ep \in Endpoint(States)
    BY <1>1, <1>4, Zenon DEF Endpoint, States, PeerStates
<1>9. /\ ep.lladdr = said.peer[p].lladdr /\ ep.version = said.peer[p].version
      /\ ep.state = "UNRESPONSIVE" /\ ~ep.up
    BY <1>1, <1>4, Zenon DEF Endpoint
<1>10. v = [said EXCEPT !.peer[p] = ep]
  <2>1. p \in DOMAIN said.peer /\ said.peer[p] \in Endpoint(States)
    BY <1>1, <1>4, Zenon
  <2>2. said.peer \in [DOMAIN said.peer -> Endpoint(States)]
    BY <1>7, WorldIs, Zenon
  <2> DEFINE f == said.peer
             g == [f EXCEPT ![p].state = "UNRESPONSIVE"]
             h == [g EXCEPT ![p].up = FALSE]
  <2>3. h = [f EXCEPT ![p] = ep]
    BY <2>1, <2>2, Zenon DEF Endpoint
  <2>4. v = [said EXCEPT !.peer = h]
    BY <1>2, <1>7, Zenon DEF Worlds
  <2> HIDE DEF h
  <2> QED
    BY <2>3, <2>4, <1>7 DEF Worlds
<1> HIDE DEF ep
<1>11. SoundPeer(ep, p \in said.told)
    BY <1>6, <1>9, Zenon DEF SoundPeer, PeerStates
<1>12. /\ DOMAIN v.peer = DOMAIN said.peer /\ Good(v) /\ Later(said, v)
    BY <1>4, <1>6, <1>8, <1>9, <1>10, <1>11, AssignGood
<1>13. v \in Worlds
    BY <1>12, Zenon DEF Good, Shape
<1> QED
    BY <1>1, <1>4, <1>7, <1>12, <1>13, LaterStill, Zenon

(* One turn of the loop. *)
LEMMA VisitGood ==
    ASSUME NEW w, Good(w), NEW p \in DOMAIN w.peer, NEW first, NEW x, x = Visit(w, p, first)
    PROVE  Good(x.w) /\ Later(w, x.w)
<1>1. /\ w \in Worlds /\ GoodBut(w, p) /\ w.peer[p] \in Endpoint(States)
      /\ SoundPeer(w.peer[p], p \in w.told)
      /\ p \in w.told => w.peer[p].version # "unknown"
    BY GoodHas, Zenon
<1>2. Later(w, w)
    BY <1>1, LaterSame, Zenon
<1> DEFINE odd == [w EXCEPT !.peer[p].state = "INCOMPATIBLE"]
           skip == [w EXCEPT !.peer[p].pingCount = (@ + 1) % PingSkip]
           gone == sendPeer(w, p, "PEER_GONE")
<1>3. ASSUME x.w = odd
      PROVE  Good(x.w) /\ Later(w, x.w)
  <2> DEFINE ep == [w.peer[p] EXCEPT !.state = "INCOMPATIBLE"]
  <2>1. ep \in Endpoint(States)
    BY <1>1, Zenon DEF Endpoint, States, PeerStates
  <2>2. /\ ep.lladdr = w.peer[p].lladdr /\ ep.version = w.peer[p].version
        /\ ep.state = "INCOMPATIBLE"
    BY <1>1, Zenon DEF Endpoint
  <2>3. x.w = [w EXCEPT !.peer[p] = ep]
    BY <1>1, <1>3, Zenon DEF Worlds
  <2> HIDE DEF ep
  <2>4. SoundPeer(ep, p \in w.told)
    BY <2>2, Zenon DEF SoundPeer, PeerStates
  <2> QED
    BY <1>1, <2>1, <2>2, <2>3, <2>4, AssignGood
<1>4. ASSUME x.w = skip
      PROVE  Good(x.w) /\ Later(w, x.w)
  <2> DEFINE n == (w.peer[p].pingCount + 1) % PingSkip
             ep == [w.peer[p] EXCEPT !.pingCount = n]
  <2>1. n \in 0 .. PingSkip - 1
    BY <1>1, ControllerAssumption DEF Endpoint
  <2>2. x.w = [w EXCEPT !.peer[p] = ep]
    BY <1>1, <1>4, Zenon DEF Worlds
  <2> HIDE DEF n
  <2>3. ep \in Endpoint(States)
    BY <1>1, <2>1, Zenon DEF Endpoint
  <2>4. /\ ep.lladdr = w.peer[p].lladdr /\ ep.version = w.peer[p].version
        /\ ep.state = w.peer[p].state /\ ep.up = w.peer[p].up
    BY <1>1, Zenon DEF Endpoint
  <2> HIDE DEF ep
  <2>5. SoundPeer(ep, p \in w.told)
    BY <1>1, <2>4, Zenon DEF SoundPeer
  <2> QED
    BY <1>1, <2>2, <2>3, <2>4, <2>5, AssignGood
<1>5. ASSUME w.peer[p].state = "ESTABLISHED", x.w = sendPeer(w, p, "PEER")
      PROVE  Good(x.w) /\ Later(w, x.w)
  <2>1. SoundPeer(w.peer[p], p \in x.w.told)
    BY <1>1, <1>5, Zenon DEF SoundPeer
  <2> QED
    BY <1>1, <1>5, <2>1, SayGood
<1>6. ASSUME x.w = Close(gone, p)
      PROVE  Good(x.w) /\ Later(w, x.w)
  <2>1. gone = sendPeer(w, p, "PEER_GONE")
    BY Zenon
  <2> HIDE DEF gone
  <2>2. GoodBut(gone, p) /\ Later(w, gone)
    BY <1>1, <2>1, SayGood, Zenon
  <2>3. Good(x.w) /\ Later(gone, x.w)
    BY <1>6, <2>2, CloseGood, Zenon
  <2>4. gone \in Worlds /\ x.w \in Worlds
    BY <2>2, <2>3, Zenon DEF Good, GoodBut, Shape
  <2> QED
    BY <1>1, <2>2, <2>3, <2>4, LaterStill, Zenon
<1>7. ASSUME w.peer[p].version # "bad",
             \/ x.w = sendPing(w, p)
             \/ x.w = sendPing(MarkUnresponsive(w, p), p)
      PROVE  Good(x.w) /\ Later(w, x.w)
  <2>1. CASE x.w = sendPing(w, p)
    BY <1>1, <2>1, PingGood, Zenon
  <2>2. CASE x.w = sendPing(MarkUnresponsive(w, p), p)
    <3> DEFINE m == MarkUnresponsive(w, p)
    <3>1. m = MarkUnresponsive(w, p) /\ x.w = sendPing(m, p)
      BY <2>2, Zenon
    <3> HIDE DEF m
    <3>2. Good(m) /\ Later(w, m) /\ DOMAIN m.peer = DOMAIN w.peer
      BY <1>7, <3>1, MarkGood, Zenon
    <3>3. m \in Worlds /\ GoodBut(m, p) /\ SoundPeer(m.peer[p], p \in m.told)
      BY <3>2, GoodHas, Zenon
    <3>4. Good(x.w) /\ Later(m, x.w)
      BY <3>1, <3>3, PingGood, Zenon
    <3>5. x.w \in Worlds
      BY <3>4, Zenon DEF Good, Shape
    <3> QED
      BY <1>1, <3>2, <3>3, <3>4, <3>5, LaterStill, Zenon
  <2> QED
    BY <1>7, <2>1, <2>2, Zenon
<1>8. \/ x.w = odd
      \/ w.peer[p].state = "ESTABLISHED" /\ x.w = sendPeer(w, p, "PEER")
      \/ x.w = w
      \/ x.w = Close(gone, p)
      \/ x.w = skip
      \/ /\ w.peer[p].version # "bad"
         /\ \/ x.w = sendPing(w, p)
            \/ x.w = sendPing(MarkUnresponsive(w, p), p)
  <2> HIDE DEF odd, skip, gone
  <2>1. x = LET ep == w.peer[p]
                unresponsive == ep.idle > UnresponsiveAfter
                Leave(v) == [w |-> v, pinged |-> FALSE]
            IN  IF ep.version = "bad" THEN Leave(odd)
                ELSE IF ep.version = "ok" /\ ep.idle < PingAfter
                     THEN Leave(IF first /\ ep.state = "ESTABLISHED"
                                THEN sendPeer(w, p, "PEER") ELSE w)
                ELSE IF ep.sincePing < PingAfter THEN Leave(w)
                ELSE IF ep.incoming /\ ep.idle > ForgetAfter THEN Leave(Close(gone, p))
                ELSE IF unresponsive /\ ep.pingCount # 0 THEN Leave(skip)
                ELSE [w |-> sendPing(IF unresponsive THEN MarkUnresponsive(w, p) ELSE w, p),
                      pinged |-> TRUE]
    BY Zenon DEF Visit, odd, skip, gone
  <2>2. \/ x = [w |-> odd, pinged |-> FALSE]
        \/ w.peer[p].state = "ESTABLISHED" /\ x = [w |-> sendPeer(w, p, "PEER"), pinged |-> FALSE]
        \/ x = [w |-> w, pinged |-> FALSE]
        \/ x = [w |-> Close(gone, p), pinged |-> FALSE]
        \/ x = [w |-> skip, pinged |-> FALSE]
        \/ /\ w.peer[p].version # "bad"
           /\ \/ x = [w |-> sendPing(w, p), pinged |-> TRUE]
              \/ x = [w |-> sendPing(MarkUnresponsive(w, p), p), pinged |-> TRUE]
    BY <2>1, Zenon
  <2>3. \A u, b : [w |-> u, pinged |-> b].w = u
    BY Zenon
  <2> QED
    BY <2>2, <2>3, Zenon
<1> QED
    BY <1>2, <1>3, <1>4, <1>5, <1>6, <1>7, <1>8, Zenon

(* A set of natural numbers that is not empty has a least one. *)
LEMMA NatLeast ==
    ASSUME NEW T, T \subseteq Nat, T # {}
    PROVE  \E x \in T : \A y \in T : x <= y
<1> DEFINE R == OpToRel(<, Nat)
<1>1. IsWellFoundedOn(R, Nat)
    BY NatLessThanWellFounded, Zenon
<1>2. \A x, y \in Nat : <<y, x>> \in R <=> y < x
    BY Zenon DEF OpToRel
<1> HIDE DEF R
<1>3. PICK x \in T : \A y \in T : ~(<<y, x>> \in R)
    BY <1>1, WFMin, Zenon
<1>4. ASSUME NEW y \in T
      PROVE  x <= y
  <2>1. x \in Nat /\ y \in Nat
    BY Zenon
  <2>2. ~(y < x)
    BY <1>2, <1>3, <2>1, Zenon
  <2> QED
    BY <2>1, <2>2
<1> QED
    BY <1>4, Zenon

(* Induction, with a set in the place of a predicate. *)
LEMMA UpTo ==
    ASSUME NEW n \in Nat, NEW S, 0 \in S, \A k \in 0 .. n - 1 : k \in S => k + 1 \in S
    PROVE  \A k \in 0 .. n : k \in S
<1> DEFINE T == (0 .. n) \ S
<1> SUFFICES ASSUME T # {}
             PROVE  FALSE
    BY Zenon
<1>1. T \subseteq Nat /\ \A k \in 0 .. n : k \in T \/ k \in S
    OBVIOUS
<1>2. \A k \in T : k \in 0 .. n /\ k \notin S
    BY Zenon
<1> HIDE DEF T
<1>3. PICK k \in T : \A j \in T : k <= j
    BY <1>1, NatLeast, Zenon
<1>4. k \in 0 .. n /\ k # 0
    BY <1>2, <1>3, Zenon
<1>5. k - 1 \in 0 .. n - 1 /\ k - 1 \in 0 .. n /\ (k - 1) + 1 = k /\ k - 1 \notin T
    BY <1>3, <1>4
<1>6. k - 1 \in S
    BY <1>1, <1>5, Zenon
<1>7. k \in S
    BY <1>5, <1>6, Zenon
<1> QED
    BY <1>2, <1>7, Zenon

(* The turns of the loop, from a world in order. *)
LEMMA TurnGood ==
    ASSUME NEW t, Good(t.w), t.i \in Nat, NEW count \in Nat, NEW x \in Turn(t, count)
    PROVE  Good(x.w) /\ Later(t.w, x.w) /\ x.i \in Nat
<1>1. t.w \in Worlds /\ \A i \in DOMAIN t.w.map : t.w.map[i] \in DOMAIN t.w.peer
    BY Zenon DEF Good, Shape
<1>2. CASE t.pinged \/ count >= Len(t.w.map)
  <2>1. x = t
    BY <1>2, Zenon DEF Turn
  <2> QED
    BY <1>1, <2>1, LaterSame, Zenon
<1>3. CASE ~(t.pinged \/ count >= Len(t.w.map))
  <2> DEFINE next == (t.i + 1) % Len(t.w.map)
             visit == Visit(t.w, t.w.map[next + 1], count = 0)
  <2>0. x \in {[w |-> y.w, i |-> next, pinged |-> y.pinged] : y \in {visit}}
    BY <1>3, Zenon DEF Turn
  <2>1. x = [w |-> visit.w, i |-> next, pinged |-> visit.pinged]
    <3> HIDE DEF visit, next
    <3> QED
      BY <2>0, Zenon
  <2>2. t.w.map \in Seq(Numbers)
    BY <1>1, WorldIs, Zenon
  <2>3. Len(t.w.map) \in Nat \ {0} /\ DOMAIN t.w.map = 1 .. Len(t.w.map)
    <3> DEFINE l == Len(t.w.map)
    <3>1. l \in Nat /\ DOMAIN t.w.map = 1 .. l
      BY <2>2
    <3>2. ~(count >= l)
      BY <1>3, Zenon
    <3> HIDE DEF l
    <3>3. l # 0
      BY <3>1, <3>2
    <3> QED
      BY <3>1, <3>3, Zenon DEF l
  <2>4. next \in Nat /\ next + 1 \in DOMAIN t.w.map
    <3>1. \A a \in Nat, l \in Nat \ {0} : a % l \in Nat /\ (a % l) + 1 \in 1 .. l
      OBVIOUS
    <3>2. t.i + 1 \in Nat
      OBVIOUS
    <3> QED
      BY <2>3, <3>1, <3>2, Zenon
  <2>5. t.w.map[next + 1] \in DOMAIN t.w.peer
    BY <1>1, <2>4, Zenon
  <2> HIDE DEF next
  <2>6. Good(visit.w) /\ Later(t.w, visit.w)
    BY <2>5, VisitGood, Zenon
  <2> HIDE DEF visit
  <2> QED
    BY <2>1, <2>4, <2>6, Zenon
<1> QED
    BY <1>2, <1>3, Zenon

(* A scan of the map keeps what is Good, and ends within the map. *)
LEMMA ScanGood ==
    ASSUME NEW w, Good(w), NEW i \in Nat, NEW x \in Scan(w, i)
    PROVE  Good(x.w) /\ Later(w, x.w)
<1> DEFINE N == Len(w.map)
           Of(f, n) == IF n = 0 THEN {[w |-> w, i |-> i, pinged |-> FALSE]}
                       ELSE UNION {Turn(t, n - 1) : t \in f[n - 1]}
           Solution(f, k) == f = [n \in 0 .. k |-> Of(f, n)]
           turn == CHOOSE f : Solution(f, N)
           S == {k \in 0 .. N : \E f : Solution(f, k)}
<1>1. w \in Worlds /\ N \in Nat
  <2>1. w \in Worlds
    BY Zenon DEF Good, Shape
  <2> QED
    BY <2>1, WorldIs
<1>2. Scan(w, i) = turn[N]
    BY Zenon DEF Scan
<1> HIDE DEF N
<1>3. 0 \in S
  <2> DEFINE f == [n \in 0 .. 0 |-> {[w |-> w, i |-> i, pinged |-> FALSE]}]
  <2>1. \A n \in 0 .. 0 : Of(f, n) = {[w |-> w, i |-> i, pinged |-> FALSE]}
    OBVIOUS
  <2>2. Solution(f, 0)
    <3> HIDE DEF Of
    <3> QED
      BY <2>1, Zenon
  <2>3. 0 \in 0 .. N
    BY <1>1
  <2> HIDE DEF Solution, f
  <2> QED
    BY <2>2, <2>3, Zenon
<1>4. ASSUME NEW k \in 0 .. N - 1, k \in S
      PROVE  k + 1 \in S
  <2>1. PICK f : Solution(f, k)
    BY <1>4, Zenon
  <2> DEFINE g == [n \in 0 .. k + 1 |-> Of(f, n)]
  <2>2. \A n \in 0 .. k : g[n] = f[n]
    <3> HIDE DEF Of
    <3> QED
      BY <1>1, <2>1
  <2>3. \A n \in 0 .. k + 1 : Of(g, n) = Of(f, n)
    <3> HIDE DEF g
    <3>1. \A n \in 0 .. k + 1 : n # 0 => n - 1 \in 0 .. k
      BY <1>1
    <3> QED
      BY <2>2, <3>1, Zenon
  <2>4. Solution(g, k + 1)
    <3> HIDE DEF Of
    <3> QED
      BY <2>3, Zenon
  <2>5. k + 1 \in 0 .. N
    BY <1>1
  <2> HIDE DEF Solution, g
  <2> QED
    BY <2>4, <2>5, Zenon
<1>5. \E f : Solution(f, N)
  <2> HIDE DEF S
  <2>1. N \in S
    BY <1>1, <1>3, <1>4, UpTo
  <2> QED
    BY <2>1, Zenon DEF S
<1>6. Solution(turn, N)
  <2> HIDE DEF Solution
  <2> QED
    BY <1>5, Zenon DEF turn
<1> HIDE DEF turn
<1>7. \A n \in 0 .. N : turn[n] = Of(turn, n)
  <2> HIDE DEF Of
  <2> QED
    BY <1>6, Zenon
<1> HIDE DEF Solution, S
<1> DEFINE Fine(t) == Good(t.w) /\ Later(w, t.w) /\ t.i \in Nat
           F == {k \in 0 .. N : \A t \in turn[k] : Fine(t)}
<1>8. 0 \in F
  <2>0. 0 \in 0 .. N
    BY <1>1
  <2>1. 0 \in 0 .. N /\ turn[0] = {[w |-> w, i |-> i, pinged |-> FALSE]}
    BY <1>7, <2>0, Zenon
  <2>2. Later(w, w)
    BY <1>1, LaterSame, Zenon
  <2>3. \A t \in turn[0] : t.w = w /\ t.i = i
    BY <2>1
  <2> QED
    BY <2>1, <2>2, <2>3, Zenon
<1>9. ASSUME NEW k \in 0 .. N - 1, k \in F
      PROVE  k + 1 \in F
  <2>1. k + 1 \in 0 .. N /\ k \in Nat /\ (k + 1) - 1 = k /\ k + 1 # 0
    BY <1>1
  <2>2. turn[k + 1] = UNION {Turn(t, k) : t \in turn[k]}
    <3>1. turn[k + 1] = UNION {Turn(t, (k + 1) - 1) : t \in turn[(k + 1) - 1]}
      BY <1>7, <2>1, Zenon
    <3> QED
      BY <2>1, <3>1, Zenon
  <2>3. ASSUME NEW t \in turn[k], NEW y \in Turn(t, k)
        PROVE  Fine(y)
    <3>1. Fine(t)
      BY <1>9, Zenon
    <3>2. Good(y.w) /\ Later(t.w, y.w) /\ y.i \in Nat
      BY <2>1, <2>3, <3>1, TurnGood, Zenon
    <3>3. t.w \in Worlds /\ y.w \in Worlds
      BY <3>1, <3>2, Zenon DEF Good, Shape
    <3> QED
      BY <1>1, <3>1, <3>2, <3>3, LaterStill, Zenon
  <2> HIDE DEF Fine
  <2> QED
    BY <2>1, <2>2, <2>3, Zenon
<1>10. N \in F
  <2> HIDE DEF F
  <2> QED
    BY <1>1, <1>8, <1>9, UpTo
<1> QED
    BY <1>2, <1>10, Zenon

-----------------------------------------------------------------------------
(* Steps. *)

(* What ToldOfLivePeers says of the peers that are gone. *)
Forgets == \A p \in told' \ Live' : p \notin Live \/ peer[p].version = "bad"

(* The new peer in its table and in the map, where it may take the place of  *)
(* another.                                                                  *)
LEMMA AddGood ==
    ASSUME Inv, made < MaxPeers, NEW p, p = made + 1, NEW ep \in Endpoint(States),
           NEW w, w = Add(p, ep)
    PROVE  /\ GoodBut(w, p) /\ w.peer[p] = ep /\ DOMAIN w.peer = Live \cup {p}
           /\ w.told = told /\ p \notin told /\ p \notin Live /\ Len(w.map) <= made + 1
<1> DEFINE t == [q \in Live \cup {p} |-> IF q = p THEN ep ELSE peer[q]]
           m == Put(peerMap, p, ep.lladdr)
<1>1. /\ made \in 0 .. MaxPeers /\ Live \subseteq 1 .. made /\ told \subseteq 1 .. made
      /\ Len(peerMap) <= made /\ Good(World)
    BY Zenon DEF Inv
<1>2. p \in Numbers /\ p \notin told /\ p \notin Live
    BY <1>1, ControllerAssumption DEF Numbers
<1>3. /\ World \in Worlds /\ pings \subseteq Live
      /\ \A i \in DOMAIN peerMap : peerMap[i] \in Live
      /\ \A i, j \in DOMAIN peerMap :
             peer[peerMap[i]].lladdr = peer[peerMap[j]].lladdr => i = j
      /\ \A q \in Live : q \in told => peer[q].version # "unknown"
      /\ \A q \in Live : SoundPeer(peer[q], q \in told)
    BY <1>1, Zenon DEF Good, Shape, Sound, World, Live
<1>4. /\ Live \subseteq Numbers /\ peer \in [Live -> Endpoint(States)]
      /\ peerMap \in Seq(Numbers) /\ pings \subseteq Numbers /\ told \subseteq Numbers
      /\ aborted \in BOOLEAN
    BY <1>3, WorldIs, Zenon DEF World, Live
<1>5. /\ t \in [Live \cup {p} -> Endpoint(States)] /\ DOMAIN t = Live \cup {p} /\ t[p] = ep
      /\ \A q \in Live : t[q] = peer[q]
    BY <1>2, <1>4, Zenon
<1>6. t \in Tables
    BY <1>2, <1>4, <1>5, TableIs, Zenon
<1>7. w = [peer |-> t, map |-> m, pings |-> pings, told |-> told, aborted |-> aborted]
  <2>1. Set(World, p, ep) = [peer |-> t, map |-> peerMap, pings |-> pings, told |-> told,
                             aborted |-> aborted]
    BY DEF Set, World, Live
  <2>2. w = [Set(World, p, ep) EXCEPT !.map = Put(@, p, ep.lladdr)]
    BY Zenon DEF Add
  <2> HIDE DEF t
  <2> QED
    BY <2>1, <2>2
<1>8. /\ m \in Seq(Numbers) /\ Len(m) <= made + 1
      /\ \A i \in DOMAIN m : m[i] \in Live \cup {p}
      /\ \A i, j \in DOMAIN m : t[m[i]].lladdr = t[m[j]].lladdr => i = j
  <2> DEFINE l == ep.lladdr
  <2>1. CASE AtAddr(l) = {}
    <3>1. m = Append(peerMap, p)
      BY <2>1, Zenon DEF Put
    <3>2. \A i \in DOMAIN peerMap : peer[peerMap[i]].lladdr # l
      BY <2>1, Zenon DEF AtAddr, Range
    <3>3. Len(peerMap) \in Nat /\ DOMAIN peerMap = 1 .. Len(peerMap)
      BY <1>4
    <3>4. /\ m \in Seq(Numbers) /\ Len(m) = Len(peerMap) + 1 /\ m[Len(peerMap) + 1] = p
          /\ \A i \in 1 .. Len(peerMap) : m[i] = peerMap[i]
      <4>1. peerMap \in Seq(Numbers) /\ p \in Numbers
        BY <1>2, <1>4, Zenon
      <4> DEFINE a == Append(peerMap, p)
      <4>2. /\ a \in Seq(Numbers) /\ Len(a) = Len(peerMap) + 1 /\ a[Len(peerMap) + 1] = p
            /\ \A i \in 1 .. Len(peerMap) : a[i] = peerMap[i]
        BY <4>1, AppendProperties
      <4>3. m = a
        BY <3>1, Zenon
      <4> HIDE DEF m, a
      <4> QED
        BY <4>2, <4>3, Zenon
    <3> HIDE DEF m, t
    <3>5. DOMAIN m = 1 .. Len(peerMap) + 1
      BY <3>4
    <3>6. \A i \in DOMAIN m : \/ i \in DOMAIN peerMap /\ m[i] = peerMap[i]
                              \/ i = Len(peerMap) + 1 /\ m[i] = p
      BY <3>3, <3>4, <3>5
    <3>7. \A i \in DOMAIN m : m[i] \in Live \cup {p}
      BY <1>3, <3>6, Zenon
    <3>8. \A i, j \in DOMAIN m : t[m[i]].lladdr = t[m[j]].lladdr => i = j
      BY <1>3, <1>5, <3>2, <3>6
    <3>9. Len(m) <= made + 1
      BY <1>1, <3>3, <3>4
    <3> QED
      BY <3>4, <3>7, <3>8, <3>9, Zenon
  <2>2. CASE AtAddr(l) # {}
    <3>1. m = [i \in DOMAIN peerMap |-> IF peer[peerMap[i]].lladdr = l THEN p ELSE peerMap[i]]
      BY <2>2, Zenon DEF Put
    <3>2. Len(peerMap) \in Nat /\ DOMAIN peerMap = 1 .. Len(peerMap)
      BY <1>4
    <3> HIDE DEF m, t
    <3>3. DOMAIN m = 1 .. Len(peerMap) /\ \A i \in DOMAIN m : m[i] \in Numbers
      BY <1>2, <1>3, <1>4, <3>1, <3>2, Zenon
    <3>4. m \in Seq(Numbers) /\ Len(m) = Len(peerMap)
      BY <3>1, <3>2, <3>3
    <3>5. \A i \in DOMAIN m : /\ i \in DOMAIN peerMap /\ m[i] \in Live \cup {p}
                              /\ t[m[i]].lladdr = peer[peerMap[i]].lladdr
      BY <1>3, <1>5, <3>1, Zenon
    <3>6. \A i, j \in DOMAIN m : t[m[i]].lladdr = t[m[j]].lladdr => i = j
      BY <1>3, <3>5, Zenon
    <3>7. Len(m) <= made + 1
      BY <1>1, <3>2, <3>4
    <3> QED
      BY <3>4, <3>5, <3>6, <3>7, Zenon
  <2> QED
    BY <2>1, <2>2, Zenon
<1> HIDE DEF t, m
<1>9. w.peer = t /\ w.map = m /\ w.pings = pings /\ w.told = told
    BY <1>7
<1>10. w \in Worlds
    BY <1>4, <1>6, <1>7, <1>8 DEF Worlds
<1>11. Shape(w)
  <2>1. \A q \in DOMAIN w.peer : q \in w.told => w.peer[q].version # "unknown"
    BY <1>2, <1>3, <1>5, <1>9
  <2>2. w.pings \subseteq DOMAIN w.peer
    BY <1>3, <1>5, <1>9, Zenon
  <2>3. /\ \A i \in DOMAIN w.map : w.map[i] \in DOMAIN w.peer
        /\ \A i, j \in DOMAIN w.map : w.peer[w.map[i]].lladdr = w.peer[w.map[j]].lladdr => i = j
    BY <1>5, <1>8, <1>9
  <2> QED
    BY <1>10, <2>1, <2>2, <2>3, Zenon DEF Shape
<1>12. \A q \in DOMAIN w.peer : q # p => Sound(w, q)
    BY <1>3, <1>5, <1>9 DEF Sound
<1> QED
    BY <1>2, <1>5, <1>8, <1>9, <1>11, <1>12 DEF GoodBut

(* The world in which a handler ends. *)
LEMMA Arrive ==
    ASSUME NEW v, Good(v), Become(v)
    PROVE  /\ World' = v /\ Good(World') /\ Live' = DOMAIN v.peer /\ told' = v.told
           /\ peerMap' = v.map /\ peer' = v.peer
<1>1. /\ peer' = v.peer /\ peerMap' = v.map /\ pings' = v.pings /\ told' = v.told
      /\ aborted' = v.aborted
    BY Zenon DEF Become
<1>2. v \in Worlds
    BY Zenon DEF Good, Shape
<1>3. v = [peer |-> v.peer, map |-> v.map, pings |-> v.pings, told |-> v.told,
           aborted |-> v.aborted]
    BY <1>2, Zenon DEF Worlds
<1>4. World' = v
    BY <1>1, <1>3, Zenon DEF World
<1> QED
    BY <1>1, <1>4, Zenon DEF Live

(* A handler after which no peer is new. *)
LEMMA LaterStep ==
    ASSUME Inv, NEW v, Good(v), Become(v), Later(World, v), made' = made,
           lastPeerPinged' \in 0 .. MaxPeers
    PROVE  Inv' /\ Forgets
<1>1. /\ Good(World') /\ Live' = DOMAIN v.peer /\ told' = v.told /\ peerMap' = v.map
    BY Arrive, Zenon
<1>2. /\ DOMAIN v.peer \subseteq Live /\ Len(v.map) <= Len(peerMap)
      /\ \A p \in v.told \ DOMAIN v.peer :
             IF p \in Live THEN peer[p].version = "bad" ELSE p \in told
    BY Zenon DEF Later, World, Live
<1>3. /\ made \in 0 .. MaxPeers /\ Live \subseteq 1 .. made /\ told \subseteq 1 .. made
      /\ Len(peerMap) <= made /\ Good(World)
    BY Zenon DEF Inv
<1>4. Live' \subseteq 1 .. made /\ told' \subseteq 1 .. made
    BY <1>1, <1>2, <1>3, Zenon
<1>5. Len(peerMap) \in Nat /\ Len(v.map) \in Nat
  <2>1. World \in Worlds /\ v \in Worlds
    BY <1>3, Zenon DEF Good, Shape
  <2>2. World.map \in Seq(Numbers) /\ v.map \in Seq(Numbers)
    BY <2>1, WorldIs, Zenon
  <2> QED
    BY <2>2 DEF World
<1>6. Len(peerMap') <= made
    BY <1>1, <1>2, <1>3, <1>5
<1>7. Forgets
    BY <1>1, <1>2, Zenon DEF Forgets
<1> QED
    BY <1>1, <1>3, <1>4, <1>6, <1>7, Zenon DEF Inv

(* A handler that makes peer p, or fails to. *)
LEMMA MakingStep ==
    ASSUME Inv, NEW p, Making(p), NEW v, Good(v), Become(v),
           Live \subseteq DOMAIN v.peer, DOMAIN v.peer \subseteq Live \cup {p},
           v.told \subseteq told \cup {p}, Len(v.map) <= made + 1
    PROVE  Inv' /\ Forgets
<1>1. /\ Good(World') /\ Live' = DOMAIN v.peer /\ told' = v.told /\ peerMap' = v.map
    BY Arrive, Zenon
<1>2. /\ made \in 0 .. MaxPeers /\ Live \subseteq 1 .. made /\ told \subseteq 1 .. made
      /\ lastPeerPinged \in 0 .. MaxPeers
    BY Zenon DEF Inv
<1>3. made' = made + 1 /\ p = made + 1 /\ made < MaxPeers /\ lastPeerPinged' = lastPeerPinged
    BY Zenon DEF Making
<1>4. made' \in 0 .. MaxPeers /\ lastPeerPinged' \in 0 .. MaxPeers
    BY <1>2, <1>3, ControllerAssumption
<1>5. Live' \subseteq 1 .. made' /\ told' \subseteq 1 .. made'
  <2>1. \A q \in 1 .. made : q \in 1 .. made'
    BY <1>2, <1>3
  <2>2. p \in 1 .. made'
    BY <1>2, <1>3
  <2> QED
    BY <1>1, <1>2, <2>1, <2>2, Zenon
<1>6. Len(peerMap') <= made'
    BY <1>1, <1>3, Zenon
<1>7. Forgets
    BY <1>1, Zenon DEF Forgets
<1> QED
    BY <1>1, <1>4, <1>5, <1>6, <1>7, Zenon DEF Inv

(* A step that leaves every peer in the state and on the interface it was.   *)
LEMMA CalmStep ==
    ASSUME Inv, peer' \in [Live -> Endpoint(States)],
           \A q \in Live : /\ peer'[q].lladdr = peer[q].lladdr
                           /\ peer'[q].version = peer[q].version
                           /\ peer'[q].state = peer[q].state /\ peer'[q].up = peer[q].up,
           peerMap' = peerMap, pings' \subseteq pings, aborted' = aborted, made' = made,
           lastPeerPinged' = lastPeerPinged,
           \A q \in told' : \/ q \in told
                            \/ /\ q \in Live /\ peer[q].version = "ok"
                               /\ peer[q].state = "ESTABLISHED",
           told \subseteq told'
    PROVE  Inv' /\ Forgets
<1>1. /\ made \in 0 .. MaxPeers /\ Live \subseteq 1 .. made /\ told \subseteq 1 .. made
      /\ Len(peerMap) <= made /\ Good(World) /\ lastPeerPinged \in 0 .. MaxPeers
    BY Zenon DEF Inv
<1>2. /\ World \in Worlds /\ pings \subseteq Live
      /\ \A i \in DOMAIN peerMap : peerMap[i] \in Live
      /\ \A i, j \in DOMAIN peerMap :
             peer[peerMap[i]].lladdr = peer[peerMap[j]].lladdr => i = j
      /\ \A q \in Live : q \in told => peer[q].version # "unknown"
      /\ \A q \in Live : SoundPeer(peer[q], q \in told)
    BY <1>1, Zenon DEF Good, Shape, Sound, World, Live
<1>3. /\ Live \subseteq Numbers
      /\ peerMap \in Seq(Numbers) /\ pings \subseteq Numbers /\ told \subseteq Numbers
      /\ aborted \in BOOLEAN
    BY <1>2, WorldIs, Zenon DEF World, Live
<1>4. DOMAIN peer' = Live /\ Live' = Live
    BY Zenon DEF Live
<1>5. peer' \in Tables
    BY <1>3, <1>4, TableIs, Zenon
<1>6. told' \subseteq Numbers /\ told' \subseteq 1 .. made
    BY <1>1, <1>3, Zenon
<1> DEFINE v == World'
<1>7. v = [peer |-> peer', map |-> peerMap', pings |-> pings', told |-> told',
           aborted |-> aborted']
    BY Zenon DEF World
<1> HIDE DEF v
<1>8. /\ v.peer = peer' /\ v.map = peerMap /\ v.pings = pings' /\ v.told = told'
    BY <1>7, Zenon
<1>9. v \in Worlds
  <2>1. pings' \in SUBSET Numbers
    BY <1>3, Zenon
  <2> QED
    BY <1>3, <1>5, <1>6, <1>7, <2>1, Zenon DEF Worlds
<1>10. Shape(v)
  <2>1. v.pings \subseteq DOMAIN v.peer
    BY <1>2, <1>4, <1>8, Zenon
  <2>2. \A q \in DOMAIN v.peer : q \in v.told => v.peer[q].version # "unknown"
    BY <1>2, <1>4, <1>8
  <2>3. \A i, j \in DOMAIN v.map : v.peer[v.map[i]].lladdr = v.peer[v.map[j]].lladdr => i = j
    BY <1>2, <1>8
  <2> QED
    BY <1>2, <1>4, <1>8, <1>9, <2>1, <2>2, <2>3, Zenon DEF Shape
<1>11. ASSUME NEW q \in Live
       PROVE  Sound(v, q)
  <2>1. /\ v.peer[q].state = peer[q].state /\ v.peer[q].up = peer[q].up
        /\ q \in v.told => q \in told \/ peer[q].state = "ESTABLISHED"
        /\ SoundPeer(peer[q], q \in told)
    BY <1>2, <1>8, Zenon
  <2> QED
    BY <2>1, Zenon DEF Sound, SoundPeer
<1>12. Good(v)
    BY <1>4, <1>8, <1>10, <1>11, Zenon DEF Good
<1>13. Forgets
    BY <1>1, <1>4, Zenon DEF Forgets
<1> QED
    BY <1>1, <1>4, <1>6, <1>12, <1>13, Zenon DEF Inv, v

(* A handler after which the same peers are there. *)
LEMMA SamePeersStep ==
    ASSUME Inv, NEW p \in Live, NEW v, Good(v), Become(v), DOMAIN v.peer = Live,
           v.map = peerMap, v.told \subseteq told \cup {p}, made' = made,
           lastPeerPinged' = lastPeerPinged
    PROVE  Inv' /\ Forgets
<1>1. /\ Good(World') /\ Live' = Live /\ told' = v.told /\ peerMap' = peerMap
    BY Arrive, Zenon
<1>2. Forgets
    BY <1>1, Zenon DEF Forgets
<1>3. told' \subseteq 1 .. made
    BY <1>1, Zenon DEF Inv
<1> QED
    BY <1>1, <1>2, <1>3, Zenon DEF Inv

-----------------------------------------------------------------------------
(* The actions. *)

(* The times and the count that a new peer's record begins with. *)
LEMMA NewPeerTimes ==
    /\ PingAfter + 1 \in 0 .. ForgetAfter + 1 /\ PingAfter \in 0 .. PingAfter
    /\ 0 \in 0 .. PingSkip - 1
    BY ControllerAssumption

(* A peer for which there was no room. *)
LEMMA NoRoom ==
    ASSUME Inv, NEW p, Making(p), NEW ep \in Endpoint(States), Become(Close(Add(p, ep), p))
    PROVE  Inv' /\ Forgets
<1> DEFINE w == Add(p, ep)
           v == Close(w, p)
<1>1. made < MaxPeers /\ p = made + 1
    BY Zenon DEF Making
<1>2. /\ GoodBut(w, p) /\ DOMAIN w.peer = Live \cup {p} /\ w.told = told
      /\ p \notin Live /\ Len(w.map) <= made + 1
    BY <1>1, AddGood
<1> HIDE DEF w
<1>3. /\ Good(v) /\ Later(w, v) /\ DOMAIN v.peer = DOMAIN w.peer \ {p} /\ v.told \subseteq w.told
    BY <1>2, CloseGood, Zenon
<1>4. Become(v)
    BY Zenon DEF w
<1> HIDE DEF v
<1>5. Len(v.map) <= made + 1
  <2>1. Len(v.map) <= Len(w.map)
    BY <1>3, Zenon DEF Later
  <2>2. w \in Worlds /\ v \in Worlds /\ made \in Nat
    <3>1. w \in Worlds
      BY <1>2, Zenon DEF GoodBut, Shape
    <3>2. v \in Worlds
      BY <1>3, Zenon DEF Good, Shape
    <3>3. made \in 0 .. MaxPeers
      BY Zenon DEF Inv
    <3> QED
      BY <3>1, <3>2, <3>3, ControllerAssumption
  <2>3. Len(v.map) \in Nat /\ Len(w.map) \in Nat
    BY <2>2, WorldIs
  <2> QED
    BY <1>2, <2>1, <2>2, <2>3
<1>6. /\ Live \subseteq DOMAIN v.peer /\ DOMAIN v.peer \subseteq Live \cup {p}
      /\ v.told \subseteq told \cup {p}
    BY <1>2, <1>3, Zenon
<1> QED
    BY <1>3, <1>4, <1>5, <1>6, MakingStep, Zenon

(* handleBeacon makes a peer, or frees it again without room. *)
LEMMA BeaconStep ==
    ASSUME Inv, NEW lladdr \in Addrs, handleBeacon(lladdr)
    PROVE  Inv' /\ Forgets
<1> DEFINE ep == NewPeer(lladdr, TRUE, "SETUP", "ok")
<1>0. ep = NewPeer(lladdr, TRUE, "SETUP", "ok")
    BY Zenon
<1> HIDE DEF ep
<1>1. ep \in Endpoint(States) /\ ep.state = "SETUP" /\ ep.version = "ok" /\ ep.up
    BY <1>0, NewPeerTimes, Zenon DEF NewPeer, Endpoint, States, PeerStates
<1>2. PICK p \in Numbers, room \in BOOLEAN :
          /\ Making(p)
          /\ Become(IF room THEN sendPeer(Add(p, ep), p, "PEER") ELSE Close(Add(p, ep), p))
    BY Zenon DEF handleBeacon, ep, Numbers
<1>3. CASE ~room
    BY <1>1, <1>2, <1>3, NoRoom, Zenon
<1>4. CASE room
  <2> DEFINE w == Add(p, ep)
             v == sendPeer(w, p, "PEER")
  <2>1. made < MaxPeers /\ p = made + 1
    BY <1>2, Zenon DEF Making
  <2>2. /\ GoodBut(w, p) /\ w.peer[p] = ep /\ DOMAIN w.peer = Live \cup {p} /\ w.told = told
        /\ Len(w.map) <= made + 1
    BY <1>1, <2>1, AddGood
  <2>3. Become(v)
    BY <1>2, <1>4, Zenon
  <2> HIDE DEF w
  <2>4. SoundPeer(ep, p \in v.told)
    BY <1>1, Zenon DEF SoundPeer, PeerStates
  <2>5. /\ DOMAIN v.peer = DOMAIN w.peer /\ v.map = w.map /\ v.told \subseteq w.told \cup {p}
        /\ SoundPeer(w.peer[p], p \in v.told) => Good(v)
    BY <2>2, SayGood
  <2> HIDE DEF v
  <2>6. Good(v)
    BY <2>2, <2>4, <2>5, Zenon
  <2> QED
    BY <1>2, <2>2, <2>3, <2>5, <2>6, MakingStep, Zenon
<1> QED
    BY <1>3, <1>4, Zenon

(* bootstrapPeer makes a peer that is pinged at once. *)
LEMMA BootstrapStep ==
    ASSUME Inv, NEW lladdr \in Addrs, bootstrapPeer(lladdr)
    PROVE  Inv' /\ Forgets
<1> DEFINE ep == NewPeer(lladdr, FALSE, "SETUP", "unknown")
<1>0. ep = NewPeer(lladdr, FALSE, "SETUP", "unknown")
    BY Zenon
<1> HIDE DEF ep
<1>1. ep \in Endpoint(States) /\ ep.state = "SETUP" /\ ep.version = "unknown" /\ ep.up
    BY <1>0, NewPeerTimes, Zenon DEF NewPeer, Endpoint, States, PeerStates
<1>2. PICK p \in Numbers, room \in BOOLEAN :
          /\ Making(p)
          /\ Become(IF room THEN sendPing(Add(p, ep), p) ELSE Close(Add(p, ep), p))
    BY Zenon DEF bootstrapPeer, ep, Numbers
<1>3. CASE ~room
    BY <1>1, <1>2, <1>3, NoRoom, Zenon
<1>4. CASE room
  <2> DEFINE w == Add(p, ep)
             v == sendPing(w, p)
  <2>1. made < MaxPeers /\ p = made + 1
    BY <1>2, Zenon DEF Making
  <2>2. /\ GoodBut(w, p) /\ w.peer[p] = ep /\ DOMAIN w.peer = Live \cup {p} /\ w.told = told
        /\ Len(w.map) <= made + 1
    BY <1>1, <2>1, AddGood
  <2>3. Become(v)
    BY <1>2, <1>4, Zenon
  <2> HIDE DEF w
  <2>4. SoundPeer(w.peer[p], p \in w.told)
    BY <1>1, <2>2, Zenon DEF SoundPeer, PeerStates
  <2>5. Good(v) /\ DOMAIN v.peer = DOMAIN w.peer /\ v.map = w.map /\ v.told = w.told
    BY <2>2, <2>4, PingGood, Zenon
  <2> HIDE DEF v
  <2> QED
    BY <1>2, <2>2, <2>3, <2>5, MakingStep, Zenon
<1> QED
    BY <1>3, <1>4, Zenon

(* A handshake from an address without a peer makes one. *)
LEMMA UnexpectedStep ==
    ASSUME Inv, NEW lladdr \in Addrs, handleUnexpectedIncoming(lladdr)
    PROVE  Inv' /\ Forgets
<1> DEFINE ep == NewPeer(lladdr, TRUE, "UNAUTHENTICATED", "unknown")
<1>0. ep = NewPeer(lladdr, TRUE, "UNAUTHENTICATED", "unknown")
    BY Zenon
<1> HIDE DEF ep
<1>1. ep \in Endpoint(States) /\ ep.state = "UNAUTHENTICATED"
    BY <1>0, NewPeerTimes, Zenon DEF NewPeer, Endpoint, States, PeerStates
<1>2. PICK p \in Numbers, room \in BOOLEAN, pinging \in BOOLEAN :
          /\ Making(p)
          /\ Become(IF room THEN receivedPostCryptoAuth(Add(p, ep), p, pinging)
                            ELSE Close(Add(p, ep), p))
    BY Zenon DEF handleUnexpectedIncoming, ep, Numbers
<1>3. CASE ~room
    BY <1>1, <1>2, <1>3, NoRoom, Zenon
<1>4. CASE room
  <2> DEFINE w == Add(p, ep)
             v == receivedPostCryptoAuth(w, p, pinging)
  <2>1. made < MaxPeers /\ p = made + 1
    BY <1>2, Zenon DEF Making
  <2>2. /\ GoodBut(w, p) /\ w.peer[p] = ep /\ DOMAIN w.peer = Live \cup {p} /\ w.told = told
        /\ Len(w.map) <= made + 1
    BY <1>1, <2>1, AddGood
  <2>3. Become(v)
    BY <1>2, <1>4, Zenon
  <2> HIDE DEF w
  <2>4. Good(v) /\ DOMAIN v.peer = DOMAIN w.peer /\ v.map = w.map /\ v.told = w.told
    BY <1>1, <2>2, ReceivedGood
  <2> HIDE DEF v
  <2> QED
    BY <1>2, <2>2, <2>3, <2>4, MakingStep, Zenon
<1> QED
    BY <1>3, <1>4, Zenon

(* A message of a peer, and what it says of the session. *)
LEMMA WireStep ==
    ASSUME Inv, NEW p, handleIncomingFromWire(p)
    PROVE  Inv' /\ Forgets
<1>1. Good(World) /\ made' = made /\ lastPeerPinged' = lastPeerPinged
    BY Zenon DEF Inv, handleIncomingFromWire
<1>2. p \in Live /\ Live = DOMAIN World.peer
  <2>1. \A i \in DOMAIN World.map : World.map[i] \in DOMAIN World.peer
    BY <1>1, Zenon DEF Good, Shape
  <2>2. p \in Range(peerMap)
    BY Zenon DEF handleIncomingFromWire
  <2> QED
    BY <2>1, <2>2, Zenon DEF World, Live, Range
<1>3. PICK ca \in {"SETUP", "ESTABLISHED"}, pinging \in BOOLEAN :
          \/ Become(Read(p, ca, pinging))
          \/ \E version \in {"ok", "bad"} :
                 Become(onPingResponse(Read(p, ca, pinging), p, version))
    BY Zenon DEF handleIncomingFromWire
<1> DEFINE ep == [World.peer[p] EXCEPT !.ca = ca]
           w == Set(World, p, ep)
           neg == Renegotiating(w, p)
           read == receivedPostCryptoAuth(neg, p, pinging)
<1>4. \/ Become(read)
      \/ \E version \in {"ok", "bad"} : Become(onPingResponse(read, p, version))
  <2>1. World.peer = peer
    BY Zenon DEF World
  <2>2. read = Read(p, ca, pinging)
    BY <2>1, Zenon DEF Read
  <2> HIDE DEF read
  <2> QED
    BY <1>3, <2>2, Zenon
<1>5. /\ World \in Worlds /\ GoodBut(World, p) /\ World.peer[p] \in Endpoint(States)
      /\ SoundPeer(World.peer[p], p \in World.told)
      /\ p \in World.told => World.peer[p].version # "unknown"
    BY <1>1, <1>2, GoodHas, Zenon
<1>6. ep \in Endpoint(States)
    BY <1>5, Zenon DEF Endpoint
<1>7. /\ ep.lladdr = World.peer[p].lladdr /\ ep.version = World.peer[p].version
      /\ ep.state = World.peer[p].state /\ ep.up = World.peer[p].up
    BY <1>5, Zenon DEF Endpoint
<1> HIDE DEF ep
<1>8. /\ Good(w) /\ DOMAIN w.peer = Live /\ w.map = peerMap /\ w.told = told
  <2>1. w = [World EXCEPT !.peer[p] = ep]
    <3>1. World \in Worlds /\ p \in DOMAIN World.peer
      BY <1>2, <1>5, Zenon
    <3> QED
      BY <3>1, SetIs, Zenon
  <2> HIDE DEF w
  <2>2. SoundPeer(ep, p \in World.told)
    BY <1>5, <1>7, Zenon DEF SoundPeer
  <2>3. p \in World.told => ep.version # "unknown"
    BY <1>5, <1>7, Zenon
  <2>4. /\ Good(w) /\ DOMAIN w.peer = DOMAIN World.peer /\ w.map = World.map
        /\ w.told = World.told
    BY <1>5, <1>6, <1>7, <2>1, <2>2, <2>3, AssignGood
  <2> QED
    BY <1>2, <2>4, Zenon DEF World
<1> HIDE DEF w
<1>9. /\ GoodBut(w, p) /\ SoundPeer(w.peer[p], p \in w.told)
    BY <1>2, <1>8, GoodHas, Zenon
<1>10. /\ Good(neg) /\ DOMAIN neg.peer = Live /\ neg.map = peerMap
       /\ neg.told \subseteq told \cup {p}
  <2>1. neg = w \/ neg = sendPeer(w, p, "PEER_GONE")
    BY Zenon DEF Renegotiating
  <2> HIDE DEF neg
  <2>2. CASE neg = w
    BY <1>8, <2>2, Zenon
  <2>3. CASE neg = sendPeer(w, p, "PEER_GONE")
    <3>1. /\ DOMAIN neg.peer = DOMAIN w.peer /\ neg.map = w.map
          /\ p \in neg.told => IF w.peer[p].version = "ok" THEN FALSE ELSE p \in w.told
          /\ neg.told \subseteq w.told \cup {p}
          /\ SoundPeer(w.peer[p], p \in neg.told) => Good(neg)
      BY <1>9, <2>3, SayGood
    <3>2. SoundPeer(w.peer[p], p \in neg.told)
      BY <1>9, <3>1, Zenon DEF SoundPeer
    <3> QED
      BY <1>8, <3>1, <3>2, Zenon
  <2> QED
    BY <2>1, <2>2, <2>3, Zenon
<1> HIDE DEF neg
<1>11. GoodBut(neg, p) /\ (neg.peer[p].state = "ESTABLISHED" => neg.peer[p].up)
  <2>1. GoodBut(neg, p) /\ SoundPeer(neg.peer[p], p \in neg.told)
    BY <1>2, <1>10, GoodHas, Zenon
  <2> QED
    BY <2>1, Zenon DEF SoundPeer
<1>12. /\ Good(read) /\ DOMAIN read.peer = Live /\ read.map = peerMap
       /\ read.told \subseteq told \cup {p}
    BY <1>10, <1>11, ReceivedGood
<1> HIDE DEF read
<1>13. CASE Become(read)
    BY <1>1, <1>2, <1>12, <1>13, SamePeersStep, Zenon
<1>14. CASE \E version \in {"ok", "bad"} : Become(onPingResponse(read, p, version))
  <2>1. PICK version \in {"ok", "bad"} : Become(onPingResponse(read, p, version))
    BY <1>14, Zenon
  <2> DEFINE v == onPingResponse(read, p, version)
  <2>2. Good(v) /\ DOMAIN v.peer = DOMAIN read.peer /\ v.map = read.map
        /\ v.told \subseteq read.told \cup {p}
    BY <1>2, <1>12, AnsweredGood, Zenon
  <2>3. Become(v)
    BY <2>1, Zenon
  <2> HIDE DEF v
  <2>4. DOMAIN v.peer = Live /\ v.map = peerMap /\ v.told \subseteq told \cup {p}
    BY <1>12, <2>2, Zenon
  <2> QED
    BY <1>1, <1>2, <2>2, <2>3, <2>4, SamePeersStep, Zenon
<1> QED
    BY <1>4, <1>13, <1>14, Zenon

(* disconnectPeer frees a peer of the map. *)
LEMMA DisconnectStep ==
    ASSUME Inv, NEW p, disconnectPeer(p)
    PROVE  Inv' /\ Forgets
<1>1. Good(World) /\ Become(Close(World, p)) /\ made' = made /\ lastPeerPinged' = lastPeerPinged
      /\ p \in Range(peerMap) /\ lastPeerPinged \in 0 .. MaxPeers
    BY Zenon DEF Inv, disconnectPeer
<1>2. p \in DOMAIN World.peer
  <2>1. \A i \in DOMAIN World.map : World.map[i] \in DOMAIN World.peer
    BY <1>1, Zenon DEF Good, Shape
  <2> QED
    BY <1>1, <2>1, Zenon DEF World, Range
<1>3. GoodBut(World, p)
    BY <1>1, <1>2, GoodHas, Zenon
<1>4. Good(Close(World, p)) /\ Later(World, Close(World, p))
    BY <1>3, CloseGood, Zenon
<1> QED
    BY <1>1, <1>4, LaterStep, Zenon

(* The periodic round: a peer ends it pinged, freed, down or as it was. *)
LEMMA PingStep ==
    ASSUME Inv, iciPing
    PROVE  Inv' /\ Forgets
<1>1. /\ Good(World) /\ made \in 0 .. MaxPeers /\ Len(peerMap) <= made
      /\ lastPeerPinged \in 0 .. MaxPeers
      /\ peerMap # <<>> /\ lastPeerPinged' = StartAt /\ made' = made
    BY Zenon DEF Inv, iciPing
<1>2. PICK t \in Scan(World, StartAt) : Become(t.w)
    BY Zenon DEF iciPing
<1>3. peerMap \in Seq(Numbers)
  <2>1. World \in Worlds
    BY <1>1, Zenon DEF Good, Shape
  <2> QED
    BY <2>1, WorldIs, Zenon DEF World
<1>4. Len(peerMap) \in Nat \ {0}
    BY <1>1, <1>3
<1>5. StartAt \in Nat /\ StartAt \in 0 .. MaxPeers
  <2>1. \A a \in Nat, l \in Nat \ {0} : a % l \in 0 .. l - 1
    OBVIOUS
  <2>2. lastPeerPinged + 1 \in Nat
    BY <1>1
  <2>3. StartAt \in 0 .. Len(peerMap) - 1
    BY <1>4, <2>1, <2>2, Zenon DEF StartAt
  <2> QED
    BY <1>1, <1>4, <2>3, ControllerAssumption
<1>6. Good(t.w) /\ Later(World, t.w)
    BY <1>1, <1>2, <1>5, ScanGood, Zenon
<1> QED
    BY <1>1, <1>2, <1>5, <1>6, LaterStep, Zenon

(* What the steps that only touch records start from. *)
LEMMA PeerTable ==
    ASSUME Inv
    PROVE  peer \in [Live -> Endpoint(States)] /\ \A i \in DOMAIN peerMap : peerMap[i] \in Live
<1>1. World \in Worlds /\ \A i \in DOMAIN World.map : World.map[i] \in DOMAIN World.peer
    BY Zenon DEF Inv, Good, Shape
<1> QED
    BY <1>1, WorldIs, Zenon DEF World, Live

(* A switch ping that is not answered ends. *)
LEMMA TimeOutStep ==
    ASSUME Inv, NEW p, PingTimesOut(p)
    PROVE  Inv' /\ Forgets
<1>1. peer' = peer /\ peerMap' = peerMap /\ pings' = pings \ {p} /\ told' = told
      /\ aborted' = aborted /\ made' = made /\ lastPeerPinged' = lastPeerPinged
    BY Zenon DEF PingTimesOut
<1>2. peer \in [Live -> Endpoint(States)]
    BY PeerTable, Zenon
<1> QED
    BY <1>1, <1>2, CalmStep, Zenon

(* resetPeering sets up again a session that is not established. *)
LEMMA ResetStep ==
    ASSUME Inv, NEW p, resetPeering(p)
    PROVE  Inv' /\ Forgets
<1>1. peer' = [peer EXCEPT ![p].ca = "SETUP"] /\ peerMap' = peerMap /\ pings' = pings
      /\ told' = told /\ aborted' = aborted /\ made' = made
      /\ lastPeerPinged' = lastPeerPinged /\ p \in Live
    BY Zenon DEF resetPeering
<1>2. peer \in [Live -> Endpoint(States)]
    BY PeerTable, Zenon
<1>3. peer' \in [Live -> Endpoint(States)]
    BY <1>1, <1>2 DEF Endpoint
<1>4. \A q \in Live : /\ peer'[q].lladdr = peer[q].lladdr
                      /\ peer'[q].version = peer[q].version
                      /\ peer'[q].state = peer[q].state /\ peer'[q].up = peer[q].up
    BY <1>1, <1>2, Zenon DEF Endpoint
<1> QED
    BY <1>1, <1>3, <1>4, CalmStep, Zenon

(* Time passes: peers grow silent, and no more. *)
LEMMA TickStep ==
    ASSUME Inv, Tick
    PROVE  Inv' /\ Forgets
<1> DEFINE Aged(ep) == [ep EXCEPT !.idle = IF @ > ForgetAfter THEN @ ELSE @ + 1,
                                  !.sincePing = IF @ >= PingAfter THEN @ ELSE @ + 1]
<1>1. peer' = [p \in Live |-> Aged(peer[p])] /\ peerMap' = peerMap /\ pings' = pings
      /\ told' = told /\ aborted' = aborted /\ made' = made
      /\ lastPeerPinged' = lastPeerPinged
    BY Zenon DEF Tick
<1>2. peer \in [Live -> Endpoint(States)]
    BY PeerTable, Zenon
<1>3. \A ep \in Endpoint(States) :
          /\ Aged(ep) \in Endpoint(States) /\ Aged(ep).lladdr = ep.lladdr
          /\ Aged(ep).version = ep.version /\ Aged(ep).state = ep.state /\ Aged(ep).up = ep.up
  <2> SUFFICES ASSUME NEW ep \in Endpoint(States)
               PROVE  /\ Aged(ep) \in Endpoint(States) /\ Aged(ep).lladdr = ep.lladdr
                      /\ Aged(ep).version = ep.version /\ Aged(ep).state = ep.state
                      /\ Aged(ep).up = ep.up
    BY Zenon
  <2> DEFINE a == IF ep.idle > ForgetAfter THEN ep.idle ELSE ep.idle + 1
             b == IF ep.sincePing >= PingAfter THEN ep.sincePing ELSE ep.sincePing + 1
  <2>1. a \in 0 .. ForgetAfter + 1 /\ b \in 0 .. PingAfter
    BY ControllerAssumption DEF Endpoint
  <2>2. Aged(ep) = [ep EXCEPT !.idle = a, !.sincePing = b]
    BY Zenon DEF Endpoint
  <2> HIDE DEF a, b, Aged
  <2> QED
    BY <2>1, <2>2, Zenon DEF Endpoint
<1> HIDE DEF Aged
<1>4. peer' \in [Live -> Endpoint(States)]
    BY <1>1, <1>2, <1>3, Zenon
<1>5. \A q \in Live : /\ peer'[q].lladdr = peer[q].lladdr
                      /\ peer'[q].version = peer[q].version
                      /\ peer'[q].state = peer[q].state /\ peer'[q].up = peer[q].up
    BY <1>1, <1>2, <1>3, Zenon
<1> QED
    BY <1>1, <1>4, <1>5, CalmStep, Zenon

(* The pathfinder asks for the peers, and those worth telling of are told. *)
LEMMA AskedStep ==
    ASSUME Inv, incomingFromEventEmitterIf
    PROVE  Inv' /\ Forgets
<1>1. peer' = peer /\ peerMap' = peerMap /\ pings' = pings
      /\ told' = told \cup {p \in Range(peerMap) :
                               peer[p].state = "ESTABLISHED" /\ Speakable(peer[p])}
      /\ aborted' = aborted /\ made' = made /\ lastPeerPinged' = lastPeerPinged
    BY Zenon DEF incomingFromEventEmitterIf
<1>2. peer \in [Live -> Endpoint(States)] /\ \A i \in DOMAIN peerMap : peerMap[i] \in Live
    BY PeerTable, Zenon
<1>3. \A q \in told' : \/ q \in told
                       \/ /\ q \in Live /\ peer[q].version = "ok"
                          /\ peer[q].state = "ESTABLISHED"
    BY <1>1, <1>2, Zenon DEF Range, Speakable
<1> QED
    BY <1>1, <1>2, <1>3, CalmStep, Zenon

(* A world without peers is in order. *)
LEMMA NoneGood ==
    ASSUME NEW a \in BOOLEAN
    PROVE  Good([peer |-> <<>>, map |-> <<>>, pings |-> {}, told |-> {}, aborted |-> a])
<1> DEFINE v == [peer |-> <<>>, map |-> <<>>, pings |-> {}, told |-> {}, aborted |-> a]
<1>1. DOMAIN <<>> = {} /\ <<>> \in [{} -> Endpoint(States)] /\ <<>> \in Seq(Numbers)
    OBVIOUS
<1>2. <<>> \in Tables
    BY <1>1, TableIs, Zenon
<1>3. v \in Worlds
    BY <1>1, <1>2, Zenon DEF Worlds
<1>4. v.peer = <<>> /\ v.map = <<>> /\ v.pings = {}
    BY Zenon
<1> HIDE DEF v
<1>5. Good(v)
    BY <1>1, <1>3, <1>4, Zenon DEF Good, Shape
<1> QED
    BY <1>5, Zenon DEF v

(* The controller is freed, with every peer. *)
LEMMA ExitStep ==
    ASSUME Inv, exit
    PROVE  Inv' /\ Forgets
<1>1. /\ peer' = <<>> /\ peerMap' = <<>> /\ pings' = {} /\ told' = {} /\ lastPeerPinged' = 0
      /\ made' = made /\ aborted' = (Live \ Range(peerMap) # {})
    BY Zenon DEF exit
<1>2. aborted' \in BOOLEAN
    BY <1>1, Zenon
<1>3. World' = [peer |-> <<>>, map |-> <<>>, pings |-> {}, told |-> {}, aborted |-> aborted']
    BY <1>1, Zenon DEF World
<1>4. Good(World')
    BY <1>2, <1>3, NoneGood, Zenon
<1>5. made \in 0 .. MaxPeers /\ Live' = {} /\ Len(peerMap') = 0 /\ 0 \in 0 .. MaxPeers
    BY <1>1, ControllerAssumption DEF Inv, Live
<1> QED
    BY <1>1, <1>4, <1>5 DEF Inv, Forgets

(* What every step keeps. *)
LEMMA NextInv == Inv /\ [Next]_vars => Inv' /\ Forgets
<1> SUFFICES ASSUME Inv, [Next]_vars
             PROVE  Inv' /\ Forgets
    BY Zenon
<1>1. CASE UNCHANGED vars
  <2>1. World' = World /\ Live' = Live /\ told' = told /\ peerMap' = peerMap /\ made' = made
        /\ lastPeerPinged' = lastPeerPinged
    BY <1>1, Zenon DEF vars, World, Live
  <2> QED
    BY <2>1, Zenon DEF Inv, Forgets
<1>2. CASE \E lladdr \in Addrs : handleBeacon(lladdr) \/ bootstrapPeer(lladdr)
                                 \/ handleUnexpectedIncoming(lladdr)
    BY <1>2, BeaconStep, BootstrapStep, UnexpectedStep, Zenon
<1>3. CASE \E p \in 1 .. MaxPeers : handleIncomingFromWire(p) \/ PingTimesOut(p)
                                    \/ resetPeering(p) \/ disconnectPeer(p)
    BY <1>3, WireStep, TimeOutStep, ResetStep, DisconnectStep, Zenon
<1>4. CASE Tick \/ iciPing \/ incomingFromEventEmitterIf \/ exit
    BY <1>4, TickStep, PingStep, AskedStep, ExitStep, Zenon
<1> QED
    BY <1>1, <1>2, <1>3, <1>4, Zenon DEF Next

(* The invariant holds before the first peer. *)
LEMMA InitInv == Init => Inv
<1> SUFFICES ASSUME Init
             PROVE  Inv
    BY Zenon
<1>1. /\ peer = <<>> /\ peerMap = <<>> /\ lastPeerPinged = 0 /\ pings = {} /\ told = {}
      /\ made = 0 /\ aborted = FALSE
    BY Zenon DEF Init
<1>2. World = [peer |-> <<>>, map |-> <<>>, pings |-> {}, told |-> {}, aborted |-> FALSE]
    BY <1>1, Zenon DEF World
<1>3. Good(World)
    BY <1>2, NoneGood, Zenon
<1>4. Live = {} /\ Len(peerMap) = 0 /\ 0 \in 0 .. MaxPeers
    BY <1>1, ControllerAssumption DEF Live
<1> QED
    BY <1>1, <1>3, <1>4 DEF Inv

(* What the invariant says of peers. *)
LEMMA InvSays == Inv => TypeOK /\ DownWhenUnresponsive
                        /\ \A p \in Live : p \in told => peer[p].state # "UNRESPONSIVE"
<1> SUFFICES ASSUME Inv
             PROVE  TypeOK /\ DownWhenUnresponsive
                    /\ \A p \in Live : p \in told => peer[p].state # "UNRESPONSIVE"
    BY Zenon
<1>1. /\ made \in 0 .. MaxPeers /\ Live \subseteq 1 .. made
      /\ lastPeerPinged \in 0 .. MaxPeers /\ Good(World)
    BY Zenon DEF Inv
<1>2. /\ World \in Worlds /\ pings \subseteq Live
      /\ \A i \in DOMAIN peerMap : peerMap[i] \in Live
      /\ \A i, j \in DOMAIN peerMap :
             peer[peerMap[i]].lladdr = peer[peerMap[j]].lladdr => i = j
      /\ \A q \in Live : SoundPeer(peer[q], q \in told)
    BY <1>1, Zenon DEF Good, Shape, Sound, World, Live
<1>3. peer \in [Live -> Endpoint(States)] /\ aborted \in BOOLEAN
    BY <1>2, WorldIs, Zenon DEF World, Live
<1>4. \A p \in Live : /\ peer[p].state \in PeerStates
                      /\ peer[p].state = "UNRESPONSIVE" => ~peer[p].up
                      /\ ~peer[p].up => peer[p].state \in {"UNRESPONSIVE", "INCOMPATIBLE"}
                      /\ p \in told => peer[p].state # "UNRESPONSIVE"
    BY <1>2, Zenon DEF SoundPeer
<1>5. \A ep \in Endpoint(States) : ep.state \in PeerStates => ep \in Endpoint(PeerStates)
    BY Zenon DEF Endpoint
<1>6. \A p \in Live : peer[p] \in Endpoint(PeerStates)
    BY <1>3, <1>4, <1>5, Zenon
<1>7. peer \in [Live -> Endpoint(PeerStates)]
    BY <1>3, <1>6, Zenon
<1>8. TypeOK
    BY <1>1, <1>2, <1>3, <1>7, Zenon DEF TypeOK, Range
<1>9. DownWhenUnresponsive
    BY <1>4, Zenon DEF DownWhenUnresponsive
<1> QED
    BY <1>4, <1>8, <1>9, Zenon

-----------------------------------------------------------------------------
(* The theorems. *)

(* The invariant: the tables of peers are in order after every handler, for  *)
(* any number of peers and addresses and any timeouts.                       *)
THEOREM Invariance == Spec => []Inv
<1>1. Inv /\ [Next]_vars => Inv'
    BY NextInv, Zenon
<1> QED
    BY <1>1, InitInv, PTL DEF Spec

(* The types: the map leads to live peers only, to one for each address, and *)
(* no ping is under way for a peer that is gone.                             *)
THEOREM Types == Spec => []TypeOK
<1>1. Inv => TypeOK
    BY InvSays, Zenon
<1> QED
    BY <1>1, Invariance, PTL

(* The switch interface of a peer is down when iciPing has found the peer    *)
(* unresponsive, and otherwise only with a peer of an incompatible version.  *)
THEOREM DownWhileUnresponsive == Spec => []DownWhenUnresponsive
<1>1. Inv => DownWhenUnresponsive
    BY InvSays, Zenon
<1> QED
    BY <1>1, Invariance, PTL

(* By whatever way a peer goes, the pathfinder hears of it: the loop of      *)
(* iciPing, which may close peers under itself, disconnectPeer, a switch     *)
(* without room.                                                             *)
THEOREM PathfinderTold == Spec => ToldOfLivePeers
<1>1. Inv /\ Inv' /\ [Next]_vars =>
          [\A p \in told' :
               /\ p \in Live' => peer'[p].state # "UNRESPONSIVE"
               /\ p \notin Live' => p \notin Live \/ peer[p].version = "bad"]_vars
  <2> SUFFICES ASSUME Inv, Inv', [Next]_vars
               PROVE  \A p \in told' :
                          /\ p \in Live' => peer'[p].state # "UNRESPONSIVE"
                          /\ p \notin Live' => p \notin Live \/ peer[p].version = "bad"
    BY Zenon
  <2>1. Forgets
    BY NextInv, Zenon
  <2>2. (Inv => \A p \in Live : p \in told => peer[p].state # "UNRESPONSIVE")'
    BY InvSays, PTL
  <2>3. \A p \in Live' : p \in told' => peer'[p].state # "UNRESPONSIVE"
    BY <2>2, Zenon
  <2> QED
    BY <2>1, <2>3, Zenon DEF Forgets
<1> QED
    BY <1>1, Invariance, PTL DEF Spec, ToldOfLivePeers
==============================================================================
