------------------------- MODULE EventEmitterProofs -------------------------
(***************************************************************************)
(* The promises of the event channel, for any number of pathfinders,       *)
(* sizes of messages, lengths of queues and answers, and any limit of at   *)
(* least two at which a ping is due.                                       *)
(***************************************************************************)
EXTENDS EventEmitter, SequenceTheorems, FiniteSetTheorems, WellFoundedInduction, TLAPS

(* What a queue holds; what is neither a ping nor a pong is plain. *)
Events == {"CONNECT", "SUPERIORITY", "PING", "PONG", "PATHFINDERS", "PEERS",
           "CORE", "Pathfinder_PING", "PATHFINDER", "PATHFINDER_GONE"}

Message == [ev : Events] \cup [ev : Events, count : Nat] \cup [ev : Events, about : Pathfinders]

Plain(msg) == msg \in Message /\ msg.ev \notin {"PING", "PONG"}

(* The state of the channel of p when from is on its way from p.  Nothing   *)
(* is sent before CONNECT, and nothing reaches p before the answer to it.   *)
(* A ping or pong of an honest p under way means that the count, which is   *)
(* at least what the ping says, has passed PingAt, so that no other ping is *)
(* due.                                                                     *)
TypedChannel(c, from) ==
    /\ c \in [pf : [state : {"DISCONNECTED", "CONNECTED", "ERROR"}, bytesSinceLastPing : Nat],
              queue : Seq(Message)]
    /\ from \in Seq(Message)
    /\ \A i \in DOMAIN c.queue : c.queue[i].ev = "PING" => c.queue[i].count \in Nat
    /\ \A i \in DOMAIN from : from[i].ev = "PONG" => from[i].count \in Nat

Beginning(p, c, from) ==
    /\ c.pf.state = "DISCONNECTED" =>
           c.queue = <<>> /\ c.pf.bytesSinceLastPing = 0 /\ p \notin running
    /\ p \notin running =>
           /\ c.pf.state # "ERROR"
           /\ c.pf.state = "CONNECTED" => c.queue # <<>> /\ c.queue[1].ev = "CONNECT"
           /\ \A i \in DOMAIN from : from[i].ev = "CONNECT"

OnePing(c, from) ==
    /\ c.pf.state # "ERROR"
    /\ \A i, j \in DOMAIN c.queue :
           c.queue[i].ev = "PING" /\ c.queue[j].ev = "PING" => i = j
    /\ \A i, j \in DOMAIN from : from[i].ev = "PONG" /\ from[j].ev = "PONG" => i = j
    /\ \A i \in DOMAIN c.queue, j \in DOMAIN from :
           ~(c.queue[i].ev = "PING" /\ from[j].ev = "PONG")
    /\ \A i \in DOMAIN c.queue : c.queue[i].ev = "PING" =>
           /\ c.queue[i].count <= c.pf.bytesSinceLastPing
           /\ PingAt <= c.pf.bytesSinceLastPing
    /\ \A i \in DOMAIN from : from[i].ev = "PONG" =>
           /\ from[i].count <= c.pf.bytesSinceLastPing
           /\ PingAt <= c.pf.bytesSinceLastPing

ChannelInv(p, c, from) ==
    /\ TypedChannel(c, from)
    /\ Beginning(p, c, from)
    /\ p \in Honest => OnePing(c, from)

Inv ==
    /\ DOMAIN pf = Pathfinders /\ DOMAIN toPf = Pathfinders
    /\ fromPf \in [Pathfinders -> Seq(Message)]
    /\ running \subseteq Pathfinders
    /\ \A p \in Pathfinders : ChannelInv(p, Channel(p), fromPf[p])

-----------------------------------------------------------------------------
(* Sending. *)

(* The messages that are sent to all, and the answers, are plain. *)
LEMMA PlainMessages ==
    /\ \A ev \in Events : Event(ev) \in Message /\ Event(ev).ev = ev
    /\ \A ev \in Events, p \in Pathfinders : About(ev, p) \in Message /\ About(ev, p).ev = ev
    /\ \A count \in Nat : /\ Ping(count) \in Message /\ Ping(count).ev = "PING"
                          /\ Ping(count).count = count
                          /\ Pong(count) \in Message /\ Pong(count).ev = "PONG"
                          /\ Pong(count).count = count
<1>1. ASSUME NEW ev \in Events
      PROVE  Event(ev) \in Message /\ Event(ev).ev = ev
    BY Zenon DEF Event, Message
<1>2. ASSUME NEW ev \in Events, NEW p \in Pathfinders
      PROVE  About(ev, p) \in Message /\ About(ev, p).ev = ev
    BY Zenon DEF About, Message
<1>3. ASSUME NEW count \in Nat
      PROVE  /\ Ping(count) \in Message /\ Ping(count).ev = "PING"
             /\ Ping(count).count = count
  <2>1. Ping(count) \in [ev : Events, count : Nat]
    BY Zenon DEF Ping, Events
  <2>2. Ping(count) \in Message
    BY <2>1, Zenon DEF Message
  <2> QED
    BY <2>2, Zenon DEF Ping
<1>4. ASSUME NEW count \in Nat
      PROVE  /\ Pong(count) \in Message /\ Pong(count).ev = "PONG"
             /\ Pong(count).count = count
  <2>1. Pong(count) \in [ev : Events, count : Nat]
    BY Zenon DEF Pong, Events
  <2>2. Pong(count) \in Message
    BY <2>1, Zenon DEF Message
  <2> QED
    BY <2>2, Zenon DEF Pong
<1> QED
    BY <1>1, <1>2, <1>3, <1>4, Zenon

(* A set of natural numbers that is not empty has a least one. *)
LEMMA NatLeast ==
    ASSUME NEW T, T \subseteq Nat, T # {}
    PROVE  \E x \in T : \A y \in T : x <= y
<1> DEFINE R == OpToRel(<, Nat)
<1>1. IsWellFoundedOn(R, Nat)
    BY NatLessThanWellFounded, Zenon
<1>2. \A x, y \in Nat : <<y, x>> \in R <=> y < x
    BY Zenon DEF OpToRel
<1> HIDE DEF R
<1>3. PICK x \in T : \A y \in T : ~(<<y, x>> \in R)
    BY <1>1, WFMin, Zenon
<1>4. ASSUME NEW y \in T
      PROVE  x <= y
  <2>1. x \in Nat /\ y \in Nat
    BY Zenon
  <2>2. ~(y < x)
    BY <1>2, <1>3, <2>1, Zenon
  <2> QED
    BY <2>1, <2>2
<1> QED
    BY <1>4, Zenon

(* SendEach sends once more than SendEach one shorter. *)
LEMMA SendEachStep ==
    ASSUME NEW c, NEW n \in Nat, NEW msg, NEW size
    PROVE  \E f : /\ SendEach(c, n, msg, size) = f[n]
                  /\ f[0] = c
                  /\ \A i \in 1 .. n : f[i] = sendToPathfinder(f[i - 1], msg, size)
<1> DEFINE Solution(f, k) ==
               f = [i \in 0 .. k |-> IF i = 0 THEN c ELSE sendToPathfinder(f[i - 1], msg, size)]
           T == {k \in 0 .. n : ~ \E f : Solution(f, k)}
<1>1. T = {}
  <2> SUFFICES ASSUME T # {}
               PROVE  FALSE
    BY Zenon
  <2>1. PICK k \in T : \A j \in T : k <= j
    <3>1. T \subseteq Nat
      OBVIOUS
    <3> HIDE DEF T
    <3> QED
      BY <3>1, NatLeast, Zenon
  <2>2. k # 0
    <3> DEFINE g == [i \in 0 .. 0 |-> c]
    <3>1. Solution(g, 0)
      OBVIOUS
    <3> QED
      BY <3>1, Zenon
  <2>3. k - 1 \in 0 .. n /\ k - 1 \notin T
    BY <2>1, <2>2
  <2>4. PICK f : Solution(f, k - 1)
    BY <2>3, Zenon
  <2> DEFINE g == [i \in 0 .. k |-> IF i = k THEN sendToPathfinder(f[k - 1], msg, size) ELSE f[i]]
  <2>5. ASSUME NEW i \in 0 .. k
        PROVE  g[i] = IF i = 0 THEN c ELSE sendToPathfinder(g[i - 1], msg, size)
    <3>1. CASE i = k
      BY <2>2, <3>1
    <3>2. CASE i # k
      <4>1. i \in 0 .. k - 1 /\ g[i] = f[i]
        BY <3>2
      <4>2. f[i] = IF i = 0 THEN c ELSE sendToPathfinder(f[i - 1], msg, size)
        BY <2>4, <4>1, Zenon
      <4>3. i # 0 => g[i - 1] = f[i - 1]
        BY <4>1
      <4> QED
        BY <4>1, <4>2, <4>3, Zenon
    <3> QED
      BY <3>1, <3>2, Zenon
  <2>6. Solution(g, k)
    BY <2>5, Zenon
  <2> QED
    BY <2>1, <2>6, Zenon
<1>2. \E f : Solution(f, n)
  <2>1. n \in 0 .. n /\ n \notin T
    BY <1>1
  <2> QED
    BY <2>1, Zenon
<1> DEFINE sent == CHOOSE f : Solution(f, n)
<1>3. Solution(sent, n)
    BY <1>2, Zenon
<1>4. SendEach(c, n, msg, size) = sent[n]
    BY Zenon DEF SendEach
<1> HIDE DEF sent
<1>5. /\ sent[0] = c
      /\ \A i \in 1 .. n : sent[i] = sendToPathfinder(sent[i - 1], msg, size)
    BY <1>3
<1> QED
    BY <1>4, <1>5, Zenon

(* The channel after sendToPathfinder: the message is last in the queue,    *)
(* behind a ping if one is due.                                             *)
LEMMA SendEffect ==
    ASSUME NEW c, NEW from, TypedChannel(c, from), c.pf.state = "CONNECTED",
           NEW msg, Plain(msg), NEW size \in Nat \ {0}
    PROVE  LET d == sendToPathfinder(c, msg, size)
               n == Len(c.queue)
           IN  /\ d \in [pf : [state : {"DISCONNECTED", "CONNECTED", "ERROR"},
                               bytesSinceLastPing : Nat],
                         queue : Seq(Message)]
               /\ d.pf.state = "CONNECTED"
               /\ d.pf.bytesSinceLastPing = c.pf.bytesSinceLastPing + size
               /\ \/ /\ ~PingDue(c, size)
                     /\ DOMAIN d.queue = 1 .. n + 1
                     /\ \A i \in 1 .. n : d.queue[i] = c.queue[i]
                     /\ d.queue[n + 1] = msg
                  \/ /\ PingDue(c, size)
                     /\ DOMAIN d.queue = 1 .. n + 2
                     /\ \A i \in 1 .. n : d.queue[i] = c.queue[i]
                     /\ d.queue[n + 1] = Ping(c.pf.bytesSinceLastPing)
                     /\ d.queue[n + 2] = msg
<1> DEFINE ping == Ping(c.pf.bytesSinceLastPing)
           d == sendToPathfinder(c, msg, size)
           n == Len(c.queue)
           new == [c.pf EXCEPT !.bytesSinceLastPing = @ + size]
<1>1. /\ c.queue \in Seq(Message) /\ msg \in Message /\ n \in Nat
      /\ c.pf \in [state : {"DISCONNECTED", "CONNECTED", "ERROR"}, bytesSinceLastPing : Nat]
    BY DEF TypedChannel, Plain
<1>2. ping \in Message
    BY <1>1, PlainMessages, Zenon
<1>3. /\ new \in [state : {"DISCONNECTED", "CONNECTED", "ERROR"}, bytesSinceLastPing : Nat]
      /\ new.state = "CONNECTED"
      /\ new.bytesSinceLastPing = c.pf.bytesSinceLastPing + size
    BY <1>1
<1>4. d = [pf |-> new, queue |-> c.queue \o (IF PingDue(c, size) THEN <<ping>> ELSE <<>>) \o <<msg>>]
    BY Zenon DEF sendToPathfinder
<1> HIDE DEF ping, new, d
<1>5. CASE PingDue(c, size)
  <2> DEFINE q == c.queue \o <<ping>> \o <<msg>>
  <2>1. /\ q \in Seq(Message) /\ Len(q) = n + 2
        /\ \A i \in 1 .. n : q[i] = c.queue[i]
        /\ q[n + 1] = ping /\ q[n + 2] = msg
    BY <1>1, <1>2
  <2>2. d = [pf |-> new, queue |-> q]
    BY <1>4, <1>5, Zenon
  <2> HIDE DEF q
  <2> QED
    BY <1>1, <1>3, <1>5, <2>1, <2>2 DEF d, ping
<1>6. CASE ~PingDue(c, size)
  <2> DEFINE q == c.queue \o <<>> \o <<msg>>
  <2>1. /\ q \in Seq(Message) /\ Len(q) = n + 1
        /\ \A i \in 1 .. n : q[i] = c.queue[i]
        /\ q[n + 1] = msg
    BY <1>1
  <2>2. d = [pf |-> new, queue |-> q]
    BY <1>4, <1>6, Zenon
  <2> HIDE DEF q
  <2> QED
    BY <1>1, <1>3, <1>6, <2>1, <2>2 DEF d
<1> QED
    BY <1>5, <1>6, Zenon

(* sendToPathfinder keeps the channel in order, and what is not connected   *)
(* as it is.                                                                *)
LEMMA SendInv ==
    ASSUME NEW p \in Pathfinders, NEW c, NEW from, ChannelInv(p, c, from),
           NEW msg, Plain(msg), NEW size \in Nat \ {0}
    PROVE  /\ ChannelInv(p, sendToPathfinder(c, msg, size), from)
           /\ c.pf.state # "CONNECTED" => sendToPathfinder(c, msg, size) = c
<1>1. CASE c.pf.state # "CONNECTED"
    BY <1>1, Zenon DEF sendToPathfinder
<1>2. CASE c.pf.state = "CONNECTED"
  <2> DEFINE d == sendToPathfinder(c, msg, size)
             n == Len(c.queue)
             b == c.pf.bytesSinceLastPing
  <2>1. /\ TypedChannel(c, from) /\ Beginning(p, c, from) /\ n \in Nat /\ b \in Nat
        /\ DOMAIN c.queue = 1 .. n /\ PingAt \in Nat
    BY EmitterAssumption DEF ChannelInv, TypedChannel
  <2>2. /\ d \in [pf : [state : {"DISCONNECTED", "CONNECTED", "ERROR"},
                        bytesSinceLastPing : Nat],
                  queue : Seq(Message)]
        /\ d.pf.state = "CONNECTED"
        /\ d.pf.bytesSinceLastPing = b + size
        /\ \/ /\ ~PingDue(c, size)
              /\ DOMAIN d.queue = 1 .. n + 1
              /\ \A i \in 1 .. n : d.queue[i] = c.queue[i]
              /\ d.queue[n + 1] = msg
           \/ /\ PingDue(c, size)
              /\ DOMAIN d.queue = 1 .. n + 2
              /\ \A i \in 1 .. n : d.queue[i] = c.queue[i]
              /\ d.queue[n + 1] = Ping(b)
              /\ d.queue[n + 2] = msg
    BY <1>2, <2>1, SendEffect
  <2>3. Ping(b).ev = "PING" /\ Ping(b).count = b
    BY <2>1, PlainMessages, Zenon
  <2>4. msg.ev # "PING"
    BY Zenon DEF Plain
  <2> HIDE DEF d, n, b
  <2>5. ASSUME NEW i \in DOMAIN d.queue, d.queue[i].ev = "PING"
        PROVE  \/ i \in 1 .. n /\ d.queue[i] = c.queue[i]
               \/ i = n + 1 /\ d.queue[i].count = b /\ PingDue(c, size)
    <3>1. i \in 1 .. n => d.queue[i] = c.queue[i]
      BY <2>2, Zenon
    <3>2. CASE ~PingDue(c, size)
      <4>1. DOMAIN d.queue = 1 .. n + 1 /\ d.queue[n + 1] = msg
        BY <2>2, <3>2, Zenon
      <4>2. i # n + 1
        BY <2>4, <2>5, <4>1, Zenon
      <4>3. i \in 1 .. n
        BY <2>1, <4>1, <4>2
      <4> QED
        BY <3>1, <4>3, Zenon
    <3>3. CASE PingDue(c, size)
      <4>1. DOMAIN d.queue = 1 .. n + 2 /\ d.queue[n + 1] = Ping(b) /\ d.queue[n + 2] = msg
        BY <2>2, <3>3, Zenon
      <4>2. i # n + 2
        BY <2>4, <2>5, <4>1, Zenon
      <4>3. i \in 1 .. n \/ i = n + 1
        BY <2>1, <4>1, <4>2
      <4> QED
        BY <2>3, <3>1, <3>3, <4>1, <4>3, Zenon
    <3> QED
      BY <3>2, <3>3, Zenon
  <2>6. TypedChannel(d, from)
    BY <2>1, <2>2, <2>5, Zenon DEF TypedChannel
  <2>7. Beginning(p, d, from)
    <3>1. p \notin running => n # 0 /\ c.queue[1].ev = "CONNECT"
      BY <1>2, <2>1 DEF Beginning, n
    <3>2. p \notin running => d.queue[1] = c.queue[1] /\ d.queue # <<>>
      BY <2>1, <2>2, <3>1
    <3> QED
      BY <2>1, <2>2, <3>1, <3>2, <1>2, Zenon DEF Beginning
  <2>8. ASSUME p \in Honest
        PROVE  OnePing(d, from)
    <3>1. OnePing(c, from)
      BY <2>8, Zenon DEF ChannelInv
    <3>2. PingDue(c, size) => b < PingAt /\ PingAt <= b + size
      BY <2>1, Zenon DEF PingDue, b
    <3>3. PingDue(c, size) =>
              /\ \A i \in 1 .. n : c.queue[i].ev # "PING"
              /\ \A i \in DOMAIN from : from[i].ev # "PONG"
      BY <2>1, <3>1, <3>2 DEF OnePing, b
    <3>4. \A i, j \in DOMAIN d.queue : d.queue[i].ev = "PING" /\ d.queue[j].ev = "PING" => i = j
      BY <2>1, <2>5, <3>1, <3>3, Zenon DEF OnePing
    <3>5. \A i \in DOMAIN d.queue, j \in DOMAIN from :
              ~(d.queue[i].ev = "PING" /\ from[j].ev = "PONG")
      BY <2>1, <2>5, <3>1, <3>3, Zenon DEF OnePing
    <3>6. ASSUME NEW i \in DOMAIN d.queue, d.queue[i].ev = "PING"
          PROVE  d.queue[i].count <= b + size /\ PingAt <= b + size
      <4>1. CASE i \in 1 .. n /\ d.queue[i] = c.queue[i]
        <5>1. /\ c.queue[i].count \in Nat /\ c.queue[i].count <= b
              /\ PingAt <= b
          BY <2>1, <3>1, <3>6, <4>1, Zenon DEF OnePing, TypedChannel, b
        <5> QED
          BY <2>1, <4>1, <5>1
      <4>2. CASE d.queue[i].count = b /\ PingDue(c, size)
        BY <2>1, <3>2, <4>2
      <4> QED
        BY <2>5, <3>6, <4>1, <4>2, Zenon
    <3>7. ASSUME NEW i \in DOMAIN from, from[i].ev = "PONG"
          PROVE  from[i].count <= b + size /\ PingAt <= b + size
      <4>1. from[i].count \in Nat /\ from[i].count <= b /\ PingAt <= b
        BY <2>1, <3>1, <3>7, Zenon DEF OnePing, TypedChannel, b
      <4> QED
        BY <2>1, <4>1
    <3> QED
      BY <2>2, <3>1, <3>4, <3>5, <3>6, <3>7, Zenon DEF OnePing
  <2> QED
    BY <1>2, <2>6, <2>7, <2>8, Zenon DEF ChannelInv, d
<1> QED
    BY <1>1, <1>2, Zenon

(* So does any number of sends. *)
LEMMA SendEachInv ==
    ASSUME NEW p \in Pathfinders, NEW c, NEW from, ChannelInv(p, c, from),
           NEW n \in Nat, NEW msg, Plain(msg), NEW size \in Nat \ {0}
    PROVE  ChannelInv(p, SendEach(c, n, msg, size), from)
<1>1. PICK f : /\ SendEach(c, n, msg, size) = f[n]
               /\ f[0] = c
               /\ \A i \in 1 .. n : f[i] = sendToPathfinder(f[i - 1], msg, size)
    BY SendEachStep
<1> DEFINE T == {i \in 0 .. n : ~ChannelInv(p, f[i], from)}
<1>2. T = {}
  <2> SUFFICES ASSUME T # {}
               PROVE  FALSE
    BY Zenon
  <2>1. PICK k \in T : \A j \in T : k <= j
    <3>1. T \subseteq Nat
      OBVIOUS
    <3> HIDE DEF T
    <3> QED
      BY <3>1, NatLeast, Zenon
  <2>2. k # 0
    BY <1>1, Zenon
  <2>3. k - 1 \in 0 .. n /\ k - 1 \notin T /\ k \in 1 .. n
    BY <2>1, <2>2
  <2>4. ChannelInv(p, f[k - 1], from)
    BY <2>3, Zenon
  <2>5. ChannelInv(p, f[k], from)
    BY <1>1, <2>3, <2>4, SendInv
  <2> QED
    BY <2>5, Zenon
<1>3. n \in 0 .. n /\ n \notin T
    BY <1>2
<1> QED
    BY <1>1, <1>3, Zenon

-----------------------------------------------------------------------------
(* Receiving. *)

(* The first message from p has been taken: what is left is as it was, one  *)
(* place earlier.                                                           *)
LEMMA TakenInv ==
    ASSUME NEW p \in Pathfinders, NEW c, NEW from, ChannelInv(p, c, from), from # <<>>
    PROVE  /\ ChannelInv(p, c, Tail(from))
           /\ Tail(from) \in Seq(Message)
           /\ DOMAIN Tail(from) = 1 .. Len(from) - 1
           /\ \A i \in DOMAIN Tail(from) : i + 1 \in DOMAIN from /\ Tail(from)[i] = from[i + 1]
<1>1. from \in Seq(Message) /\ Len(from) \in Nat /\ DOMAIN from = 1 .. Len(from)
    BY DEF ChannelInv, TypedChannel
<1>2. /\ Tail(from) \in Seq(Message)
      /\ DOMAIN Tail(from) = 1 .. Len(from) - 1
      /\ \A i \in DOMAIN Tail(from) : i + 1 \in DOMAIN from /\ Tail(from)[i] = from[i + 1]
    BY <1>1
<1> DEFINE rest == Tail(from)
<1> HIDE DEF rest
<1>3. /\ rest \in Seq(Message)
      /\ \A i \in DOMAIN rest : i \in Int /\ i + 1 \in DOMAIN from /\ rest[i] = from[i + 1]
    BY <1>1, <1>2 DEF rest
<1>4. TypedChannel(c, rest)
    BY <1>3, Zenon DEF TypedChannel, ChannelInv
<1>5. Beginning(p, c, rest)
    BY <1>3, Zenon DEF Beginning, ChannelInv
<1>6. ASSUME p \in Honest
      PROVE  OnePing(c, rest)
  <2>1. OnePing(c, from)
    BY <1>6, Zenon DEF ChannelInv
  <2>2. \A i, j \in DOMAIN rest : rest[i].ev = "PONG" /\ rest[j].ev = "PONG" => i = j
    BY <1>3, <2>1 DEF OnePing
  <2> QED
    BY <1>3, <2>1, <2>2, Zenon DEF OnePing
<1> QED
    BY <1>2, <1>4, <1>5, <1>6, Zenon DEF ChannelInv, rest

(* CONNECT: the answer to it is the first message that p gets. *)
LEMMA ConnectInv ==
    ASSUME NEW p \in Pathfinders, NEW c, NEW from, ChannelInv(p, c, from), c.pf.state # "ERROR"
    PROVE  ChannelInv(p, sendToPathfinder([c EXCEPT !.pf.state = "CONNECTED"],
                                          Event("CONNECT"), 1), from)
<1> DEFINE e == [c EXCEPT !.pf.state = "CONNECTED"]
           d == sendToPathfinder(e, Event("CONNECT"), 1)
<1>1. TypedChannel(c, from) /\ Beginning(p, c, from)
    BY Zenon DEF ChannelInv
<1>2. Plain(Event("CONNECT")) /\ Event("CONNECT").ev = "CONNECT"
    BY PlainMessages, Zenon DEF Plain, Events
<1>3. /\ e \in [pf : [state : {"DISCONNECTED", "CONNECTED", "ERROR"}, bytesSinceLastPing : Nat],
                queue : Seq(Message)]
      /\ e.pf.state = "CONNECTED" /\ e.queue = c.queue
      /\ e.pf.bytesSinceLastPing = c.pf.bytesSinceLastPing
    BY <1>1, Zenon DEF TypedChannel
<1>4. CASE c.pf.state = "CONNECTED"
  <2>1. e = c
    BY <1>1, <1>4, Zenon DEF TypedChannel
  <2> QED
    BY <1>2, <2>1, SendInv
<1>5. CASE c.pf.state = "DISCONNECTED"
  <2>1. e.queue = <<>> /\ e.pf.bytesSinceLastPing = 0 /\ p \notin running
    BY <1>1, <1>3, <1>5, Zenon DEF Beginning
  <2> HIDE DEF e
  <2>2. TypedChannel(e, from)
    BY <1>1, <1>3, Zenon DEF TypedChannel
  <2>3. ~PingDue(e, 1)
    BY <2>1, EmitterAssumption DEF PingDue
  <2>4. /\ d \in [pf : [state : {"DISCONNECTED", "CONNECTED", "ERROR"},
                        bytesSinceLastPing : Nat],
                  queue : Seq(Message)]
        /\ d.pf.state = "CONNECTED"
        /\ d.pf.bytesSinceLastPing = 1
        /\ DOMAIN d.queue = 1 .. 1
        /\ d.queue[1] = Event("CONNECT")
    BY <1>2, <1>3, <2>1, <2>2, <2>3, SendEffect
  <2> HIDE DEF d
  <2>5. \A i \in DOMAIN from : from[i].ev = "CONNECT"
    BY <1>1, <2>1, Zenon DEF Beginning
  <2>6. \A i \in DOMAIN d.queue : d.queue[i].ev = "CONNECT"
    BY <1>2, <2>4
  <2>7. TypedChannel(d, from)
    BY <1>1, <2>4, <2>6, Zenon DEF TypedChannel
  <2>8. Beginning(p, d, from)
    BY <1>2, <2>4, <2>5, <2>1 DEF Beginning
  <2>9. OnePing(d, from)
    BY <2>4, <2>5, <2>6, Zenon DEF OnePing
  <2> QED
    BY <2>7, <2>8, <2>9, Zenon DEF ChannelInv, d, e
<1> QED
    BY <1>1, <1>4, <1>5, Zenon DEF TypedChannel

(* PING: a plain message is queued to a pathfinder that is connected. *)
LEMMA PingBackInv ==
    ASSUME NEW p \in Pathfinders, NEW c, NEW from, ChannelInv(p, c, from),
           c.pf.state = "CONNECTED", NEW msg, Plain(msg)
    PROVE  ChannelInv(p, [c EXCEPT !.queue = Append(@, msg)], from)
<1> DEFINE q == Append(c.queue, msg)
           d == [c EXCEPT !.queue = Append(@, msg)]
           n == Len(c.queue)
<1>1. TypedChannel(c, from) /\ Beginning(p, c, from) /\ msg.ev # "PING" /\ msg \in Message
    BY Zenon DEF ChannelInv, Plain
<1>2. /\ c.queue \in Seq(Message) /\ n \in Nat /\ DOMAIN c.queue = 1 .. n
    BY <1>1 DEF TypedChannel
<1>3. /\ q \in Seq(Message) /\ DOMAIN q = 1 .. n + 1 /\ q[n + 1] = msg
      /\ \A i \in 1 .. n : q[i] = c.queue[i]
    BY <1>1, <1>2
<1>4. d = [c EXCEPT !.queue = q]
    BY <1>1, Zenon DEF TypedChannel
<1> HIDE DEF q, d
<1>5. /\ d.pf = c.pf /\ d.queue = q
       /\ d \in [pf : [state : {"DISCONNECTED", "CONNECTED", "ERROR"},
                       bytesSinceLastPing : Nat],
                 queue : Seq(Message)]
    BY <1>1, <1>3, <1>4, Zenon DEF TypedChannel
<1>6. /\ DOMAIN d.queue = 1 .. n + 1 /\ d.queue[n + 1] = msg
      /\ \A i \in 1 .. n : d.queue[i] = c.queue[i]
    BY <1>3, <1>5, Zenon
<1> HIDE DEF d
<1>7. \A i \in DOMAIN d.queue : d.queue[i].ev = "PING" => i \in DOMAIN c.queue /\ d.queue[i] = c.queue[i]
    BY <1>1, <1>2, <1>6
<1>8. TypedChannel(d, from)
    BY <1>1, <1>5, <1>7, Zenon DEF TypedChannel
<1>9. Beginning(p, d, from)
  <2>1. p \notin running => d.queue # <<>> /\ d.queue[1] = c.queue[1] /\ c.queue[1].ev = "CONNECT"
    <3>1. p \notin running => n # 0 /\ c.queue[1].ev = "CONNECT"
      BY <1>1, <1>2 DEF Beginning
    <3> QED
      BY <1>2, <1>6, <3>1
  <2> QED
    BY <1>1, <1>5, <2>1, Zenon DEF Beginning
<1>10. p \in Honest => OnePing(d, from)
    BY <1>5, <1>7 DEF OnePing, ChannelInv
<1> QED
    BY <1>8, <1>9, <1>10, Zenon DEF ChannelInv, d

(* PONG of an honest pathfinder: its count is at most ours, and nothing is  *)
(* under way after it.  PONG of another: it is put in the ERROR state, or   *)
(* the count stays a natural number.                                        *)
LEMMA PongInv ==
    ASSUME NEW p \in Pathfinders, NEW c, NEW from, ChannelInv(p, c, from), from # <<>>,
           from[1].ev = "PONG", c.pf.state = "CONNECTED"
    PROVE  /\ from[1].count > c.pf.bytesSinceLastPing =>
                  /\ p \notin Honest /\ p \in running
                  /\ ChannelInv(p, [c EXCEPT !.pf.state = "ERROR"], Tail(from))
           /\ from[1].count <= c.pf.bytesSinceLastPing =>
                  ChannelInv(p, [c EXCEPT !.pf.bytesSinceLastPing = @ - from[1].count], Tail(from))
<1> DEFINE b == c.pf.bytesSinceLastPing
           k == from[1].count
           err == [c EXCEPT !.pf.state = "ERROR"]
           low == [c EXCEPT !.pf.bytesSinceLastPing = @ - k]
           rest == Tail(from)
<1>1. TypedChannel(c, from) /\ Beginning(p, c, from)
    BY Zenon DEF ChannelInv
<1>2. from \in Seq(Message) /\ 1 \in DOMAIN from /\ k \in Nat /\ b \in Nat
    BY <1>1 DEF TypedChannel
<1>3. p \in running
    BY <1>1, <1>2, Zenon DEF Beginning
<1>4. /\ ChannelInv(p, c, rest) /\ rest \in Seq(Message)
      /\ \A i \in DOMAIN rest : /\ i \in Nat \ {0} /\ i + 1 \in DOMAIN from
                                /\ rest[i] = from[i + 1]
    BY TakenInv
<1> HIDE DEF rest
<1>5. ASSUME p \in Honest
      PROVE  /\ k <= b
             /\ \A i \in DOMAIN c.queue : c.queue[i].ev # "PING"
             /\ \A i \in DOMAIN rest : rest[i].ev # "PONG"
  <2>1. OnePing(c, from)
    BY <1>5, Zenon DEF ChannelInv
  <2>2. k <= b /\ \A i \in DOMAIN c.queue : c.queue[i].ev # "PING"
    BY <1>2, <2>1, Zenon DEF OnePing
  <2>3. \A i \in DOMAIN rest : rest[i].ev # "PONG"
    BY <1>2, <1>4, <2>1 DEF OnePing
  <2> QED
    BY <2>2, <2>3, Zenon
<1>6. /\ err \in [pf : [state : {"DISCONNECTED", "CONNECTED", "ERROR"}, bytesSinceLastPing : Nat],
                  queue : Seq(Message)]
      /\ err.pf.state = "ERROR" /\ err.queue = c.queue
    BY <1>1, Zenon DEF TypedChannel
<1>7. TypedChannel(c, rest)
    BY <1>4, Zenon DEF ChannelInv
<1>8. ASSUME k > b
      PROVE  p \notin Honest /\ ChannelInv(p, err, rest)
  <2>1. p \notin Honest
    BY <1>2, <1>5, <1>8
  <2> HIDE DEF err
  <2>2. TypedChannel(err, rest)
    BY <1>6, <1>7, Zenon DEF TypedChannel
  <2>3. Beginning(p, err, rest)
    BY <1>3, <1>6, Zenon DEF Beginning
  <2> QED
    BY <2>1, <2>2, <2>3, Zenon DEF ChannelInv
<1>9. ASSUME k <= b
      PROVE  ChannelInv(p, low, rest)
  <2>1. /\ low \in [pf : [state : {"DISCONNECTED", "CONNECTED", "ERROR"}, bytesSinceLastPing : Nat],
                    queue : Seq(Message)]
        /\ low.pf.state = "CONNECTED" /\ low.queue = c.queue
    <3>1. b - k \in Nat
      BY <1>2, <1>9
    <3> HIDE DEF k
    <3> QED
      BY <1>1, <3>1, Zenon DEF TypedChannel
  <2> HIDE DEF low
  <2>2. TypedChannel(low, rest)
    BY <1>7, <2>1, Zenon DEF TypedChannel
  <2>3. Beginning(p, low, rest)
    BY <1>3, <2>1, Zenon DEF Beginning
  <2>4. p \in Honest => OnePing(low, rest)
    BY <1>5, <2>1, Zenon DEF OnePing
  <2> QED
    BY <2>2, <2>3, <2>4, Zenon DEF ChannelInv
<1> QED
    BY <1>3, <1>8, <1>9, Zenon DEF rest

(* A pathfinder reads: a ping becomes a pong with its count, and from the   *)
(* first message on the pathfinder runs.                                    *)
LEMMA ReadInv ==
    ASSUME Inv, NEW p \in Pathfinders, incomingFromEventIf(p)
    PROVE  ChannelInv(p, Channel(p), fromPf[p])'
<1> DEFINE c == Channel(p)
           q == toPf[p]
           from == fromPf[p]
           b == pf[p].bytesSinceLastPing
           pong == Pong(q[1].count)
<1>1. /\ TypedChannel(c, from) /\ Beginning(p, c, from) /\ c.pf = pf[p] /\ c.queue = q
      /\ p \in Honest => OnePing(c, from)
    BY Zenon DEF Inv, ChannelInv, Channel
<1>2. q \in Seq(Message) /\ q # <<>> /\ from \in Seq(Message)
    BY <1>1, Zenon DEF TypedChannel, incomingFromEventIf
<1>3. /\ toPf'[p] = Tail(q) /\ pf'[p] = pf[p] /\ p \in running'
      /\ fromPf'[p] = IF p \in running /\ q[1].ev = "PING" THEN Append(from, pong) ELSE from
  <2>1. Head(q) = q[1]
    BY <1>2
  <2>2. p \in DOMAIN toPf /\ p \in DOMAIN fromPf
    BY Zenon DEF Inv
  <2>3. fromPf' = IF p \in running /\ q[1].ev = "PING"
                  THEN [fromPf EXCEPT ![p] = Append(@, pong)] ELSE fromPf
    BY <2>1, Zenon DEF incomingFromEventIf
  <2>4. toPf' = [toPf EXCEPT ![p] = Tail(@)] /\ pf' = pf /\ p \in running'
    BY Zenon DEF incomingFromEventIf
  <2> QED
    BY <2>2, <2>3, <2>4, Zenon
<1> DEFINE rest == Tail(q)
           new == fromPf'[p]
           d == [pf |-> pf[p], queue |-> rest]
<1>4. Channel(p)' = d
    BY <1>3, Zenon DEF Channel
<1>5. /\ rest \in Seq(Message)
      /\ \A i \in DOMAIN rest : /\ i \in Nat \ {0} /\ i + 1 \in DOMAIN q
                                /\ rest[i] = q[i + 1]
    BY <1>2
<1> HIDE DEF rest
<1>6. d.pf = pf[p] /\ d.queue = rest
    BY Zenon
<1>7. d \in [pf : [state : {"DISCONNECTED", "CONNECTED", "ERROR"}, bytesSinceLastPing : Nat],
             queue : Seq(Message)]
    BY <1>1, <1>5, Zenon DEF TypedChannel
<1>8. pf[p].state # "DISCONNECTED"
    BY <1>1, <1>2, Zenon DEF Beginning
<1>9. 1 \in DOMAIN q /\ (q[1].ev = "PING" => q[1].count \in Nat)
    BY <1>1, <1>2 DEF TypedChannel
<1> HIDE DEF d, q, new
<1>10. CASE new = from
  <2>1. TypedChannel(d, new)
    BY <1>1, <1>5, <1>6, <1>7, <1>10 DEF TypedChannel
  <2>2. ASSUME p \in Honest
        PROVE  OnePing(d, new)
    <3>1. OnePing(c, from)
      BY <1>1, <2>2, Zenon
    <3>2. \A i, j \in DOMAIN rest : rest[i].ev = "PING" /\ rest[j].ev = "PING" => i = j
      BY <1>1, <1>5, <3>1 DEF OnePing
    <3>3. \A i \in DOMAIN rest : i + 1 \in DOMAIN c.queue /\ rest[i] = c.queue[i + 1]
      BY <1>1, <1>5, Zenon
    <3>4. d.pf = c.pf /\ d.queue = rest
      BY <1>1, <1>6, Zenon
    <3> HIDE DEF c, from
    <3> QED
      BY <1>10, <3>1, <3>2, <3>3, <3>4 DEF OnePing
  <2> QED
    BY <1>3, <1>4, <1>6, <1>8, <2>1, <2>2, Zenon DEF ChannelInv, Beginning, new
<1>11. CASE new = Append(from, pong) /\ q[1].ev = "PING"
  <2> DEFINE n == Len(from)
  <2>1. pong \in Message /\ pong.ev = "PONG" /\ pong.count = q[1].count
    BY <1>9, <1>11, PlainMessages, Zenon
  <2> HIDE DEF pong
  <2>2. /\ n \in Nat /\ new \in Seq(Message) /\ DOMAIN new = 1 .. n + 1 /\ new[n + 1] = pong
        /\ \A i \in 1 .. n : new[i] = from[i]
        /\ DOMAIN from = 1 .. n
    BY <1>2, <1>11, <2>1
  <2> HIDE DEF n
  <2>3. TypedChannel(d, new)
    <3>1. \A i \in DOMAIN d.queue : d.queue[i].ev = "PING" => d.queue[i].count \in Nat
      <4>1. \A i \in DOMAIN q : q[i].ev = "PING" => q[i].count \in Nat
        BY <1>1 DEF TypedChannel
      <4> QED
        BY <1>5, <1>6, <4>1
    <3>2. \A i \in 1 .. n : new[i].ev = "PONG" => new[i].count \in Nat
      BY <1>1, <2>2, Zenon DEF TypedChannel
    <3>3. new[n + 1].count \in Nat
      BY <1>9, <1>11, <2>1, <2>2, Zenon
    <3>4. \A i \in DOMAIN new : i \in 1 .. n \/ i = n + 1
      BY <2>2
    <3>5. \A i \in DOMAIN new : new[i].ev = "PONG" => new[i].count \in Nat
      BY <3>2, <3>3, <3>4, Zenon
    <3> QED
      BY <1>7, <2>2, <3>1, <3>5, Zenon DEF TypedChannel
  <2>4. ASSUME p \in Honest
        PROVE  OnePing(d, new)
    <3>1. OnePing(c, from)
      BY <1>1, <2>4, Zenon
    <3>2. \A i \in DOMAIN rest : rest[i].ev # "PING"
      BY <1>1, <1>5, <1>9, <1>11, <3>1 DEF OnePing
    <3>3. \A i \in DOMAIN from : from[i].ev # "PONG"
      BY <1>1, <1>9, <1>11, <3>1, Zenon DEF OnePing
    <3>4. pong.count <= pf[p].bytesSinceLastPing /\ PingAt <= pf[p].bytesSinceLastPing
      BY <1>1, <1>9, <1>11, <2>1, <3>1, Zenon DEF OnePing
    <3>5. \A i \in DOMAIN new : new[i].ev = "PONG" => i = n + 1
      BY <2>2, <3>3
    <3>6. pf[p].state # "ERROR"
      BY <1>1, <3>1, Zenon DEF OnePing
    <3> QED
      BY <1>6, <2>2, <3>2, <3>4, <3>5, <3>6, Zenon DEF OnePing
  <2> QED
    BY <1>3, <1>4, <1>6, <1>8, <2>3, <2>4, Zenon DEF ChannelInv, Beginning, new
<1> QED
    BY <1>3, <1>10, <1>11, Zenon DEF new

-----------------------------------------------------------------------------
(* The handlers of the emitter. *)

(* Channels after a handler: each is in order with what is then on its way  *)
(* from its pathfinder, and that of a pathfinder in error is as it was.     *)
InOrder(channels, from) ==
    \A q \in Pathfinders :
        /\ ChannelInv(q, channels[q], from[q])
        /\ pf[q].state = "ERROR" => channels[q] = Channel(q)

(* A message to everybody keeps the channels in order. *)
LEMMA BroadcastInOrder ==
    ASSUME NEW channels, NEW from, InOrder(channels, from),
           NEW msg, Plain(msg), NEW size \in Nat \ {0}
    PROVE  InOrder(Broadcast(channels, msg, size), from)
<1> SUFFICES ASSUME NEW q \in Pathfinders
             PROVE  /\ ChannelInv(q, Broadcast(channels, msg, size)[q], from[q])
                    /\ pf[q].state = "ERROR" => Broadcast(channels, msg, size)[q] = Channel(q)
    BY Zenon DEF InOrder
<1>1. Broadcast(channels, msg, size)[q] = sendToPathfinder(channels[q], msg, size)
    BY Zenon DEF Broadcast
<1>2. ChannelInv(q, channels[q], from[q]) /\ (pf[q].state = "ERROR" => channels[q] = Channel(q))
    BY Zenon DEF InOrder
<1>3. /\ ChannelInv(q, sendToPathfinder(channels[q], msg, size), from[q])
      /\ channels[q].pf.state # "CONNECTED"
             => sendToPathfinder(channels[q], msg, size) = channels[q]
    BY <1>2, SendInv
<1>4. pf[q].state = "ERROR" => channels[q].pf.state # "CONNECTED"
    BY <1>2 DEF Channel
<1> QED
    BY <1>1, <1>2, <1>3, <1>4, Zenon

(* One channel of a pathfinder not in error changes, the others stay. *)
LEMMA WithInOrder ==
    ASSUME Inv, NEW p \in Pathfinders, NEW c, NEW from,
           ChannelInv(p, c, from[p]), pf[p].state # "ERROR",
           \A q \in Pathfinders : q # p => from[q] = fromPf[q]
    PROVE  InOrder(With(p, c), from)
    BY Zenon DEF InOrder, With, Inv

(* What the handler of an event makes of the channels, when the message is  *)
(* the first one from p.                                                    *)
LEMMA AnswersInOrder ==
    ASSUME Inv, NEW p \in Pathfinders, fromPf[p] # <<>>, Taken(p, fromPf[p][1].ev),
           NEW from, from = [fromPf EXCEPT ![p] = Tail(@)]
    PROVE  /\ fromPf[p][1].ev = "CONNECT" => InOrder(ConnectAnswer(p), from)
           /\ InOrder(SuperiorityAnswer(p), from)
           /\ fromPf[p][1].ev = "PING" => InOrder(PingAnswer(p), from)
           /\ fromPf[p][1].ev = "PONG" => InOrder(PongAnswer(p, fromPf[p][1].count), from)
           /\ fromPf[p][1].ev = "PATHFINDERS" => InOrder(PathfindersAnswer(p), from)
           /\ fromPf[p][1].ev = "PEERS" => \A n \in 0 .. MaxAnswers, size \in Sizes :
                  InOrder(HandlersAnswer(p, n, size), from)
<1> DEFINE c == Channel(p)
           ev == fromPf[p][1].ev
<1>1. c.pf = pf[p] /\ c.queue = toPf[p]
    BY Zenon DEF Channel
<1>2. ChannelInv(p, c, fromPf[p]) /\ ChannelInv(p, c, Tail(fromPf[p]))
    BY TakenInv, Zenon DEF Inv
<1>3. /\ from[p] = Tail(fromPf[p])
      /\ \A q \in Pathfinders : q # p => from[q] = fromPf[q]
    BY Zenon DEF Inv
<1>4. pf[p].state # "ERROR" /\ (ev # "CONNECT" => pf[p].state = "CONNECTED")
    BY Zenon DEF Taken
<1>5. /\ Plain(Event("CORE")) /\ Plain(Event("Pathfinder_PING"))
      /\ Plain(About("PATHFINDER", p)) /\ Plain(About("PATHFINDER_GONE", p))
    BY PlainMessages, Zenon DEF Plain, Events
<1>6. ev = "CONNECT" => InOrder(ConnectAnswer(p), from)
  <2>1. ChannelInv(p, sendToPathfinder([c EXCEPT !.pf.state = "CONNECTED"],
                                       Event("CONNECT"), 1), from[p])
    BY <1>1, <1>2, <1>3, <1>4, ConnectInv, Zenon
  <2> QED
    BY <1>3, <1>4, <2>1, WithInOrder, Zenon DEF ConnectAnswer
<1>7. InOrder([q \in Pathfinders |-> Channel(q)], from)
    BY <1>2, <1>3, Zenon DEF InOrder, Inv
<1>8. InOrder(SuperiorityAnswer(p), from)
    BY <1>5, <1>7, BroadcastInOrder DEF SuperiorityAnswer
<1>9. ev = "PING" => InOrder(PingAnswer(p), from)
  <2>1. ASSUME ev = "PING"
        PROVE  ChannelInv(p, [c EXCEPT !.queue = Append(@, Event("Pathfinder_PING"))], from[p])
    BY <1>1, <1>2, <1>3, <1>4, <1>5, <2>1, PingBackInv, Zenon
  <2> QED
    BY <1>3, <1>4, <2>1, WithInOrder, Zenon DEF PingAnswer
<1>10. ev = "PONG" => InOrder(PongAnswer(p, fromPf[p][1].count), from)
  <2> SUFFICES ASSUME ev = "PONG"
               PROVE  InOrder(PongAnswer(p, fromPf[p][1].count), from)
    BY Zenon
  <2> DEFINE k == fromPf[p][1].count
  <2>1. /\ k > pf[p].bytesSinceLastPing =>
               ChannelInv(p, [c EXCEPT !.pf.state = "ERROR"], from[p])
        /\ k <= pf[p].bytesSinceLastPing =>
               ChannelInv(p, [c EXCEPT !.pf.bytesSinceLastPing = @ - k], from[p])
    <3>1. c.pf.state = "CONNECTED"
      BY <1>1, <1>4, Zenon
    <3>2. /\ k > c.pf.bytesSinceLastPing =>
                 ChannelInv(p, [c EXCEPT !.pf.state = "ERROR"], Tail(fromPf[p]))
          /\ k <= c.pf.bytesSinceLastPing =>
                 ChannelInv(p, [c EXCEPT !.pf.bytesSinceLastPing = @ - k], Tail(fromPf[p]))
      BY <1>2, <3>1, PongInv, Zenon
    <3> HIDE DEF c, k
    <3> QED
      BY <1>1, <1>3, <3>2, Zenon
  <2>2. k \in Nat /\ pf[p].bytesSinceLastPing \in Nat
    <3>1. fromPf[p] \in Seq(Message) /\ 1 \in DOMAIN fromPf[p]
      BY DEF Inv
    <3> QED
      BY <1>1, <1>2, <3>1, Zenon DEF ChannelInv, TypedChannel
  <2> HIDE DEF k
  <2>3. CASE k > pf[p].bytesSinceLastPing
    <3> DEFINE e == [c EXCEPT !.pf.state = "ERROR"]
    <3>1. InOrder(With(p, e), from)
      BY <1>3, <1>4, <2>1, <2>3, WithInOrder, Zenon
    <3>2. PongAnswer(p, k) = Broadcast(With(p, e), About("PATHFINDER_GONE", p), 1)
      BY <2>3, Zenon DEF PongAnswer
    <3> HIDE DEF e
    <3> QED
      BY <1>5, <3>1, <3>2, BroadcastInOrder DEF k
  <2>4. CASE k <= pf[p].bytesSinceLastPing
    <3> DEFINE e == [c EXCEPT !.pf.bytesSinceLastPing = @ - k]
    <3>1. InOrder(With(p, e), from)
      BY <1>3, <1>4, <2>1, <2>4, WithInOrder, Zenon
    <3>2. PongAnswer(p, k) = With(p, e)
      BY <2>2, <2>4 DEF PongAnswer
    <3> QED
      BY <3>1, <3>2, Zenon DEF k
  <2> QED
    BY <2>2, <2>3, <2>4
<1>11. InOrder(PathfindersAnswer(p), from)
  <2>1. IsFiniteSet(Connected)
    BY EmitterAssumption, FS_Subset, Zenon DEF Connected
  <2>2. Cardinality(Connected) \in Nat
    BY <2>1, FS_CardinalityType, Zenon
  <2>3. ChannelInv(p, SendEach(c, Cardinality(Connected), About("PATHFINDER", p), 1), from[p])
    BY <1>2, <1>3, <1>5, <2>2, SendEachInv
  <2> QED
    BY <1>3, <1>4, <2>3, WithInOrder, Zenon DEF PathfindersAnswer
<1>12. ASSUME NEW n \in 0 .. MaxAnswers, NEW size \in Sizes
       PROVE  InOrder(HandlersAnswer(p, n, size), from)
  <2>1. n \in Nat /\ size \in Nat \ {0}
    BY EmitterAssumption
  <2>2. ChannelInv(p, SendEach(c, n, Event("CORE"), size), from[p])
    BY <1>2, <1>3, <1>5, <2>1, SendEachInv, Zenon
  <2> QED
    BY <1>3, <1>4, <2>2, WithInOrder, Zenon DEF HandlersAnswer
<1> QED
    BY <1>6, <1>8, <1>9, <1>10, <1>11, <1>12, Zenon

(* Channels in order become a state in order. *)
LEMMA BecomeInv ==
    ASSUME Inv, running' = running, NEW channels, Become(channels),
           fromPf' \in [Pathfinders -> Seq(Message)], InOrder(channels, fromPf')
    PROVE  /\ Inv'
           /\ \A q \in Pathfinders : pf[q].state = "ERROR" =>
                  pf'[q] = pf[q] /\ toPf'[q] = toPf[q]
<1>1. /\ DOMAIN pf' = Pathfinders /\ DOMAIN toPf' = Pathfinders
      /\ \A q \in Pathfinders : pf'[q] = channels[q].pf /\ toPf'[q] = channels[q].queue
    BY Zenon DEF Become
<1>2. ASSUME NEW q \in Pathfinders
      PROVE  ChannelInv(q, Channel(q), fromPf[q])'
  <2>1. ChannelInv(q, channels[q], fromPf'[q])
    BY Zenon DEF InOrder
  <2>2. Channel(q)' = channels[q]
    BY <1>1, <2>1, Zenon DEF Channel, ChannelInv, TypedChannel
  <2> QED
    BY <2>1, <2>2, Zenon DEF ChannelInv, Beginning
<1>3. ASSUME NEW q \in Pathfinders, pf[q].state = "ERROR"
      PROVE  pf'[q] = pf[q] /\ toPf'[q] = toPf[q]
  <2>1. channels[q] = Channel(q)
    BY <1>3, Zenon DEF InOrder
  <2> QED
    BY <1>1, <2>1 DEF Channel
<1> QED
    BY <1>1, <1>2, <1>3, Zenon DEF Inv

(* The core's event, and a pathfinder's. *)
LEMMA EmitterSteps ==
    ASSUME Inv, NEW p \in Pathfinders, incomingFromCore \/ incomingFromPathfinder(p)
    PROVE  /\ Inv'
           /\ \A q \in Pathfinders : pf[q].state = "ERROR" =>
                  pf'[q] = pf[q] /\ toPf'[q] = toPf[q]
<1>1. CASE incomingFromCore
  <2> DEFINE all == [q \in Pathfinders |-> Channel(q)]
  <2>1. PICK size \in Sizes : Become(Broadcast(all, Event("CORE"), size))
    BY <1>1, Zenon DEF incomingFromCore
  <2>2. fromPf' = fromPf /\ running' = running
    BY <1>1, Zenon DEF incomingFromCore
  <2>3. InOrder(all, fromPf')
    BY <2>2, Zenon DEF Inv, InOrder
  <2>4. Plain(Event("CORE")) /\ size \in Nat \ {0}
    BY PlainMessages, EmitterAssumption, Zenon DEF Plain, Events
  <2>5. InOrder(Broadcast(all, Event("CORE"), size), fromPf')
    BY <2>3, <2>4, BroadcastInOrder, Zenon
  <2>6. fromPf' \in [Pathfinders -> Seq(Message)]
    BY <2>2, Zenon DEF Inv
  <2> HIDE DEF all
  <2> QED
    BY <2>1, <2>2, <2>5, <2>6, BecomeInv, Zenon
<1>2. CASE incomingFromPathfinder(p)
  <2> DEFINE first == fromPf[p][1]
  <2>1. /\ running' = running /\ fromPf' = [fromPf EXCEPT ![p] = Tail(@)]
        /\ fromPf[p] # <<>> /\ fromPf[p] \in Seq(Message)
    BY <1>2, Zenon DEF incomingFromPathfinder, Inv
  <2>2. Head(fromPf[p]) = first
    BY <2>1
  <2>3. Tail(fromPf[p]) \in Seq(Message)
    BY <2>1
  <2>4. fromPf' \in [Pathfinders -> Seq(Message)]
    BY <2>1, <2>3, Zenon DEF Inv
  <2>5. CASE Taken(p, first.ev)
    <3>1. Handle(p, first)
      BY <1>2, <2>2, <2>5, Zenon DEF incomingFromPathfinder
    <3>2. \E channels : Become(channels) /\ InOrder(channels, fromPf')
      <4> HIDE DEF first
      <4>1. /\ first.ev = "CONNECT" => InOrder(ConnectAnswer(p), fromPf')
            /\ InOrder(SuperiorityAnswer(p), fromPf')
            /\ first.ev = "PING" => InOrder(PingAnswer(p), fromPf')
            /\ first.ev = "PONG" => InOrder(PongAnswer(p, first.count), fromPf')
            /\ first.ev = "PATHFINDERS" => InOrder(PathfindersAnswer(p), fromPf')
            /\ first.ev = "PEERS" => \A n \in 0 .. MaxAnswers, size \in Sizes :
                   InOrder(HandlersAnswer(p, n, size), fromPf')
        BY <2>1, <2>5, AnswersInOrder, Zenon DEF first
      <4> QED
        BY <3>1, <4>1, Zenon DEF Handle
    <3> QED
      BY <2>1, <2>4, <3>2, BecomeInv, Zenon
  <2>6. CASE ~Taken(p, first.ev)
    <3>1. pf' = pf /\ toPf' = toPf
      BY <1>2, <2>2, <2>6, Zenon DEF incomingFromPathfinder
    <3>2. ASSUME NEW q \in Pathfinders
          PROVE  ChannelInv(q, Channel(q), fromPf[q])'
      <4>1. Channel(q)' = Channel(q)
        BY <3>1, Zenon DEF Channel
      <4>2. ChannelInv(q, Channel(q), fromPf'[q])
        BY <2>1, TakenInv, Zenon DEF Inv
      <4> QED
        BY <2>1, <4>1, <4>2, Zenon DEF ChannelInv, Beginning
    <3> QED
      BY <2>1, <2>4, <3>1, <3>2, Zenon DEF Inv
  <2> QED
    BY <2>5, <2>6, Zenon
<1> QED
    BY <1>1, <1>2, Zenon

(* A pathfinder puts a message in its queue: CONNECT as the first, later    *)
(* anything but, in an honest one's case, a pong.                           *)
LEMMA SendKeepsInv ==
    ASSUME Inv, NEW p \in Pathfinders, NEW msg \in Message, Send(p, msg),
           UNCHANGED <<pf, toPf, running>>,
           p \notin running => msg.ev = "CONNECT",
           msg.ev = "PONG" => p \notin Honest /\ msg.count \in Nat
    PROVE  Inv'
<1> DEFINE n == Len(fromPf[p])
           new == Append(fromPf[p], msg)
<1>1. fromPf[p] \in Seq(Message) /\ n \in Nat /\ DOMAIN fromPf[p] = 1 .. n
    BY DEF Inv
<1>2. /\ new \in Seq(Message) /\ DOMAIN new = 1 .. n + 1 /\ new[n + 1] = msg
      /\ \A i \in 1 .. n : new[i] = fromPf[p][i]
    BY <1>1
<1>3. /\ fromPf' = [fromPf EXCEPT ![p] = new]
      /\ pf' = pf /\ toPf' = toPf /\ running' = running
    BY Zenon DEF Send
<1> HIDE DEF n, new
<1>4. ChannelInv(p, Channel(p), new)
  <2> DEFINE c == Channel(p)
  <2>1. /\ TypedChannel(c, fromPf[p]) /\ Beginning(p, c, fromPf[p])
        /\ p \in Honest => OnePing(c, fromPf[p])
    BY Zenon DEF Inv, ChannelInv
  <2> HIDE DEF c
  <2>2. TypedChannel(c, new)
    BY <1>1, <1>2, <2>1 DEF TypedChannel
  <2>3. Beginning(p, c, new)
    BY <1>1, <1>2, <2>1 DEF Beginning
  <2>4. ASSUME p \in Honest
        PROVE  OnePing(c, new)
    <3>1. \A i \in DOMAIN new : new[i].ev = "PONG" =>
              i \in DOMAIN fromPf[p] /\ new[i] = fromPf[p][i]
      BY <1>1, <1>2, <2>4
    <3> QED
      BY <2>1, <2>4, <3>1, Zenon DEF OnePing
  <2> QED
    BY <2>2, <2>3, <2>4, Zenon DEF ChannelInv, c
<1>5. fromPf' \in [Pathfinders -> Seq(Message)] /\ fromPf'[p] = new
    BY <1>2, <1>3, Zenon DEF Inv
<1>6. ASSUME NEW q \in Pathfinders
      PROVE  ChannelInv(q, Channel(q), fromPf[q])'
  <2>1. Channel(q)' = Channel(q)
    BY <1>3, Zenon DEF Channel
  <2>2. ChannelInv(q, Channel(q), fromPf'[q])
    BY <1>3, <1>4, <1>5, Zenon DEF Inv
  <2> QED
    BY <1>3, <2>1, <2>2, Zenon DEF ChannelInv, Beginning
<1> QED
    BY <1>3, <1>5, <1>6, Zenon DEF Inv

(* The actions of the pathfinders. *)
LEMMA PathfinderSteps ==
    ASSUME Inv, NEW p \in Pathfinders,
           \/ init(p)
           \/ \E ev \in Requests[p] : sendEvent(p, ev)
           \/ StrayPong(p)
           \/ incomingFromEventIf(p)
    PROVE  /\ Inv'
           /\ pf' = pf
           /\ \A q \in Pathfinders : Len(toPf'[q]) <= Len(toPf[q])
<1>1. \A q \in Pathfinders : toPf[q] \in Seq(Message)
    BY Zenon DEF Inv, ChannelInv, TypedChannel, Channel
<1>2. toPf' = toPf => \A q \in Pathfinders : Len(toPf'[q]) <= Len(toPf[q])
    BY <1>1
<1>3. CASE init(p)
  <2>1. pf[p].state = "DISCONNECTED" /\ Send(p, Event("CONNECT")) /\ UNCHANGED <<pf, toPf, running>>
    BY <1>3, Zenon DEF init, Unconnected
  <2>2. Event("CONNECT") \in Message /\ Event("CONNECT").ev = "CONNECT"
    BY PlainMessages, Zenon DEF Events
  <2>3. Inv'
    BY <2>1, <2>2, SendKeepsInv, Zenon
  <2> QED
    BY <1>2, <2>1, <2>3, Zenon
<1>4. ASSUME NEW ev \in Requests[p], sendEvent(p, ev)
      PROVE  Inv' /\ pf' = pf /\ toPf' = toPf
  <2>1. p \in running /\ Send(p, Event(ev)) /\ UNCHANGED <<pf, toPf, running>>
    BY <1>4, Zenon DEF sendEvent
  <2>2. ev \in Events /\ ev # "PONG"
    BY EmitterAssumption, Zenon DEF Events
  <2>3. Event(ev) \in Message /\ Event(ev).ev # "PONG"
    BY <2>2, PlainMessages, Zenon
  <2>4. Inv'
    BY <2>1, <2>3, SendKeepsInv, Zenon
  <2> QED
    BY <2>1, <2>4, Zenon
<1>5. CASE StrayPong(p)
  <2>1. /\ p \in running /\ p \notin Honest /\ Send(p, Pong(PingAt))
        /\ UNCHANGED <<pf, toPf, running>>
    BY <1>5, Zenon DEF StrayPong
  <2>2. Pong(PingAt) \in Message /\ Pong(PingAt).count \in Nat
    BY EmitterAssumption, PlainMessages, Zenon
  <2>3. Inv'
    BY <2>1, <2>2, SendKeepsInv, Zenon
  <2> QED
    BY <1>2, <2>1, <2>3, Zenon
<1>6. CASE incomingFromEventIf(p)
  <2>1. /\ pf' = pf /\ toPf' = [toPf EXCEPT ![p] = Tail(@)] /\ toPf[p] # <<>>
        /\ running' = running \cup {p}
    BY <1>6, Zenon DEF incomingFromEventIf
  <2>2. \A q \in Pathfinders : q # p => fromPf'[q] = fromPf[q] /\ toPf'[q] = toPf[q]
    BY <1>6, <2>1, Zenon DEF incomingFromEventIf, Inv
  <2>3. toPf'[p] = Tail(toPf[p])
    BY <2>1, Zenon DEF Inv
  <2>4. ChannelInv(p, Channel(p), fromPf[p])'
    BY <1>6, ReadInv, Zenon
  <2>5. fromPf'[p] \in Seq(Message) /\ DOMAIN fromPf' = Pathfinders
    BY <1>6, <2>4, Zenon DEF ChannelInv, TypedChannel, incomingFromEventIf, Inv
  <2>6. fromPf' \in [Pathfinders -> Seq(Message)]
    <3>1. fromPf' = [q \in Pathfinders |-> fromPf'[q]]
      BY <1>6, Zenon DEF incomingFromEventIf, Inv
    <3>2. \A q \in Pathfinders : fromPf'[q] \in Seq(Message)
      BY <2>2, <2>5, Zenon DEF Inv
    <3> QED
      BY <3>1, <3>2, Zenon
  <2>7. ASSUME NEW q \in Pathfinders
        PROVE  ChannelInv(q, Channel(q), fromPf[q])'
    <3>1. CASE q = p
      BY <2>4, <3>1, Zenon
    <3>2. CASE q # p
      <4>1. Channel(q)' = Channel(q) /\ fromPf'[q] = fromPf[q] /\ (q \in running' <=> q \in running)
        BY <2>1, <2>2, <3>2, Zenon DEF Channel
      <4>2. ChannelInv(q, Channel(q), fromPf[q])
        BY Zenon DEF Inv
      <4> QED
        BY <4>1, <4>2, Zenon DEF ChannelInv, Beginning
    <3> QED
      BY <3>1, <3>2, Zenon
  <2>8. Inv'
    BY <2>1, <2>6, <2>7, Zenon DEF Inv
  <2>9. \A q \in Pathfinders : Len(toPf'[q]) <= Len(toPf[q])
    <3>1. Len(toPf'[p]) <= Len(toPf[p])
      BY <1>1, <2>1, <2>3
    <3> QED
      BY <1>1, <2>2, <3>1
  <2> QED
    BY <2>1, <2>8, <2>9, Zenon
<1> QED
    BY <1>2, <1>3, <1>4, <1>5, <1>6, Zenon

-----------------------------------------------------------------------------
(* The theorems. *)

(* Nobody is connected in the beginning, and nothing is on its way. *)
LEMMA InitInv == EmitterInit => Inv
<1> SUFFICES ASSUME EmitterInit
             PROVE  Inv
    BY Zenon
<1>1. ASSUME NEW p \in Pathfinders
      PROVE  ChannelInv(p, Channel(p), fromPf[p])
  <2> DEFINE c == Channel(p)
  <2>1. /\ c.queue = <<>> /\ c.pf.state = "DISCONNECTED" /\ c.pf.bytesSinceLastPing = 0
        /\ fromPf[p] = <<>> /\ p \notin running
    BY Zenon DEF EmitterInit, Channel
  <2>2. c \in [pf : [state : {"DISCONNECTED", "CONNECTED", "ERROR"}, bytesSinceLastPing : Nat],
               queue : Seq(Message)]
    BY DEF EmitterInit, Channel
  <2> HIDE DEF c
  <2> QED
    BY <2>1, <2>2 DEF ChannelInv, TypedChannel, Beginning, OnePing, c
<1> QED
    BY <1>1 DEF EmitterInit, Inv

(* Every step keeps the channels in order, and that of a pathfinder in      *)
(* error closed.                                                            *)
LEMMA NextInv ==
    ASSUME Inv, [EmitterNext]_emitterVars
    PROVE  /\ Inv'
           /\ \A q \in Pathfinders : pf[q].state = "ERROR" =>
                  pf'[q].state = "ERROR" /\ Len(toPf'[q]) <= Len(toPf[q])
<1>1. \A q \in Pathfinders : Len(toPf[q]) \in Nat
  <2>1. \A q \in Pathfinders : toPf[q] \in Seq(Message)
    BY Zenon DEF Inv, ChannelInv, TypedChannel, Channel
  <2> QED
    BY <2>1
<1>2. CASE UNCHANGED emitterVars
  <2>1. \A q \in Pathfinders : Channel(q)' = Channel(q)
    BY <1>2, Zenon DEF emitterVars, Channel
  <2>2. Inv'
    BY <1>2, <2>1, Zenon DEF Inv, emitterVars, ChannelInv, Beginning
  <2> QED
    BY <1>1, <1>2, <2>2 DEF emitterVars
<1>3. CASE incomingFromCore
  <2>1. CASE Pathfinders = {}
    BY <1>3, <2>1, Zenon DEF incomingFromCore, Become, Inv
  <2>2. CASE Pathfinders # {}
    BY <1>1, <1>3, <2>2, EmitterSteps
  <2> QED
    BY <2>1, <2>2, Zenon
<1>4. ASSUME NEW p \in Pathfinders, incomingFromPathfinder(p)
      PROVE  /\ Inv'
             /\ \A q \in Pathfinders : pf[q].state = "ERROR" =>
                    pf'[q].state = "ERROR" /\ Len(toPf'[q]) <= Len(toPf[q])
    BY <1>1, <1>4, EmitterSteps
<1>5. ASSUME NEW p \in Pathfinders,
             \/ init(p)
             \/ \E ev \in Requests[p] : sendEvent(p, ev)
             \/ StrayPong(p)
             \/ incomingFromEventIf(p)
      PROVE  /\ Inv'
             /\ \A q \in Pathfinders : pf[q].state = "ERROR" =>
                    pf'[q].state = "ERROR" /\ Len(toPf'[q]) <= Len(toPf[q])
    BY <1>5, PathfinderSteps, Zenon
<1> QED
    BY <1>2, <1>3, <1>4, <1>5, Zenon DEF EmitterNext

(* The channels are in order, always. *)
THEOREM Invariance == EmitterSpec => []Inv
<1>1. Inv /\ [EmitterNext]_emitterVars => Inv'
    BY NextInv, Zenon
<1> QED
    BY <1>1, InitInv, PTL DEF EmitterSpec

(* ConnectFirst: the first event that any pathfinder gets is the answer to  *)
(* its CONNECT.                                                             *)
THEOREM AnswerFirst == EmitterSpec => []ConnectFirst
<1>1. Inv => ConnectFirst
  <2> SUFFICES ASSUME Inv, NEW p \in Pathfinders \ running, toPf[p] # <<>>
               PROVE  Head(toPf[p]).ev = "CONNECT"
    BY Zenon DEF ConnectFirst
  <2>1. /\ TypedChannel(Channel(p), fromPf[p]) /\ Beginning(p, Channel(p), fromPf[p])
        /\ Channel(p).queue = toPf[p] /\ Channel(p).pf = pf[p]
    BY Zenon DEF Inv, ChannelInv, Channel
  <2>2. toPf[p] \in Seq(Message) /\ toPf[p][1].ev = "CONNECT"
    BY <2>1, Zenon DEF TypedChannel, Beginning
  <2> QED
    BY <2>2
<1> QED
    BY <1>1, Invariance, PTL

(* HonestNeverErrs: a pathfinder that answers pings as it should is never   *)
(* taken for one in error, whatever the sizes of messages and however late  *)
(* the pongs are, and no count passes below zero.                           *)
THEOREM HonestStay == EmitterSpec => []HonestNeverErrs
<1>1. Inv => HonestNeverErrs
  <2> SUFFICES ASSUME Inv
               PROVE  HonestNeverErrs
    BY Zenon
  <2>1. \A p \in Pathfinders : Channel(p).queue = toPf[p] /\ Channel(p).pf = pf[p]
    BY Zenon DEF Channel
  <2>2. ASSUME NEW p \in Honest
        PROVE  /\ pf[p].state # "ERROR"
               /\ \A x, y \in UnderWay(p) : x = y
               /\ \A i \in PingsTo(p) : toPf[p][i].count <= pf[p].bytesSinceLastPing
               /\ \A i \in PongsFrom(p) : fromPf[p][i].count <= pf[p].bytesSinceLastPing
    <3>1. p \in Pathfinders /\ OnePing(Channel(p), fromPf[p])
      BY EmitterAssumption, Zenon DEF Inv, ChannelInv
    <3>2. /\ \A i, j \in PingsTo(p) : i = j
          /\ \A i, j \in PongsFrom(p) : i = j
          /\ PingsTo(p) = {} \/ PongsFrom(p) = {}
      BY <2>1, <3>1 DEF OnePing, PingsTo, PongsFrom
    <3>3. \A x, y \in UnderWay(p) : x = y
      BY <3>2 DEF UnderWay
    <3> QED
      BY <2>1, <3>1, <3>3, Zenon DEF OnePing, PingsTo, PongsFrom
  <2>3. \A p \in Pathfinders : pf[p].bytesSinceLastPing >= 0
    BY <2>1 DEF Inv, ChannelInv, TypedChannel
  <2> QED
    BY <2>2, <2>3, Zenon DEF HonestNeverErrs
<1> QED
    BY <1>1, Invariance, PTL

(* GoneForGood: a pathfinder in error stays there and is sent nothing more. *)
THEOREM GoneStayGone == EmitterSpec => GoneForGood
<1>1. Inv /\ [EmitterNext]_emitterVars =>
         [\A p \in Pathfinders : pf[p].state = "ERROR" =>
             /\ pf'[p].state = "ERROR"
             /\ Len(toPf'[p]) <= Len(toPf[p])]_emitterVars
    BY NextInv, Zenon
<1> QED
    BY <1>1, Invariance, PTL DEF EmitterSpec, GoneForGood
=============================================================================
