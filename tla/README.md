# A TLA+ verification of the HyperboriaNS (cjdns) core

This directory models the part of the repository that makes a mesh network out
of links: the cryptographic sessions between nodes, the switch that forwards
packets along labels, the controllers that keep peers and sessions, and the bus
that connects them to the pathfinders, with the searches and the routing tree
of the pathfinder and the memory and the pipes underneath. TLC checks each
model on small instances; TLAPS proves the central facts about ten of them
(section 4) for every value of their constants.

Paths below are relative to `src/`. `PROJECT.json` has, for each definition,
the lines it translates (`map`), the runs, one mutant of the code for each
checked property, the hazards and the theorems.

## 1. The system

A node is one process with one event loop. Handlers run to completion; nothing
preempts them. What makes it hard is therefore not threads but the order of
events: packets of an unreliable network, timers, calls of the administrator
and messages of pathfinders, which may live in another process.

| Part | Source | State | Operations |
|---|---|---|---|
| Replay window | `crypto/ReplayProtector.h` | bitfield, base, counters | `checkNonce` |
| CryptoAuth | `crypto/CryptoAuth.c` | per session: nonce, roles, temporary keys, shared secret, replay window, time of last packet; users | `encrypt`, `decrypt`, `reset`, `resetIfTimeout`, `newSession`, `setAuth`, `addUser`, `removeUsers` |
| Map | `util/Map.h` | arrays sorted by handle | `put`, `remove`, `indexForKey`, `indexForHandle` |
| Pinger, SwitchPinger | `util/Pinger.c`, `net/SwitchPinger.c` | outstanding pings, their count, fields of the last message | `newPing`, the deferred send, the response, the timeout, cancellation |
| EventEmitter | `net/EventEmitter.c`, `wire/PFChan.h` | per pathfinder: state and bytes since the last ping | events of the core, events of a pathfinder, registration |
| Labels | `switch/NumberCompress.h`, `LabelSplicer.h`, `EncodingScheme.c` | none | compress, decompress, splice, unsplice, `routesThrough`, convert |
| SwitchCore | `switch/SwitchCore.c` | interface table | `receiveMessage`, `sendError`, `addInterface`, `removeInterface`, `setInterfaceState` |
| InterfaceController | `net/InterfaceController.c` | peers, map by address, the position of the ping loop | beacon, unexpected packet, dialling, incoming packet, ping response, `iciPing`, `resetPeering`, `disconnectPeer`, PEERS request |
| SessionManager | `net/SessionManager.c` | sessions with ranked paths, buffered packets | packets from inside and from the switch, NODE events, the periodic clean-up |
| ControlHandler | `net/ControlHandler.c` | none that matters here | answers to pings |
| NodeStore | `dht/dhtcore/NodeStore.c`, `Node.c` | nodes, links between them, the tree of best parents | `discoverNode`, `unlinkNodes`, answers, timeouts, eviction |
| Searches | `dht/dhtcore/SearchRunner.c`, `SearchStore.c`, `RumorMill.c` | searches under way, nodes to ask, rumours | start, continue, answer, timeout, cancel, end |
| Pathfinder, rest of the DHT | `dht/` | none of its own that matters here | connection to the core, serialisation |
| Allocator | `memory/Allocator.c` | tree of allocators, adoptions, free jobs | `child`, `free`, `adopt`, `disown`, `onFree`, `cancelOnFree`, `onFreeComplete` |
| Pipe | `util/events/libuv/Pipe.c`, `libuv/src/unix` | a stream, its queue of writes, its watchers | open, connect, send, read, close, free |
| IpTunnel | `tunnel/IpTunnel.c` | the list of tunnels, with the addresses issued | allow, connect, remove, request, answer, poll |
| FramingIface | `interface/FramingIface.c` | the header and the parts of an unfinished message | send, receive a piece |
| Upper layers | `net/UpperDistributor.c`, `net/TUNAdapter.c`, `admin/` | handlers, admin channels | dispatch |
| I/O, text | `interface/`, `util/`, `benc/`, `io/` | devices | packet I/O, formatting |

How they meet: a packet of a user enters SessionManager, which finds or makes a
CryptoAuth session and a path (a label), and goes to SwitchCore; SwitchCore
takes directors off the label and hands the packet to a peer's interface;
InterfaceController encrypts it with the peer's own CryptoAuth session. Both
controllers report to EventEmitter, which passes the events to pathfinders;
these answer with NODE events, which they know from NodeStore and from the
searches. SwitchPinger measures peers and routes. Every object lives in an
allocator, and freeing one frees what hangs on it, devices included: a pipe
closes its handle in a job of its allocator.

The behaviours that are hard to test, and where: handshakes that cross, are
repeated or meet old packets (CryptoAuth); windows that slide under late
packets (ReplayProtector); pongs that race timeouts or come from an earlier
life (Pinger); a map that shrinks under the loop which walks it
(InterfaceController); a byte-counted acknowledgement over an asynchronous pipe
(EventEmitter); labels at their longest and directors of different lengths
(labels, SwitchCore); metrics that age between rankings and packets that wait
for news (SessionManager); a tree that is repaired while links come and go
(NodeStore); a list of searches that end in any order (SearchRunner); a stream that is cut anywhere
(FramingIface); answers about tunnels that have moved or gone (IpTunnel); memory that is freed while others hold it (Allocator) and from
inside the callbacks of the object that is freed (Pipe). `hazards` in `PROJECT.json` lists them line by line.

## 2. Modules

| Module | Models | Composition |
|---|---|---|
| `ReplayWindow` | one iteration and the loop of `checkNonce` as operators | used by the next two |
| `ReplayProtector` | the window as a state machine, with a history of what was accepted | |
| `CryptoAuth` | two sessions facing each other and the network between them | uses `ReplayWindow` |
| `CryptoAuthProofs` | theorems | extends `CryptoAuth` |
| `CryptoAuthLive` | the same sessions in rounds of time with a bounded number of faults | extends `CryptoAuth` |
| `HandleTable` | what a map with handles promises | abstract |
| `Map` | the sorted array with binary search | shown to implement `HandleTable` |
| `StructuresProofs` | theorems on the replay window, the map (the refinement among them) and the tunnels | extends `ReplayProtector`, `Map` and `IpTunnel` |
| `SwitchPinger` | Pinger under SwitchPinger, and ControlHandler's answers at the other end | its table is the `HandleTable` |
| `SwitchPingerProofs` | theorems | extends `SwitchPinger` |
| `EventEmitter` | the emitter and the pathfinders' end of it, joined by queues | composes `EventEmitter.c`, `ASynchronizer.c`, `Pathfinder.c` |
| `EventEmitterProofs` | theorems | extends `EventEmitter` |
| `SwitchLabels` | label arithmetic as operators | used by the next two |
| `RouteLabels` | routes put together hop by hop, against the list of their hops | |
| `SwitchCore` | a network of switches, a packet and its answer | composes switches with the reply of `ControlHandler.c` and `SessionManager.c` |
| `SwitchCoreProofs` | theorems, with the arithmetic of labels they rest on | extends `SwitchCore` |
| `AllocatorOps` | the calls of `Allocator.c` as operators on a heap | used by the next two |
| `Allocator` | a heap under callers that keep to the rules of `Allocator.h`, with a record of who holds what; what a free job itself does to the heap is left to `Pipe` | |
| `Pipe` | one pipe, its user and the event loop | composes `Pipe.c` with libuv's streams and the allocator tree |
| `NodeStore` | the graph of links and the tree of best parents | |
| `SearchRunner` | concurrent searches, the pings that carry them, the rumour mill | composes `SearchRunner.c`, `SearchStore.c`, `RumorMill.c` and the pings of `RouterModule.c` |
| `SearchRunnerProofs` | theorems | extends `SearchRunner` |
| `InterfaceController` | the peers of an interface | CryptoAuth sessions by their state |
| `InterfaceControllerProofs` | theorems | extends `InterfaceController` |
| `SessionManager` | sessions, paths, buffer | CryptoAuth sessions by their state |
| `SessionManagerProofs` | theorems | extends `SessionManager` |
| `FramingIface` | both ends of a framed stream, cut into any pieces | |
| `IpTunnel` | the tunnels of a node, requests and answers under way, and which packets pass | |

`MC*.tla` fix the constants of a model for TLC. `MCStructures` runs the seven
sequential structures that share no state (`ReplayProtector`, `Map`,
`RouteLabels`, `Allocator`, `NodeStore`, `FramingIface`, `IpTunnel`) side by
side: `part` says which of them moves, and a property of one of them is stated for the behaviours in which it
does.

### How state and actions correspond to the code

*Names* are the source's wherever TLA+ allows it; an action carries the name of
the function it translates and contains everything the function does, calls
included. Where a function branches into different kinds of work it is split
into actions or operators named for the branch (`decryptHandshake`,
`FinalStep`, `Run` of `CryptoAuth_decrypt`; `SendUser` and `SendDht` of
`incomingFromInsideIf`). An operator named in a comment "Mutant of ..." is a
plausible bug and is used by nothing in the model.

*Cryptography* is symbolic. A shared secret is the set of the two keys it is
made of; a packet records the secret that seals it and opens under exactly that
one; what a hash of a password proves is that the password is the same. A
temporary key is the owner and a number.

*The network* of `CryptoAuth` is the set of all packets ever sent: any may
arrive at any time, any number of times, or never. That is loss, repetition and
reordering at once. `CryptoAuthLive` has real delivery instead, in rounds, so
that time and convergence can be told.

*Callbacks.* Where the code calls back into its user, what the user may do there
is an action of its own that is only possible while the callback is on the
stack: `frame` of `Pipe` says which callback that is, and the event loop waits
until there is none. Callbacks that only record are part of the action, and so
is the janitor's callback of a search: when a request times out it frees the
search in the middle of `searchCallback`, which then goes on with it
(`FreedAndStepped` of `SearchRunner`). Such a search has left the list, its
requests and its timer are gone, but its memory stays, and a request that it
makes now hangs on an allocator that has run its jobs: it goes on as an
`orphan`.

*Memory.* `AllocatorOps` follows `Allocator__free` through the tree, pivoting to
an adopting parent included, and runs the jobs in the code's order; whether an
allocator's memory still exists is all that is kept of it. Assertions of the
code that the model can reach are states of their own (`failed`, `hung`), never
a guard that would hide them.

*Integers.* Labels are numbers below `2^LabelBits` and are shifted and reversed
as such; LabelBits is 24 in the runs, 64 in the code, and every operator takes
it as a parameter. Interface numbers, forms and prefixes are the code's. Nonces
and handles have their own limit (`NonceLimit`, `HandleMod`) where it matters.
The replay window knows where an `int` ends (`IntLimit`): the length of a jump
is a `uint32_t` that `lostInShift` takes for an `int`, and where that is
negative the shift is by more than the width, which C leaves undefined; `stray`
is any set of bits.

*Time* is counted in ticks. Only the order of thresholds is kept, and that
between neighbouring thresholds there is at least one tick.

*External* to the repository are: another program behind a
pathfinder's interface (`StrayPong` of `EventEmitter`), and the network and the
clock of `CryptoAuthLive` (`Round`, `Lose`, `HoldBack`, `ArriveLate`). So is
the stream under `FramingIface` (`Arrive`).

## 3. Runs

All runs pass except `peering_redial`, which exhibits a failing assertion of
the code. States are distinct states.

| Run | What it checks | Bounds | States |
|---|---|---|---|
| `structures`, window | `AtMostOnce`: no nonce is accepted twice. `RecentAdmitted`: an unseen nonce at most `Keep` behind is never refused. `LostExact`: `lostPackets` is exactly what the window passed over, and after a jump that is no `int` off by at most the width. | a window of four bits, 12 nonces, two first bases, an `int` that ends at 6 and a `uint32_t` that ends at 12; a nonce may be so far ahead that the loop runs three times, or that the jump is no `int` | 346,376, all seven parts |
| `structures`, map | `FoundByHandle`: the binary search finds each entry. `HandlesFresh`: refinement of `HandleTable`, in which a handle is never given out again. | four keys, two values, six puts | |
| `structures`, labels | `RoutesExact`: splicing, reading the first hop, `routesThrough` and conversion agree with the list of hops | 24-bit labels, numbers at the boundaries of the three forms | |
| `structures`, allocator | `HeldNotFreed`: an allocator is freed exactly when everybody who made or adopted it has let go. `FreedWhenDone`: memory is released exactly when its jobs are done, each once; all that is not released hangs on the root, and the two lists of an adoption agree. | a root and three more, two adoptions, two jobs, synchronous or not | |
| `structures`, nodes | `PathsSound`: after every call, paths and costs agree with the links, parents lead to ourselves, every link joins nodes of the store, the counters are exact, and the repair comes to rest within its cycles. | three nodes besides ourselves, two of which may be peers and two of which share a bucket; room for two that are no peers; paths of two hops | |
| `structures`, frames | `FramesExact`: exactly the messages whose last byte has arrived come out, whole and in order, up to the first that is too long. | three messages of 0, 1, 4 or 5 bytes, one of which looks like a header, against a limit of 4; any cuts | |
| `structures`, tunnels | `TunnelsExact`: the list is exactly the tunnels made and not removed, each with its node; a packet passes only with an address issued to that node and not withdrawn, or issued by it to us; what is given out is what was configured, or what the node's own answer put in its place. | two nodes, tunnels in both directions with each, four in all; each node answers at any time, asked or not, with any number and any block it has for us, one of them with no bits to match | |
| `search` | `EachShownOnce`: the list of active searches stays whole while they start, end, are cancelled and are freed by their owner in any order, and shows each once. `AskedOnceIfOrdered`: a search whose nodes came in order asks no node twice. `SearchesEnd` (liveness): every search that runs ends. | three searches, all of them in the list at once, the first with an owner that frees it when a request times out; four nodes, one of which answers over two paths, one of the stores in the wrong order, a rumour mill of one | 122,470 |
| `pipe` | `HeldWhileInUse`: what libuv still uses is not released. `CalledBackOnce`: each write is called back once, and what is written leaves in the order sent. `WritesWatched`: a write that waits has a watcher or a pending callback. `FreedGoes` (liveness): a freed pipe goes. | two messages of others and two reads, a queue limit of one | 132,639 |
| `handshake` | `KeysKnown`: the assertions on keys, and that run packets go under the current pair of keys. `NonceNeverReused`: no (secret, role, nonce) is used twice, and no nonce is at the limit. `OppositeRoles`: ends that share keys differ in role. `DeliveredOnce`: no run packet is accepted twice, across resets. | two temporary keys each, so that both ends start over once; bob resets or recreates the session at any time; nonce limit 7; a two-bit window | 813,545 |
| `session_users` | `AuthDemanded`: an end that requires authentication holds only a key that came with the password of a user, and if that user is gone, the key it held when the user went. | one password, users and passwords change at any time, one key each, two ticks of silence | 1,332,072 |
| `handshake_converges` | `Converges`: once faults stop, both ends reach run mode under one secret and stay. | two faults, eight keys, timeouts of 5 and 7 rounds | 288,907 |
| `switch_ping` | `OneEnding`: a ping ends once. `AnswerIsPingedNodes`: one that ends OK was answered by its node. `EveryPingEnds` (liveness) | three pings, two at a time, two labels, right and wrong data, one stray pong | 754,058 |
| `event_channel` | `ConnectFirst`: the first event is the answer to CONNECT. `HonestNeverErrs`: no honest pathfinder is put in error, at most one ping is under way, and the byte count never passes below zero. `GoneForGood`: nothing is queued to an errored pathfinder. | three pathfinders: the internal one, another that answers its pings and one that sends pongs unasked; queues of up to three, counts of one above the ping threshold | 5,213,700 |
| `switching` | `AnswersReachSender`: replies and errors return to the sender over unchanged links. `PacketsEnd` (liveness): no packet circles for ever. `LabelsStay`: no peer's interface number changes while it has one. | three switches with directors of 4, 7 and 10 bits, all labels of up to three hops and more, two table changes at any time | 286,515 |
| `peering` | `TypeOK`: also, pings and map entries belong to live peers and an address has one peer. `ToldOfLivePeers`: the pathfinder hears of every peer that goes or falls silent, except one whose version became incompatible. `DownWhenUnresponsive`: the switch interface of an unresponsive peer is down, and no other's unless its version became incompatible. `SilenceNoticed` (liveness): a silent peer is found. | two addresses, one of a node that is not there, three peers, with the thresholds of silence one tick apart | 452,685 |
| `peering_redial` | `ClosesWhatIsMapped`: the assertions of `closeInterface`. Violated, see section 6. | one address | |
| `sessions` | `BestFirst`: the first path is the best at every moment and no label is there twice. `HeldPacketsPursued`: a packet is held only together with a request, in a buffer within its limit. `UserTrafficAfterSetup`: users' packets go only into sessions that were set up. | two nodes of which one cannot be found, three labels for two places, a buffer of one, two ticks | 56,507 |

Why the bounds are enough. The defects that these properties exclude need two
of a thing, seldom three: two handshakes, two pings at once and a third one
refused, two peers of which one is freed, one path more than fits, one packet
more than the buffer holds. Each bound is the smallest that has them, and for
each property a mutant of the code within the same bounds violates it. The
twelve nonces are three times the width of the window and all that the model's
`uint32_t` has. In the
allocator, three allocators under the root are a chain, or a fork with an
adoption across it. In the node store, three nodes are a cycle that the repair
has to keep out of the tree, and one node more than fits; an instance with two
labels for a second node as well was checked once (224,202 states).
In the stream, a header is longer than the shortest message, so that a piece
ends inside a header, inside a message or holds several. Among four
tunnels an incoming one is put between others, and each direction with a node
may come first. Keys and numbers of tunnels are only compared for equality, and
blocks of addresses only asked what they contain.

Not explored together for their size: passwords or timeouts with two keys on
each side (`handshake` has no timeouts, but a reset by `bob` at any time does
what a timeout there would do), and changes of tables with routes of four and
more hops.

Assumptions about the environment. `peering` assumes that the administrator
does not dial an address that has a peer (`Redial = FALSE`), `peering_redial`
drops it. `event_channel` takes two pathfinders as honest: they answer a ping by
a pong with the content of the ping, as `dht/Pathfinder.c` does. One of them is
that pathfinder, in the core's own process, and when it fails its assertion on
an event that it does not expect (`aborted`) nothing happens any more. `structures`
takes any answer about a tunnel from the nodes it connects to, with the blocks
that the node has configured; two nodes may configure the same. `Allocator`
takes callers that free an allocator once and use nothing that was released.
`pipe` takes senders that free a message's allocator before the pipe is freed
(`SendersLetGo`), and a user that does not free the pipe while it connects
(section 6 on both). The libuv below the pipe may complete, delay or fail any
write, and end or fail any read.

Symmetry is used for the labels of `sessions`, which the code compares for
equality only, and whose run has no liveness property. Deadlock is checked,
except where the model may stop for good: `structures`, `switch_ping` and
`search` when their number of nonces, puts, hops, allocators, pings or searches
is used up, `event_channel` when a count has reached its bound, `pipe` when the
pipe is gone, and `handshake_converges` when both ends agree and no fault is
left. The code has no such ends: they are all ends of a bound, of an object or
of traffic.

### Fairness

- `switch_ping`: weak fairness of the deferred send and the timeout of each
  ping. Both are timers of the event loop, which runs every timer that is due.
- `switching`: weak fairness of switching and of the router's answer. Both are
  direct calls.
- `peering`: weak fairness of `iciPing`, an interval timer.
- `handshake_converges`: weak fairness of the rounds, in which both ends send
  and packets that are not lost arrive: upper layers send again (pings every
  second), and only a bounded number of packets is lost.
- `search`: weak fairness of the timer that continues each search; every
  request re-arms it. Answers are under no fairness: they may never come.
- `pipe`: weak fairness of the return of a callback and of the loop's closing of
  handles. Reads and writes are under none: the other end may stall.

The last two are written with the guards of the actions (`[]<>~guard` or
infinitely many steps), which is weak fairness because the guard is exactly when
the action is possible.

## 4. Proofs

**Replay window** (`StructuresProofs`), for every `Half`, `Keep`,
`MaxNonce` and first base that the assumptions of `ReplayWindow` and
`ReplayProtector` allow, the code's 32, 47, 2^31 and 2^32 - 1 included.

- `Invariance`: `Spec => []Inv`. `AtMostOnce` is not inductive: it says nothing
  of bits. `Inv` adds that the set bits are exactly the accepted nonces from the
  base on, that what the base has passed was accepted or is more than `Keep`
  behind an accepted nonce, and that `lostPackets` is the number of unaccepted
  nonces passed, until a nonce is further ahead than an `int` counts. Then the
  count may be off by the width, and too few nonces are left for that to happen
  again (`LossBounded`), which is why it is not off by more. A step may slide
  the window several times, so it is proved through `Good(w, nonce)`, what `Inv`
  says of an intermediate window, weakened by the nonce that is being checked:
  `Shift` preserves it, the loop ends with the nonce inside, and setting its bit
  restores `Inv`. The count needs the cardinality of intervals and of the
  dropped zero bits, taken from `FiniteSetTheorems`: that masking by a shift to
  the left and counting ones gives it is part of the proof.
- `NeverTwice`, `RecentNeverRefused` and `LossCounted` are the three properties
  of the run, from `Inv`; `LossCounted` also bounds the counter, which is why
  it cannot overflow.

**CryptoAuth sessions** (`CryptoAuthProofs`), for every limit of the nonce,
number of temporary keys and packets, width of the replay window, set of passwords and choice of the ends
that demand authentication or are reset by their owner. From
`CryptoAssumption` (there are two ends, and the limit lies above the handshake)
and `WindowAssumption`.

- `Invariance`: `Spec => []Inv`. None of the properties is inductive: each
  speaks of the present session, and a step compares it with packets that
  earlier sessions sent. `Inv` says
  - of the network (`NetInv`) that an end put a temporary key into hellos or
    into key packets, never into both, and that a run packet is sealed with a
    key of its sender in the role its slot names and a key of the other end in
    the other role;
  - of a session (`SessionInv`) which keys it knows at each stage (`Stages`),
    that its keys were sent in the roles it has them for (`Temps`), that every
    run packet it sent under its present key has a nonce below `nextNonce`
    (`SentBelow`), and that what it accepted under its present key is marked
    in the replay window (`AllMarked`).

  A session that starts over has no temporary key, so the last two hold of it
  for want of packets (`BlankInv`), and the key it generates next is in no
  packet (`SealsAreOld`). `SlideMarks` is what the replay window contributes:
  its loop ends with the nonce inside and loses no mark. `LocalStep` and
  `SendStep` carry `Inv` over a step that changes one session, and over one
  that also adds a packet; the lemmas on the handlers show what they need.
- `AssertionsHold` (`KeysKnown`), `RolesDiffer` (`OppositeRoles`),
  `NoncesFresh` (`NonceNeverReused`) and `NoReplay` (`DeliveredOnce`) follow
  from `Inv`. The roles do because the pair of keys fixes them: a key of an end
  cannot be in its hellos and in its key packets.
- `PasswordsDemanded` (`AuthDemanded`) is inductive over `Inv`: a step leaves
  the other end's key, drops it, or takes it from a packet that passed the
  check of the password (`HerTempFrom`). When a user is removed, `withdrawn`
  notes the key that is held at that moment: no later step can make a key of a
  withdrawn password that of the session.

`Inv` was model-checked on the instances of `handshake` and `session_users`
before it was proved. The ciphers stay symbolic: that a packet sealed with one
secret does not open under another is the model, not a result.

**Switch pings** (`SwitchPingerProofs`), for every number of pings and every
set of labels, data and strays.

- `Invariance`: `Spec => []Inv`. To `OneEnding`, `CountExact` and
  `AnswerIsPingedNodes` the invariant adds that a pong whose handle and cookie
  fit an outstanding ping carries that node's version and key, that no pong
  answers a ping yet to be made, and that no key is left over between
  messages. `NewPingInv`, `SendInv` and `FreeInv` are the three ways a step
  changes the table; the response, the timeout and the cancellation are all
  instances of `FreeInv`.
- `EndsOnce`, `CountsOutstanding` and `AnswersAreGenuine` follow. `CountExact`
  (`outstandingPings` is the size of the table) is proved only; no run repeats it.

The cookie of a ping is its handle in the model: that two random 64-bit cookies
do not coincide is an assumption, not a result.

**Map** (`StructuresProofs`), for every set of keys and values, as long as no handle
has been given out twice (`MaxPuts <= HandleMod`, the code's 2^32 puts; section 6
says what comes after).

- `MapInvariance`: `MapSpec => []MapOrdered`. The search is right only on sorted
  handles, so `MapOrdered` says that handles ascend along the array, are below the number of
  puts, which is what `nextHandle` shows until it wraps, and that a key stands
  once.
- `HandlesFound` (`FoundByHandle`): `indexForHandle` finds every handle that is
  in the map and no other. The search is a recursive function on the width of
  the range; that it has a solution and what it returns is shown by induction
  on the width, through the least width that would fail (`NatLeast`).
- `Refinement`: `MapSpec => Table!Spec`, the map implements `HandleTable`; a
  put of a new key is the table's new entry, a put of an old key and a removal
  are its replacement and removal. `FreshHandles` (`HandlesFresh`) is the same
  as the run states it.

**Tunnels** (`StructuresProofs`), for every set of nodes and addresses, all
blocks issued and offered, any number of connections and any answers.

- `TunnelInvariance`: `TunnelSpec => []TunnelInv`. `TunnelsExact` says of the
  list which connections are in it; `newConnection` moves entries about in the
  middle of a loop, so the invariant is about the list as a permutation: no
  number is there twice, and each entry is a connection made and not removed.
  The loop is a recursive function, whose gap and moved entries are followed
  turn by turn. Of the blocks it says that an outgoing connection has what its
  node offered, an incoming one what it was made with, unless an answer bore
  its number (`replaced`).
- `TunnelsHold` (`TunnelsExact`): what passes is compared with the blocks of the
  connection found, and those are rightful by the invariant.

**Session manager** (`SessionManagerProofs`), for every set of peers, labels and
metrics, every number of paths and all timeouts that `SessionAssumption` allows
(the constants of `Metric.h` in their order, a metric of paths at most
`DEAD_LINK`).

- `Invariance`: `Spec => []Inv`. `BestFirst` is not inductive: `rerankPaths`
  swaps the best path to the front and looks at metrics that age, so `Inv`
  keeps what it needs of the other paths too (`Rankable`): no label stands
  twice, a path without a label looks as bad as can be, none is from the
  future. Metrics age alike, up to one ceiling, so ranked paths stay ranked
  (`AgeingRanked`); `RerankRanks` and `DiscoverRanked` are the steps that touch
  paths, and the handlers are built from them.
- `PathsRanked` (`BestFirst`), `PacketsPursued` (`HeldPacketsPursued`) and
  `UserTrafficWaits` (`UserTrafficAfterSetup`); the last two are action
  properties, proved handler by handler.

**Event channel** (`EventEmitterProofs`), for every finite set of pathfinders,
all sizes of messages and lengths of queues, and any subset of pathfinders that
misbehave, with a ping due no sooner than after two units of bytes
(`EmitterAssumption`; the code waits for 8192 bytes, and the answer to CONNECT
is far shorter).

- `Invariance`: `EmitterSpec => []Inv`. `HonestNeverErrs` is about a pong that
  is yet to come, so `Inv` follows the one ping of an honest pathfinder from
  the emitter's queue to its own: there is one of the two at most, its count is
  at most `bytesSinceLastPing`, and while it is under way the count stays at
  `PingAt` or above, which is why no second ping is due. `Beginning` does the
  same for CONNECT and its answer.
- `AnswerFirst` (`ConnectFirst`), `HonestStay` (`HonestNeverErrs`) and
  `GoneStayGone` (`GoneForGood`, an action property).

**Switches** (`SwitchCoreProofs`), for every network in which at the start no
peer is on two interfaces of a node and none is its own peer
(`SwitchAssumption`), and for labels of 16 to 64 bits.

- `Invariance` and `AnswersReturn` (`AnswersReachSender`), for every set of
  labels that are routes: directors that end at the end bit, within
  `LongestRoute` bits, which is what `LabelSplicer_splice` makes (`IsRoute`;
  TLC confirms it of all labels of the run but the two that are no routes on
  purpose). `Inv` says where a packet is by the list of switches it has passed
  (`Trail`): its label is what remains of the route, with the directors of the
  way back, reversed, above it (`OnItsWay`). Turned round, that is an answer
  with the directors of the way back in front and at least four zeros behind
  them (`OnItsWayBack`); each switch takes its own off (`BackHop`), and at the
  first the label is 0001 with zeros as far as the check of the return path
  looks (`BackHome`). The zeros are the point of the invariant: they are why
  `ReturnPathFits` holds whatever the forms of the directors, and they are what
  the five bits that `LongestRoute` leaves free are for.
- The arithmetic below it: `Bits_bitReverse64` of two pieces is the reversals
  in the other order (`ReverseJoin`) and undoes itself (`ReverseTwice`), by
  induction on the number of bits; a compressed director decompresses to its
  interface, whatever follows it (`Compressed`).
- `LabelsHold` (`LabelsStay`), for any changes of the tables; from the type of
  the tables and the least vacant slot being vacant.

**Peers of an interface** (`InterfaceControllerProofs`), for every number of
peers, all sets of addresses, those that never answer included, and all timeouts in their order
(`ControllerAssumption`), whether addresses are dialled again (`Redial`) or not.

- `Invariance`: `Spec => []Inv`. `DownWhenUnresponsive` is inductive only with
  what is known of the other tables (`Good`): the map leads to live peers and to one
  for an address, pings belong to live peers, a peer's state is one that lasts
  beyond a handler, an interface is down only of a peer that is unresponsive or
  incompatible, and the pathfinder counts on no unresponsive peer and on none
  whose version is unknown. A handler is a sequence of changes to one peer, so
  `Good` is proved of each of those (`TouchGood`, `CloseGood`) and the handlers
  are put together from them. The loop of `iciPing`, which goes on over a map
  that shrinks under it, is a recursive function over the turns left; `ScanGood`
  is its loop invariant, by the least number of turns that would fail.
- `Types` (`TypeOK`) and `DownWhileUnresponsive` (`DownWhenUnresponsive`) follow
  from `Inv`.
- `PathfinderTold` (`ToldOfLivePeers`), an action property. `Later` relates the
  peers before and after each small change: a peer that went was taken back from
  the pathfinder, unless its version is bad. It is transitive, so it holds over
  the loop and over whole handlers.

**Searches** (`SearchRunnerProofs`), for every set of searches and targets, any
finite set of nodes, all stores and answers, and every size of the rumour mill
(`SearchAssumption`: distances are numbers, a path leads to one node, and a
search makes at most as many requests as it has room for, 8 or 20 against 256).

- `Invariance`: `Spec => []Inv`. `EachShownOnce` is about what a walk along
  `nextSearch` shows, and a step changes pointers in the middle of it. `Inv`
  says that there is an order of all running searches, each once, along which
  `firstSearch`, `nextSearch` and the back pointer `thisSearch` lead
  (`Chain`); `ListedAdd` puts a search at its head, `ListedRemove` takes one
  out anywhere. Of each search `Inv` says (`Waiting`) that its pings are for
  nodes it asked and, when its store came in order, that the stack ascends
  towards the target and every node asked is closer than every node still on
  it. An answer may push a node that is closer than all others; between that
  and the request that takes it off, `Ready` holds instead (`AddReady`,
  `AskWaits`). The same is kept of the searches that were freed in the middle
  of a step and go on (`OrphanWaits`).
- `ShownOnce` (`EachShownOnce`): along a chain the walk meets each search at its
  place (`ShownAt`), and there are as many as `searches` counts.
- `AskedOnce` (`AskedOnceIfOrdered`): a node that is asked is not among those
  asked before, since they are closer.

The invariants of the map, of `SessionManagerProofs` and of `EventEmitterProofs`
were model-checked before they were proved. Those of `SwitchCoreProofs` and
`SearchRunnerProofs` speak of some list of switches or searches and are beyond
TLC; the runs check what follows from them.

Only model-checked:

- Liveness, which is out of the prover's reach: `EveryPingEnds`, `PacketsEnd`,
  `SilenceNoticed`, `SearchesEnd`, `FreedGoes` and `Converges`.
- `HeldNotFreed`, `FreedWhenDone` and the invariants of `Pipe`: `Allocator__free`
  walks a tree of any depth, adopting parents included, and `AllocatorOps`
  follows it with recursive operators, in whose reach the prover has no
  arithmetic. The same holds of the repair of the tree (`PathsSound`) and of
  the receiver's loop over a piece of a stream (`FramesExact`).
- `RoutesExact` rests on folds over lists, as the community modules define them.
  What those compute for every list would be an induction with an operator as
  its parameter, which no installed prover can instantiate.

## 5. What is not modelled

- Packet layout, encodings, logging and text; the arithmetic of ciphers and of
  IPv6 addresses; devices and sockets (`interface/`), start-up (`Core.c`,
  `client/`), the operating system (`Seccomp`, `Setuid`).
- Memory outside `Allocator` and `Pipe`: the other models free what the code
  frees, at once. Of the allocator, sizes and the limit, canaries, `realloc` and
  the providers of memory (`MallocAllocator`, `BufferAllocator`).
- Of IpTunnel, the addresses and routes that it sets on the TUN device
  (`addAddress`, `RouteGen.c`): nothing in it reads them. Of FramingIface, the
  descriptors that travel with a message.
- Of libuv, all but streams as a pipe uses them; of a pipe, passing descriptors.
- The convergence of handshakes for timeouts that are shorter than a few round
  trips. With a setup timeout of three or four rounds in `CryptoAuthLive` resets
  on both sides keep crossing; the code's ten seconds are far above that, and
  the run takes five rounds.
- Of NodeStore, the limit on links and the retry of `discoverNode` on paths
  with a wrong label, `renumberMill`, protocol versions, and `fixLink` on links
  of several hops, which `discoverLinkC` does not make. Of `destroyNode`, the
  shortcut of builds without `PARANOIA` (`NodeStore.c:1261`): `configure.ac`
  always defines it. `PathsSound` leaves the assertion on evicted peers open
  (section 6).
- Of searches, what fills a search's answer: any outstanding request may be
  answered with any list of nodes, so nothing is said of searches finding what
  they look for. An administrator may ask for more requests than the ring of
  asked nodes holds, 256; `AskedOnceIfOrdered` is about those with at most as
  many. The rumour mill is part of the model for the sake of what a search and
  the janitor do to it, and no property is about its order.
- Two links between the same two switches from the start. A second one may be
  added by a change of the tables; as links have no names in the model, a packet
  may then arrive over either, which is more than the code does.
  `AnswersReachSender` is about networks without.
- Of the free jobs of `Allocator`, calls into the allocator that is being freed;
  those of `Pipe` are modelled there.
- Of users' packets, those that come with a label of their own
  (`incomingFromInsideIf`), which need no search.
- Of modelled components: `linkState`, sending of beacons and the statistics of
  InterfaceController; control frames, SESSION events and session handles of
  SessionManager; RPATH and GETSNODE of SwitchPinger (no caller makes such
  pings) and of ControlHandler; `SwitchCore_swapInterfaces` (no caller); the other number schemes of
  `NumberCompress.h` (v3x5x8 is the default of `configure.ac`); serialisation
  and sanity of encoding schemes.
- In `InterfaceController.c` the branch at line 527 for peers that were
  unresponsive is never taken, because `UNRESPONSIVE` (-1) is below
  `ESTABLISHED`: the model has the branch that is.

`components` in `PROJECT.json` lists every part with its status.

## 6. Where code and comments differ

One disagreement is checked as a run.

- `peering_redial`: `InterfaceController_bootstrapPeer`
  (`net/InterfaceController.c:981`) puts a peer into `peerMap` without looking
  whether the address has one. `Map_put` replaces the value under the old
  handle, and when the displaced peer is freed `closeInterface` fails its own
  assertions (lines 593 and 594). The counterexample has three steps: a beacon
  makes a peer, its address is dialled, and the node shuts down.

Others were met while modelling. The models follow the code; these are noted
for whoever maintains the comments, or the code.

- `crypto/ReplayProtector.h:45`: `lostInShift` takes the length of a jump as an
  `int`. A nonce 2^31 + 47 or more ahead makes it negative, and the bitfield is
  shifted by more than its width. `lostPackets` is then off by at most 64, which
  can happen once in the life of a window; nothing else depends on it.
- `crypto/CryptoAuth.h:138` says that `requireAuth` "has no effect" if this end
  begins the connection. `decryptHandshake` (`CryptoAuth.c:597`) looks at it in
  every handshake packet, the answer to our own hello included: an end that
  begins takes no key without the password of a user either, which is what
  `AuthDemanded` states, of both ends.
- `util/Map.h:107`: the binary search relies on sorted handles ("we need to
  keep the map sorted", line 134), which holds until the 32-bit handle counter
  wraps. The run `structures` bounds the puts below the wrap.
- `crypto/CryptoAuth.c:881` says that in run mode "no more handshake packets
  will be accepted"; a new hello still is (line 905) and starts over. The
  properties of `handshake` hold nevertheless.
- `net/SwitchPinger.c:393` refuses a ping when the count is above the maximum,
  so that one more than the "maximum number of pings" (line 66) may be
  outstanding.
- `net/SwitchPinger.c:244`: a response, a timeout included, carries the version
  of the last message from any switch; `SwitchPinger.h:68` calls it "the
  version of the node which was pinged". `AnswerIsPingedNodes` states the case
  in which it is: the result OK.
- `net/EventEmitter.c:96`: the byte count is never compared with the limit
  that the comment at line 49 gives it, and once it stays at 8192 or more after
  a pong no ping is sent again.
- `net/EventEmitter.c:270`: each answer to a PATHFINDERS request is about the
  pathfinder that asks, not about the one the loop has reached;
  `wire/PFChan.h:157` promises "all registered pathfinders".
- `net/EventEmitter.c:248`: a pathfinder's PING comes back as it was, not as
  the `PFChan_Core_PONG` of `wire/PFChan.h:131`.
- `dht/Pathfinder.c:459`: the internal pathfinder fails an assertion on the
  events that its switch has no case for: news of another pathfinder, the answer
  to its PATHFINDERS, a second CONNECT. `Core.c` registers no pathfinder but
  this one, so that none comes unless another is plumbed in; `event_channel` has
  others, and the process ends there.
- `switch/NumberCompress.h:304`: `getLabelFor` pads a director without asking
  whether the label has room; `ConvertExact` states that it is right when it
  has.
- `switch/SwitchCore.c:222`: a packet whose `labelShift` is used up is dropped
  without the error packet that the comment at line 116 announces.
- `net/InterfaceController.c:496`: a peer that is ESTABLISHED stays so while
  its session renegotiates, against "EP states track CryptoAuth states".
- `net/InterfaceController.c:232`: nothing is said of a peer whose version has
  become incompatible, its end included; `ToldOfLivePeers` makes that one
  exception.
- `net/SessionManager.c:860`: a session that has timed out since its state was
  read is reset by `readyToSend`, and a buffered user's packet then leaves in a
  handshake message, against "only send dht messages until the session is
  setup" (line 798). `UserTrafficAfterSetup` states that this is the only way.
- `net/SessionManager.c:852`: a NODE event that declares a path dead releases
  the buffered packet along it.
- `net/SessionManager.c:272`: a message over a path known with a better metric
  does not refresh the path's time, by which the session times out;
  `SessionManager.h:65` says the timeout is "guaged off of time of last
  incoming message".
- `net/SessionManager.c:638`: a new packet takes the place of the one that
  waits for the same node; `SessionManager.h:33` has the new one dropped.

- `memory/Allocator.c:689`: the loop of `isAncestorOf` over adopting parents
  never advances, so that the call does not return when the first of them does
  not descend from the allocator asked about (`hung` of
  `Allocator`). Jobs registered on an allocator that is being freed are never
  called.
- `memory/Allocator.h` has an adopted allocator wait for a second
  `Allocator_free` "on the allocator newly returned by this function"; a caller
  that frees an allocator which is already being freed lets go of somebody
  else's hold. `HeldNotFreed` takes callers that do not.
- `util/events/libuv/Pipe.c:136`: "This allocator will hold the message
  allocator in existance after it is freed." It does not when the message's
  allocator is freed after the pipe's. `HeldWhileInUse` is checked for senders
  that let go first, and fails in five steps without (`SendersLetGo = FALSE`).
- `util/events/libuv/Pipe.c`: a pipe that is freed while it connects calls
  `uv_close` twice and meets libuv's assertion on the flags of a closing handle
  (`libuv/src/unix/core.c:81`). TUN pipes set no `onClose`, so that a read error
  leaves the stream open, which libuv asserts against. A message sent from
  `onConnection` while another is buffered would pass it.
- `dht/dhtcore/NodeStore.c:1434`: `discoverNode` asserts that the node it evicts
  is no peer; with four nodes in one bucket, of which all but a peer without
  children are best parents or the best of their bucket, the peer is the worst
  one left (five steps). The runs' three nodes do not reach it.
- `dht/dhtcore/NodeStore.c:388`: `findBestParent` is to be called "on the
  link->child for each of this node's outgoing links"; a node with a usable link
  from one in reach may nevertheless be left without a parent until the next
  event (six steps). `PathsSound` does not say that every node in reach has one.
- `dht/dhtcore/NodeStore.c`, `discoverLinkC`: a path that is known to its end
  never is one hop, so that the branches for a link that is already known and
  for a changed path are not reached.
- `dht/dhtcore/SearchStore.h` says of the next node that it "has not been sent a
  request yet"; a node may be asked twice when the store's nodes were not in
  order of distance ("from farthest to closest", `NodeStore.h:190`), as
  they are ordered by prefix. `AskedOnceIfOrdered` is what holds.
- `dht/dhtcore/SearchRunner.c:106`: `isDuplicateEntry` compares an entry with
  itself, so that of an answer only the last entry is kept. The limit on
  concurrent searches admits one more than its value. `showActiveSearch` returns an empty record where
  `SearchRunner.h:83` promises "null".
- `dht/dhtcore/SearchRunner.h:63`: the callback of a search is called with a
  "NULL response indicating the search is over". A request that times out calls
  it the same way (`RouterModule.c:443`) while the search goes on. The janitor
  then frees the search (`Janitor.c:154`) under `searchCallback`, which asks the
  next node all the same; that request is added to an allocator whose jobs have
  run, and the memory is never released. Each further timeout counts the
  janitor's `searches` down again. `EachShownOnce` and `AskedOnceIfOrdered` hold
  nevertheless.
- `tunnel/IpTunnel.c:81`: an incoming connection "must be lower on the list than
  any outgoing connections". `newConnection` puts it behind the first incoming
  one, and at the end when there is none. Where tunnels in both directions exist
  with one node, `connectionByPubKey` finds only the first in the list: if that
  is the incoming one the answers to our requests are dropped, if the outgoing
  one the node's requests are. `TunnelsExact` does not say that a tunnel comes to
  have addresses.
- `tunnel/IpTunnel.c:484`: an answer that names another connection with its node
  is taken for that one without asking again whether it is outgoing. If it is
  the node's own connection to this one, the block that was issued there gives
  way to the node's (`replaced`); `TunnelsExact` says when.
- `tunnel/IpTunnel.c:628` and `:645` assert that without bits to match the
  address is zero; an answer may bring an address with an allocation of 0 bits,
  and the next packet compared with it fails the assertion (`Fails`). Removing a connection leaves its addresses on the TUN device.
- `interface/FramingIface.c:79`: after the header of a message that is too long
  the receiver takes nothing more for good (builds for testing fail an
  assertion there), and `sendMessage` does not look at the size.

## 7. Plan

Done: the modules of section 2. Next, extending the model:

1. `InterfaceController_bootstrapPeer`'s free job (`InterfaceController.c:901`)
   and the sockets of `interface/` on top of `AllocatorOps`, as `Pipe` is.
2. `UpperDistributor`, `TUNAdapter` and the rest of `ControlHandler`: dispatch
   between handlers, sessions and tunnels.
3. `Janitor` on top of `NodeStore` and `SearchRunner`: maintenance against a
   store that changes under a search.
4. `Admin` (channels with cookies and timeouts), `AverageRoller`, `linkState`.
5. A composition of `InterfaceController` with `SwitchCore`, and an abstract
   channel ("delivered at most once, under one secret") that `CryptoAuth` is
   shown to implement.

Then, proving more:

1. `RouteLabels` (`RoutesExact`, on the arithmetic of `SwitchCoreProofs`), with
   its folds as recursive functions, as the loops of `InterfaceController`,
   `IpTunnel` and `SearchRunner` are.
2. `FramingIface` (`FramesExact`) in the same way, and then `AllocatorOps`.
