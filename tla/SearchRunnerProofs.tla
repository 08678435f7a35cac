------------------------- MODULE SearchRunnerProofs -------------------------
(***************************************************************************)
(* Proofs about the searches: the list of the running ones, and the nodes  *)
(* that each of them asks.                                                 *)
(*                                                                         *)
(* The list is some chain L of all running searches, with the pointers     *)
(* nextSearch and thisSearch along it.  In a search that began in order,   *)
(* what it asked is closer to the target than what it has still to ask, in *)
(* an ascending stack; an answer may put a node on the stack that is       *)
(* closer than all others, which is asked in the same step.  The same is   *)
(* true of a search that was freed in mid-step and goes on.                *)
(***************************************************************************)
EXTENDS SearchRunner, SequenceTheorems, FiniteSetTheorems, WellFoundedInduction, TLAPS

(* The searches of p in the order of L, with r at its head. *)
Chain(r, p, L) ==
    /\ r.searches \in Nat
    /\ L \in [1 .. r.searches -> DOMAIN p]
    /\ \A i, j \in 1 .. r.searches : L[i] = L[j] => i = j
    /\ \A s \in DOMAIN p : \E i \in 1 .. r.searches : L[i] = s
    /\ r.firstSearch = IF r.searches = 0 THEN NULL ELSE L[1]
    /\ \A i \in 1 .. r.searches : p[L[i]].nextSearch = IF i = r.searches THEN NULL ELSE L[i + 1]
    /\ \A i \in 1 .. r.searches : p[L[i]].thisSearch = IF i = 1 THEN First ELSE L[i - 1]

Listed(r, p) ==
    /\ IsFiniteSet(DOMAIN p) /\ Cardinality(DOMAIN p) = r.searches
    /\ \E L : Chain(r, p, L)

NoAddress == [key |-> NULL, path |-> 0]

Record ==
    [target : Target, maxRequests : 1 .. SearchNodes, asked : Seq(Address), pings : SUBSET Nat,
     numFinds : Nat, stack : Seq(Address), lastNodeAsked : Address \cup {NoAddress},
     armed : BOOLEAN, nextSearch : Search \cup {NULL}, thisSearch : Search \cup {First},
     ordered : BOOLEAN]

(* a is closer to the target of q than b. *)
Nearer(q, a, b) == Closer(q.target, a.key, b.key)

Shape(q) ==
    /\ q \in Record
    /\ \A n \in q.pings : n \in DOMAIN q.asked
    /\ q.asked # <<>> => q.lastNodeAsked = Top(q.asked)
    /\ Len(q.asked) <= q.maxRequests

Ascending(q) == \A i, j \in DOMAIN q.stack : i < j => Nearer(q, q.stack[j], q.stack[i])

OnceEach(q) == \A i, j \in DOMAIN q.asked : q.asked[i].key = q.asked[j].key => i = j

(* Between two steps: every node that was asked is closer than the others. *)
Waiting(q) ==
    /\ Shape(q)
    /\ q.ordered => /\ Ascending(q) /\ OnceEach(q)
                    /\ \A i \in DOMAIN q.asked, j \in DOMAIN q.stack : Nearer(q, q.asked[i], q.stack[j])

(* When the next node is asked: the one on top may be a new one. *)
Ready(q) ==
    /\ Shape(q)
    /\ q.ordered => /\ Ascending(q) /\ OnceEach(q)
                    /\ \A i \in DOMAIN q.asked, j \in DOMAIN q.stack :
                           IF j = Len(q.stack) THEN q.asked[i].key # q.stack[j].key
                           ELSE Nearer(q, q.asked[i], q.stack[j])

Inv ==
    /\ Running \subseteq Search /\ DOMAIN phase = Search
    /\ \A s \in Search : phase[s] = "unused" => s \notin Running
    /\ Listed(runner, search)
    /\ \A s \in Running : Waiting(search[s])
    /\ \A s \in DOMAIN orphan : Waiting(orphan[s])

-----------------------------------------------------------------------------
(* Addresses. *)

(* An address is a key with one of its paths, which are positive. *)
LEMMA AddressIs ==
    ASSUME NEW a \in Address
    PROVE  a.key \in Node \cup {Self} /\ a.path \in Paths[a.key]
    BY DEF Address

(* Two addresses with a path in common are addresses of one node. *)
LEMMA SamePath ==
    ASSUME NEW a \in Address, NEW b \in Address, a.path = b.path
    PROVE  a.key = b.key
<1>1. /\ a.key \in DOMAIN Paths /\ a.path \in Paths[a.key]
      /\ b.key \in DOMAIN Paths /\ b.path \in Paths[b.key]
    BY AddressIs, SearchAssumption, Zenon
<1>2. a.key # b.key => Paths[a.key] \cap Paths[b.key] = {}
    BY <1>1, SearchAssumption, Zenon
<1> QED
    BY <1>1, <1>2, Zenon

(* Distances from a target are numbers, so that Nearer is an order. *)
LEMMA NearerOrder ==
    ASSUME NEW q \in Record, NEW a \in Address, NEW b \in Address, NEW c \in Address
    PROVE  /\ Nearer(q, a, b) => a.key # b.key
           /\ Nearer(q, a, b) /\ Nearer(q, b, c) => Nearer(q, a, c)
<1>1. q.target \in Target
    BY Zenon DEF Record
<1>2. /\ a.key \in Node \cup {Self} /\ b.key \in Node \cup {Self} /\ c.key \in Node \cup {Self}
    BY AddressIs, Zenon
<1> DEFINE D(k) == Distance[q.target, k]
<1>3. D(a.key) \in Nat /\ D(b.key) \in Nat /\ D(c.key) \in Nat
    BY <1>1, <1>2, SearchAssumption, Zenon
<1>4. /\ Nearer(q, a, b) <=> D(a.key) < D(b.key)
      /\ Nearer(q, b, c) <=> D(b.key) < D(c.key)
      /\ Nearer(q, a, c) <=> D(a.key) < D(c.key)
    BY Zenon DEF Nearer, Closer
<1> HIDE DEF D
<1>5. a.key = b.key => D(a.key) = D(b.key)
    BY Zenon DEF D
<1> QED
    BY <1>3, <1>4, <1>5

-----------------------------------------------------------------------------
(* One search. *)

(* A record of the type has the parts of the type. *)
LEMMA RecordIs ==
    ASSUME NEW q \in Record
    PROVE  /\ q.target \in Target /\ q.maxRequests \in Nat /\ q.maxRequests <= SearchNodes
           /\ q.asked \in Seq(Address) /\ q.stack \in Seq(Address)
           /\ Len(q.asked) \in Nat /\ DOMAIN q.asked = 1 .. Len(q.asked)
           /\ Len(q.stack) \in Nat /\ DOMAIN q.stack = 1 .. Len(q.stack)
           /\ \A i \in DOMAIN q.asked : q.asked[i] \in Address
           /\ \A i \in DOMAIN q.stack : q.stack[i] \in Address
<1>1. /\ q.target \in Target /\ q.maxRequests \in 1 .. SearchNodes
      /\ q.asked \in Seq(Address) /\ q.stack \in Seq(Address)
    BY Zenon DEF Record
<1>2. SearchNodes \in Nat
  <2>1. {SearchNodes, MillSize} \subseteq Nat \ {0}
    BY SearchAssumption, Zenon
  <2> QED
    BY <2>1, Zenon
<1> QED
    BY <1>1, <1>2

(* A search with a node on its stack asks it. *)
LEMMA AskWaits ==
    ASSUME NEW q, Ready(q), ~Exhausted(q)
    PROVE  /\ Waiting(Ask(q))
           /\ Ask(q).nextSearch = q.nextSearch /\ Ask(q).thisSearch = q.thisSearch
<1> DEFINE v == Ask(q)
           n == Len(q.asked)
           m == Len(q.stack)
           top == q.stack[m]
           rest == Popped(q.stack)
           all == Append(q.asked, top)
<1>1. q \in Record /\ Shape(q)
    BY Zenon DEF Ready, Shape
<1>2. /\ n \in Nat /\ DOMAIN q.asked = 1 .. n /\ m \in Nat /\ DOMAIN q.stack = 1 .. m
      /\ q.asked \in Seq(Address) /\ q.stack \in Seq(Address)
      /\ q.maxRequests \in Nat
      /\ \A i \in DOMAIN q.asked : q.asked[i] \in Address
      /\ \A i \in DOMAIN q.stack : q.stack[i] \in Address
    BY <1>1, RecordIs, Zenon
<1>3. m \in DOMAIN q.stack /\ n < q.maxRequests
  <2>1. q.stack # <<>> /\ ~(n >= q.maxRequests)
    BY Zenon DEF Exhausted
  <2> QED
    BY <1>2, <2>1
<1>4. top \in Address
    BY <1>2, <1>3, Zenon
<1>5. /\ rest \in Seq(Address) /\ DOMAIN rest = 1 .. m - 1
      /\ \A j \in 1 .. m - 1 : j \in DOMAIN q.stack /\ rest[j] = q.stack[j] /\ j < m /\ j # m
    BY <1>2, <1>3 DEF Popped
<1> HIDE DEF rest
<1>6. /\ all \in Seq(Address) /\ Len(all) = n + 1 /\ all[n + 1] = top /\ all # <<>>
      /\ \A i \in 1 .. n : all[i] = q.asked[i]
    BY <1>2, <1>4, AppendProperties
<1>7. DOMAIN all = 1 .. n + 1
    BY <1>2, <1>6
<1> HIDE DEF all, top
<1>8. v = [q EXCEPT !.stack = rest, !.asked = all, !.lastNodeAsked = top,
                    !.pings = q.pings \cup {n + 1}]
    BY <1>1, Zenon DEF Ask, SearchStore_getNextNode, Top, rest, all, top, Record
<1>9. q.pings \cup {n + 1} \in SUBSET Nat
    BY <1>1, <1>2 DEF Record
<1>10. /\ v \in Record /\ v.stack = rest /\ v.asked = all /\ v.lastNodeAsked = top
       /\ v.pings = q.pings \cup {n + 1} /\ v.target = q.target /\ v.ordered = q.ordered
       /\ v.maxRequests = q.maxRequests
       /\ v.nextSearch = q.nextSearch /\ v.thisSearch = q.thisSearch
  <2> DEFINE pings == q.pings \cup {n + 1}
  <2>1. /\ rest \in Seq(Address) /\ all \in Seq(Address) /\ top \in Address /\ pings \in SUBSET Nat
        /\ v = [q EXCEPT !.stack = rest, !.asked = all, !.lastNodeAsked = top, !.pings = pings]
    BY <1>4, <1>5, <1>6, <1>8, <1>9, Zenon
  <2> HIDE DEF pings, v
  <2>2. v \in Record
    BY <1>1, <2>1 DEF Record
  <2>3. /\ v.stack = rest /\ v.asked = all /\ v.lastNodeAsked = top
        /\ v.pings = pings /\ v.target = q.target /\ v.ordered = q.ordered
        /\ v.maxRequests = q.maxRequests
        /\ v.nextSearch = q.nextSearch /\ v.thisSearch = q.thisSearch
    BY <1>1, <2>1 DEF Record
  <2> QED
    BY <2>2, <2>3, Zenon DEF pings
<1> HIDE DEF v
<1>11. Shape(v)
  <2>1. \A p \in v.pings : p \in DOMAIN v.asked
    <3>1. \A p \in q.pings : p \in 1 .. n
      BY <1>1, <1>2, Zenon DEF Shape
    <3> QED
      BY <1>2, <1>7, <1>10, <3>1
  <2>2. v.lastNodeAsked = Top(v.asked)
    BY <1>6, <1>10, Zenon DEF Top
  <2>3. Len(v.asked) <= v.maxRequests
    BY <1>2, <1>3, <1>6, <1>10
  <2> QED
    BY <1>10, <2>1, <2>2, <2>3, Zenon DEF Shape
<1>12. ASSUME v.ordered
       PROVE  /\ Ascending(v) /\ OnceEach(v)
              /\ \A i \in DOMAIN v.asked, j \in DOMAIN v.stack : Nearer(v, v.asked[i], v.stack[j])
  <2>1. /\ Ascending(q) /\ OnceEach(q)
        /\ \A i \in DOMAIN q.asked, j \in DOMAIN q.stack :
               IF j = m THEN q.asked[i].key # q.stack[j].key ELSE Nearer(q, q.asked[i], q.stack[j])
    BY <1>10, <1>12, Zenon DEF Ready
  <2>2. \A a, b : Nearer(v, a, b) <=> Nearer(q, a, b)
    BY <1>10, Zenon DEF Nearer
  <2>3. Ascending(v)
    BY <1>5, <1>10, <2>1, <2>2, Zenon DEF Ascending
  <2>4. \A i \in 1 .. n : all[i].key # top.key
    BY <1>2, <1>3, <1>6, <2>1, Zenon DEF top
  <2>5. OnceEach(v)
    <3> SUFFICES ASSUME NEW i \in 1 .. n + 1, NEW j \in 1 .. n + 1, all[i].key = all[j].key
                 PROVE  i = j
      BY <1>7, <1>10, Zenon DEF OnceEach
    <3>1. (i \in 1 .. n \/ i = n + 1) /\ (j \in 1 .. n \/ j = n + 1)
      BY <1>2
    <3>2. i \in 1 .. n /\ j \in 1 .. n => i = j
      BY <1>2, <1>6, <2>1, Zenon DEF OnceEach
    <3> QED
      BY <1>6, <2>4, <3>1, <3>2, Zenon
  <2>6. ASSUME NEW i \in 1 .. n + 1, NEW j \in 1 .. m - 1
        PROVE  Nearer(q, all[i], rest[j])
    <3>1. i \in 1 .. n \/ i = n + 1
      BY <1>2
    <3>2. i \in 1 .. n => Nearer(q, all[i], rest[j])
      BY <1>2, <1>5, <1>6, <2>1, Zenon
    <3>3. Nearer(q, top, rest[j])
      BY <1>3, <1>5, <2>1, Zenon DEF Ascending, top
    <3> QED
      BY <1>6, <3>1, <3>2, <3>3, Zenon
  <2> QED
    BY <1>5, <1>7, <1>10, <2>2, <2>3, <2>5, <2>6, Zenon
<1> QED
    BY <1>10, <1>11, <1>12, Zenon DEF Waiting, v

(* A search that was freed waits after a step, whether it asks or not. *)
LEMMA OrphanWaits ==
    ASSUME NEW q, Ready(q)
    PROVE  Waiting(OrphanStep(q))
<1>1. CASE ~Exhausted(q)
    BY <1>1, AskWaits, Zenon DEF OrphanStep
<1>2. CASE Exhausted(q)
  <2> DEFINE m == Len(q.stack)
             rest == IF q.stack = <<>> THEN q.stack ELSE Popped(q.stack)
             v == [q EXCEPT !.stack = rest]
  <2>1. q \in Record /\ Shape(q)
    BY Zenon DEF Ready, Shape
  <2>2. m \in Nat /\ DOMAIN q.stack = 1 .. m /\ q.stack \in Seq(Address)
    BY <2>1, RecordIs, Zenon
  <2>3. OrphanStep(q) = v
    BY <1>2, <2>1, Zenon DEF OrphanStep, Record
  <2>4. /\ rest \in Seq(Address) /\ DOMAIN rest \subseteq DOMAIN q.stack
        /\ \A j \in DOMAIN rest : rest[j] = q.stack[j] /\ j # m
    BY <2>2 DEF Popped
  <2> HIDE DEF rest
  <2>5. /\ v \in Record /\ v.stack = rest
        /\ v.target = q.target /\ v.maxRequests = q.maxRequests /\ v.asked = q.asked
        /\ v.lastNodeAsked = q.lastNodeAsked /\ v.ordered = q.ordered /\ v.pings = q.pings
    BY <2>1, <2>4, Zenon DEF Record
  <2> HIDE DEF v, m
  <2>6. Shape(v)
    BY <2>1, <2>5, Zenon DEF Shape
  <2>7. \A a, b : Nearer(v, a, b) <=> Nearer(q, a, b)
    BY <2>5, Zenon DEF Nearer
  <2>8. ASSUME v.ordered
        PROVE  /\ Ascending(v) /\ OnceEach(v)
               /\ \A i \in DOMAIN v.asked, j \in DOMAIN v.stack : Nearer(v, v.asked[i], v.stack[j])
    <3>1. /\ Ascending(q) /\ OnceEach(q)
          /\ \A i \in DOMAIN q.asked, j \in DOMAIN q.stack :
                 j # m => Nearer(q, q.asked[i], q.stack[j])
      BY <2>5, <2>8, Zenon DEF Ready, m
    <3>2. Ascending(v)
      BY <2>4, <2>5, <2>7, <3>1, Zenon DEF Ascending
    <3>3. OnceEach(v)
      BY <2>5, <3>1, Zenon DEF OnceEach
    <3> QED
      BY <2>4, <2>5, <2>7, <3>1, <3>2, <3>3, Zenon
  <2> QED
    BY <2>3, <2>6, <2>8, Zenon DEF Waiting
<1> QED
    BY <1>1, <1>2, Zenon

(* What is Waiting may ask. *)
LEMMA WaitingReady ==
    ASSUME NEW q, Waiting(q)
    PROVE  Ready(q)
<1>1. q \in Record
    BY Zenon DEF Waiting, Shape
<1>2. /\ \A i \in DOMAIN q.asked : q.asked[i] \in Address
      /\ \A j \in DOMAIN q.stack : q.stack[j] \in Address
    BY <1>1, RecordIs, Zenon
<1>3. \A a, b \in Address : Nearer(q, a, b) => a.key # b.key
    BY <1>1, NearerOrder, Zenon
<1> QED
    BY <1>2, <1>3, Zenon DEF Waiting, Ready

(* Timers, the end of a ping and the count of finds do not matter. *)
LEMMA StillWaiting ==
    ASSUME NEW q, Waiting(q), NEW v \in Record,
           v.target = q.target, v.maxRequests = q.maxRequests, v.asked = q.asked, v.stack = q.stack,
           v.lastNodeAsked = q.lastNodeAsked, v.ordered = q.ordered, v.pings \subseteq q.pings
    PROVE  Waiting(v)
<1>1. Shape(v)
    BY Zenon DEF Waiting, Shape
<1>2. \A a, b : Nearer(v, a, b) <=> Nearer(q, a, b)
    BY Zenon DEF Nearer
<1>3. v.ordered => /\ Ascending(v) /\ OnceEach(v)
                   /\ \A i \in DOMAIN v.asked, j \in DOMAIN v.stack :
                          Nearer(v, v.asked[i], v.stack[j])
    BY <1>2, Zenon DEF Waiting, Ascending, OnceEach
<1> QED
    BY <1>1, <1>3, Zenon DEF Waiting

(* A node closer than the one asked last is put on top of the stack, if it  *)
(* was not asked.                                                           *)
LEMMA AddReady ==
    ASSUME NEW q, Waiting(q), NEW a \in Address,
           q.asked # <<>>, Nearer(q, a, Top(q.asked))
    PROVE  /\ Ready(SearchStore_addNodeToSearch(q, a))
           /\ SearchStore_addNodeToSearch(q, a).nextSearch = q.nextSearch
           /\ SearchStore_addNodeToSearch(q, a).thisSearch = q.thisSearch
<1> DEFINE v == SearchStore_addNodeToSearch(q, a)
           n == Len(q.asked)
           low == IF Len(q.stack) < SearchNodes THEN q.stack ELSE Popped(q.stack)
           m == Len(low)
           new == Append(low, a)
<1>1. q \in Record /\ Shape(q)
    BY Zenon DEF Waiting, Shape
<1>2. /\ n \in Nat /\ DOMAIN q.asked = 1 .. n
      /\ Len(q.stack) \in Nat /\ DOMAIN q.stack = 1 .. Len(q.stack)
      /\ q.asked \in Seq(Address) /\ q.stack \in Seq(Address)
      /\ q.maxRequests \in Nat /\ q.maxRequests <= SearchNodes
      /\ \A i \in DOMAIN q.asked : q.asked[i] \in Address
      /\ \A i \in DOMAIN q.stack : q.stack[i] \in Address
    BY <1>1, RecordIs, Zenon
<1>3. n \in 1 .. n /\ n <= SearchNodes /\ SearchNodes \in Nat \ {0}
  <2>1. n <= q.maxRequests /\ SearchNodes \in Nat \ {0}
    BY <1>1, SearchAssumption, Zenon DEF Shape
  <2> QED
    BY <1>2, <2>1
<1>4. CASE a.key \in NodesAsked(q)
  <2>1. v = q
    BY <1>4, Zenon DEF SearchStore_addNodeToSearch
  <2> QED
    BY <2>1, WaitingReady, Zenon
<1>5. CASE a.key \notin NodesAsked(q)
  <2>1. \A i \in 1 .. n : q.asked[i].key # a.key
    <3>1. \A i \in 1 .. n : i > n - SearchNodes
      BY <1>2, <1>3
    <3> QED
      BY <1>2, <1>5, <3>1, Zenon DEF NodesAsked
  <2>2. /\ low \in Seq(Address) /\ m \in Nat /\ DOMAIN low = 1 .. m
        /\ \A i \in 1 .. m : i \in DOMAIN q.stack /\ low[i] = q.stack[i]
    <3>1. CASE Len(q.stack) < SearchNodes
      BY <1>2, <3>1, Zenon
    <3>2. CASE ~(Len(q.stack) < SearchNodes)
      BY <1>2, <1>3, <3>2 DEF Popped
    <3> QED
      BY <3>1, <3>2, Zenon
  <2> HIDE DEF low
  <2>3. /\ new \in Seq(Address) /\ Len(new) = m + 1 /\ new[m + 1] = a
        /\ \A i \in 1 .. m : new[i] = low[i]
    BY <2>2, AppendProperties
  <2>4. DOMAIN new = 1 .. m + 1
    BY <2>2, <2>3
  <2>5. v = [q EXCEPT !.stack = new]
    BY <1>5, Zenon DEF SearchStore_addNodeToSearch, low, new
  <2> HIDE DEF new
  <2>6. /\ v \in Record /\ v.stack = new /\ v.asked = q.asked /\ v.lastNodeAsked = q.lastNodeAsked
        /\ v.pings = q.pings /\ v.target = q.target /\ v.ordered = q.ordered
        /\ v.maxRequests = q.maxRequests
        /\ v.nextSearch = q.nextSearch /\ v.thisSearch = q.thisSearch
    BY <1>1, <2>3, <2>5, Zenon DEF Record
  <2> HIDE DEF v
  <2>7. Shape(v)
    BY <1>1, <2>6, Zenon DEF Shape
  <2>8. \A b, c : Nearer(v, b, c) <=> Nearer(q, b, c)
    BY <2>6, Zenon DEF Nearer
  <2>9. ASSUME v.ordered
        PROVE  /\ Ascending(v) /\ OnceEach(v)
               /\ \A i \in DOMAIN v.asked, j \in DOMAIN v.stack :
                      IF j = Len(v.stack) THEN v.asked[i].key # v.stack[j].key
                      ELSE Nearer(v, v.asked[i], v.stack[j])
    <3>1. /\ Ascending(q) /\ OnceEach(q)
          /\ \A i \in DOMAIN q.asked, j \in DOMAIN q.stack : Nearer(q, q.asked[i], q.stack[j])
      BY <2>6, <2>9, Zenon DEF Waiting
    <3>2. ASSUME NEW j \in 1 .. m
          PROVE  Nearer(q, a, low[j])
      <4>1. Nearer(q, q.asked[n], low[j])
        BY <1>2, <1>3, <2>2, <3>1, Zenon
      <4>2. Nearer(q, a, q.asked[n]) /\ q.asked[n] \in Address /\ low[j] \in Address
        BY <1>2, <1>3, <2>2, Zenon DEF Top
      <4> QED
        BY <1>1, <4>1, <4>2, NearerOrder, Zenon
    <3>3. Ascending(v)
      <4> SUFFICES ASSUME NEW i \in 1 .. m + 1, NEW j \in 1 .. m + 1, i < j
                   PROVE  Nearer(q, new[j], new[i])
        BY <2>4, <2>6, <2>8, Zenon DEF Ascending
      <4>1. i \in 1 .. m /\ (j \in 1 .. m \/ j = m + 1)
        BY <2>2
      <4>2. j \in 1 .. m => Nearer(q, new[j], new[i])
        BY <2>2, <2>3, <3>1, <4>1, Zenon DEF Ascending
      <4>3. j = m + 1 => Nearer(q, new[j], new[i])
        BY <2>3, <3>2, <4>1, Zenon
      <4> QED
        BY <4>1, <4>2, <4>3, Zenon
    <3>4. OnceEach(v)
      BY <2>6, <3>1, Zenon DEF OnceEach
    <3>5. ASSUME NEW i \in 1 .. n, NEW j \in 1 .. m + 1
          PROVE  IF j = m + 1 THEN q.asked[i].key # new[j].key ELSE Nearer(q, q.asked[i], new[j])
      <4>1. j = m + 1 => q.asked[i].key # new[j].key
        BY <2>1, <2>3, Zenon
      <4>2. j # m + 1 => j \in 1 .. m
        BY <2>2
      <4>3. j \in 1 .. m => Nearer(q, q.asked[i], new[j])
        BY <1>2, <2>2, <2>3, <3>1, Zenon
      <4> QED
        BY <4>1, <4>2, <4>3, Zenon
    <3>6. \A i \in 1 .. n, j \in 1 .. m + 1 :
              IF j = m + 1 THEN q.asked[i].key # new[j].key ELSE Nearer(v, q.asked[i], new[j])
      BY <2>8, <3>5, Zenon
    <3>7. DOMAIN v.asked = 1 .. n /\ DOMAIN v.stack = 1 .. m + 1 /\ Len(v.stack) = m + 1
      BY <1>2, <2>3, <2>4, <2>6, Zenon
    <3>8. ASSUME NEW i \in DOMAIN v.asked, NEW j \in DOMAIN v.stack
          PROVE  IF j = Len(v.stack) THEN v.asked[i].key # v.stack[j].key
                 ELSE Nearer(v, v.asked[i], v.stack[j])
      BY <2>6, <3>6, <3>7, Zenon
    <3> QED
      BY <3>3, <3>4, <3>8, Zenon
  <2> QED
    BY <2>6, <2>7, <2>9, Zenon DEF Ready, v
<1> QED
    BY <1>4, <1>5, Zenon

(* An answer: what it adds is closer than its sender, the node asked last. *)
LEMMA ReplyReady ==
    ASSUME NEW u, Waiting(u), NEW n \in DOMAIN u.asked, NEW from \in Address, NEW list \in Answer
    PROVE  /\ Ready(searchReplyCallback(u, from, list))
           /\ searchReplyCallback(u, from, list).nextSearch = u.nextSearch
           /\ searchReplyCallback(u, from, list).thisSearch = u.thisSearch
<1> DEFINE v == searchReplyCallback(u, from, list)
           heard == [u EXCEPT !.armed = @ \/ from.key = u.lastNodeAsked.key,
                              !.numFinds = IF from.key = u.target THEN @ + 1 ELSE @]
           entries == Entries(u, from, list)
<1>1. u \in Record /\ Shape(u)
    BY Zenon DEF Waiting, Shape
<1>2. (u.armed \/ from.key = u.lastNodeAsked.key) \in BOOLEAN
    BY Zenon
<1>3. heard = [u EXCEPT !.armed = (u.armed \/ from.key = u.lastNodeAsked.key),
                        !.numFinds = IF from.key = u.target THEN u.numFinds + 1 ELSE u.numFinds]
    BY <1>1, Zenon DEF Record
<1> DEFINE b == (u.armed \/ from.key = u.lastNodeAsked.key)
           f == IF from.key = u.target THEN u.numFinds + 1 ELSE u.numFinds
<1>4. b \in BOOLEAN /\ f \in Nat
  <2>1. u.numFinds \in Nat
    BY <1>1, Zenon DEF Record
  <2>2. f \in Nat
    BY <2>1
  <2> QED
    BY <1>2, <2>2, Zenon
<1>5. heard = [u EXCEPT !.armed = b, !.numFinds = f]
    BY <1>3, Zenon
<1> HIDE DEF b, f, heard
<1>6. /\ heard \in Record /\ heard.asked = u.asked /\ heard.stack = u.stack
      /\ heard.target = u.target /\ heard.maxRequests = u.maxRequests
      /\ heard.lastNodeAsked = u.lastNodeAsked /\ heard.ordered = u.ordered
      /\ heard.pings = u.pings
      /\ heard.nextSearch = u.nextSearch /\ heard.thisSearch = u.thisSearch
    BY <1>1, <1>4, <1>5, Zenon DEF Record
<1>7. Waiting(heard)
    BY <1>1, <1>6, StillWaiting, Zenon
<1>8. v = IF entries = {} THEN heard
          ELSE SearchStore_addNodeToSearch(heard, CHOOSE a \in entries : TRUE)
    BY Zenon DEF searchReplyCallback, With, heard
<1> SUFFICES Ready(v) /\ v.nextSearch = u.nextSearch /\ v.thisSearch = u.thisSearch
    BY Zenon
<1> HIDE DEF v
<1>9. CASE entries = {}
    BY <1>1, <1>6, <1>7, <1>8, <1>9, WaitingReady, Zenon
<1>10. CASE entries # {}
  <2> DEFINE a == CHOOSE x \in entries : TRUE
  <2>1. a \in entries
    BY <1>10, Zenon
  <2>2. v = SearchStore_addNodeToSearch(heard, a)
    BY <1>8, <1>10, Zenon
  <2> HIDE DEF a
  <2>3. PICK i \in DOMAIN list : a = list[i] /\ Counts(u, from, list, i)
    BY <2>1, Zenon DEF Entries
  <2>4. a \in Address
    <3>1. list \in Seq(Address)
      BY SearchAssumption, Zenon
    <3> QED
      BY <2>3, <3>1
  <2>5. Closer(u.target, a.key, from.key) /\ u.lastNodeAsked.path = from.path
    BY <2>3, Zenon DEF Counts
  <2>6. u.asked # <<>> /\ Len(u.asked) \in DOMAIN u.asked
    <3>1. Len(u.asked) \in Nat /\ DOMAIN u.asked = 1 .. Len(u.asked) /\ u.asked \in Seq(Address)
      BY <1>1, RecordIs, Zenon
    <3> QED
      BY <1>1, <3>1
  <2>7. u.lastNodeAsked = Top(u.asked) /\ Top(u.asked) \in Address
    <3>1. \A j \in DOMAIN u.asked : u.asked[j] \in Address
      BY <1>1, RecordIs, Zenon
    <3> QED
      BY <1>1, <2>6, <3>1, Zenon DEF Shape, Top
  <2> DEFINE last == Top(u.asked)
  <2> HIDE DEF last
  <2>8. last.key = from.key
    <3>1. last \in Address /\ from \in Address /\ last.path = from.path
      BY <1>1, <2>5, <2>7, Zenon DEF last
    <3> QED
      BY <3>1, SamePath, Zenon
  <2>9. Nearer(heard, a, Top(heard.asked)) /\ heard.asked # <<>>
    BY <1>1, <1>6, <2>5, <2>6, <2>8, Zenon DEF Nearer, last
  <2>10. /\ Ready(SearchStore_addNodeToSearch(heard, a))
         /\ SearchStore_addNodeToSearch(heard, a).nextSearch = heard.nextSearch
         /\ SearchStore_addNodeToSearch(heard, a).thisSearch = heard.thisSearch
    BY <1>7, <2>4, <2>9, AddReady, Zenon
  <2> QED
    BY <1>1, <1>6, <2>2, <2>10, Zenon
<1> QED
    BY <1>9, <1>10, Zenon

-----------------------------------------------------------------------------
(* Induction. *)

(* A set of natural numbers that is not empty has a least one. *)
LEMMA NatLeast ==
    ASSUME NEW T, T \subseteq Nat, T # {}
    PROVE  \E x \in T : \A y \in T : x <= y
<1> DEFINE R == OpToRel(<, Nat)
<1>1. IsWellFoundedOn(R, Nat)
    BY NatLessThanWellFounded, Zenon
<1>2. \A x, y \in Nat : <<y, x>> \in R <=> y < x
    BY Zenon DEF OpToRel
<1> HIDE DEF R
<1>3. PICK x \in T : \A y \in T : ~(<<y, x>> \in R)
    BY <1>1, WFMin, Zenon
<1>4. ASSUME NEW y \in T
      PROVE  x <= y
  <2>1. x \in Nat /\ y \in Nat
    BY Zenon
  <2>2. ~(y < x)
    BY <1>2, <1>3, <2>1, Zenon
  <2> QED
    BY <2>1, <2>2
<1> QED
    BY <1>4, Zenon

(* Induction, with a set in the place of a predicate. *)
LEMMA UpTo ==
    ASSUME NEW n \in Nat, NEW S, 0 \in S, \A k \in 0 .. n - 1 : k \in S => k + 1 \in S
    PROVE  \A k \in 0 .. n : k \in S
<1> DEFINE T == (0 .. n) \ S
<1> SUFFICES ASSUME T # {}
             PROVE  FALSE
    BY Zenon
<1>1. T \subseteq Nat /\ \A k \in 0 .. n : k \in T \/ k \in S
    OBVIOUS
<1>2. \A k \in T : k \in 0 .. n /\ k \notin S
    BY Zenon
<1> HIDE DEF T
<1>3. PICK k \in T : \A j \in T : k <= j
    BY <1>1, NatLeast, Zenon
<1>4. k \in 0 .. n /\ k # 0
    BY <1>2, <1>3, Zenon
<1>5. k - 1 \in 0 .. n - 1 /\ k - 1 \in 0 .. n /\ (k - 1) + 1 = k /\ k - 1 \notin T
    BY <1>3, <1>4
<1>6. k - 1 \in S
    BY <1>1, <1>5, Zenon
<1>7. k \in S
    BY <1>5, <1>6, Zenon
<1> QED
    BY <1>2, <1>7, Zenon

-----------------------------------------------------------------------------
(* A search begins. *)

(* Of the nodes known, NodeStore_getClosestNodes() returns some. *)
LEMMA ClosestKnown ==
    ASSUME NEW t, NEW known, IsFiniteSet(known), NEW count \in Nat
    PROVE  NodeStore_getClosestNodes(t, known, count) \in Seq(known)
<1> DEFINE tree == known \cup {Self}
           from == IF \E k \in tree : k >= t THEN Min({k \in tree : k >= t}) ELSE Max(tree)
           Step(w) == LET k == Outwards(t, {j \in w.left : j < from}, {j \in w.left : j >= from})
                      IN  [left  |-> w.left \ {k},
                           found |-> IF k \in known /\ Len(w.found) < count
                                     THEN <<k>> \o w.found ELSE w.found]
           N == Cardinality(tree)
           Of(f, n) == IF n = 0 THEN [left |-> tree, found |-> <<>>] ELSE Step(f[n - 1])
           Solution(f, k) == f = [n \in 0 .. k |-> Of(f, n)]
           walk == CHOOSE f : Solution(f, N)
           S == {k \in 0 .. N : \E f : Solution(f, k)}
<1>1. N \in Nat
    BY FS_AddElement, FS_CardinalityType, Zenon
<1>2. NodeStore_getClosestNodes(t, known, count) = walk[N].found
    BY Zenon DEF NodeStore_getClosestNodes
<1>3. ASSUME NEW w, w.found \in Seq(known)
      PROVE  Step(w).found \in Seq(known)
  <2> DEFINE k == Outwards(t, {j \in w.left : j < from}, {j \in w.left : j >= from})
  <2>1. Step(w).found = IF k \in known /\ Len(w.found) < count THEN <<k>> \o w.found ELSE w.found
    BY Zenon
  <2> HIDE DEF k, Step
  <2>2. k \in known => <<k>> \o w.found \in Seq(known)
    BY <1>3
  <2> QED
    BY <1>3, <2>1, <2>2, Zenon
<1> HIDE DEF N, Step, tree
<1>4. 0 \in S
  <2> DEFINE start == [left |-> tree, found |-> <<>>]
             f == [n \in 0 .. 0 |-> start]
  <2>1. \A n \in 0 .. 0 : Of(f, n) = start
    <3> HIDE DEF start
    <3>1. \A n \in 0 .. 0 : n = 0
      OBVIOUS
    <3> QED
      BY <3>1, Zenon DEF start
  <2>2. Solution(f, 0)
    <3> HIDE DEF Of, start
    <3> QED
      BY <2>1, Zenon
  <2>3. 0 \in 0 .. N
    BY <1>1
  <2> HIDE DEF Solution, f
  <2> QED
    BY <2>2, <2>3, Zenon
<1>5. ASSUME NEW k \in 0 .. N - 1, k \in S
      PROVE  k + 1 \in S
  <2>1. PICK f : Solution(f, k)
    BY <1>5, Zenon
  <2> DEFINE g == [n \in 0 .. k + 1 |-> Of(f, n)]
  <2>2. \A n \in 0 .. k : g[n] = f[n]
    <3> HIDE DEF Of
    <3> QED
      BY <1>1, <2>1
  <2>3. \A n \in 0 .. k + 1 : Of(g, n) = Of(f, n)
    <3> HIDE DEF g
    <3>1. \A n \in 0 .. k + 1 : n # 0 => n - 1 \in 0 .. k
      BY <1>1
    <3> QED
      BY <2>2, <3>1, Zenon
  <2>4. Solution(g, k + 1)
    <3> HIDE DEF Of
    <3> QED
      BY <2>3, Zenon
  <2>5. k + 1 \in 0 .. N
    BY <1>1
  <2> HIDE DEF Solution, g
  <2> QED
    BY <2>4, <2>5, Zenon
<1>6. \E f : Solution(f, N)
  <2> HIDE DEF S
  <2>1. N \in S
    BY <1>1, <1>4, <1>5, UpTo
  <2> QED
    BY <2>1, Zenon DEF S
<1>7. Solution(walk, N)
  <2> HIDE DEF Solution
  <2> QED
    BY <1>6, Zenon DEF walk
<1> HIDE DEF walk
<1>8. \A n \in 0 .. N : walk[n] = Of(walk, n)
  <2> HIDE DEF Of
  <2> QED
    BY <1>7, Zenon
<1> HIDE DEF Solution, S
<1> DEFINE F == {k \in 0 .. N : walk[k].found \in Seq(known)}
<1>9. 0 \in F
  <2>1. 0 \in 0 .. N
    BY <1>1
  <2>2. walk[0] = [left |-> tree, found |-> <<>>]
    BY <1>8, <2>1, Zenon
  <2>3. walk[0].found = <<>>
    BY <2>2
  <2>4. walk[0].found \in Seq(known)
    BY <2>3
  <2> QED
    BY <2>1, <2>4, Zenon
<1>10. ASSUME NEW k \in 0 .. N - 1, k \in F
       PROVE  k + 1 \in F
  <2>1. k + 1 \in 0 .. N /\ (k + 1) - 1 = k /\ k + 1 # 0
    BY <1>1
  <2>2. walk[k + 1] = Step(walk[k])
    <3>1. walk[k + 1] = Step(walk[(k + 1) - 1])
      BY <1>8, <2>1, Zenon
    <3> QED
      BY <2>1, <3>1, Zenon
  <2> QED
    BY <1>3, <1>10, <2>1, <2>2, Zenon
<1>11. N \in F
  <2> HIDE DEF F
  <2> QED
    BY <1>1, <1>9, <1>10, UpTo
<1> QED
    BY <1>2, <1>11, Zenon

(* The record of a new search. *)
LEMMA NewRecord ==
    ASSUME NEW t \in Target, NEW m \in 1 .. SearchNodes, NEW stack \in Seq(Address),
           NEW first \in Search \cup {NULL}, NEW o \in BOOLEAN,
           NEW q, q = [target |-> t, maxRequests |-> m, asked |-> <<>>, pings |-> {}, numFinds |-> 0,
                       stack |-> stack, lastNodeAsked |-> NoAddress, armed |-> TRUE,
                       nextSearch |-> first, thisSearch |-> First, ordered |-> o]
    PROVE  /\ q \in Record /\ q.asked = <<>> /\ q.pings = {} /\ q.stack = stack /\ q.target = t
           /\ q.ordered = o /\ q.maxRequests = m
    BY DEF Record

(* A new search waits. *)
LEMMA NewWaits ==
    ASSUME NEW s \in Search, NEW t \in Target, NEW known \in Store,
           NEW first \in Search \cup {NULL}, NEW keys \in Seq(DOMAIN known),
           NEW q, q = [target |-> t, maxRequests |-> MaxRequests[s], asked |-> <<>>,
                       pings |-> {}, numFinds |-> 0,
                       stack |-> [i \in DOMAIN keys |-> [key |-> keys[i], path |-> known[keys[i]]]],
                       lastNodeAsked |-> [key |-> NULL, path |-> 0], armed |-> TRUE,
                       nextSearch |-> first, thisSearch |-> First,
                       ordered |-> Ordered(t, keys)]
    PROVE  Waiting(q)
<1> DEFINE stack == [i \in DOMAIN keys |-> [key |-> keys[i], path |-> known[keys[i]]]]
           o == Ordered(t, keys)
           m == MaxRequests[s]
<1>1. o \in BOOLEAN
    BY Zenon DEF Ordered
<1>2. m \in 1 .. SearchNodes
  <2>1. m \in Nat \ {0} /\ m <= SearchNodes /\ SearchNodes \in Nat
    <3>1. /\ MaxRequests \in [Search -> Nat \ {0}] /\ {SearchNodes, MillSize} \subseteq Nat \ {0}
          /\ \A u \in Search : MaxRequests[u] <= SearchNodes
      BY SearchAssumption, Zenon
    <3> QED
      BY <3>1, Zenon
  <2> QED
    BY <2>1
<1>3. \A k \in DOMAIN known : [key |-> k, path |-> known[k]] \in Address
  <2>1. \A k \in DOMAIN known : k \in Node /\ known[k] \in Paths[k]
    BY SearchAssumption, Zenon
  <2> QED
    BY <2>1 DEF Address
<1>4. stack \in Seq(Address)
    BY <1>3
<1>5. DOMAIN stack = DOMAIN keys /\ \A i \in DOMAIN keys : stack[i].key = keys[i]
    BY Zenon
<1> HIDE DEF stack, o, m
<1>6. q = [target |-> t, maxRequests |-> m, asked |-> <<>>, pings |-> {}, numFinds |-> 0,
           stack |-> stack, lastNodeAsked |-> NoAddress, armed |-> TRUE,
           nextSearch |-> first, thisSearch |-> First, ordered |-> o]
    BY Zenon DEF stack, o, m, NoAddress
<1>7. /\ q \in Record /\ q.asked = <<>> /\ q.pings = {} /\ q.stack = stack /\ q.target = t
      /\ q.ordered = o /\ q.maxRequests = m
    BY <1>1, <1>2, <1>4, <1>6, NewRecord
<1>8. Shape(q)
  <2>1. Len(q.asked) <= q.maxRequests
    BY <1>2, <1>7
  <2> QED
    BY <1>7, <2>1, Zenon DEF Shape
<1>9. DOMAIN q.asked = {}
    BY <1>7
<1>10. q.ordered => Ascending(q)
    BY <1>5, <1>7, Zenon DEF o, Ordered, Ascending, Nearer
<1> QED
    BY <1>8, <1>9, <1>10, Zenon DEF Waiting, OnceEach

-----------------------------------------------------------------------------
(* The list of searches. *)

(* A list is the same when its pointers are. *)
LEMMA ListedSame ==
    ASSUME NEW r, NEW p, NEW v, Listed(r, p), DOMAIN v = DOMAIN p,
           \A u \in DOMAIN p : /\ v[u].nextSearch = p[u].nextSearch
                               /\ v[u].thisSearch = p[u].thisSearch
    PROVE  Listed(r, v)
<1>1. PICK L : Chain(r, p, L)
    BY Zenon DEF Listed
<1>2. \A i \in 1 .. r.searches : L[i] \in DOMAIN p
    BY <1>1, Zenon DEF Chain
<1>3. /\ \A i \in 1 .. r.searches : v[L[i]].nextSearch = p[L[i]].nextSearch
      /\ \A i \in 1 .. r.searches : v[L[i]].thisSearch = p[L[i]].thisSearch
    BY <1>2, Zenon
<1>4. /\ \A i \in 1 .. r.searches : v[L[i]].nextSearch = IF i = r.searches THEN NULL ELSE L[i + 1]
      /\ \A i \in 1 .. r.searches : v[L[i]].thisSearch = IF i = 1 THEN First ELSE L[i - 1]
  <2>1. /\ \A i \in 1 .. r.searches : p[L[i]].nextSearch = IF i = r.searches THEN NULL ELSE L[i + 1]
        /\ \A i \in 1 .. r.searches : p[L[i]].thisSearch = IF i = 1 THEN First ELSE L[i - 1]
    BY <1>1, Zenon DEF Chain
  <2> QED
    BY <1>3, <2>1, Zenon
<1>5. Chain(r, v, L)
  <2>1. /\ r.searches \in Nat /\ L \in [1 .. r.searches -> DOMAIN v]
        /\ \A i, j \in 1 .. r.searches : L[i] = L[j] => i = j
        /\ \A s \in DOMAIN v : \E i \in 1 .. r.searches : L[i] = s
        /\ r.firstSearch = IF r.searches = 0 THEN NULL ELSE L[1]
    BY <1>1, Zenon DEF Chain
  <2> QED
    BY <1>4, <2>1, Zenon DEF Chain
<1> QED
    BY <1>5, Zenon DEF Listed

(* SearchRunner_search() puts a search before all others. *)
LEMMA ListedAdd ==
    ASSUME NEW r, NEW p, NEW w, NEW v, Listed(r, p), NEW s \in Search,
           DOMAIN p \subseteq Search, s \notin DOMAIN p, DOMAIN v = DOMAIN p \cup {s},
           w.searches = r.searches + 1, w.firstSearch = s,
           v[s].nextSearch = r.firstSearch, v[s].thisSearch = First,
           \A u \in DOMAIN p :
               /\ v[u].nextSearch = p[u].nextSearch
               /\ v[u].thisSearch = IF u = r.firstSearch THEN s ELSE p[u].thisSearch
    PROVE  Listed(w, v)
<1>1. PICK L : Chain(r, p, L)
    BY Zenon DEF Listed
<1> DEFINE n == r.searches
           M == [i \in 1 .. n + 1 |-> IF i = 1 THEN s ELSE L[i - 1]]
<1>2. /\ n \in Nat /\ \A i \in 1 .. n : L[i] \in DOMAIN p
      /\ \A i, j \in 1 .. n : L[i] = L[j] => i = j
      /\ \A u \in DOMAIN p : \E i \in 1 .. n : L[i] = u
      /\ r.firstSearch = IF n = 0 THEN NULL ELSE L[1]
      /\ \A i \in 1 .. n : p[L[i]].nextSearch = IF i = n THEN NULL ELSE L[i + 1]
      /\ \A i \in 1 .. n : p[L[i]].thisSearch = IF i = 1 THEN First ELSE L[i - 1]
    BY <1>1, Zenon DEF Chain
<1>3. NULL \notin Search
    BY SearchAssumption, Zenon
<1>4. M[1] = s /\ \A i \in 1 .. n : i + 1 \in 1 .. n + 1 /\ M[i + 1] = L[i]
    BY <1>2
<1>5. \A i \in 1 .. n + 1 : i = 1 \/ (i - 1 \in 1 .. n /\ (i - 1) + 1 = i /\ i # 1)
    BY <1>2
<1>6. M \in [1 .. n + 1 -> DOMAIN v]
    BY <1>2, <1>5, Zenon
<1> HIDE DEF M, n
<1>7. \A i \in 1 .. n + 1 : M[i] = s => i = 1
    BY <1>2, <1>4, <1>5
<1>8. ASSUME NEW i \in 1 .. n + 1, NEW j \in 1 .. n + 1, M[i] = M[j]
      PROVE  i = j
  <2>1. CASE i = 1 \/ j = 1
    BY <1>4, <1>7, <1>8, <2>1, Zenon
  <2>2. CASE i # 1 /\ j # 1
    <3>1. PICK a \in 1 .. n, b \in 1 .. n : a + 1 = i /\ b + 1 = j
      BY <1>5, <2>2, Zenon
    <3>2. L[a] = L[b]
      BY <1>4, <1>8, <3>1, Zenon
    <3>3. a = b
      BY <1>2, <3>2, Zenon
    <3> QED
      BY <3>1, <3>3, Zenon
  <2> QED
    BY <2>1, <2>2, Zenon
<1>9. ASSUME NEW u \in DOMAIN v
      PROVE  \E i \in 1 .. n + 1 : M[i] = u
  <2>1. 1 \in 1 .. n + 1
    BY <1>2
  <2>2. CASE u = s
    BY <1>4, <2>1, <2>2, Zenon
  <2>3. CASE u # s
    <3>1. PICK i \in 1 .. n : L[i] = u
      BY <1>2, <2>3, Zenon
    <3> QED
      BY <1>4, <3>1, Zenon
  <2> QED
    BY <2>2, <2>3, Zenon
<1>10. ASSUME NEW i \in 1 .. n + 1
       PROVE  v[M[i]].nextSearch = IF i = n + 1 THEN NULL ELSE M[i + 1]
  <2>1. CASE i = 1 /\ n = 0
    BY <1>2, <1>4, <2>1
  <2>2. CASE i = 1 /\ n # 0
    <3>1. 1 \in 1 .. n /\ 1 # n + 1
      BY <1>2, <2>2
    <3>2. v[M[1]].nextSearch = L[1] /\ M[1 + 1] = L[1]
      BY <1>2, <1>4, <2>2, <3>1, Zenon
    <3> QED
      BY <2>2, <3>1, <3>2, Zenon
  <2>3. CASE i # 1
    <3> DEFINE k == i - 1
    <3>1. k \in 1 .. n /\ k + 1 = i /\ (i = n + 1 <=> k = n) /\ (k # n => i \in 1 .. n)
      BY <1>2, <2>3
    <3> HIDE DEF k
    <3>2. M[i] = L[k] /\ L[k] \in DOMAIN p
      BY <1>2, <1>4, <3>1, Zenon
    <3>3. v[M[i]].nextSearch = IF k = n THEN NULL ELSE L[k + 1]
      BY <1>2, <3>1, <3>2
    <3>4. k # n => M[i + 1] = L[k + 1]
      BY <1>4, <3>1, Zenon
    <3> QED
      BY <3>1, <3>3, <3>4, Zenon
  <2> QED
    BY <2>1, <2>2, <2>3, Zenon
<1>11. ASSUME NEW i \in 1 .. n + 1
       PROVE  v[M[i]].thisSearch = IF i = 1 THEN First ELSE M[i - 1]
  <2>1. CASE i = 1
    BY <1>4, <2>1, Zenon
  <2>2. CASE i # 1
    <3> DEFINE k == i - 1
    <3>1. k \in 1 .. n /\ k + 1 = i /\ n # 0 /\ 1 \in 1 .. n
      BY <1>2, <2>2
    <3>2. k # 1 => k - 1 \in 1 .. n /\ (k - 1) + 1 = k
      BY <1>2, <3>1
    <3> HIDE DEF k
    <3>3. M[i] = L[k] /\ L[k] \in DOMAIN p /\ r.firstSearch = L[1]
      BY <1>2, <1>4, <3>1, Zenon
    <3>4. k = 1 => v[L[k]].thisSearch = s
      BY <3>3, Zenon
    <3>5. k # 1 => v[L[k]].thisSearch = L[k - 1]
      BY <1>2, <3>1, <3>3
    <3>6. k # 1 => M[k] = L[k - 1]
      BY <1>4, <3>2, Zenon
    <3>7. v[M[i]].thisSearch = M[k]
      BY <1>4, <3>3, <3>4, <3>5, <3>6, Zenon
    <3> QED
      BY <2>2, <3>7, Zenon DEF k
  <2> QED
    BY <2>1, <2>2, Zenon
<1>12. w.searches \in Nat /\ w.searches = n + 1 /\ n + 1 # 0
    BY <1>2 DEF n
<1>13. Chain(w, v, M)
  <2> DEFINE Holds(m) ==
                 /\ m \in Nat /\ M \in [1 .. m -> DOMAIN v]
                 /\ \A i, j \in 1 .. m : M[i] = M[j] => i = j
                 /\ \A u \in DOMAIN v : \E i \in 1 .. m : M[i] = u
                 /\ w.firstSearch = IF m = 0 THEN NULL ELSE M[1]
                 /\ \A i \in 1 .. m : v[M[i]].nextSearch = IF i = m THEN NULL ELSE M[i + 1]
                 /\ \A i \in 1 .. m : v[M[i]].thisSearch = IF i = 1 THEN First ELSE M[i - 1]
  <2>1. Holds(n + 1)
    BY <1>4, <1>6, <1>8, <1>9, <1>10, <1>11, <1>12, Zenon
  <2>2. Holds(w.searches)
    <3> HIDE DEF Holds
    <3> QED
      BY <1>12, <2>1, Zenon
  <2> QED
    BY <2>2, Zenon DEF Chain
<1>14. IsFiniteSet(DOMAIN v) /\ Cardinality(DOMAIN v) = w.searches
  <2>1. IsFiniteSet(DOMAIN p) /\ Cardinality(DOMAIN p) = n
    BY Zenon DEF Listed, n
  <2> QED
    BY <1>12, <2>1, FS_AddElement
<1> QED
    BY <1>13, <1>14, Zenon DEF Listed

(* searchOnFree() takes a search out of the list. *)
LEMMA ListedRemove ==
    ASSUME NEW r, NEW p, NEW w, NEW v, Listed(r, p), DOMAIN p \subseteq Search,
           NEW s \in DOMAIN p, DOMAIN v = DOMAIN p \ {s},
           w.searches = r.searches - 1,
           w.firstSearch = IF p[s].thisSearch = First THEN p[s].nextSearch ELSE r.firstSearch,
           \A u \in DOMAIN v :
               /\ v[u].nextSearch = IF p[s].thisSearch = u THEN p[s].nextSearch ELSE p[u].nextSearch
               /\ v[u].thisSearch = IF p[s].nextSearch = u THEN p[s].thisSearch ELSE p[u].thisSearch
    PROVE  Listed(w, v)
<1>1. PICK L : Chain(r, p, L)
    BY Zenon DEF Listed
<1> DEFINE n == r.searches
<1>2. /\ n \in Nat /\ \A i \in 1 .. n : L[i] \in DOMAIN p
      /\ \A i, j \in 1 .. n : L[i] = L[j] => i = j
      /\ \A u \in DOMAIN p : \E i \in 1 .. n : L[i] = u
      /\ r.firstSearch = IF n = 0 THEN NULL ELSE L[1]
      /\ \A i \in 1 .. n : p[L[i]].nextSearch = IF i = n THEN NULL ELSE L[i + 1]
      /\ \A i \in 1 .. n : p[L[i]].thisSearch = IF i = 1 THEN First ELSE L[i - 1]
    BY <1>1, Zenon DEF Chain
<1>3. PICK k \in 1 .. n : L[k] = s
    BY <1>2, Zenon
<1>4. \A i \in 1 .. n : L[i] # NULL /\ L[i] # First
  <2>1. NULL \notin Search /\ First \notin Search
    BY SearchAssumption, Zenon
  <2>2. \A u \in DOMAIN p : u # NULL /\ u # First
    BY <2>1, Zenon
  <2> QED
    BY <1>2, <2>2, Zenon
<1> HIDE DEF n
<1> DEFINE At(i) == IF i < k THEN i ELSE i + 1
           M == [i \in 1 .. n - 1 |-> L[At(i)]]
<1>5. /\ n # 0 /\ n - 1 \in Nat /\ 1 \in 1 .. n
      /\ \A i \in 1 .. n - 1 : At(i) \in 1 .. n /\ At(i) # k
      /\ \A i, j \in 1 .. n - 1 : At(i) = At(j) => i = j
    BY <1>2, <1>3
<1>6. \A a \in 1 .. n : a # k => \E i \in 1 .. n - 1 : At(i) = a
  <2> SUFFICES ASSUME NEW a \in 1 .. n, a # k
               PROVE  \E i \in 1 .. n - 1 : At(i) = a
    BY Zenon
  <2>1. CASE a < k
    <3>1. a \in 1 .. n - 1 /\ At(a) = a
      BY <1>2, <1>3, <2>1
    <3> QED
      BY <3>1, Zenon
  <2>2. CASE ~(a < k)
    <3>1. a - 1 \in 1 .. n - 1 /\ At(a - 1) = a
      BY <1>2, <1>3, <2>2
    <3> QED
      BY <3>1, Zenon
  <2> QED
    BY <2>1, <2>2, Zenon
<1>7. /\ \A i \in 1 .. n - 1 : i + 1 = k => At(i) = i
      /\ \A i \in 1 .. n - 1 : i = k => At(i) = k + 1
      /\ \A i \in 1 .. n - 1 : At(i) + 1 = k <=> i + 1 = k
      /\ \A i \in 1 .. n - 1 : At(i) - 1 = k <=> i = k
      /\ \A i \in 1 .. n - 1 : At(i) = n <=> i = n - 1 /\ k # n
      /\ \A i \in 1 .. n - 1 : At(i) = 1 <=> i = 1 /\ k # 1
      /\ \A i \in 1 .. n - 1 : i + 1 # k /\ i # n - 1 => At(i) + 1 = At(i + 1)
      /\ \A i \in 1 .. n - 1 : i # k /\ i # 1 => At(i) - 1 = At(i - 1)
      /\ \A i \in 1 .. n - 1 : i # n - 1 => i + 1 \in 1 .. n - 1
      /\ \A i \in 1 .. n - 1 : i # 1 => i - 1 \in 1 .. n - 1
    BY <1>2, <1>3
<1>8. \A i \in 1 .. n - 1 : M[i] = L[At(i)]
    BY Zenon
<1>9. \A i \in 1 .. n - 1 : L[At(i)] \in DOMAIN v
  <2> HIDE DEF At
  <2>1. ASSUME NEW i \in 1 .. n - 1
        PROVE  L[At(i)] \in DOMAIN p /\ L[At(i)] # s
    <3>1. At(i) \in 1 .. n /\ At(i) # k
      BY <1>5, Zenon
    <3> DEFINE a == At(i)
    <3> HIDE DEF a
    <3>2. L[a] # L[k]
      BY <1>2, <3>1, Zenon DEF a
    <3> QED
      BY <1>2, <1>3, <3>1, <3>2, Zenon DEF a
  <2> QED
    BY <2>1, Zenon
<1>10. M \in [1 .. n - 1 -> DOMAIN v]
  <2> HIDE DEF At
  <2> QED
    BY <1>9, Zenon
<1> HIDE DEF M
<1>11. ASSUME NEW i \in 1 .. n - 1, NEW j \in 1 .. n - 1, M[i] = M[j]
       PROVE  i = j
  <2> HIDE DEF At
  <2>1. L[At(i)] = L[At(j)]
    BY <1>8, <1>11, Zenon
  <2>2. At(i) = At(j)
    BY <1>2, <1>5, <2>1, Zenon
  <2> QED
    BY <1>5, <2>2, Zenon
<1>12. ASSUME NEW u \in DOMAIN v
       PROVE  \E i \in 1 .. n - 1 : M[i] = u
  <2>1. PICK a \in 1 .. n : L[a] = u
    BY <1>2, Zenon
  <2>2. a # k
    BY <1>3, <2>1, Zenon
  <2> HIDE DEF At
  <2>3. PICK i \in 1 .. n - 1 : At(i) = a
    BY <1>6, <2>2, Zenon
  <2> QED
    BY <1>8, <2>1, <2>3, Zenon
<1>13. /\ k \in Nat /\ (k # 1 => k - 1 \in 1 .. n /\ (k - 1) + 1 = k)
       /\ (k # n => k + 1 \in 1 .. n /\ (k + 1) - 1 = k)
       /\ (k = n /\ k = 1 <=> n - 1 = 0)
    BY <1>2, <1>3
<1>14. /\ p[s].nextSearch = IF k = n THEN NULL ELSE L[k + 1]
       /\ p[s].thisSearch = IF k = 1 THEN First ELSE L[k - 1]
    BY <1>2, <1>3, Zenon
<1>15. ASSUME NEW i \in 1 .. n - 1
       PROVE  v[M[i]].nextSearch = IF i = n - 1 THEN NULL ELSE M[i + 1]
  <2> DEFINE a == At(i)
  <2>1. a \in 1 .. n /\ M[i] = L[a] /\ L[a] \in DOMAIN v
    BY <1>5, <1>8, <1>9, Zenon
  <2>2. CASE i + 1 = k
    <3>1. a = i /\ k - 1 = i /\ k # 1 /\ (i = n - 1 <=> k = n)
      BY <1>2, <1>7, <2>2
    <3>2. i # n - 1 => M[i + 1] = L[k + 1]
      <4>1. i # n - 1 => k \in 1 .. n - 1 /\ At(k) = k + 1
        BY <1>7, <2>2, Zenon
      <4> HIDE DEF a, At
      <4> QED
        BY <1>8, <2>2, <4>1, Zenon
    <3>3. v[L[a]].nextSearch = p[s].nextSearch
      <4> HIDE DEF a, At
      <4>1. p[s].thisSearch = L[a]
        BY <1>14, <3>1, Zenon
      <4> QED
        BY <2>1, <4>1, Zenon
    <3> HIDE DEF a, At
    <3> QED
      BY <1>14, <2>1, <3>1, <3>2, <3>3, Zenon
  <2>3. CASE i + 1 # k
    <3>1. /\ a + 1 # k /\ (a = n <=> i = n - 1)
          /\ i # n - 1 => i + 1 \in 1 .. n - 1 /\ At(i + 1) = a + 1
      <4>1. i = n - 1 => k # n
        BY <1>2, <2>3
      <4> QED
        BY <1>7, <2>3, <4>1, Zenon
    <3> HIDE DEF a, At
    <3>2. p[s].thisSearch # L[a]
      <4>1. k = 1 => p[s].thisSearch # L[a]
        BY <1>4, <1>14, <2>1, Zenon
      <4>2. k # 1 => L[k - 1] # L[a]
        <5>1. k # 1 => a # k - 1
          BY <1>13, <3>1, Zenon
        <5> QED
          BY <1>2, <1>13, <2>1, <5>1, Zenon
      <4> QED
        BY <1>14, <4>1, <4>2, Zenon
    <3>3. v[L[a]].nextSearch = p[L[a]].nextSearch
      BY <2>1, <3>2, Zenon
    <3>4. p[L[a]].nextSearch = IF a = n THEN NULL ELSE L[a + 1]
      BY <1>2, <2>1, Zenon
    <3>5. i # n - 1 => M[i + 1] = L[a + 1]
      BY <1>8, <3>1, Zenon
    <3> QED
      BY <2>1, <3>1, <3>3, <3>4, <3>5, Zenon
  <2> QED
    BY <2>2, <2>3, Zenon
<1>16. ASSUME NEW i \in 1 .. n - 1
       PROVE  v[M[i]].thisSearch = IF i = 1 THEN First ELSE M[i - 1]
  <2> DEFINE a == At(i)
  <2>1. a \in 1 .. n /\ M[i] = L[a] /\ L[a] \in DOMAIN v
    BY <1>5, <1>8, <1>9, Zenon
  <2>2. CASE i = k
    <3>1. a = k + 1 /\ k # n /\ (k # 1 => k - 1 \in 1 .. n - 1 /\ At(k - 1) = k - 1)
      BY <1>2, <1>7, <2>2
    <3>2. k # 1 => M[k - 1] = L[k - 1]
      BY <1>8, <3>1, Zenon
    <3>3. v[L[a]].thisSearch = p[s].thisSearch
      <4> HIDE DEF a, At
      <4>1. p[s].nextSearch = L[a]
        BY <1>14, <3>1, Zenon
      <4> QED
        BY <2>1, <4>1, Zenon
    <3> HIDE DEF a, At
    <3> QED
      BY <1>14, <2>1, <2>2, <3>2, <3>3, Zenon
  <2>3. CASE i # k
    <3>1. /\ a - 1 # k /\ (a = 1 <=> i = 1)
          /\ i # 1 => i - 1 \in 1 .. n - 1 /\ At(i - 1) = a - 1
      <4>1. i = 1 => k # 1
        BY <2>3, Zenon
      <4> QED
        BY <1>7, <2>3, <4>1, Zenon
    <3> HIDE DEF a, At
    <3>2. p[s].nextSearch # L[a]
      <4>1. k = n => p[s].nextSearch # L[a]
        BY <1>4, <1>14, <2>1, Zenon
      <4>2. k # n => L[k + 1] # L[a]
        <5>1. k # n => a # k + 1
          BY <1>13, <3>1, Zenon
        <5> QED
          BY <1>2, <1>13, <2>1, <5>1, Zenon
      <4> QED
        BY <1>14, <4>1, <4>2, Zenon
    <3>3. v[L[a]].thisSearch = p[L[a]].thisSearch
      BY <2>1, <3>2, Zenon
    <3>4. p[L[a]].thisSearch = IF a = 1 THEN First ELSE L[a - 1]
      BY <1>2, <2>1, Zenon
    <3>5. i # 1 => M[i - 1] = L[a - 1]
      BY <1>8, <3>1, Zenon
    <3> QED
      BY <2>1, <3>1, <3>3, <3>4, <3>5, Zenon
  <2> QED
    BY <2>2, <2>3, Zenon
<1>17. w.firstSearch = IF n - 1 = 0 THEN NULL ELSE M[1]
  <2>1. n - 1 # 0 => 1 \in 1 .. n - 1 /\ At(1) = IF k = 1 THEN 2 ELSE 1
    BY <1>2, <1>3
  <2> HIDE DEF At
  <2>2. n - 1 # 0 => M[1] = IF k = 1 THEN L[2] ELSE L[1]
    <3>1. n - 1 # 0 => M[1] = L[At(1)]
      BY <1>8, <2>1, Zenon
    <3> QED
      BY <2>1, <3>1, Zenon
  <2>3. CASE k = 1
    <3>1. w.firstSearch = IF k = n THEN NULL ELSE L[k + 1]
      BY <1>14, <2>3, Zenon
    <3>2. k + 1 = 2
      BY <2>3
    <3> QED
      BY <1>13, <2>2, <2>3, <3>1, <3>2, Zenon
  <2>4. CASE k # 1
    <3>1. p[s].thisSearch # First
      BY <1>4, <1>13, <1>14, <2>4, Zenon
    <3>2. w.firstSearch = L[1]
      BY <1>2, <1>5, <3>1, Zenon
    <3> QED
      BY <1>13, <2>2, <2>4, <3>2, Zenon
  <2> QED
    BY <2>3, <2>4, Zenon
<1>18. w.searches \in Nat /\ w.searches = n - 1
    BY <1>5, Zenon DEF n
<1>19. Chain(w, v, M)
  <2> HIDE DEF At
  <2> DEFINE Holds(m) ==
                 /\ m \in Nat /\ M \in [1 .. m -> DOMAIN v]
                 /\ \A i, j \in 1 .. m : M[i] = M[j] => i = j
                 /\ \A u \in DOMAIN v : \E i \in 1 .. m : M[i] = u
                 /\ w.firstSearch = IF m = 0 THEN NULL ELSE M[1]
                 /\ \A i \in 1 .. m : v[M[i]].nextSearch = IF i = m THEN NULL ELSE M[i + 1]
                 /\ \A i \in 1 .. m : v[M[i]].thisSearch = IF i = 1 THEN First ELSE M[i - 1]
  <2>1. Holds(n - 1)
    BY <1>5, <1>10, <1>11, <1>12, <1>15, <1>16, <1>17, Zenon
  <2>2. Holds(w.searches)
    <3> HIDE DEF Holds
    <3> QED
      BY <1>18, <2>1, Zenon
  <2> QED
    BY <2>2, Zenon DEF Chain
<1>20. IsFiniteSet(DOMAIN v) /\ Cardinality(DOMAIN v) = w.searches
  <2>1. IsFiniteSet(DOMAIN p) /\ Cardinality(DOMAIN p) = n
    BY Zenon DEF Listed, n
  <2> QED
    BY <1>18, <2>1, FS_RemoveElement, Zenon
<1> QED
    BY <1>19, <1>20, Zenon DEF Listed

(* The number i shows the search at place i + 1 of the list. *)
LEMMA ShownAt ==
    ASSUME NEW L, Chain(runner, search, L), Running \subseteq Search,
           NEW number \in 0 .. runner.searches
    PROVE  SearchRunner_showActiveSearch(number)
               = IF number = runner.searches THEN NULL ELSE L[number + 1]
<1> DEFINE n == runner.searches
           At(i) == IF i = n THEN NULL ELSE L[i + 1]
           Of(f, i) == IF i = 0 THEN runner.firstSearch
                       ELSE IF f[i - 1] = NULL THEN NULL ELSE search[f[i - 1]].nextSearch
           Solution(f) == f = [i \in 0 .. number |-> Of(f, i)]
           shown == CHOOSE f : Solution(f)
           g == [i \in 0 .. number |-> At(i)]
<1>1. SearchRunner_showActiveSearch(number) = shown[number]
    BY Zenon DEF SearchRunner_showActiveSearch
<1>2. /\ n \in Nat /\ \A i \in 1 .. n : L[i] \in Running
      /\ runner.firstSearch = IF n = 0 THEN NULL ELSE L[1]
      /\ \A i \in 1 .. n : search[L[i]].nextSearch = IF i = n THEN NULL ELSE L[i + 1]
    BY Zenon DEF Chain, Running
<1>3. \A i \in 1 .. n : L[i] # NULL
  <2>1. NULL \notin Search
    BY SearchAssumption, Zenon
  <2> QED
    BY <1>2, <2>1, Zenon
<1> HIDE DEF n
<1>4. number \in 0 .. n /\ number \in Nat
    BY <1>2 DEF n
<1>5. ASSUME NEW f, NEW i \in 0 .. number, i # 0 => f[i - 1] = At(i - 1)
      PROVE  Of(f, i) = At(i)
  <2>1. CASE i = 0
    <3>1. At(0) = IF n = 0 THEN NULL ELSE L[1]
      <4>1. 0 + 1 = 1
        OBVIOUS
      <4> QED
        BY <4>1, Zenon
    <3> QED
      BY <1>2, <2>1, <3>1, Zenon
  <2>2. CASE i # 0
    <3>1. i \in 1 .. n /\ i - 1 # n /\ (i - 1) + 1 = i
      BY <1>2, <1>4, <2>2
    <3>2. f[i - 1] = L[i]
      BY <1>5, <2>2, <3>1, Zenon
    <3>3. Of(f, i) = search[L[i]].nextSearch
      BY <1>3, <2>2, <3>1, <3>2, Zenon
    <3> QED
      BY <1>2, <3>1, <3>3, Zenon
  <2> QED
    BY <2>1, <2>2, Zenon
<1> HIDE DEF At, Of
<1>6. Solution(g)
  <2>1. ASSUME NEW i \in 0 .. number
        PROVE  Of(g, i) = At(i)
    <3>1. i # 0 => i - 1 \in 0 .. number
      BY <1>4
    <3>2. i # 0 => g[i - 1] = At(i - 1)
      BY <3>1, Zenon
    <3> HIDE DEF g
    <3> QED
      BY <1>5, <3>2, Zenon
  <2> QED
    BY <2>1, Zenon
<1>7. Solution(shown)
  <2> HIDE DEF Solution, g
  <2> QED
    BY <1>6, Zenon DEF shown
<1> HIDE DEF shown
<1>8. \A i \in 0 .. number : shown[i] = Of(shown, i)
    BY <1>7, Zenon
<1> HIDE DEF Solution, g
<1> DEFINE S == {i \in 0 .. number : shown[i] = At(i)}
<1>9. 0 \in S
  <2>1. 0 \in 0 .. number
    BY <1>4
  <2>2. Of(shown, 0) = At(0)
    BY <1>5, <2>1, Zenon
  <2> QED
    BY <1>8, <2>1, <2>2, Zenon
<1>10. ASSUME NEW k \in 0 .. number - 1, k \in S
       PROVE  k + 1 \in S
  <2>1. k + 1 \in 0 .. number /\ (k + 1) - 1 = k
    BY <1>4
  <2>2. shown[(k + 1) - 1] = At((k + 1) - 1)
    BY <1>10, <2>1, Zenon
  <2>3. Of(shown, k + 1) = At(k + 1)
    BY <1>5, <2>1, <2>2, Zenon
  <2> QED
    BY <1>8, <2>1, <2>3, Zenon
<1>11. number \in S
  <2> HIDE DEF S
  <2> QED
    BY <1>4, <1>9, <1>10, UpTo
<1> QED
    BY <1>1, <1>11, Zenon DEF At, n

(* What is Listed is shown. *)
LEMMA ListedShown ==
    ASSUME Listed(runner, search), Running \subseteq Search
    PROVE  EachShownOnce
<1>1. PICK L : Chain(runner, search, L)
    BY Zenon DEF Listed
<1> DEFINE n == runner.searches
           Shown(i) == SearchRunner_showActiveSearch(i)
<1>2. /\ n \in Nat /\ \A i \in 1 .. n : L[i] \in Running
      /\ \A u \in Running : \E i \in 1 .. n : L[i] = u
      /\ \A i \in 1 .. n : search[L[i]].nextSearch = IF i = n THEN NULL ELSE L[i + 1]
    BY <1>1, Zenon DEF Chain, Running
<1>3. \A i \in 0 .. n : Shown(i) = IF i = n THEN NULL ELSE L[i + 1]
    BY <1>1, ShownAt, Zenon
<1>4. n = Cardinality(Running)
    BY Zenon DEF Listed, Running
<1> HIDE DEF Shown, n
<1>5. ASSUME NEW u \in Running
      PROVE  search[u].nextSearch \in Running \cup {NULL}
  <2>1. PICK i \in 1 .. n : L[i] = u
    BY <1>2, Zenon
  <2>2. n \in Nat
    BY <1>2, Zenon
  <2>3. i # n => i + 1 \in 1 .. n
    BY <2>2
  <2> QED
    BY <1>2, <2>1, <2>3, Zenon
<1>6. \A i \in 0 .. n - 1 : i \in 0 .. n /\ i # n /\ i + 1 \in 1 .. n
    BY <1>2
<1>7. \A i \in 1 .. n : i - 1 \in 0 .. n - 1 /\ (i - 1) + 1 = i
    BY <1>2
<1>8. \A i \in 0 .. n - 1 : Shown(i) = L[i + 1]
    BY <1>3, <1>6, Zenon
<1>9. {Shown(i) : i \in 0 .. n - 1} = Running
  <2>1. \A i \in 0 .. n - 1 : Shown(i) \in Running
    BY <1>2, <1>6, <1>8, Zenon
  <2>2. ASSUME NEW u \in Running
        PROVE  \E i \in 0 .. n - 1 : Shown(i) = u
    <3>1. PICK i \in 1 .. n : L[i] = u
      BY <1>2, Zenon
    <3>2. i - 1 \in 0 .. n - 1 /\ Shown(i - 1) = u
      BY <1>7, <1>8, <3>1, Zenon
    <3> QED
      BY <3>2, Zenon
  <2> QED
    BY <2>1, <2>2, Zenon
<1>10. Shown(n) = NULL
  <2>1. n \in 0 .. n
    BY <1>2
  <2> QED
    BY <1>3, <2>1, Zenon
<1> QED
    BY <1>4, <1>5, <1>9, <1>10, Zenon DEF EachShownOnce, Shown, n

-----------------------------------------------------------------------------
(* Steps. *)

(* A search ends, of itself or cancelled. *)
LEMMA FreeStep ==
    ASSUME Inv, NEW s \in Running, searchOnFree(s), phase' = [phase EXCEPT ![s] = "over"],
           \A t \in DOMAIN orphan' : Waiting(orphan'[t])
    PROVE  Inv'
<1> DEFINE q == search[s]
           Next1(t) == IF q.thisSearch = t THEN q.nextSearch ELSE search[t].nextSearch
           This1(t) == IF q.nextSearch = t THEN q.thisSearch ELSE search[t].thisSearch
<1>1. /\ Running \subseteq Search /\ DOMAIN phase = Search
      /\ \A t \in Search : phase[t] = "unused" => t \notin Running
      /\ Listed(runner, search) /\ \A t \in Running : Waiting(search[t])
    BY Zenon DEF Inv
<1>2. \A t \in Running : /\ search[t] \in Record
                         /\ search[t].nextSearch \in Search \cup {NULL}
                         /\ search[t].thisSearch \in Search \cup {First}
  <2>1. \A t \in Running : search[t] \in Record
    BY <1>1, Zenon DEF Waiting, Shape
  <2>2. \A u \in Record : u.nextSearch \in Search \cup {NULL} /\ u.thisSearch \in Search \cup {First}
    BY Zenon DEF Record
  <2> QED
    BY <2>1, <2>2, Zenon
<1>3. /\ runner'.searches = runner.searches - 1
      /\ runner'.firstSearch = IF q.thisSearch = First THEN q.nextSearch ELSE runner.firstSearch
  <2>1. runner' = [searches    |-> runner.searches - 1,
                   firstSearch |-> IF q.thisSearch = First THEN q.nextSearch ELSE runner.firstSearch]
    BY Zenon DEF searchOnFree
  <2> HIDE DEF q
  <2> QED
    BY <2>1, Zenon
<1>4. search' = [t \in Running \ {s} |-> [search[t] EXCEPT !.nextSearch = Next1(t),
                                                            !.thisSearch = This1(t)]]
  <2>1. search' = [t \in Running \ {s} |->
                [search[t] EXCEPT
                    !.nextSearch = IF q.thisSearch = t THEN q.nextSearch ELSE @,
                    !.thisSearch = IF q.nextSearch = t THEN q.thisSearch ELSE @]]
    BY Zenon DEF searchOnFree
  <2>2. ASSUME NEW t \in Running \ {s}
        PROVE  [search[t] EXCEPT !.nextSearch = IF q.thisSearch = t THEN q.nextSearch ELSE @,
                                 !.thisSearch = IF q.nextSearch = t THEN q.thisSearch ELSE @]
                 = [search[t] EXCEPT !.nextSearch = Next1(t), !.thisSearch = This1(t)]
    <3>1. search[t] \in Record
      BY <1>2, Zenon
    <3> QED
      BY <3>1, Zenon DEF Record
  <2> HIDE DEF q, Next1, This1
  <2> QED
    BY <2>1, <2>2, Zenon
<1>5. DOMAIN search' = Running \ {s}
    BY <1>4, Zenon
<1>6. ASSUME NEW t \in Running \ {s}
      PROVE  Waiting(search'[t]) /\ search'[t].nextSearch = Next1(t) /\ search'[t].thisSearch = This1(t)
  <2>1. Next1(t) \in Search \cup {NULL} /\ This1(t) \in Search \cup {First}
    BY <1>2, Zenon
  <2>2. search'[t] = [search[t] EXCEPT !.nextSearch = Next1(t), !.thisSearch = This1(t)]
    BY <1>4, Zenon
  <2> HIDE DEF q, Next1, This1
  <2>3. Waiting(search[t])
    BY <1>1, Zenon
  <2> DEFINE c == search[t]
             v == search'[t]
             a == Next1(t)
             b == This1(t)
  <2>4. /\ Waiting(c) /\ a \in Search \cup {NULL} /\ b \in Search \cup {First}
        /\ v = [c EXCEPT !.nextSearch = a, !.thisSearch = b]
    BY <2>1, <2>2, <2>3, Zenon
  <2> HIDE DEF a, b, c, v
  <2>5. Waiting(v) /\ v.nextSearch = a /\ v.thisSearch = b
    <3>1. c \in Record
      BY <2>4, Zenon DEF Waiting, Shape
    <3>2. /\ v \in Record /\ v.nextSearch = a /\ v.thisSearch = b
          /\ v.target = c.target /\ v.maxRequests = c.maxRequests /\ v.asked = c.asked
          /\ v.stack = c.stack /\ v.lastNodeAsked = c.lastNodeAsked /\ v.ordered = c.ordered
          /\ v.pings = c.pings
      BY <2>4, <3>1, Zenon DEF Record
    <3> QED
      BY <2>4, <3>2, StillWaiting, Zenon
  <2> QED
    BY <2>5, Zenon DEF a, b, v
<1>7. Listed(runner', search')
  <2>1. /\ DOMAIN search \subseteq Search /\ s \in DOMAIN search
        /\ DOMAIN search' = DOMAIN search \ {s}
    BY <1>1, <1>5, Zenon DEF Running
  <2>2. \A t \in DOMAIN search' :
            /\ search'[t].nextSearch = IF search[s].thisSearch = t THEN search[s].nextSearch
                                      ELSE search[t].nextSearch
            /\ search'[t].thisSearch = IF search[s].nextSearch = t THEN search[s].thisSearch
                                      ELSE search[t].thisSearch
    BY <1>5, <1>6, Zenon
  <2>3. /\ runner'.searches = runner.searches - 1
        /\ runner'.firstSearch = IF search[s].thisSearch = First THEN search[s].nextSearch
                                 ELSE runner.firstSearch
    BY <1>3, Zenon
  <2> HIDE DEF q, Next1, This1
  <2> QED
    BY <1>1, <2>1, <2>2, <2>3, ListedRemove
<1>8. /\ DOMAIN phase' = Search
      /\ \A t \in Search : phase'[t] = "unused" => t \notin Running \ {s}
  <2>1. DOMAIN phase' = Search /\ \A t \in Search : t # s => phase'[t] = phase[t]
    BY <1>1, Zenon
  <2> QED
    BY <1>1, <2>1, Zenon
<1> QED
    BY <1>1, <1>5, <1>6, <1>7, <1>8, Zenon DEF Inv, Running

(* Every search, in the list or not, waits. *)
LEMMA StructWaits ==
    ASSUME Inv, NEW s \in Present
    PROVE  Waiting(Struct(s)) /\ Struct(s) \in Record
<1>1. Waiting(Struct(s))
    BY Zenon DEF Inv, Present, Struct
<1> QED
    BY <1>1, Zenon DEF Waiting, Shape

(* A search of the list becomes v, with the same links. *)
LEMMA OneChanges ==
    ASSUME Inv, NEW s \in Running, NEW v, Waiting(v), search' = [search EXCEPT ![s] = v],
           v.nextSearch = search[s].nextSearch, v.thisSearch = search[s].thisSearch,
           runner' = runner, orphan' = orphan, phase' = phase
    PROVE  Inv'
<1>1. /\ DOMAIN search' = Running /\ search'[s] = v
      /\ \A t \in Running : t # s => search'[t] = search[t]
    BY Zenon DEF Running
<1>2. Listed(runner', search')
  <2>1. Listed(runner, search)
    BY Zenon DEF Inv
  <2>2. \A t \in DOMAIN search : /\ search'[t].nextSearch = search[t].nextSearch
                                 /\ search'[t].thisSearch = search[t].thisSearch
    BY <1>1, Zenon DEF Running
  <2>3. DOMAIN search' = DOMAIN search
    BY <1>1, Zenon DEF Running
  <2>4. Listed(runner, search')
    BY <2>1, <2>2, <2>3, ListedSame, Zenon
  <2> QED
    BY <2>4, Zenon
<1>3. \A t \in Running : Waiting(search'[t])
    BY <1>1, Zenon DEF Inv
<1> QED
    BY <1>1, <1>2, <1>3, Zenon DEF Inv, Running

(* An orphan becomes v. *)
LEMMA OrphanChanges ==
    ASSUME Inv, NEW s, NEW v, Waiting(v), orphan' = [orphan EXCEPT ![s] = v],
           runner' = runner, search' = search, phase' = phase
    PROVE  Inv'
<1>1. /\ DOMAIN orphan' = DOMAIN orphan
      /\ \A t \in DOMAIN orphan : orphan'[t] = v \/ orphan'[t] = orphan[t]
    BY Zenon
<1>2. \A t \in DOMAIN orphan' : Waiting(orphan'[t])
    BY <1>1, Zenon DEF Inv
<1> QED
    BY <1>2, Zenon DEF Inv, Running

(* A step of a search that is Ready. *)
LEMMA SearchStep ==
    ASSUME Inv, NEW s, NEW q, Ready(q), searchStep(s, q),
           q.nextSearch = Struct(s).nextSearch, q.thisSearch = Struct(s).thisSearch
    PROVE  Inv'
<1>1. CASE /\ s \in DOMAIN orphan
           /\ orphan' = [orphan EXCEPT ![s] = OrphanStep(q)]
           /\ UNCHANGED <<runner, search, phase>>
  <2> DEFINE v == OrphanStep(q)
  <2>1. /\ orphan' = [orphan EXCEPT ![s] = v] /\ runner' = runner /\ search' = search
        /\ phase' = phase /\ Waiting(v)
    BY <1>1, OrphanWaits, Zenon
  <2> HIDE DEF v
  <2> QED
    BY <2>1, OrphanChanges, Zenon
<1>2. CASE /\ s \in Running /\ Exhausted(q)
           /\ searchOnFree(s)
           /\ phase' = [phase EXCEPT ![s] = "over"]
           /\ UNCHANGED orphan
  <2>1. \A t \in DOMAIN orphan' : Waiting(orphan'[t])
    BY <1>2, Zenon DEF Inv
  <2> QED
    BY <1>2, <2>1, FreeStep, Zenon
<1>3. CASE /\ s \in Running /\ ~Exhausted(q)
           /\ search' = [search EXCEPT ![s] = Ask(q)]
           /\ UNCHANGED <<runner, orphan, phase>>
  <2> DEFINE v == Ask(q)
  <2>1. /\ search' = [search EXCEPT ![s] = v] /\ runner' = runner /\ orphan' = orphan
        /\ phase' = phase
    BY <1>3, Zenon
  <2>2. Waiting(v) /\ v.nextSearch = q.nextSearch /\ v.thisSearch = q.thisSearch
    BY <1>3, AskWaits, Zenon
  <2>3. v.nextSearch = search[s].nextSearch /\ v.thisSearch = search[s].thisSearch
    BY <1>3, <2>2, Zenon DEF Struct
  <2> HIDE DEF v
  <2> QED
    BY <1>3, <2>1, <2>2, <2>3, OneChanges, Zenon
<1> QED
    BY <1>1, <1>2, <1>3, Zenon DEF searchStep

(* A search is started. *)
LEMMA StartStep ==
    ASSUME Inv, NEW s \in Search, NEW t \in Target, NEW known \in Store,
           SearchRunner_search(s, t, known)
    PROVE  Inv'
<1> DEFINE keys == NodeStore_getClosestNodes(t, DOMAIN known, MaxRequests[s])
           new  == [target |-> t, maxRequests |-> MaxRequests[s], asked |-> <<>>,
                    pings |-> {}, numFinds |-> 0,
                    stack |-> [i \in DOMAIN keys |-> [key |-> keys[i], path |-> known[keys[i]]]],
                    lastNodeAsked |-> [key |-> NULL, path |-> 0], armed |-> TRUE,
                    nextSearch |-> runner.firstSearch, thisSearch |-> First,
                    ordered |-> Ordered(t, keys)]
           This1(u) == IF u = runner.firstSearch THEN s ELSE search[u].thisSearch
<1>1. /\ Running \subseteq Search /\ DOMAIN phase = Search
      /\ \A u \in Search : phase[u] = "unused" => u \notin Running
      /\ Listed(runner, search) /\ \A u \in Running : Waiting(search[u])
    BY Zenon DEF Inv
<1>2. /\ phase[s] = "unused" /\ phase' = [phase EXCEPT ![s] = "running"]
      /\ runner' = [searches |-> runner.searches + 1, firstSearch |-> s]
      /\ search' = [u \in Running \cup {s} |->
               IF u = s THEN new
               ELSE [search[u] EXCEPT !.thisSearch = IF u = runner.firstSearch THEN s ELSE @]]
      /\ orphan' = orphan
    BY Zenon DEF SearchRunner_search
<1>3. s \notin Running
    BY <1>1, <1>2, Zenon
<1>4. keys \in Seq(DOMAIN known)
  <2>1. DOMAIN known \subseteq Node /\ IsFiniteSet(Node)
    BY SearchAssumption, Zenon
  <2>2. IsFiniteSet(DOMAIN known)
    BY <2>1, FS_Subset, Zenon
  <2>3. MaxRequests[s] \in Nat
    <3>1. MaxRequests \in [Search -> Nat \ {0}]
      BY SearchAssumption, Zenon
    <3> QED
      BY <3>1, Zenon
  <2> QED
    BY <2>2, <2>3, ClosestKnown, Zenon
<1> HIDE DEF keys
<1>5. runner.firstSearch \in Search \cup {NULL}
  <2>1. PICK L : Chain(runner, search, L)
    BY <1>1, Zenon DEF Listed
  <2>2. /\ runner.searches \in Nat /\ \A i \in 1 .. runner.searches : L[i] \in Running
        /\ runner.firstSearch = IF runner.searches = 0 THEN NULL ELSE L[1]
    BY <2>1, Zenon DEF Chain, Running
  <2>3. runner.searches # 0 => 1 \in 1 .. runner.searches
    BY <2>2
  <2> QED
    BY <1>1, <2>2, <2>3, Zenon
<1>6. Waiting(new)
    BY <1>4, <1>5, NewWaits, Zenon
<1>7. new.nextSearch = runner.firstSearch /\ new.thisSearch = First
    BY Zenon
<1> HIDE DEF new
<1>8. DOMAIN search' = Running \cup {s} /\ search'[s] = new
    BY <1>2, Zenon
<1>9. ASSUME NEW u \in Running
      PROVE  /\ Waiting(search'[u]) /\ search'[u].nextSearch = search[u].nextSearch
             /\ search'[u].thisSearch = This1(u)
  <2>1. search[u] \in Record /\ Waiting(search[u])
    BY <1>1, Zenon DEF Waiting, Shape
  <2>2. /\ search[u].nextSearch \in Search \cup {NULL}
        /\ search[u].thisSearch \in Search \cup {First}
    BY <2>1, Zenon DEF Record
  <2>3. search'[u] = [search[u] EXCEPT !.thisSearch = IF u = runner.firstSearch THEN s ELSE @]
    BY <1>2, <1>3, Zenon
  <2>4. search'[u] = [search[u] EXCEPT !.nextSearch = search[u].nextSearch, !.thisSearch = This1(u)]
    BY <2>1, <2>3, Zenon DEF Record
  <2>5. This1(u) \in Search \cup {First}
    BY <2>2, Zenon
  <2> HIDE DEF This1
  <2> DEFINE c == search[u]
             v == search'[u]
             a == search[u].nextSearch
             b == This1(u)
  <2>6. /\ Waiting(c) /\ a \in Search \cup {NULL} /\ b \in Search \cup {First}
        /\ v = [c EXCEPT !.nextSearch = a, !.thisSearch = b]
    BY <2>1, <2>2, <2>4, <2>5, Zenon
  <2> HIDE DEF a, b, c, v
  <2>7. Waiting(v) /\ v.nextSearch = a /\ v.thisSearch = b
    <3>1. c \in Record
      BY <2>6, Zenon DEF Waiting, Shape
    <3>2. /\ v \in Record /\ v.nextSearch = a /\ v.thisSearch = b
          /\ v.target = c.target /\ v.maxRequests = c.maxRequests /\ v.asked = c.asked
          /\ v.stack = c.stack /\ v.lastNodeAsked = c.lastNodeAsked /\ v.ordered = c.ordered
          /\ v.pings = c.pings
      BY <2>6, <3>1, Zenon DEF Record
    <3> QED
      BY <2>6, <3>2, StillWaiting, Zenon
  <2> QED
    BY <2>7, Zenon DEF a, b, v
<1>10. runner'.searches = runner.searches + 1 /\ runner'.firstSearch = s
    BY <1>2, Zenon
<1>11. Listed(runner', search')
  <2>1. /\ DOMAIN search \subseteq Search /\ s \notin DOMAIN search
        /\ DOMAIN search' = DOMAIN search \cup {s}
    BY <1>1, <1>3, <1>8, Zenon DEF Running
  <2>2. search'[s].nextSearch = runner.firstSearch /\ search'[s].thisSearch = First
    BY <1>7, <1>8, Zenon
  <2>3. \A u \in DOMAIN search :
               /\ search'[u].nextSearch = search[u].nextSearch
               /\ search'[u].thisSearch = IF u = runner.firstSearch THEN s ELSE search[u].thisSearch
    BY <1>9, Zenon DEF Running
  <2> QED
    BY <1>1, <1>10, <2>1, <2>2, <2>3, ListedAdd
<1>12. \A u \in Running \cup {s} : Waiting(search'[u])
    BY <1>6, <1>8, <1>9, Zenon
<1>13. /\ DOMAIN phase' = Search
       /\ \A u \in Search : phase'[u] = "unused" => u \notin Running \cup {s}
  <2>1. DOMAIN phase' = Search /\ \A u \in Search : u # s => phase'[u] = phase[u]
    BY <1>1, <1>2, Zenon
  <2>2. phase'[s] = "running"
    BY <1>1, <1>2, Zenon
  <2>3. "running" # "unused"
    BY Zenon
  <2> QED
    BY <1>1, <2>1, <2>2, <2>3, Zenon
<1>14. \A u \in DOMAIN orphan' : Waiting(orphan'[u])
    BY <1>2, Zenon DEF Inv
<1> QED
    BY <1>1, <1>8, <1>11, <1>12, <1>13, <1>14, Zenon DEF Inv, Running

(* The continue timer fires. *)
LEMMA NextNodeStep ==
    ASSUME Inv, NEW s, searchNextNode(s)
    PROVE  Inv'
<1> DEFINE c == Struct(s)
           q == [c EXCEPT !.armed = TRUE]
<1>1. searchStep(s, q) /\ Waiting(c) /\ c \in Record
    BY StructWaits, Zenon DEF searchNextNode
<1> HIDE DEF c
<1>2. /\ q \in Record /\ q.nextSearch = c.nextSearch /\ q.thisSearch = c.thisSearch
      /\ q.target = c.target /\ q.maxRequests = c.maxRequests /\ q.asked = c.asked
      /\ q.stack = c.stack /\ q.lastNodeAsked = c.lastNodeAsked /\ q.ordered = c.ordered
      /\ q.pings = c.pings
    BY <1>1, Zenon DEF Record
<1> HIDE DEF q
<1>3. Ready(q)
    BY <1>1, <1>2, StillWaiting, WaitingReady, Zenon
<1> QED
    BY <1>1, <1>2, <1>3, SearchStep, Zenon DEF c

(* A request is over; the rest of its search is what it was. *)
LEMMA PingOver ==
    ASSUME Inv, NEW s \in Present, NEW n
    PROVE  /\ Waiting(Ended(s, n)) /\ Ended(s, n).asked = Struct(s).asked
           /\ Ended(s, n).nextSearch = Struct(s).nextSearch
           /\ Ended(s, n).thisSearch = Struct(s).thisSearch
<1> DEFINE c == Struct(s)
           q == Ended(s, n)
<1>1. Waiting(c) /\ c \in Record /\ q = [c EXCEPT !.pings = @ \ {n}]
    BY StructWaits, Zenon DEF Ended
<1> HIDE DEF c, q
<1>2. /\ q \in Record /\ q.nextSearch = c.nextSearch /\ q.thisSearch = c.thisSearch
      /\ q.target = c.target /\ q.maxRequests = c.maxRequests /\ q.asked = c.asked
      /\ q.stack = c.stack /\ q.lastNodeAsked = c.lastNodeAsked /\ q.ordered = c.ordered
      /\ q.pings \subseteq c.pings
    BY <1>1, Zenon DEF Record
<1>3. Waiting(q)
    BY <1>1, <1>2, StillWaiting, Zenon
<1> QED
    BY <1>2, <1>3, Zenon DEF c, q

(* A request is answered. *)
LEMMA AnsweredStep ==
    ASSUME Inv, NEW s \in Present, NEW n, NEW from, NEW list \in Answer, NEW unknown,
           searchCallback(s, n, from, list, unknown)
    PROVE  Inv'
<1> DEFINE c == Struct(s)
           u == Ended(s, n)
           v == searchReplyCallback(u, from, list)
<1>1. searchStep(s, v) /\ n \in c.pings /\ from \in Sender(s, n) /\ Waiting(c)
    BY StructWaits, Zenon DEF searchCallback
<1>2. /\ Waiting(u) /\ u.asked = c.asked /\ u.nextSearch = c.nextSearch
      /\ u.thisSearch = c.thisSearch
    BY PingOver, Zenon
<1>3. n \in DOMAIN u.asked /\ c \in Record
    BY <1>1, <1>2, Zenon DEF Waiting, Shape
<1>4. from \in Address
  <2>1. c.asked[n] \in Address
    BY <1>2, <1>3, RecordIs, Zenon
  <2>2. c.asked[n].key \in Node \cup {Self}
    BY <2>1, AddressIs, Zenon
  <2>3. from \in [key : {c.asked[n].key}, path : Paths[c.asked[n].key]]
    BY <1>1, Zenon DEF Sender
  <2> QED
    BY <2>2, <2>3, Zenon DEF Address
<1> HIDE DEF u
<1>5. Ready(v) /\ v.nextSearch = u.nextSearch /\ v.thisSearch = u.thisSearch
    BY <1>2, <1>3, <1>4, ReplyReady, Zenon
<1> HIDE DEF v
<1> QED
    BY <1>1, <1>2, <1>5, SearchStep, Zenon

(* A request is answered by another node than was asked. *)
LEMMA ByOtherStep ==
    ASSUME Inv, NEW s \in Present, NEW n, AnsweredByOther(s, n)
    PROVE  Inv'
<1> DEFINE q == Ended(s, n)
<1>1. /\ runner' = runner /\ phase' = phase
      /\ \/ s \in Running /\ search' = [search EXCEPT ![s] = q] /\ orphan' = orphan
         \/ s \notin Running /\ orphan' = [orphan EXCEPT ![s] = q] /\ search' = search
    BY Zenon DEF AnsweredByOther
<1>2. Waiting(q) /\ q.nextSearch = Struct(s).nextSearch /\ q.thisSearch = Struct(s).thisSearch
    BY PingOver, Zenon
<1> HIDE DEF q
<1>3. CASE s \in Running
  <2>1. q.nextSearch = search[s].nextSearch /\ q.thisSearch = search[s].thisSearch
    BY <1>2, <1>3, Zenon DEF Struct
  <2> QED
    BY <1>1, <1>2, <1>3, <2>1, OneChanges, Zenon
<1>4. CASE s \notin Running
    BY <1>1, <1>2, <1>4, OrphanChanges, Zenon
<1> QED
    BY <1>3, <1>4, Zenon

(* A request times out. *)
LEMMA TimeoutStep ==
    ASSUME Inv, NEW s \in Present, NEW n, onTimeout(s, n)
    PROVE  Inv'
<1>1. CASE searchStep(s, Ended(s, n))
  <2> DEFINE q == Ended(s, n)
  <2>1. Waiting(q) /\ q.nextSearch = Struct(s).nextSearch /\ q.thisSearch = Struct(s).thisSearch
    BY PingOver, Zenon
  <2>2. searchStep(s, q)
    BY <1>1, Zenon
  <2> HIDE DEF q
  <2> QED
    BY <2>1, <2>2, WaitingReady, SearchStep, Zenon
<1>2. CASE s \in Running /\ FreedAndStepped(s)
  <2> DEFINE c == search[s]
             q == Freed(c)
             v == OrphanStep(q)
  <2>1. Waiting(c) /\ c \in Record
    BY <1>2, Zenon DEF Inv, Waiting, Shape
  <2>2. q = [c EXCEPT !.pings = {}, !.armed = FALSE, !.nextSearch = NULL, !.thisSearch = First]
    BY Zenon DEF Freed
  <2> HIDE DEF c, q
  <2>3. /\ q \in Record /\ q.target = c.target /\ q.maxRequests = c.maxRequests
        /\ q.asked = c.asked /\ q.stack = c.stack /\ q.lastNodeAsked = c.lastNodeAsked
        /\ q.ordered = c.ordered /\ q.pings \subseteq c.pings
    BY <2>1, <2>2, Zenon DEF Record
  <2>4. Waiting(v)
    BY <2>1, <2>3, StillWaiting, WaitingReady, OrphanWaits, Zenon
  <2>5. /\ searchOnFree(s) /\ phase' = [phase EXCEPT ![s] = "over"]
        /\ orphan' = [t \in DOMAIN orphan \cup {s} |-> IF t = s THEN v ELSE orphan[t]]
    BY <1>2, Zenon DEF FreedAndStepped, c, q
  <2> HIDE DEF v
  <2>6. \A t \in DOMAIN orphan' : Waiting(orphan'[t])
    BY <2>4, <2>5, Zenon DEF Inv
  <2> QED
    BY <1>2, <2>5, <2>6, FreeStep, Zenon
<1> QED
    BY <1>1, <1>2, Zenon DEF onTimeout

(* Nothing runs at first. *)
LEMMA InitInv == Init => Inv
<1> SUFFICES ASSUME Init
             PROVE  Inv
    BY Zenon
<1>1. /\ runner = [searches |-> 0, firstSearch |-> NULL] /\ search = <<>>
      /\ phase = [s \in Search |-> "unused"] /\ orphan = <<>>
    BY Zenon DEF Init
<1>2. DOMAIN search = {} /\ DOMAIN orphan = {}
    BY <1>1
<1>3. runner.searches = 0 /\ runner.firstSearch = NULL
    BY <1>1, Zenon
<1>4. Listed(runner, search)
  <2>1. IsFiniteSet({}) /\ Cardinality({}) = 0
    BY FS_EmptySet, Zenon
  <2>2. 1 .. 0 = {}
    OBVIOUS
  <2>3. Chain(runner, search, <<>>)
    <3>1. <<>> \in [1 .. 0 -> {}]
      OBVIOUS
    <3> QED
      BY <1>2, <1>3, <2>2, <3>1 DEF Chain
  <2> QED
    BY <1>2, <1>3, <2>1, <2>3, Zenon DEF Listed
<1> QED
    BY <1>1, <1>2, <1>4, Zenon DEF Inv, Running

(* Every action keeps the list in order, and every search. *)
LEMMA NextInv == Inv /\ [Next]_vars => Inv'
<1> SUFFICES ASSUME Inv, [Next]_vars
             PROVE  Inv'
    BY Zenon
<1>1. CASE UNCHANGED <<runner, search, orphan, phase>>
  <2>1. runner' = runner /\ search' = search /\ orphan' = orphan /\ phase' = phase
    BY <1>1, Zenon
  <2> QED
    BY <2>1, Zenon DEF Inv, Running
<1>2. ASSUME NEW s \in Search, NEW t \in Target, NEW known \in Store, SearchRunner_search(s, t, known)
      PROVE  Inv'
    BY <1>2, StartStep, Zenon
<1>3. ASSUME NEW s \in Search, searchNextNode(s)
      PROVE  Inv'
    BY <1>3, NextNodeStep, Zenon
<1>4. ASSUME NEW s \in Search, Cancel(s)
      PROVE  Inv'
  <2>1. \A t \in DOMAIN orphan' : Waiting(orphan'[t])
    BY <1>4, Zenon DEF Cancel, Inv
  <2> QED
    BY <1>4, <2>1, FreeStep, Zenon DEF Cancel
<1>5. ASSUME NEW s \in Present, NEW n, NEW from, NEW list \in Answer, NEW unknown,
             searchCallback(s, n, from, list, unknown)
      PROVE  Inv'
    BY <1>5, AnsweredStep, Zenon
<1>6. ASSUME NEW s \in Present, NEW n, AnsweredByOther(s, n)
      PROVE  Inv'
    BY <1>6, ByOtherStep, Zenon
<1>7. ASSUME NEW s \in Present, NEW n, onTimeout(s, n)
      PROVE  Inv'
    BY <1>7, TimeoutStep, Zenon
<1>8. CASE TakeRumor
    BY <1>1, <1>8, Zenon DEF TakeRumor
<1>9. CASE UNCHANGED vars
    BY <1>1, <1>9, Zenon DEF vars
<1> QED
    BY <1>2, <1>3, <1>4, <1>5, <1>6, <1>7, <1>8, <1>9, Zenon DEF Next

-----------------------------------------------------------------------------
(* The searches are listed and wait, in every reachable state              *)
(* (SearchRunner_search, searchStep, searchOnFree, searchReplyCallback).   *)
THEOREM Invariance == Spec => []Inv
    BY InitInv, NextInv, PTL DEF Spec

(* However many searches start, end and are cancelled, in whatever order:  *)
(* SearchRunner_showActiveSearch() shows each running search under one of  *)
(* the numbers below the count, nothing beyond, and no pointer that        *)
(* searchOnFree() leaves behind leads to a search that is gone.            *)
THEOREM ShownOnce == Spec => []EachShownOnce
<1>1. Inv => EachShownOnce
    BY ListedShown, Zenon DEF Inv
<1> QED
    BY <1>1, Invariance, PTL

(* For any keys, paths and answers, and any limits that the ring of asked  *)
(* nodes can hold: a search that begins in order asks no node twice, since *)
(* an answer counts only from the last node asked and for closer nodes     *)
(* (searchReplyCallback, SearchStore_addNodeToSearch).                     *)
THEOREM AskedOnce == Spec => []AskedOnceIfOrdered
<1>1. Inv => AskedOnceIfOrdered
  <2> SUFFICES ASSUME Inv, NEW s \in Present
               PROVE  Struct(s).ordered => OnceEach(Struct(s))
    BY Zenon DEF AskedOnceIfOrdered, OnceEach
  <2> QED
    BY StructWaits, Zenon DEF Waiting
<1> QED
    BY <1>1, Invariance, PTL
=============================================================================
