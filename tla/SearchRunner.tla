---------------------------- MODULE SearchRunner ----------------------------
(***************************************************************************)
(* The searches of dht/dhtcore: SearchRunner.c asks node after node for    *)
(* the ones closest to a target, SearchStore.c keeps the stack of nodes to *)
(* ask and the ring of nodes asked, RouterModule.c and util/Pinger.c carry *)
(* each request as a ping that is answered, times out, or is taken away    *)
(* with its search, and RumorMill.c collects the nodes that are heard of   *)
(* and not yet known.                                                      *)
(*                                                                         *)
(* An address is a key and a path.  Keys are small numbers compared by the *)
(* exclusive-or metric of Address_closest(); the network is free: any      *)
(* outstanding request may be answered with any list of addresses at any   *)
(* time, in any order, or never.  The node store is asked twice by this    *)
(* code (which nodes are closest, is this one known) and may hold          *)
(* anything at either moment.                                              *)
(***************************************************************************)
EXTENDS Integers, Sequences, FiniteSetsExt

CONSTANTS
    Search,               \* the searches that may be started
    Node,                 \* keys of the other nodes, numbers
    Bits,                 \* bound: the bits of a key, 128 in the code
    Distance,             \* the exclusive or of a target and a key
    Self,                 \* our own key, which the store's tree holds as well
    Target,               \* what is searched for, numbers
    Paths,                \* the labels that lead to each node, numbers
    MaxConcurrent,        \* runner->maxConcurrentSearches
    MaxRequests,          \* [Search -> Nat], the maxRequests each is started with
    MaxRequestsIfFound,   \* search->maxRequestsIfFound
    Owned,                \* the janitor's searches: their owner frees them when it is
                          \* called back without an answer
    SearchNodes,          \* SearchStore_SEARCH_NODES
    MillSize,             \* rm->capacity
    Store,                \* bound: what the store may hold, a best path for some nodes
    Answer,               \* bound: the lists of addresses an answer may hold
    NULL, First           \* no search; the address of runner->firstSearch

Address == UNION {[key : {k}, path : Paths[k]] : k \in Node \cup {Self}}

(* Address_xorcmp(): keys are compared by their exclusive or with the      *)
(* target; Distance is a table of it.                                      *)
Bit(x, i) == (x \div 2^i) % 2

Xor(x, y) ==
    LET low[i \in 0..Bits] ==
            IF i = 0 THEN 0
            ELSE low[i - 1] + 2^(i - 1) * (IF Bit(x, i - 1) # Bit(y, i - 1) THEN 1 ELSE 0)
    IN  low[Bits]

ASSUME SearchAssumption ==
    /\ \A t \in Target \cup {Self}, k \in Node \cup {Self} :
           Distance[t, k] \in Nat /\ Distance[t, k] = Xor(t, k)
    /\ IsFiniteSet(Node) /\ Node \subseteq Nat /\ Target \subseteq Nat /\ Self \in Nat \ Node
    /\ {MaxConcurrent, MaxRequestsIfFound} \subseteq Nat
    /\ MaxRequests \in [Search -> Nat \ {0}]
    /\ {SearchNodes, MillSize} \subseteq Nat \ {0}
    /\ \A s \in Search : MaxRequests[s] <= SearchNodes     \* 8 or 20, and 256
    /\ DOMAIN Paths = Node \cup {Self}
    /\ \A k \in DOMAIN Paths : Paths[k] \subseteq Nat \ {0}
    /\ \A k, l \in DOMAIN Paths : k # l => Paths[k] \cap Paths[l] = {}
    /\ \A known \in Store : DOMAIN known \subseteq Node
                             /\ \A k \in DOMAIN known : known[k] \in Paths[k]
    /\ Answer \subseteq Seq(Address)
    /\ NULL \notin Search /\ First \notin Search /\ Owned \subseteq Search

VARIABLES
    runner,   \* [searches, firstSearch]
    search,   \* the running searches, each a struct SearchRunner_Search
    orphan,   \* the searches that were freed in mid-step and go on
    phase,    \* [Search -> "unused", "running" or "over"]
    mill      \* the addresses of the rumor mill

vars == <<runner, search, orphan, phase, mill>>

Running == DOMAIN search

(* Every struct SearchRunner_Search with requests and a timer that lead to *)
(* it, in the list or not.                                                 *)
Present == Running \cup DOMAIN orphan
Struct(s) == IF s \in Running THEN search[s] ELSE orphan[s]

-----------------------------------------------------------------------------
(* Address_closest().                                                      *)

Closer(t, a, b) == Distance[t, a] < Distance[t, b]

(* NodeStore_getClosestNodes() walks the tree of keys outwards from the    *)
(* target, always stepping to the side whose next node is closer, until it *)
(* has count nodes that may be told, ourselves excepted.  What it found    *)
(* first stands last.                                                      *)
Outwards(t, below, above) ==
    IF above = {} \/ (below # {} /\ Closer(t, Max(below), Min(above))) THEN Max(below) ELSE Min(above)

NodeStore_getClosestNodes(t, known, count) ==
    LET tree == known \cup {Self}
        from == IF \E k \in tree : k >= t THEN Min({k \in tree : k >= t}) ELSE Max(tree)
        walk[n \in 0 .. Cardinality(tree)] ==
            IF n = 0 THEN [left |-> tree, found |-> <<>>]
            ELSE LET w == walk[n - 1]
                     k == Outwards(t, {j \in w.left : j < from}, {j \in w.left : j >= from})
                 IN  [left  |-> w.left \ {k},
                      found |-> IF k \in known /\ Len(w.found) < count
                                THEN <<k>> \o w.found ELSE w.found]
    IN  walk[Cardinality(tree)].found

-----------------------------------------------------------------------------
(* SearchStore: asked is every node popped so far; the ring nodesAsked     *)
(* holds the last SearchNodes of them.                                     *)

NodesAsked(q) ==
    {q.asked[i].key : i \in {j \in DOMAIN q.asked : j > Len(q.asked) - SearchNodes}}

Top(stack) == stack[Len(stack)]
Popped(stack) == SubSeq(stack, 1, Len(stack) - 1)

AddUnlessLastAsked(q, a) ==
    IF q.asked # <<>> /\ a.key = Top(q.asked).key THEN q
    ELSE [q EXCEPT !.stack = Append(IF Len(@) < SearchNodes THEN @ ELSE Popped(@), a)]

SearchStore_addNodeToSearch(q, a) ==
    IF a.key \in NodesAsked(q) THEN q
    ELSE [q EXCEPT !.stack = Append(IF Len(@) < SearchNodes THEN @ ELSE Popped(@), a)]

(* Called on a stack that is not empty.                                    *)
SearchStore_getNextNode(q) ==
    [q EXCEPT !.stack = Popped(@), !.asked = Append(@, Top(q.stack))]

-----------------------------------------------------------------------------
(* RumorMill: getBadness() adds the length of the path to that of the      *)
(* distance from ourselves.                                                *)

Log2(x) == CHOOSE n \in 0..x : 2^n <= x /\ x < 2^(n + 1)

Badness(a) == Log2(Distance[Self, a.key]) + Log2(a.path)

FirstWhere(m, Suits(_)) == Min({i \in DOMAIN m : Suits(i)})

Worst(m) == FirstWhere(m, LAMBDA i : \A j \in DOMAIN m : Badness(m[j]) <= Badness(m[i]))
Best(m)  == FirstWhere(m, LAMBDA i : \A j \in DOMAIN m : Badness(m[i]) <= Badness(m[j]))

RumorMill_addNode(m, a) ==
    IF a \in Range(m) \/ a.key = Self THEN m
    ELSE IF Len(m) < MillSize THEN Append(m, a)
    ELSE [m EXCEPT ![Worst(m)] = a]

(* The best one is handed out and the last one takes its place.            *)
RumorMill_getNode(m) == Popped([m EXCEPT ![Best(m)] = Top(m)])

-----------------------------------------------------------------------------
(* An answer: what searchReplyCallback() takes from it.                    *)

isDuplicateEntry(list, index) ==
    \E i \in DOMAIN list : i > index /\ list[i].key = list[i].key

(* The entries that count: closer to the target than the node they come    *)
(* from, in an answer to the latest question.                              *)
Counts(q, from, list, i) ==
    /\ ~isDuplicateEntry(list, i)
    /\ Closer(q.target, list[i].key, from.key)
    /\ q.lastNodeAsked.path = from.path

Entries(q, from, list) == {list[i] : i \in {j \in DOMAIN list : Counts(q, from, list, j)}}

(* isDuplicateEntry() leaves one entry of a list, so that entries have no  *)
(* order and there are no two paths to the target to choose from.          *)
With(Add(_, _), x, entries) == IF entries = {} THEN x ELSE Add(x, CHOOSE a \in entries : TRUE)

searchReplyCallback(q, from, list) ==
    With(SearchStore_addNodeToSearch,
         [q EXCEPT !.armed = @ \/ from.key = q.lastNodeAsked.key,
                   !.numFinds = IF from.key = q.target THEN @ + 1 ELSE @],
         Entries(q, from, list))

-----------------------------------------------------------------------------
(* searchStep(): the request number is the place in asked, which is also   *)
(* totalRequests.                                                          *)

Exhausted(q) ==
    \/ Len(q.asked) >= q.maxRequests
    \/ q.numFinds > 0 /\ Len(q.asked) >= MaxRequestsIfFound
    \/ q.stack = <<>>

Ask(q) ==
    [SearchStore_getNextNode(q) EXCEPT
        !.lastNodeAsked = Top(q.stack),
        !.pings = @ \cup {Len(q.asked) + 1}]

(* searchOnFree(), and freePing() for each request of the search.          *)
OnFreeKeepsBackPointer(s) ==
    LET q == search[s]
    IN  /\ runner' = [searches    |-> runner.searches - 1,
                      firstSearch |-> IF q.thisSearch = First THEN q.nextSearch
                                      ELSE runner.firstSearch]
        /\ search' = [t \in Running \ {s} |->
                [search[t] EXCEPT !.nextSearch = IF q.thisSearch = t THEN q.nextSearch ELSE @]]

searchOnFree(s) ==
    LET q == search[s]
    IN  /\ runner' = [searches    |-> runner.searches - 1,
                      firstSearch |-> IF q.thisSearch = First THEN q.nextSearch
                                      ELSE runner.firstSearch]
        /\ search' = [t \in Running \ {s} |->
                [search[t] EXCEPT
                    !.nextSearch = IF q.thisSearch = t THEN q.nextSearch ELSE @,
                    !.thisSearch = IF q.nextSearch = t THEN q.thisSearch ELSE @]]

(* What is freed while it is being freed stays: an orphan that has nobody  *)
(* left to ask takes a node off its stack, calls back and is left as it    *)
(* is.                                                                     *)
OrphanStep(q) ==
    IF Exhausted(q)
    THEN [q EXCEPT !.stack = IF @ = <<>> THEN @ ELSE Popped(@)]
    ELSE Ask(q)

searchStep(s, q) ==
    \/ /\ s \in DOMAIN orphan
       /\ orphan' = [orphan EXCEPT ![s] = OrphanStep(q)]
       /\ UNCHANGED <<runner, search, phase>>
    \/ /\ s \in Running /\ Exhausted(q)
       /\ searchOnFree(s)
       /\ phase' = [phase EXCEPT ![s] = "over"]
       /\ UNCHANGED orphan
    \/ /\ s \in Running /\ ~Exhausted(q)
       /\ search' = [search EXCEPT ![s] = Ask(q)]
       /\ UNCHANGED <<runner, orphan, phase>>

(* A search that was freed: its requests and its timer are gone, and       *)
(* nothing follows its links any more.                                     *)
Freed(q) ==
    [q EXCEPT !.pings = {}, !.armed = FALSE, !.nextSearch = NULL, !.thisSearch = First]

(* The owner's callback frees the search and searchCallback() goes on with *)
(* it.  A request that it makes adds jobs to an allocator that has run its *)
(* jobs, which is therefore never released.                                *)
FreedAndStepped(s) ==
    /\ searchOnFree(s)
    /\ orphan' = [t \in DOMAIN orphan \cup {s} |->
                      IF t = s THEN OrphanStep(Freed(search[s])) ELSE orphan[t]]
    /\ phase' = [phase EXCEPT ![s] = "over"]

-----------------------------------------------------------------------------
Ordered(t, keys) == \A i, j \in DOMAIN keys : i < j => Closer(t, keys[j], keys[i])

(* known is what the store holds, by the best path it has; a search with   *)
(* nowhere to begin, or beyond the limit, is not started.                  *)
SearchRunner_search(s, t, known) ==
    LET keys == NodeStore_getClosestNodes(t, DOMAIN known, MaxRequests[s])
        new  == [target |-> t, maxRequests |-> MaxRequests[s], asked |-> <<>>,
                 pings |-> {}, numFinds |-> 0,
                 stack |-> [i \in DOMAIN keys |-> [key |-> keys[i], path |-> known[keys[i]]]],
                 lastNodeAsked |-> [key |-> NULL, path |-> 0], armed |-> TRUE,
                 nextSearch |-> runner.firstSearch, thisSearch |-> First,
                 ordered |-> Ordered(t, keys)]
    IN  /\ phase[s] = "unused"
        /\ runner.searches <= MaxConcurrent
        /\ keys # <<>>
        /\ phase' = [phase EXCEPT ![s] = "running"]
        /\ runner' = [searches |-> runner.searches + 1, firstSearch |-> s]
        /\ search' = [u \in Running \cup {s} |->
               IF u = s THEN new
               ELSE [search[u] EXCEPT !.thisSearch = IF u = runner.firstSearch THEN s ELSE @]]
        /\ UNCHANGED <<orphan, mill>>

(* The continue timer: a one-shot timer that sets itself again.            *)
NextNodeOnce(s) ==
    /\ s \in Present
    /\ Struct(s).armed
    /\ searchStep(s, [Struct(s) EXCEPT !.armed = FALSE])
    /\ UNCHANGED mill

searchNextNode(s) ==
    /\ s \in Present
    /\ Struct(s).armed
    /\ searchStep(s, [Struct(s) EXCEPT !.armed = TRUE])
    /\ UNCHANGED mill

(* Request n is over. *)
Ended(s, n) == [Struct(s) EXCEPT !.pings = @ \ {n}]

(* Who an answer to request n may be from: the node asked, over any path   *)
(* that leads to it.                                                       *)
Sender(s, n) ==
    LET k == Struct(s).asked[n].key IN [key : {k}, path : Paths[k]]

(* Request n is answered by from; unknown are the keys the store does not  *)
(* have.  An owner that is called back with an answer frees nothing.       *)
searchCallback(s, n, from, list, unknown) ==
    /\ n \in Struct(s).pings
    /\ from \in Sender(s, n)
    /\ searchStep(s, searchReplyCallback(Ended(s, n), from, list))
    /\ mill' = With(RumorMill_addNode, mill,
                    {a \in Entries(Struct(s), from, list) : a.key \in unknown})

(* An answer from another node than was asked: onResponseOrTimeout()       *)
(* returns, and the ping is gone without a word to the search.             *)
AnsweredByOther(s, n) ==
    /\ n \in Struct(s).pings
    /\ IF s \in Running
       THEN search' = [search EXCEPT ![s] = Ended(s, n)] /\ UNCHANGED orphan
       ELSE orphan' = [orphan EXCEPT ![s] = Ended(s, n)] /\ UNCHANGED search
    /\ UNCHANGED <<runner, phase, mill>>

(* Without an answer the owner is called back as if the search were over. *)
onTimeout(s, n) ==
    /\ n \in Struct(s).pings
    /\ IF s \in Running \cap Owned THEN FreedAndStepped(s) ELSE searchStep(s, Ended(s, n))
    /\ UNCHANGED mill

(* The owner frees the allocator it gave.                                  *)
Cancel(s) ==
    /\ s \in Running
    /\ searchOnFree(s)
    /\ phase' = [phase EXCEPT ![s] = "over"]
    /\ UNCHANGED <<orphan, mill>>

(* The janitor takes the best rumor, to ping it.                           *)
TakeRumor ==
    /\ mill # <<>>
    /\ mill' = RumorMill_getNode(mill)
    /\ UNCHANGED <<runner, search, orphan, phase>>

Init ==
    /\ runner = [searches |-> 0, firstSearch |-> NULL]
    /\ search = <<>>
    /\ orphan = <<>>
    /\ phase = [s \in Search |-> "unused"]
    /\ mill = <<>>

Told(q, from, list) == {a.key : a \in Entries(q, from, list)}

Next ==
    \/ \E s \in Search, t \in Target, known \in Store : SearchRunner_search(s, t, known)
    \/ \E s \in Search : searchNextNode(s) \/ Cancel(s)
    \/ \E s \in Present : \E n \in Struct(s).pings :
          \E from \in Sender(s, n), list \in Answer :
              \E unknown \in SUBSET Told(Struct(s), from, list) :
                  searchCallback(s, n, from, list, unknown)
    \/ \E s \in Present : \E n \in Struct(s).pings : AnsweredByOther(s, n) \/ onTimeout(s, n)
    \/ TakeRumor

(* The event loop fires an armed continue timer.  Nothing is assumed of    *)
(* answers, or of the timers of the pings.                                 *)
TimersFire ==
    \A s \in Search : \/ []<>~(s \in Running /\ search[s].armed)
                      \/ []<><<searchNextNode(s)>>_vars

Spec == Init /\ [][Next]_vars /\ TimersFire

-----------------------------------------------------------------------------
(* SearchRunner_showActiveSearch(): the search a number shows.             *)
SearchRunner_showActiveSearch(number) ==
    LET shown[i \in 0 .. number] ==
            IF i = 0 THEN runner.firstSearch
            ELSE IF shown[i - 1] = NULL THEN NULL ELSE search[shown[i - 1]].nextSearch
    IN  shown[number]

(* However searches start, end and are cancelled, the numbers below the    *)
(* count of active searches show each running search once, the numbers     *)
(* beyond show none, and no pointer of the list leads to a search that is  *)
(* gone (SearchRunner_search, searchOnFree, SearchRunner_showActiveSearch).*)
EachShownOnce ==
    /\ runner.searches = Cardinality(Running)
    /\ \A s \in Running : search[s].nextSearch \in Running \cup {NULL}
    /\ {SearchRunner_showActiveSearch(i) : i \in 0..(runner.searches - 1)} = Running
    /\ SearchRunner_showActiveSearch(runner.searches) = NULL

(* A search that began with its nodes ordered from farthest to closest     *)
(* asks no node twice, whatever answers come, however late: an answer      *)
(* counts only while its sender is the last one asked, and only for nodes  *)
(* closer than the sender, which the stack then cannot hold already.       *)
AskedOnceIfOrdered ==
    \A s \in Present :
        LET q == Struct(s)
        IN  q.ordered => \A i, j \in DOMAIN q.asked : q.asked[i].key = q.asked[j].key => i = j

(* A search that is started is over in the end, or cancelled, whatever is  *)
(* lost, late or answered by the wrong node: the continue timer is armed   *)
(* until then and each time it fires the search asks one node more.        *)
SearchesEnd == \A s \in Search : phase[s] = "running" ~> phase[s] = "over"

=============================================================================
