------------------------------ MODULE NodeStore ------------------------------
(***************************************************************************)
(* The graph of known nodes and links of dht/dhtcore/NodeStore.c and       *)
(* Node.c, and the tree of best parents kept over it: what discovering a   *)
(* node, losing a link, an answer or a timeout along a path do to the      *)
(* links, and how findBestParent() repairs the tree.                       *)
(*                                                                         *)
(* A label is one number per hop, so a path is the sequence of the labels  *)
(* that lead to a node from ourselves, and a link is a parent and a label. *)
(* Every link is one hop: discoverLinkC() takes no other, which leaves     *)
(* fixLink() nothing to split.  Module RouteLabels has the arithmetic of   *)
(* labels.  Link costs follow the code's formulas on a smaller scale.      *)
(***************************************************************************)
EXTENDS Integers, SequencesExt, FiniteSetsExt

CONSTANTS
    Node,           \* the other nodes
    Self,           \* store->pub.selfNode
    Order,          \* the nodes in the order of the store's tree
    LinkLabels,     \* [Node \cup {Self} -> the labels a node may use]
    MaxHops,        \* the longest path a label can represent
    MinCost,        \* 1024
    MaxCost,        \* UINT32_MAX, a link that is not used
    LatencyWindow,  \* NodeStore_latencyWindow
    NodeCapacity,   \* store->pub.nodeCapacity
    Distance,       \* [node -> the XOR of its prefix with ours]
    Bucket,         \* [node -> NodeStore_bucketForAddr() from ourselves]
    BucketSize,     \* NodeStore_bucketSize
    MaxCycles,      \* 10000, in findBestParent()
    NULL

NodeStoreAssumption ==
    /\ Range(Order) = Node \cup {Self} /\ IsInjective(Order)
    /\ Self \notin Node /\ NULL \notin Node \cup {Self}
    /\ DOMAIN LinkLabels = Node \cup {Self} /\ DOMAIN Bucket = Node \cup {Self}
    /\ Distance \in [Node \cup {Self} -> Nat] /\ Distance[Self] = 0
    /\ {MaxHops, MinCost, MaxCost, NodeCapacity, BucketSize, MaxCycles} \subseteq Nat \ {0}
    /\ MinCost < MaxCost /\ LatencyWindow \in Nat \ {0, 1}

(* What is not known: UINT64_MAX as a cost and as a path.                  *)
Unreachable == MaxCost * (Cardinality(Node) + 1)
NoPath == <<NULL>>

VARIABLE store

(* store.link    the links, each with its child and its cost               *)
(* store.reverse node->reversePeers, the links to a node, newest first     *)
(* store.nodes   the nodes of the tree                                     *)
(* store.parent, .cost, .path  bestParent_pvt, cost_pvt and address.path   *)
(* store.marked, .linkedNodes, .peerCount                                  *)
(* store.changed what the last pass of findBestParent() returned           *)
(* store.failed  the assertion that ended the program, or ""            *)

-----------------------------------------------------------------------------
Links(st) == DOMAIN st.link
Out(st, n) == {l \in Links(st) : l.parent = n}
Child(st, l) == st.link[l].child
SelfLink == [parent |-> Self, label |-> NULL]

(* Node_isAncestorOf(): up the tree from child.                            *)
RECURSIVE Node_isAncestorOf(_, _, _)
Node_isAncestorOf(st, ancestor, child) ==
    \/ child = ancestor
    \/ /\ st.parent[child] \notin {NULL, SelfLink}
       /\ Node_isAncestorOf(st, ancestor, st.parent[child].parent)

guessCostOfChild(st, l) ==
    IF st.cost[l.parent] = Unreachable THEN Unreachable
    ELSE st.cost[l.parent] + st.link[l].cost

(* The links by which node may be reached.  A path longer than a label can *)
(* hold is extendRoute_TOOLONG.                                            *)
Usable(st, node) ==
    SelectSeq(st.reverse[node],
        LAMBDA l : /\ st.link[l].cost # MaxCost
                   /\ st.parent[l.parent] # NULL
                   /\ ~Node_isAncestorOf(st, node, l.parent)
                   /\ Len(st.path[l.parent]) < MaxHops)

(* The first of the cheapest, or NULL.                                     *)
RECURSIVE Cheapest(_, _, _)
Cheapest(st, links, best) ==
    IF links = <<>> THEN best
    ELSE Cheapest(st, Tail(links),
             IF best = NULL \/ guessCostOfChild(st, Head(links)) < guessCostOfChild(st, best)
             THEN Head(links) ELSE best)

(* Mutant of MarkChildren: only when the node has become cheaper.          *)
MarkCheaper(st, node, bestCost) ==
    {Child(st, l) : l \in {k \in Out(st, node) : st.cost[node] > bestCost}}

MarkChildren(st, node, bestCost) ==
    {Child(st, l) : l \in {k \in Out(st, node) :
                             st.cost[node] > bestCost \/ st.parent[Child(st, k)] = k}}

(* setParentCostAndPath(), with the marks and the count that go with it.   *)
Reparented(st, node, link, cost, path) ==
    IF cost = st.cost[node] /\ path = st.path[node]
    THEN [st EXCEPT !.marked = @ \ {node}]
    ELSE [st EXCEPT !.marked = (@ \ {node}) \cup MarkChildren(st, node, cost),
                    !.changed = TRUE,
                    !.linkedNodes = @ + (IF st.parent[node] = NULL THEN 1 ELSE 0)
                                      - (IF link = NULL THEN 1 ELSE 0),
                    !.parent[node] = link, !.cost[node] = cost, !.path[node] = path]

findBestParent0(st, node) ==
    IF node = Self THEN [st EXCEPT !.marked = @ \ {node}]
    ELSE LET link == Cheapest(st, Usable(st, node), NULL)
         IN  IF link = NULL THEN Reparented(st, node, NULL, Unreachable, NoPath)
             ELSE Reparented(st, node, link, guessCostOfChild(st, link),
                             Append(st.path[link.parent], link.label))

(* findBestParent(): the node alone, then passes over all that are marked  *)
(* for as long as a pass changes something.                                *)
RECURSIVE Settle(_, _, _)
Settle(st, todo, cycle) ==
    IF todo # <<>>
    THEN Settle(IF Head(todo) \in st.nodes \cap st.marked THEN findBestParent0(st, Head(todo))
                ELSE st, Tail(todo), cycle)
    ELSE IF ~st.changed THEN st
    ELSE IF cycle = MaxCycles THEN [st EXCEPT !.failed = "cycle"]
    ELSE Settle([st EXCEPT !.changed = FALSE], Order, cycle + 1)

findBestParent(st, node) == Settle([st EXCEPT !.marked = @ \cup {node}], <<node>>, 0)

-----------------------------------------------------------------------------
costAfterDecay(cost) == Max({MinCost, cost - cost \div LatencyWindow})
costAfterTimeout(cost) == Min({MaxCost, (cost * LatencyWindow) \div (LatencyWindow - 1)})

(* update() keeps a cost between its bounds.                               *)
update(st, l, cost) == [st EXCEPT !.link[l].cost = Max({MinCost, Min({MaxCost, cost})})]

PeerLink(l) == IF l.parent = Self THEN 1 ELSE 0

(* linkNodes(), before the news of the link.                               *)
Joined(st, l, child) ==
    [st EXCEPT !.link = [k \in DOMAIN @ \cup {l} |->
                           IF k = l THEN [child |-> child, cost |-> MinCost] ELSE @[k]],
               !.reverse[child] = <<l>> \o @,
               !.nodes = @ \cup {child}]

(* NodeStore_unlinkNodes(), after the news that the link costs too much.   *)
Parted(st, l) ==
    [st EXCEPT !.peerCount = @ - PeerLink(l),
               !.reverse[Child(st, l)] = SelectSeq(@, LAMBDA k : k # l),
               !.link = [k \in DOMAIN @ \ {l} |-> @[k]]]

(* What may be done to a link, each with handleLinkNews(): "join" it to a  *)
(* child with linkNodes(), "part" it with NodeStore_unlinkNodes(), let its *)
(* cost "decay", or have it grow at a "timeout".                           *)
Do(op, link) == [op |-> op, link |-> link, child |-> NULL]
Join(link, child) == [op |-> "join", link |-> link, child |-> child]

handleLinkNews(st, do) ==
    LET l == do.link
        before == CASE do.op = "join"  -> Joined(st, l, do.child)
                    [] do.op = "part"  -> update(st, l, MaxCost)
                    [] do.op = "decay" -> update(st, l, costAfterDecay(st.link[l].cost))
                    [] do.op = "timeout" -> update(st, l, costAfterTimeout(st.link[l].cost))
    IN  findBestParent(before, before.link[l].child)

Done(st, do) ==
    CASE do.op = "join" -> [st EXCEPT !.peerCount = @ + PeerLink(do.link)]
      [] do.op = "part" -> Parted(st, do.link)
      [] OTHER -> st

RECURSIVE Run(_, _)
Run(st, ops) ==
    IF ops = <<>> THEN st ELSE Run(Done(handleLinkNews(st, Head(ops)), Head(ops)), Tail(ops))

-----------------------------------------------------------------------------
(* findClosest(): the links along a path as far as they are known.         *)
RECURSIVE Known(_, _, _)
Known(st, n, path) ==
    LET l == [parent |-> n, label |-> Head(path)]
    IN  IF path = <<>> \/ l \notin Links(st) THEN <<>>
        ELSE <<l>> \o Known(st, Child(st, l), Tail(path))

findClosest(st, path) == Known(st, Self, path)

ClosestChild(st, known) == IF known = <<>> THEN Self ELSE Child(st, Last(known))

NodeStore_linkForPath(st, path) ==
    LET known == findClosest(st, path)
    IN  IF Len(known) = Len(path) /\ path # <<>> THEN Last(known) ELSE NULL

-----------------------------------------------------------------------------
(* destroyNode(): the links from the node, then those to it, newest first. *)
Destroy(st, node) ==
    LET out == SetToSortSeq(Out(st, node), LAMBDA k, l : k.label < l.label)
    IN  [i \in DOMAIN out |-> Do("part", out[i])]
        \o [i \in DOMAIN st.reverse[node] |-> Do("part", st.reverse[node][i])]

destroyNode(st, node) == [st EXCEPT !.nodes = @ \ {node}]

isPeer(st, node) ==
    st.parent[node] \notin {NULL, SelfLink} /\ st.parent[node].parent = Self

(* whichIsWorse(), of nodes of our own protocol version: one is.           *)
whichIsWorse(st, one, two) ==
    LET Far(n) == IF st.path[n] = NoPath THEN 1 ELSE 0
    IN  IF isPeer(st, one) # isPeer(st, two) THEN isPeer(st, two)
        ELSE IF Far(one) # Far(two) THEN Far(one) > Far(two)
        ELSE Distance[one] + st.cost[one] >= Distance[two] + st.cost[two]

WorstOf(st, nodes) ==
    FoldLeft(LAMBDA worst, n : IF worst = NULL \/ whichIsWorse(st, n, worst) THEN n ELSE worst,
             NULL, SelectSeq(Order, LAMBDA n : n \in nodes))

(* NodeStore_getNodesForBucket(): the list sorted by insertion, in which a *)
(* best parent comes before a node that is not one.                        *)
RECURSIVE Insert(_, _, _, _, _)
Insert(st, parents, list, i, new) ==
    IF i > BucketSize THEN list
    ELSE IF i > Len(list) THEN Append(list, new)
    ELSE IF (new \in parents /\ list[i] \notin parents) \/ whichIsWorse(st, list[i], new)
         THEN Insert(st, parents, [list EXCEPT ![i] = new], i + 1, list[i])
         ELSE Insert(st, parents, list, i + 1, new)

NodeStore_getNodesForBucket(st, parents, bucket) ==
    FoldLeft(LAMBDA list, n : Insert(st, parents, list, 1, n), <<>>,
             SelectSeq(Order, LAMBDA n : n \in st.nodes /\ st.parent[n] # NULL
                                         /\ Bucket[n] = bucket))

markKeyspaceNodes(st, parents) ==
    parents \cup UNION {Range(NodeStore_getNodesForBucket(st, parents, b)) : b \in Range(Bucket)}

(* getWorstNode(): among the nodes out of reach if there are any, else     *)
(* among those that are no one's best parent and not among the best of     *)
(* their bucket, else among all.                                           *)
getWorstNode(st) ==
    LET lost    == {n \in st.nodes : st.parent[n] = NULL}
        parents == {st.parent[n].parent : n \in st.nodes \ lost}
        others  == st.nodes \ markKeyspaceNodes(st, parents)
    IN  WorstOf(st, IF lost # {} THEN lost ELSE IF others # {} THEN others ELSE st.nodes)

(* The end of discoverNode(): news of the link, then the store is full.    *)
RECURSIVE Evict(_, _, _)
Evict(st, ops, node) ==
    LET done == Run(st, ops)
        kept == IF node = NULL THEN done ELSE destroyNode(done, node)
        worst == getWorstNode(kept)
    IN  IF Cardinality(kept.nodes) - kept.peerCount <= NodeCapacity THEN kept
        ELSE IF isPeer(kept, worst) THEN [kept EXCEPT !.failed = "peer"]
        ELSE Evict(kept, Destroy(kept, worst), worst)

-----------------------------------------------------------------------------
(* The operations.  discoverLinkC() takes a node that is one hop behind    *)
(* the known part of the path.  A path known to its end leaves the label   *)
(* 1, which EncodingScheme_isOneHop() takes for no hop at all: nothing is  *)
(* done about the node found there, and what follows in the code for that  *)
(* case is never reached.                                                  *)
Discovered(st, path, child) ==
    LET known  == findClosest(st, path)
        link   == [parent |-> ClosestChild(st, known), label |-> Last(path)]
    IN  IF Len(known) # Len(path) - 1 \/ link.parent = child THEN st
        ELSE Evict(st, <<Join(link, child), Do("decay", link)>>, NULL)

(* A node whose encoding scheme has changed is dropped and discovered      *)
(* anew, unless the news came from farther than the node: three bits more  *)
(* than its path are less than another hop.                                *)
NodeStore_discoverNode(path, child, newScheme) ==
    /\ store.failed = ""
    /\ newScheme => /\ child \in store.nodes
                    /\ \/ store.path[child] = NoPath
                       \/ Len(path) <= Len(store.path[child])
    /\ \E st \in {IF newScheme THEN destroyNode(Run(store, Destroy(store, child)), child)
                  ELSE store} :
          /\ Last(path) \in LinkLabels[ClosestChild(st, findClosest(st, path))]
          /\ store' = Discovered(st, path, child)

NodeStore_disconnectedPeer(path) ==
    LET link == NodeStore_linkForPath(store, path)
    IN  /\ store.failed = ""
        /\ link # NULL
        /\ store' = Run(store, <<Do("part", link)>>)

(* The switch reports an error at the i-th link of a path.  A link that is *)
(* reached by a better path is only pinged again.                          *)
NodeStore_brokenLink(path, i) ==
    LET link == findClosest(store, path)[i]
        toParent == store.path[link.parent]
    IN  /\ store.failed = ""
        /\ i <= Len(findClosest(store, path))
        /\ \/ toParent = NoPath
           \/ Len(toParent) = MaxHops
           \/ path = Append(toParent, link.label)
        /\ store' = Run(store, <<Do("part", link)>>)

(* updatePathCost(): each link of the path in turn.                        *)
NodeStore_pathResponse(path) ==
    LET known == findClosest(store, path)
    IN  /\ store.failed = ""
        /\ Len(known) = Len(path)
        /\ store' = Run(store, [i \in DOMAIN known |-> Do("decay", known[i])])

NodeStore_pathTimeout(path) ==
    LET link == NodeStore_linkForPath(store, path)
    IN  /\ store.failed = ""
        /\ link # NULL
        /\ store.path[Child(store, link)] = path
        /\ store' = Run(store, <<Do("timeout", link)>>)

(* NodeStore_new() links the self node to itself.                          *)
StoreInit ==
    store = [link |-> <<>>, nodes |-> {Self}, marked |-> {}, linkedNodes |-> 1, peerCount |-> 0,
             reverse |-> [n \in Node \cup {Self} |-> <<>>],
             parent  |-> [n \in Node \cup {Self} |-> IF n = Self THEN SelfLink ELSE NULL],
             cost    |-> [n \in Node \cup {Self} |-> IF n = Self THEN 0 ELSE Unreachable],
             path    |-> [n \in Node \cup {Self} |-> IF n = Self THEN <<>> ELSE NoPath],
             changed |-> FALSE, failed |-> ""]

Path == UNION {[1..n -> UNION Range(LinkLabels)] : n \in 1..MaxHops}

StoreNext ==
    \E path \in Path :
        \/ \E child \in Node, newScheme \in BOOLEAN :
              NodeStore_discoverNode(path, child, newScheme)
        \/ Len(path) = 1 /\ NodeStore_disconnectedPeer(path)
        \/ \E i \in 1..Len(path) : NodeStore_brokenLink(path, i)
        \/ NodeStore_pathResponse(path)
        \/ NodeStore_pathTimeout(path)

StoreSpec == StoreInit /\ [][StoreNext]_store

-----------------------------------------------------------------------------
Parent(n) == store.parent[n]

(* What _checkNode(), _verifyNode() and _verify() assert: a node with a    *)
(* best parent has the parent's cost plus the link's and the parent's path *)
(* and one label, so that the parents lead to ourselves; a node without    *)
(* has neither; nobody is left marked; a link joins nodes of the store and *)
(* is in the list of its child; linkedNodes counts the nodes in reach and  *)
(* peerCount, which decides how many nodes there is room for, the links    *)
(* from ourselves.  However links appear, grow expensive or vanish,        *)
(* findBestParent() comes to rest there within its bound of passes.        *)
TreeSound ==
    /\ store.failed # "cycle"
    /\ store.failed = "" =>
        /\ store.marked = {}
        /\ \A n \in store.nodes \ {Self} :
             IF Parent(n) = NULL
             THEN store.cost[n] = Unreachable /\ store.path[n] = NoPath
             ELSE /\ Parent(n) \in Links(store) /\ Child(store, Parent(n)) = n
                  /\ store.link[Parent(n)].cost # MaxCost
                  /\ store.cost[n] = store.cost[Parent(n).parent] + store.link[Parent(n)].cost
                  /\ store.path[n] = Append(store.path[Parent(n).parent], Parent(n).label)
        /\ \A l \in Links(store) : /\ {l.parent, Child(store, l)} \subseteq store.nodes
                                   /\ l \in Range(store.reverse[Child(store, l)])
        /\ store.linkedNodes = Cardinality({n \in store.nodes : Parent(n) # NULL})
        /\ store.peerCount = Cardinality(Out(store, Self))

=============================================================================
