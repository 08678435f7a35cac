---------------------------- MODULE MCStructures ----------------------------
(***************************************************************************)
(* Seven sequential structures that share no state, side by side: part says *)
(* which of them moves.                                                    *)
(*                                                                         *)
(* "replay": a bitfield of four bits in place of 64, and nonces for more   *)
(* than three windows.  Keep / Width is 3/4 here and 47/64 in the code, so *)
(* that after a lossy shift the newest nonce lies between the middle and   *)
(* the top of the bitfield, as it does there.  The base starts at 0, and   *)
(* at 5 as after the first run packet of a session.  An int ends at 6 and  *)
(* a uint32_t at 12, so that the nonces are all that the latter has.       *)
(* "map": four keys, so that the search takes three rounds; six puts reach *)
(* every pattern of gaps.                                                  *)
(* "routes": labels of 24 bits have room for four short hops, so that      *)
(* splicing and converting both meet the limit.  The interface numbers are *)
(* those at the edges of the three forms of the v3x5x8 scheme.             *)
(* "allocator": a root and three more, with two adoptions and two jobs: a  *)
(* chain, and a fork with an adoption across it.                           *)
(* "nodes": three nodes besides ourselves, of which two may be peers and   *)
(* two share a bucket, with room for two that are not peers.               *)
(* "frames": an empty message, one that looks like a header, one of a byte *)
(* and one that is too long, three of them after each other, cut at will.  *)
(* "tunnels": two nodes that are both issued addresses and issue some, one *)
(* of them with no bits to match, and four connections, so that an         *)
(* incoming one is put in between others and answers bear the number of    *)
(* any of them.                                                            *)
(***************************************************************************)
EXTENDS ReplayProtector, Map, RouteLabels, Allocator, NodeStore, FramingIface, IpTunnel

CONSTANTS self, n1, n2, n3, ka, kb, a4, b4, c4, d4, a6, b6, m6

ASSUME NodeStoreAssumption

VARIABLE part    \* the one that moves in this behaviour

MCOrder == <<n2, self, n1, n3>>
MCLabels == (self :> {1, 2}) @@ (n1 :> {1}) @@ (n2 :> {1}) @@ (n3 :> {})
MCDistance == (self :> 0) @@ (n1 :> 1) @@ (n2 :> 2) @@ (n3 :> 3)
MCBucket == (self :> 0) @@ (n1 :> 1) @@ (n2 :> 2) @@ (n3 :> 2)

MCMessages == {<<>>, <<7>>, <<0, 0, 0, 1>>, <<1, 2, 3, 4, 5>>}
MCIssues == (ka :> {[ip4 |-> {a4}, ip6 |-> {a6}]}) @@ (kb :> {[ip4 |-> {b4}, ip6 |-> {}]})
MCOffers == (ka :> {[ip4 |-> {c4}, ip6 |-> {b6}]}) @@ (kb :> {[ip4 |-> {d4}, ip6 |-> {}], [ip4 |-> {}, ip6 |-> Bitless]})

StructuresInit ==
    /\ part \in {"replay", "map", "routes", "allocator", "nodes", "frames", "tunnels"}
    /\ Init /\ (part # "replay" => baseOffset = 0)
    /\ MapInit /\ RouteInit /\ AllocatorInit /\ StoreInit /\ FramingInit /\ TunnelInit

StructuresNext ==
    /\ UNCHANGED part
    /\ \/ /\ part = "replay" /\ Next
          /\ UNCHANGED <<mapVars, routeVars, allocatorVars, store, framingVars, tunnelVars>>
       \/ /\ part = "map" /\ MapNext
          /\ UNCHANGED <<vars, routeVars, allocatorVars, store, framingVars, tunnelVars>>
       \/ /\ part = "routes" /\ RouteNext
          /\ UNCHANGED <<vars, mapVars, allocatorVars, store, framingVars, tunnelVars>>
       \/ /\ part = "allocator" /\ AllocatorNext
          /\ UNCHANGED <<vars, mapVars, routeVars, store, framingVars, tunnelVars>>
       \/ /\ part = "nodes" /\ StoreNext
          /\ UNCHANGED <<vars, mapVars, routeVars, allocatorVars, framingVars, tunnelVars>>
       \/ /\ part = "frames" /\ FramingNext
          /\ UNCHANGED <<vars, mapVars, routeVars, allocatorVars, store, tunnelVars>>
       \/ /\ part = "tunnels" /\ TunnelNext
          /\ UNCHANGED <<vars, mapVars, routeVars, allocatorVars, store, framingVars>>

StructuresSpec ==
    StructuresInit
    /\ [][StructuresNext]_<<part, vars, mapVars, routeVars, allocatorVars, store, framingVars, tunnelVars>>

(* SpliceExact, FirstHopRead, ThroughExact and ConvertExact: splicing,     *)
(* reading the first hop, comparing and converting labels agree with the   *)
(* lists of hops that the labels stand for.                                *)
RoutesExact ==
    part = "routes" => SpliceExact /\ FirstHopRead /\ ThroughExact /\ ConvertExact

(* KeptWhileHeld: what somebody made or adopted and has not let go is not  *)
(* freed, and everything else is.                                          *)
HeldNotFreed == part = "allocator" => KeptWhileHeld

(* ReleasedWhenJobsDone and Accounted: memory goes exactly when the jobs   *)
(* registered with it are done, each of them once; what is not released    *)
(* hangs on the root, and both lists of an adoption agree.                 *)
FreedWhenDone == part = "allocator" => ReleasedWhenJobsDone /\ Accounted

(* TreeSound: the paths and costs of nodes agree with the links, and the   *)
(* search for best parents comes to rest.                                  *)
PathsSound == part = "nodes" => TreeSound

(* MessagesExact: what comes out of the framing is what went in, however   *)
(* the stream is cut.                                                      *)
FramesExact == part = "frames" => MessagesExact
=============================================================================
