--------------------------- MODULE MCSearchRunner ---------------------------
(* Three searches for node 4, one of them with three requests and two with *)
(* one, so that all three are in the list at once.  The first one's owner  *)
(* frees it when a request times out, after which it goes on unlisted.     *)
(* Nodes 0 and 3 and our own key 7 are not ordered alike by number and by  *)
(* distance from 4, so one of the stores gives its nodes in the wrong      *)
(* order.  Node 3 answers over either of two paths.  An answer is empty,   *)
(* or one node that is closer to 4 than node 3, ourselves included, or the *)
(* target followed by another.                                             *)
EXTENDS SearchRunner, TLC

CONSTANTS s1, s2, s3

MCMaxRequests == (s1 :> 3) @@ (s2 :> 1) @@ (s3 :> 1)

MCPaths == (0 :> {1}) @@ (3 :> {2, 6}) @@ (4 :> {3}) @@ (5 :> {5}) @@ (7 :> {4})

MCDistance ==
    (<<4, 0>> :> 4) @@ (<<4, 3>> :> 7) @@ (<<4, 4>> :> 0) @@ (<<4, 5>> :> 1) @@ (<<4, 7>> :> 3) @@
    (<<7, 0>> :> 7) @@ (<<7, 3>> :> 4) @@ (<<7, 4>> :> 3) @@ (<<7, 5>> :> 2) @@ (<<7, 7>> :> 0)

MCStore == {(0 :> 1) @@ (3 :> 2), (3 :> 2) @@ (5 :> 5), (0 :> 1) @@ (4 :> 3) @@ (5 :> 5)}

MCAnswer ==
    LET Entry(k) == [key |-> k, path |-> Min(MCPaths[k])]
    IN  {<<>>} \cup {<<Entry(k)>> : k \in {0, 4, 5, 7}} \cup {<<Entry(4), Entry(0)>>}
=============================================================================
