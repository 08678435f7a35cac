---------------------------- MODULE HandleTable ----------------------------
(***************************************************************************)
(* What util/Map.h promises to the code that holds handles of its entries: *)
(* a table of entries, each under a handle of its own that no earlier      *)
(* entry ever had, at most one entry for a key.                            *)
(***************************************************************************)
CONSTANTS Keys, Values, Handles

VARIABLES
    table,    \* the entries: [handle, key, value]
    issued    \* the handles given out so far

Fresh == Handles \ issued

Init == table = {} /\ issued = {}

Put(k, v) ==
    \/ /\ \A e \in table : e.key # k
       /\ \E h \in Fresh :
              /\ table' = table \cup {[handle |-> h, key |-> k, value |-> v]}
              /\ issued' = issued \cup {h}
    \/ \E e \in table :
           /\ e.key = k
           /\ table' = (table \ {e}) \cup {[e EXCEPT !.value = v]}
           /\ UNCHANGED issued

Remove(e) == table' = table \ {e} /\ UNCHANGED issued

Next ==
    \/ \E k \in Keys, v \in Values : Put(k, v)
    \/ \E e \in table : Remove(e)

Spec == Init /\ [][Next]_<<table, issued>>
=============================================================================
