------------------------ MODULE MCInterfaceController ------------------------
(***************************************************************************)
(* Two addresses, one of them (y) of a node that is not there.  Three      *)
(* peers are enough for one to be freed while the loop of iciPing passes   *)
(* another, and for an address to be used again.  After one tick of        *)
(* silence a peer is pinged, after three it is unresponsive and after four *)
(* forgotten, in the order of the code's 3, 20 and 256 seconds; a new peer *)
(* counts as two ticks silent, so that it is pinged at once and not yet    *)
(* unresponsive.  A silent peer is pinged every other round, in place of   *)
(* every eighth.                                                           *)
(***************************************************************************)
EXTENDS InterfaceController

CONSTANTS x, y
=============================================================================
