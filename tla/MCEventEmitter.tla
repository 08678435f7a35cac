--------------------------- MODULE MCEventEmitter ---------------------------
(***************************************************************************)
(* Three pathfinders: the internal one, which only answers pings, another  *)
(* that keeps to PFChan.h, and one that may also send pongs nobody asked   *)
(* for; between them they make every request.  Messages count 1 or 2 and a *)
(* ping is due at 3, so that one or two messages bring it; MaxBytes lets a *)
(* count grow beyond that while a pong is late.  Queues of two or three    *)
(* let a ping, its pong and a request pass each other.                     *)
(***************************************************************************)
EXTENDS EventEmitter, TLC

CONSTANTS internal, other, careless

MCRequests == (internal :> {}) @@ (other :> {"PEERS"})
              @@ (careless :> {"PING", "SUPERIORITY", "PATHFINDERS"})
=============================================================================
