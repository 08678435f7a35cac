-------------------------- MODULE MCSwitchPinger --------------------------
(* Three pings on two labels with two of them at a time: two compete for an   *)
(* answer while the third is refused or comes after.  The stray pong has the  *)
(* handle of the first ping.                                                  *)
EXTENDS SwitchPinger

MCStrays == {[handle |-> 0, cookie |-> -1, label |-> 1, data |-> "d", version |-> 2, key |-> 2]}
=============================================================================
