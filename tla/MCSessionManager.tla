--------------------------- MODULE MCSessionManager ---------------------------
(***************************************************************************)
(* The classes of wire/Metric.h are 2^16 ms or more apart, the session     *)
(* timeout is 120000 ms: a tick is about a minute, neighbouring classes    *)
(* are one tick apart, and NO_INFO is so near that metrics reach it within *)
(* MaxTime.  One node has three paths, one more than a session keeps; the  *)
(* other is only written to, so that its packet takes the one place in the *)
(* buffer from the first one's.  Nothing compares labels but for equality, *)
(* so that they may be permuted.                                           *)
(***************************************************************************)
EXTENDS SessionManager, TLC

CONSTANTS n1, n2, m1, l1, l2, l3

LabelSymmetry == Permutations({l1, l2, l3})
=============================================================================
