---------------------------- MODULE MCSwitchCore ----------------------------
(***************************************************************************)
(* Three nodes, each peered with the two others, on interfaces that need   *)
(* directors of 4, 7 and 10 bits; d is a peer that may join.  Two changes  *)
(* of the tables let a peer leave and come back on another interface while *)
(* a packet is under way.                                                  *)
(***************************************************************************)
EXTENDS SwitchCore, SequencesExt

CONSTANTS a, b, c, d, Slots, MaxHops

MCTable ==
    a :> (0 :> b @@ 3 :> c) @@ b :> (0 :> a @@ 8 :> c) @@ c :> (0 :> a @@ 33 :> b)

Hop == {<<s, bits>> \in Slots \X {4, 7, 10} : bits >= bitsUsedForNumber(s)}

Bits(route) == FoldLeft(LAMBDA n, h : n + h[2], 0, route)

RouteLabel(route) ==
    FoldRight(LAMBDA h, rest : rest * 2^h[2] + getCompressed(h[1], h[2]), route, 1)

Routes ==
    UNION {[1 .. n -> Hop] : n \in 0 .. MaxHops}
    \cup UNION {[1 .. n -> {<<0, 4>>, <<3, 4>>}] : n \in 1 .. 2}

(* Every route of up to MaxHops hops, real or not, that fits into a label, *)
(* those over slot 3, and two labels that end in no route.                 *)
MCSentLabels == {0, 279620} \cup {RouteLabel(r) : r \in {q \in Routes : Bits(q) <= LongestRoute}}

(* The places where the directors of a label begin, up to its end. *)
Cuts(label) ==
    LET end == Bits_log2x64(label)
        cuts[n \in 0 .. LabelBits] ==
            IF n = 0 THEN {0}
            ELSE cuts[n - 1] \cup {p + DirectorBits(High(label, p)) : p \in cuts[n - 1] \ {end}}
    IN  cuts[MaxHops]

ASSUME RoutesSent ==
    \A label \in SentLabels \ {0, 279620} : IsRouteWith(label, Bits_log2x64(label), Cuts(label))
=============================================================================
