----------------------------- MODULE RouteLabels -----------------------------
(***************************************************************************)
(* Routes put together hop by hop the way NodeStore.c and ReplySerializer  *)
(* do it: the label of one more hop is spliced onto the label of the route *)
(* so far.  hops records what the route is meant to be.                    *)
(***************************************************************************)
EXTENDS SwitchLabels, SequencesExt

CONSTANTS
    Numbers     \* interface numbers that routes use

ASSUME RouteAssumption ==
    Numbers \subseteq (0 .. INTERFACES - 1) \ {1}

VARIABLES
    hops,     \* the route: for each switch the interface and the form naming it
    label     \* its label, or INVALID when it could not be spliced

routeVars == <<hops, label>>

Hop == {h \in [number : Numbers, form : Forms] : formSize(h.form) >= bitsUsedForNumber(h.number)}

(* The label that leads over one hop: its director, then the end bit. *)
HopLabel(h) == getCompressed(h.number, formSize(h.form)) + 2^formSize(h.form)

RouteInit == hops = <<>> /\ label = 1

(* One more hop at the end of the route. *)
Extend(h) ==
    /\ label # INVALID
    /\ hops' = Append(hops, h)
    /\ label' = splice(HopLabel(h), label)

(* A route of one's own in front of the route: what a reply's label becomes. *)
Prepend(h) ==
    /\ label # INVALID
    /\ hops' = <<h>> \o hops
    /\ label' = splice(label, HopLabel(h))

RouteNext == \E h \in Hop : Extend(h) \/ Prepend(h)

RouteSpec == RouteInit /\ [][RouteNext]_routeVars

-----------------------------------------------------------------------------
(* The reference: labels of a route and the route of a label, hop by hop.  *)

RouteBits(route) == FoldLeft(LAMBDA n, h : n + formSize(h.form), 0, route)

LabelOf(route) ==
    FoldRight(LAMBDA h, rest : rest * 2^formSize(h.form)
                               + getCompressed(h.number, formSize(h.form)), route, 1)

Spliced == label # INVALID

Others == {<<h>> : h \in Hop} \cup {<<g, h>> : g \in Hop, h \in Hop}

(* Splicing in any order gives the label of the whole route, and is refused *)
(* exactly for the routes that do not fit into a label.                     *)
SpliceExact ==
    /\ Spliced => label = LabelOf(hops) /\ RouteBits(hops) <= LongestRoute
    /\ ~Spliced => RouteBits(hops) > LongestRoute

(* The first director of a spliced label is the first hop's, for the switch *)
(* (NumberCompress.h) as well as for the routers (EncodingScheme.c).        *)
FirstHopRead ==
    Spliced /\ hops # <<>> =>
        /\ getDecompressed(label, bitsUsedForLabel(label)) = hops[1].number
        /\ parseDirector(label) = hops[1].number
        /\ bitsUsedForLabel(label) = formSize(hops[1].form)
        /\ isOneHop(label) = (Len(hops) = 1)
        /\ ~isSelfRoute(label)

(* A route is seen to pass through another node exactly when the route to   *)
(* that node is where it begins, and unsplicing leaves the rest of it.      *)
ThroughExact ==
    Spliced =>
        /\ \A k \in 0 .. Len(hops) :
               LET mid == LabelOf(SubSeq(hops, 1, k))
               IN  /\ routesThrough(label, mid)
                   /\ unsplice(label, mid) = LabelOf(SubSeq(hops, k + 1, Len(hops)))
        /\ \A other \in Others : routesThrough(label, LabelOf(other)) => IsPrefix(other, hops)

(* Writing the first director in another form keeps the interface and the   *)
(* rest of the route, comes back to the same label, and is refused when the *)
(* number or the label does not fit.  The switch's own getLabelFor, which   *)
(* pads the director out to one that asks, agrees with it as long as the    *)
(* label has room: it does not look whether it has.                         *)
ConvertExact ==
    Spliced /\ hops # <<>> =>
        \A f \in Forms :
            LET other == [hops EXCEPT ![1].form = f]
                fits == formSize(f) >= bitsUsedForNumber(hops[1].number) /\ RouteBits(other) <= LongestRoute
            IN  /\ convertLabel(label, f) = (IF fits THEN LabelOf(other) ELSE INVALID)
                /\ fits => convertLabel(convertLabel(label, f), hops[1].form) = label
                /\ fits => convertLabel(convertLabel(label, f), CANNONICAL) = convertLabel(label, CANNONICAL)
        /\ \A asker \in Hop :
              LET longer == formSize(asker.form) > formSize(hops[1].form)
                  padded == IF longer THEN convertLabel(label, asker.form) ELSE label
              IN  padded # INVALID => getLabelFor(label, HopLabel(asker)) = padded
=============================================================================
