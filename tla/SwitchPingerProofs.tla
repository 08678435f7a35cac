------------------------- MODULE SwitchPingerProofs -------------------------
(***************************************************************************)
(* The invariant of SwitchPinger, for any labels, data, limit on pings and *)
(* pongs left from an earlier life of the node.                            *)
(***************************************************************************)
EXTENDS SwitchPinger, FiniteSetTheorems, TLAPS

LEMMA InitInv == Init => Inv
<1> SUFFICES ASSUME Init PROVE Inv
    BY Zenon
<1>1. TypeOK
    BY FS_EmptySet, PingerAssumption, Zenon DEF Init, TypeOK, Pong
<1>2. OneEnding
    BY DEF Init, OneEnding
<1>3. CountExact
    BY FS_EmptySet, Zenon DEF Init, CountExact
<1>4. AnswerIsPingedNodes
    BY Zenon DEF Init, AnswerIsPingedNodes
<1>5. \A m \in net : m.cookie < nextHandle
    BY PingerAssumption, Zenon DEF Init
<1>6. \A m \in net, p \in pings : PongFor(p, m) => m.version = p.label /\ m.key = KeyOf(p)
    BY Zenon DEF Init
<1>7. incomingKey = None
    BY Zenon DEF Init
<1> QED
    BY <1>1, <1>2, <1>3, <1>4, <1>5, <1>6, <1>7, Zenon DEF Inv

(* Pinger_newPing gives the ping a handle that no ping and no pong has. *)
LEMMA NewPingInv ==
    ASSUME Inv, NEW l \in Label, NEW d \in Data, NEW t \in Type, newPing(l, d, t)
    PROVE  Inv'
<1> DEFINE new == [handle |-> nextHandle, label |-> l, data |-> d, type |-> t, sent |-> FALSE]
<1> USE DEF Inv
<1>1. new \in Ping /\ new.handle = nextHandle /\ pings' = pings \cup {new}
    BY Zenon DEF TypeOK, Ping, newPing
<1> HIDE DEF new
<1>2. \A p \in pings : p.handle < nextHandle
    BY DEF OneEnding, TypeOK, Ping
<1>3. \A e \in ended : e.ping.handle < nextHandle
    BY DEF OneEnding, TypeOK, Ended, Ping
<1>4. new \notin pings
    BY <1>1, <1>2 DEF TypeOK
<1>5. IsFiniteSet(pings') /\ Cardinality(pings') = Cardinality(pings) + 1
    BY <1>1, <1>4, FS_AddElement, Zenon DEF TypeOK
<1>6. TypeOK'
    BY <1>1, <1>5 DEF TypeOK, newPing
<1>7. OneEnding'
  <2>1. \A p, q \in pings' : p.handle = q.handle => p = q
      BY <1>1, <1>2 DEF OneEnding, TypeOK
  <2>2. (\A e, f \in ended : e.ping.handle = f.ping.handle => e = f)'
      BY Zenon DEF OneEnding, newPing
  <2>3. (\A p \in pings, e \in ended : p.handle # e.ping.handle)'
      BY <1>1, <1>3 DEF OneEnding, newPing, TypeOK
  <2>4. {p.handle : p \in pings'} = {p.handle : p \in pings} \cup {nextHandle}
      BY <1>1, Zenon
  <2>5. 0 .. nextHandle' - 1 = (0 .. nextHandle - 1) \cup {nextHandle}
      BY DEF newPing, TypeOK
  <2>6. ({p.handle : p \in pings} \cup {e.ping.handle : e \in ended} = 0 .. nextHandle - 1)'
      BY <2>4, <2>5, Zenon DEF OneEnding, newPing
  <2> QED
      BY <2>1, <2>2, <2>3, <2>6, Zenon DEF OneEnding
<1>8. CountExact'
    BY <1>5, Zenon DEF CountExact, newPing
<1>9. AnswerIsPingedNodes'
    BY Zenon DEF AnswerIsPingedNodes, newPing
<1>10. (\A m \in net : m.cookie < nextHandle)'
  <2>1. nextHandle \in Nat /\ \A m \in net : m.cookie \in Int
      BY Zenon DEF TypeOK, Pong
  <2> QED
      BY <2>1 DEF newPing
<1>11. (\A m \in net, p \in pings : PongFor(p, m) => m.version = p.label /\ m.key = KeyOf(p))'
  <2>1. \A m \in net : m.cookie # new.handle
      BY <1>1 DEF TypeOK, Pong
  <2> QED
      BY <1>1, <2>1, Zenon DEF newPing, PongFor, KeyOf
<1>12. incomingKey' = None
    BY Zenon DEF newPing
<1> QED
    BY <1>6, <1>7, <1>8, <1>9, <1>10, <1>11, <1>12, Zenon

(* Sending changes neither a ping's handle nor what its pong must contain. *)
LEMMA SendInv ==
    ASSUME Inv, NEW p \in pings, asyncSendPing(p)
    PROVE  Inv'
<1> DEFINE q == [p EXCEPT !.sent = TRUE]
<1> USE DEF Inv
<1>1. /\ q \in Ping /\ q # p
      /\ q.handle = p.handle /\ q.label = p.label /\ q.type = p.type
      /\ pings' = (pings \ {p}) \cup {q}
    BY Zenon DEF TypeOK, Ping, asyncSendPing
<1> HIDE DEF q
<1>2. q \notin pings
    BY <1>1, Zenon DEF OneEnding
<1>3. IsFiniteSet(pings \ {p}) /\ Cardinality(pings \ {p}) = Cardinality(pings) - 1
    BY FS_RemoveElement, Zenon DEF TypeOK
<1>4. IsFiniteSet(pings') /\ Cardinality(pings') = Cardinality(pings)
  <2>1. q \notin pings \ {p}
      BY <1>2, Zenon
  <2>2. IsFiniteSet(pings') /\ Cardinality(pings') = Cardinality(pings \ {p}) + 1
      BY <1>1, <1>3, <2>1, FS_AddElement, Zenon
  <2>3. Cardinality(pings) \in Nat
      BY FS_CardinalityType, Zenon DEF TypeOK
  <2> QED
      BY <1>3, <2>2, <2>3
<1>5. \A m \in net' : \/ m \in net
                      \/ /\ m \in Pong /\ m.cookie = p.handle /\ m.handle = p.handle
                         /\ m.version = p.label /\ m.key = KeyOf(p)
    BY DEF asyncSendPing, handlePing, Pong, TypeOK, Ping, KeyOf
<1>6. TypeOK'
    BY <1>1, <1>4, <1>5, Zenon DEF TypeOK, asyncSendPing
<1>7. {r.handle : r \in pings'} = {r.handle : r \in pings}
    BY <1>1, Zenon
<1>8. OneEnding'
    BY <1>1, <1>7 DEF OneEnding, asyncSendPing
<1>9. CountExact'
    BY <1>4, Zenon DEF CountExact, asyncSendPing
<1>10. AnswerIsPingedNodes'
    BY Zenon DEF AnswerIsPingedNodes, asyncSendPing
<1>11. (\A m \in net : m.cookie < nextHandle)'
  <2>1. p.handle < nextHandle
      BY DEF OneEnding, TypeOK, Ping
  <2> QED
      BY <1>5, <2>1, Zenon DEF asyncSendPing
<1>12. (\A m \in net, r \in pings : PongFor(r, m) => m.version = r.label /\ m.key = KeyOf(r))'
  <2> SUFFICES ASSUME NEW m \in net', NEW r \in pings', PongFor(r, m)
               PROVE  m.version = r.label /\ m.key = KeyOf(r)
      BY Zenon DEF PongFor, KeyOf
  <2>1. CASE r = q
      BY <1>1, <1>5, <2>1, Zenon DEF PongFor, KeyOf
  <2>2. CASE r # q
    <3>1. r \in pings /\ r # p
        BY <1>1, <2>2, Zenon
    <3>2. r.handle # p.handle
        BY <3>1, Zenon DEF OneEnding
    <3> QED
        BY <1>5, <3>1, <3>2, Zenon DEF PongFor
  <2> QED
      BY <2>1, <2>2, Zenon
<1>13. incomingKey' = None
    BY Zenon DEF asyncSendPing
<1> QED
    BY <1>6, <1>8, <1>9, <1>10, <1>11, <1>12, <1>13, Zenon

(* The ping's allocator is freed, after a pong, a timeout or a cancellation,   *)
(* with the record of how it ended.                                            *)
LEMMA FreeInv ==
    ASSUME Inv, NEW p \in pings, NEW how \in Ended, how.ping = p, Free(p, how),
           how.res = "OK" => how.version = p.label /\ how.key = KeyOf(p),
           how.res \in {"TIMEOUT", "cancelled"} => how.key = None,
           UNCHANGED <<nextHandle, net>>,
           incomingVersion' \in Label \cup {None}, incomingKey' = None
    PROVE  Inv'
<1> USE DEF Inv
<1>1. IsFiniteSet(pings') /\ Cardinality(pings') = Cardinality(pings) - 1
    BY FS_RemoveElement, Zenon DEF TypeOK, Free
<1>2. Cardinality(pings) \in Nat /\ Cardinality(pings') \in Nat
    BY <1>1, FS_CardinalityType, Zenon DEF TypeOK
<1>3. TypeOK'
    BY <1>1, <1>2, Zenon DEF TypeOK, Free, CountExact
<1>4. OneEnding'
  <2>1. (\A q, r \in pings : q.handle = r.handle => q = r)'
      BY Zenon DEF OneEnding, Free
  <2>2. (\A e, f \in ended : e.ping.handle = f.ping.handle => e = f)'
      BY Zenon DEF OneEnding, Free
  <2>3. (\A q \in pings, e \in ended : q.handle # e.ping.handle)'
      BY DEF OneEnding, Free
  <2>4. {e.ping.handle : e \in ended'} = {e.ping.handle : e \in ended} \cup {p.handle}
      BY Zenon DEF Free
  <2>5. {q.handle : q \in pings} = {q.handle : q \in pings'} \cup {p.handle}
      BY Zenon DEF Free
  <2> QED
      BY <2>1, <2>2, <2>3, <2>4, <2>5, Zenon DEF OneEnding
<1>5. CountExact'
    BY <1>1, Zenon DEF CountExact, Free
<1>6. AnswerIsPingedNodes'
    BY Zenon DEF AnswerIsPingedNodes, Free
<1> QED
    BY <1>3, <1>4, <1>5, <1>6, Zenon DEF Free

LEMMA NextInv == Inv /\ [Next]_vars => Inv'
<1> SUFFICES ASSUME Inv, [Next]_vars PROVE Inv'
    BY Zenon
<1>1. ASSUME NEW l \in Label, NEW d \in Sent, NEW t \in Type, newPing(l, d, t) PROVE Inv'
  <2>1. d \in Data
      BY PingerAssumption, Zenon
  <2> QED
      BY <1>1, <2>1, NewPingInv, Zenon
<1>2. ASSUME NEW p \in pings, asyncSendPing(p) PROVE Inv'
    BY <1>2, SendInv, Zenon
<1>3. ASSUME NEW p \in pings, timeoutCallback(p) PROVE Inv'
  <2> DEFINE how == Response(p, "TIMEOUT", incomingVersion, incomingKey)
  <2>1. how \in Ended /\ how.ping = p /\ how.res = "TIMEOUT" /\ how.key = None
      BY Zenon DEF Inv, TypeOK, Ended, Response
  <2>2. Free(p, how) /\ UNCHANGED <<nextHandle, net, incomingVersion, incomingKey>>
      BY <1>3, Zenon DEF timeoutCallback
  <2> HIDE DEF how
  <2>3. incomingVersion' \in Label \cup {None} /\ incomingKey' = None
      BY <2>2, Zenon DEF Inv, TypeOK
  <2> QED
      BY <2>1, <2>2, <2>3, FreeInv, Zenon
<1>4. ASSUME NEW p \in pings, Cancel(p) PROVE Inv'
  <2> DEFINE how == Response(p, "cancelled", None, None)
  <2>1. how \in Ended /\ how.ping = p /\ how.res = "cancelled" /\ how.key = None
      BY Zenon DEF Inv, TypeOK, Ended, Response
  <2>2. Free(p, how) /\ UNCHANGED <<nextHandle, net, incomingVersion, incomingKey>>
      BY <1>4, Zenon DEF Cancel
  <2> HIDE DEF how
  <2>3. incomingVersion' \in Label \cup {None} /\ incomingKey' = None
      BY <2>2, Zenon DEF Inv, TypeOK
  <2> QED
      BY <2>1, <2>2, <2>3, FreeInv, Zenon
<1>5. ASSUME NEW m \in net, messageFromControlHandler(m) PROVE Inv'
  <2>1. /\ m.version \in Label /\ m.key \in Label \cup {None}
        /\ incomingVersion' \in Label \cup {None} /\ incomingKey' = None
        /\ UNCHANGED <<nextHandle, net>>
      BY <1>5, Zenon DEF messageFromControlHandler, KeyAfter, Inv, TypeOK, Pong
  <2>2. ASSUME NEW p \in pings, PongFor(p, m),
               Free(p, Response(p, Result(p, m), m.version, m.key))
        PROVE  Inv'
    <3> DEFINE how == Response(p, Result(p, m), m.version, m.key)
    <3>1. m.version = p.label /\ m.key = KeyOf(p)
        BY <2>2, Zenon DEF Inv
    <3>2. /\ how \in Ended /\ how.ping = p /\ how.res \notin {"TIMEOUT", "cancelled"}
          /\ how.version = p.label /\ how.key = KeyOf(p)
        BY <2>1, <3>1, Zenon DEF Inv, TypeOK, Ended, Response, Result
    <3>3. Free(p, how)
        BY <2>2, Zenon
    <3> HIDE DEF how
    <3> QED
        BY <2>1, <3>2, <3>3, FreeInv, Zenon
  <2>3. ASSUME UNCHANGED <<pings, outstandingPings, ended>> PROVE Inv'
    <3>1. TypeOK' /\ OneEnding' /\ CountExact' /\ AnswerIsPingedNodes'
        BY <2>1, <2>3, Zenon DEF Inv, TypeOK, OneEnding, CountExact, AnswerIsPingedNodes
    <3> QED
        BY <2>1, <2>3, <3>1, Zenon DEF Inv
  <2> QED
      BY <1>5, <2>2, <2>3, Zenon DEF messageFromControlHandler
<1>6. CASE UNCHANGED vars
  <2>1. TypeOK' /\ OneEnding' /\ CountExact' /\ AnswerIsPingedNodes'
      BY <1>6, Zenon DEF Inv, TypeOK, OneEnding, CountExact, AnswerIsPingedNodes, vars
  <2> QED
      BY <1>6, <2>1, Zenon DEF Inv, vars
<1> QED
    BY <1>1, <1>2, <1>3, <1>4, <1>5, <1>6, Zenon DEF Next

(* The pings of a SwitchPinger keep their invariant, however answers are lost, *)
(* duplicated, delayed and mixed up and whenever pings time out or are         *)
(* cancelled.                                                                  *)
THEOREM Invariance == Spec => []Inv
  BY InitInv, NextInv, PTL DEF Spec

(* Pinger and SwitchPinger end every ping at most once, and none but the one   *)
(* meant.                                                                      *)
THEOREM EndsOnce == Spec => []OneEnding
<1>1. Inv => OneEnding
    BY Zenon DEF Inv
<1> QED
    BY <1>1, Invariance, PTL

(* onPingFree's assertion: SwitchPinger's count of outstanding pings is the    *)
(* number of entries in Pinger's table.                                        *)
THEOREM CountsOutstanding == Spec => []CountExact
<1>1. Inv => CountExact
    BY Zenon DEF Inv
<1> QED
    BY <1>1, Invariance, PTL

(* An OK response carries the version and the key of the node that was pinged; *)
(* a timeout carries no node's key.                                            *)
THEOREM AnswersAreGenuine == Spec => []AnswerIsPingedNodes
<1>1. Inv => AnswerIsPingedNodes
    BY Zenon DEF Inv
<1> QED
    BY <1>1, Invariance, PTL
=============================================================================
