--------------------------- MODULE CryptoAuthLive ---------------------------
(***************************************************************************)
(* The two sessions of CryptoAuth in time.  In each round both ends send   *)
(* one packet and every packet in flight arrives, in any order, so hellos  *)
(* and keys may cross; then every clock advances by one.  A bounded number *)
(* of faults, at any time, loses packets, delays copies of packets to any  *)
(* later time, and resets or recreates sessions.                           *)
(*                                                                         *)
(* SetupResetAfter and ResetAfter are counted in rounds here.              *)
(***************************************************************************)
EXTENDS CryptoAuth

CONSTANT MaxFaults   \* bound: faults in a behaviour

ASSUME FaultAssumption == MaxFaults \in Nat

VARIABLES
    sent,     \* the ends that have sent their packet in this round
    late,     \* copies of packets that the network holds back
    faults    \* faults so far

liveVars == <<vars, sent, late, faults>>

(* Both ends are in run mode under one secret. *)
Agreed ==
    /\ \A p \in Party : session[p].established
    /\ \A p, q \in Party : session[p].sharedSecret = session[q].sharedSecret

(* Set up, with nothing in flight: the model sends no further traffic until a   *)
(* fault disturbs this.                                                        *)
Quiet == Agreed /\ net = {}

LiveInit ==
    /\ Init
    /\ sent = {} /\ late = {} /\ faults = 0

Send(p) ==
    /\ ~Quiet
    /\ p \notin sent
    /\ CryptoAuth_encrypt(p)
    /\ sent' = sent \cup {p}
    /\ UNCHANGED <<late, faults>>

(* decrypt right after a timeout has made the session a new one: only a hello  *)
(* is taken.                                                                   *)
DecryptAnew(p, m) ==
    /\ session' = [session EXCEPT ![p] =
           IF m.nonce \in {HELLO, REPEAT_HELLO} /\ Authorized(p, m)
           THEN [NewSession EXCEPT !.herTemp = m.temp, !.nextNonce = RECEIVED_HELLO]
           ELSE NewSession]
    /\ UNCHANGED <<keys, password, users, withdrawn, delivered>>

(* Both callers of decrypt let a session that timed out start over first:      *)
(* InterfaceController for every packet, SessionManager for handshake packets. *)
Receive(p, m) ==
    LET timedOut == resetIfTimeout(session[p]) # session[p]
    IN  /\ m.from # p
        /\ net' = net \ {m}
        /\ \/ timedOut /\ DecryptAnew(p, m)
           \/ /\ timedOut => m.nonce >= FIRST_TRAFFIC_PACKET
              /\ \/ CryptoAuth_decrypt(p, m)
                 \/ /\ ~Handles(p, m)
                    /\ UNCHANGED <<session, keys, password, users, withdrawn, delivered>>
        /\ UNCHANGED <<sent, late, faults>>

Round ==
    /\ sent = Party /\ net = {}
    /\ sent' = {}
    /\ session' = [p \in Party |->
           [session[p] EXCEPT !.idle = IF @ < MaxIdle THEN @ + 1 ELSE @]]
    /\ UNCHANGED <<keys, password, users, withdrawn, net, delivered, late, faults>>

Progress ==
    \/ \E p \in Party : Send(p) \/ \E m \in net : Receive(p, m)
    \/ Round

Lose(m) ==
    /\ net' = net \ {m}
    /\ UNCHANGED <<session, keys, password, users, withdrawn, delivered, late>>

HoldBack(m) ==
    /\ late' = late \cup {m}
    /\ UNCHANGED vars

ArriveLate(m) ==
    /\ late' = late \ {m}
    /\ net' = net \cup {m}
    /\ UNCHANGED <<session, keys, password, users, withdrawn, delivered>>

Fault ==
    /\ faults < MaxFaults
    /\ faults' = faults + 1
    /\ UNCHANGED sent
    /\ \/ \E m \in net : Lose(m) \/ HoldBack(m)
       \/ \E m \in late : ArriveLate(m)
       \/ \E p \in Party : CryptoAuth_newSession(p) /\ UNCHANGED late

LiveNext == Progress \/ Fault

LiveSpec == LiveInit /\ [][LiveNext]_liveVars /\ WF_liveVars(Progress)

(* Whatever was lost, late, crossed or reset, once the faults stop both ends   *)
(* end up in run mode under one secret and stay there: no deadlock in which    *)
(* each waits for the other's session, no livelock of resets.                  *)
Converges == <>[]Agreed
=============================================================================
