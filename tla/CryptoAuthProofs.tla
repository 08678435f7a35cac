-------------------------- MODULE CryptoAuthProofs --------------------------
(***************************************************************************)
(* What two CryptoAuth sessions keep to, for every number of temporary     *)
(* keys and of packets, every limit of the nonce, every width of the       *)
(* replay window and every set of passwords.                               *)
(*                                                                         *)
(* The argument: a temporary key is generated either for hellos or for key *)
(* packets, so that the pair of keys of a session fixes who initiated it.  *)
(* A session that starts over forgets its own temporary key and generates  *)
(* another, which no packet ever sent was sealed with.  Under one key      *)
(* nextNonce only grows, and the replay protector forgets nothing once a   *)
(* run packet was accepted.                                                *)
(***************************************************************************)
EXTENDS CryptoAuth, TLAPS

Key == {Zero} \cup (Party \X Nat)
Session == [nextNonce : Nat, isInitiator : BOOLEAN, ourTemp : Key, herTemp : Key,
            sharedSecret : SUBSET Key, established : BOOLEAN,
            bits : SUBSET Bits, base : Nat, idle : Nat]
Packet == [from : Party, nonce : Nat, auth : Passwords \cup {NoPassword},
           temp : Key, seal : SUBSET Key, slot : BOOLEAN]

TypeOK ==
    /\ session \in [Party -> Session]
    /\ keys \in [Party -> Nat]
    /\ password \in [Party -> Passwords \cup {NoPassword}]
    /\ users \in [Party -> SUBSET Passwords]
    /\ net \in SUBSET Packet
    /\ delivered \in [Party -> SUBSET net]

(* The temporary keys that p has generated. *)
Generated(p) == {<<p, i>> : i \in 1 .. keys[p]}

(* Those that p sent in hellos, and in key packets. *)
HelloTemps(p) == {m.temp : m \in {n \in net : n.from = p /\ n.nonce < KEY}}
KeyTemps(p) ==
    {m.temp : m \in {n \in net : n.from = p /\ n.nonce >= KEY /\ n.nonce < FIRST_TRAFFIC_PACKET}}
TempsAs(p, initiator) == IF initiator THEN HelloTemps(p) ELSE KeyTemps(p)

(* A key of p serves in one role; a run packet is sealed with a key of its *)
(* sender in the role it was sent in and one of the receiver in the other. *)
NetInv ==
    /\ \A p \in Party : HelloTemps(p) \cap KeyTemps(p) = {}
    /\ \A m \in net :
         /\ m.nonce < NonceLimit
         /\ m.nonce < FIRST_TRAFFIC_PACKET => m.temp \in Generated(m.from)
         /\ m.nonce >= FIRST_TRAFFIC_PACKET =>
              \E a \in TempsAs(m.from, m.slot), b \in TempsAs(Peer(m.from), ~m.slot) :
                 m.seal = {a, b}

(* What nextNonce says of a session. *)
Stages(s) ==
    /\ s.nextNonce < RECEIVED_HELLO <=> s.herTemp = Zero
    /\ s.nextNonce \in {INIT, RECEIVED_HELLO} <=> s.ourTemp = Zero
    /\ s.nextNonce \in {INIT, RECEIVED_HELLO, SENT_KEY} => ~s.isInitiator
    /\ s.nextNonce = SENT_HELLO => s.isInitiator
    /\ s.nextNonce > RECEIVED_KEY => s.sharedSecret = getSharedSecret(s.ourTemp, s.herTemp)
    /\ s.established => s.nextNonce > RECEIVED_KEY

(* Its keys are of the role it has, the peer's of the other. *)
Temps(p, s) ==
    /\ s.ourTemp # Zero => s.ourTemp \in TempsAs(p, s.isInitiator)
    /\ s.herTemp # Zero => s.herTemp \in TempsAs(Peer(p), ~s.isInitiator)

(* What p sent under its key has a nonce below the next one. *)
SentBelow(p, s) ==
    \A m \in net :
        m.from = p /\ m.nonce >= FIRST_TRAFFIC_PACKET /\ s.ourTemp \in m.seal
            => m.nonce < s.nextNonce

(* The replay protector takes n for seen. *)
Marked(s, n) == n < s.base \/ n - s.base \in s.bits

(* What p accepted under its key is marked.  *)
AllMarked(p, s) ==
    \A m \in delivered[p] :
        s.ourTemp \in m.seal => s.established /\ Marked(s, m.nonce)

RunOnly(p) == \A m \in delivered[p] : m.from # p /\ m.nonce >= FIRST_TRAFFIC_PACKET

SessionInv(p, s) == Stages(s) /\ Temps(p, s) /\ SentBelow(p, s) /\ AllMarked(p, s)

Inv ==
    /\ TypeOK
    /\ NetInv
    /\ \A p \in Party : RunOnly(p) /\ SessionInv(p, session[p])

-----------------------------------------------------------------------------
(* The window of the replay protector. *)

IsWindow(w) == w.bits \in SUBSET Bits /\ w.base \in Nat

(* An iteration of the loop of checkNonce keeps every nonce marked that was,   *)
(* and does not move the base past the nonce that is checked.                  *)
LEMMA ShiftMarks ==
    ASSUME NEW w, IsWindow(w), NEW nonce \in Nat, w.base <= nonce
    PROVE  LET v == Shift(w, nonce, {})
           IN  /\ IsWindow(v) /\ v.base <= nonce
               /\ \A n \in Nat : Marked(w, n) => Marked(v, n)
<1> DEFINE offset == nonce - w.base
           far == offset - Keep
<1>1. /\ Half \in Nat /\ Half > 0 /\ Width = 2 * Half /\ Bits = 0 .. 2 * Half - 1
      /\ Keep \in Nat /\ Keep < Width
  BY WindowAssumption DEF Width, Bits
<1>2. w.bits \in SUBSET Bits /\ w.base \in Nat /\ offset \in Nat
  BY DEF IsWindow
<1>3. ASSUME NEW k \in Nat, k <= offset, NEW lost
      PROVE  LET v == Window(ShiftRight(w.bits, k), w.base + k, lost)
             IN  /\ IsWindow(v) /\ v.base <= nonce
                 /\ \A n \in Nat : Marked(w, n) => Marked(v, n)
  <2> DEFINE v == Window(ShiftRight(w.bits, k), w.base + k, lost)
  <2>1. v.bits = ShiftRight(w.bits, k) /\ v.base = w.base + k
    BY Zenon DEF Window
  <2> HIDE DEF v
  <2>2. IsWindow(v) /\ v.base <= nonce
    BY <1>2, <1>3, <2>1 DEF IsWindow, ShiftRight
  <2>3. ASSUME NEW n \in Nat, Marked(w, n), ~(n < v.base)
        PROVE  n - v.base \in v.bits
    <3>1. n - w.base \in w.bits
      BY <1>2, <1>3, <2>1, <2>3 DEF Marked
    <3>2. n - v.base \in Nat /\ (n - v.base) + k = n - w.base
      BY <1>2, <1>3, <2>1, <2>3
    <3>3. n - w.base \in Bits
      BY <1>2, <3>1, Zenon
    <3>4. n - v.base \in Bits
      BY <1>1, <1>3, <3>2, <3>3
    <3> QED
      BY <2>1, <3>1, <3>2, <3>4, Zenon DEF ShiftRight
  <2> QED
    BY <2>2, <2>3, Zenon DEF Marked, v
<1>4. CASE offset < Width
  BY <1>4, Zenon DEF Shift
<1>5. CASE ~(offset < Width) /\ LowHalf \subseteq w.bits
  <2>1. Shift(w, nonce, {}) = Window(ShiftRight(w.bits, Half), w.base + Half, w.lost)
    BY <1>5, Zenon DEF Shift
  <2>2. Half \in Nat /\ Half <= offset
    BY <1>1, <1>2, <1>5
  <2> QED
    BY <1>3, <2>1, <2>2, Zenon
<1>6. CASE ~(offset < Width) /\ ~(LowHalf \subseteq w.bits)
  <2>1. Shift(w, nonce, {}) =
            Window(ShiftRight(w.bits, far), w.base + far, Lost(w, far, {}))
    BY <1>6, Zenon DEF Shift
  <2>2. far \in Nat /\ far <= offset
    BY <1>1, <1>2, <1>6
  <2> QED
    BY <1>3, <2>1, <2>2, Zenon
<1> QED
  BY <1>4, <1>5, <1>6, Zenon

(* Three iterations bring the nonce into the window: a lossy one does, and two *)
(* by a half leave no bit.                                                     *)
LEMMA SlideMarks ==
    ASSUME NEW w, IsWindow(w), NEW nonce \in Nat, w.base <= nonce
    PROVE  LET v == Slide(w, nonce, {})
           IN  /\ IsWindow(v) /\ v.base <= nonce /\ nonce - v.base \in Bits
               /\ \A n \in Nat : Marked(w, n) => Marked(v, n)
<1> DEFINE v1 == Shift(w, nonce, {})
           v2 == Shift(v1, nonce, {})
           v3 == Shift(v2, nonce, {})
<1>1. /\ Half \in Nat /\ Half > 0 /\ Width = 2 * Half /\ Bits = 0 .. 2 * Half - 1
      /\ Keep \in Nat /\ Keep < Width /\ LowHalf = 0 .. Half - 1
  BY WindowAssumption DEF Width, Bits, LowHalf
<1>2. IsWindow(v1) /\ v1.base <= nonce /\ \A n \in Nat : Marked(w, n) => Marked(v1, n)
  BY ShiftMarks, Zenon
<1>3. IsWindow(v2) /\ v2.base <= nonce /\ \A n \in Nat : Marked(v1, n) => Marked(v2, n)
  <2> HIDE DEF v1
  <2> QED
    BY <1>2, ShiftMarks, Zenon
<1>4. IsWindow(v3) /\ v3.base <= nonce /\ \A n \in Nat : Marked(v2, n) => Marked(v3, n)
  <2> HIDE DEF v2
  <2> QED
    BY <1>3, ShiftMarks, Zenon
<1>5. ASSUME NEW u, IsWindow(u), u.base <= nonce, ~(nonce - u.base < Width)
      PROVE  \/ nonce - Shift(u, nonce, {}).base = Keep
             \/ LowHalf \subseteq u.bits /\ Shift(u, nonce, {}).bits = ShiftRight(u.bits, Half)
  <2>1. CASE LowHalf \subseteq u.bits
    BY <1>5, <2>1, Zenon DEF Shift, Window
  <2>2. CASE ~(LowHalf \subseteq u.bits)
    <3> DEFINE far == nonce - u.base - Keep
    <3>1. Shift(u, nonce, {}).base = u.base + far
      BY <1>5, <2>2, Zenon DEF Shift, Window
    <3>2. u.base \in Nat
      BY <1>5, Zenon DEF IsWindow
    <3> QED
      BY <1>1, <3>1, <3>2
  <2> QED
    BY <2>1, <2>2, Zenon
<1>6. ASSUME NEW u, IsWindow(u), u.base <= nonce, nonce - u.base < Width
      PROVE  Shift(u, nonce, {}) = u
  BY <1>6, Zenon DEF Shift
<1>7. nonce - v3.base < Width
  <2> SUFFICES ASSUME ~(nonce - v3.base < Width)
               PROVE  FALSE
    BY Zenon
  <2> HIDE DEF v1, v2, v3
  <2>1. v1 = Shift(w, nonce, {}) /\ v2 = Shift(v1, nonce, {}) /\ v3 = Shift(v2, nonce, {})
    BY Zenon DEF v1, v2, v3
  <2>2. ~(nonce - v2.base < Width)
    BY <1>3, <1>6, <2>1, Zenon
  <2>3. ~(nonce - v1.base < Width)
    BY <1>2, <1>6, <2>1, <2>2, Zenon
  <2>4. ~(nonce - w.base < Width)
    BY <1>6, <2>1, <2>3, Zenon
  <2>5. v1.bits = ShiftRight(w.bits, Half)
    BY <1>1, <1>5, <2>1, <2>3, <2>4, Zenon
  <2>6. v2.bits = ShiftRight(v1.bits, Half)
    BY <1>1, <1>2, <1>5, <2>1, <2>2, <2>3, Zenon
  <2>7. LowHalf \subseteq v2.bits
    BY <1>1, <1>3, <1>5, <2>1, <2>2, Zenon
  <2>8. 0 \in v2.bits
    BY <1>1, <2>7
  <2>9. (0 + Half) + Half \in w.bits
    BY <2>5, <2>6, <2>8, Zenon DEF ShiftRight
  <2> QED
    BY <1>1, <2>9 DEF IsWindow
<1>8. nonce - v3.base \in Bits
  BY <1>1, <1>4, <1>7 DEF IsWindow
<1> QED
  BY <1>2, <1>3, <1>4, <1>8, Zenon DEF Slide

(* What checkNonce does to a session: the nonce and all that were marked are   *)
(* marked afterwards, and a marked one is refused.                             *)
LEMMA FiledMarks ==
    ASSUME NEW s \in Session, NEW nonce \in Nat
    PROVE  /\ Filed(s, nonce) \in Session
           /\ Filed(s, nonce) = [s EXCEPT !.base = Filed(s, nonce).base,
                                          !.bits = Filed(s, nonce).bits]
           /\ \A n \in Nat : Marked(s, n) \/ n = nonce => Marked(Filed(s, nonce), n)
           /\ Marked(s, nonce) => ~NonceIsNew(s, nonce)
<1> DEFINE w == Window(s.bits, s.base, 0)
           v == Slide(w, nonce, {})
<1>1. w.bits = s.bits /\ w.base = s.base /\ IsWindow(w)
  BY Zenon DEF Session, Window, IsWindow
<1>2. \A n \in Nat : Marked(s, n) <=> Marked(w, n)
  BY <1>1, Zenon DEF Marked
<1> HIDE DEF w
<1>3. CASE nonce < s.base
  <2>1. Filed(s, nonce) = s
    BY <1>3, Zenon DEF Filed
  <2>2. s = [s EXCEPT !.base = s.base, !.bits = s.bits]
    BY Zenon DEF Session
  <2>3. Marked(s, nonce) /\ ~NonceIsNew(s, nonce)
    BY <1>3 DEF Marked, NonceIsNew, Session
  <2> QED
    BY <2>1, <2>2, <2>3, Zenon
<1>4. CASE ~(nonce < s.base)
  <2>1. w.base <= nonce
    BY <1>1, <1>4 DEF Session
  <2>2. /\ v.bits \in SUBSET Bits /\ v.base \in Nat
        /\ v.base <= nonce /\ nonce - v.base \in Bits
        /\ \A n \in Nat : Marked(w, n) => Marked(v, n)
    BY <1>1, <2>1, SlideMarks, Zenon DEF IsWindow
  <2> HIDE DEF v
  <2>3. Slid(s, nonce) = v
    BY Zenon DEF Slid, v, w
  <2>4. Filed(s, nonce) = [s EXCEPT !.base = v.base, !.bits = v.bits \cup {nonce - v.base}]
    BY <1>4, <2>3, Zenon DEF Filed
  <2>5. /\ Filed(s, nonce) \in Session
        /\ Filed(s, nonce).base = v.base
        /\ Filed(s, nonce).bits = v.bits \cup {nonce - v.base}
    <3> DEFINE b == v.bits \cup {nonce - v.base}
               t == [s EXCEPT !.base = v.base, !.bits = b]
    <3>1. b \in SUBSET Bits /\ v.base \in Nat
      BY <2>2, Zenon
    <3> HIDE DEF b
    <3>2. t \in Session /\ t.base = v.base /\ t.bits = b
      BY <3>1, Zenon DEF Session
    <3> QED
      BY <2>4, <3>2, Zenon DEF b
  <2>6. \A n \in Nat : Marked(s, n) \/ n = nonce => Marked(Filed(s, nonce), n)
    BY <1>2, <2>2, <2>5, Zenon DEF Marked
  <2>7. Marked(s, nonce) => ~NonceIsNew(s, nonce)
    <3> SUFFICES ASSUME Marked(s, nonce)
                 PROVE  ~NonceIsNew(s, nonce)
      BY Zenon
    <3>1. Marked(v, nonce) /\ ~(nonce < v.base)
      BY <1>2, <2>2
    <3> QED
      BY <2>3, <3>1, Zenon DEF Marked, NonceIsNew
  <2> QED
    BY <2>4, <2>5, <2>6, <2>7, Zenon
<1> QED
  BY <1>3, <1>4, Zenon

-----------------------------------------------------------------------------
(* Keys and seals. *)

(* There are two ends. *)
LEMMA PeerIs ==
    \A p \in Party : /\ Peer(p) \in Party /\ Peer(p) # p
                     /\ \A q \in Party : q # p => q = Peer(p)
<1> SUFFICES ASSUME NEW p \in Party
             PROVE  /\ Peer(p) \in Party /\ Peer(p) # p
                    /\ \A q \in Party : q # p => q = Peer(p)
  BY Zenon
<1>1. PICK a, b \in Party : a # b /\ Party = {a, b}
  BY CryptoAssumption, Zenon
<1>2. \E q \in Party : q # p
  BY <1>1
<1>3. Peer(p) \in Party /\ Peer(p) # p
  BY <1>2, Zenon DEF Peer
<1> QED
  BY <1>1, <1>3, Zenon

(* A generated key is a pair with its owner, and the next one is not among     *)
(* those generated.                                                            *)
LEMMA GeneratedIs ==
    ASSUME TypeOK, NEW p \in Party
    PROVE  /\ Zero \notin Generated(p)
           /\ <<p, keys[p] + 1>> \notin Generated(p)
           /\ Generated(p) \subseteq Key
           /\ \A q \in Party : q # p => /\ Generated(p) \cap Generated(q) = {}
                                        /\ <<p, keys[p] + 1>> \notin Generated(q)
<1>1. keys[p] \in Nat
  BY Zenon DEF TypeOK
<1>2. \A i \in Nat : <<p, i>> # Zero /\ <<p, i>> \in Key
  BY Zenon DEF Zero, Key
<1>3. \A i, j \in Nat, q \in Party : <<p, i>> = <<q, j>> => p = q /\ i = j
  BY Zenon
<1>4. \A q \in Party : keys[q] \in Nat
  BY Zenon DEF TypeOK
<1>5. Zero \notin Generated(p) /\ Generated(p) \subseteq Key
  BY <1>1, <1>2 DEF Generated
<1>6. <<p, keys[p] + 1>> \notin Generated(p)
  BY <1>1, <1>3 DEF Generated
<1>7. ASSUME NEW q \in Party, q # p
      PROVE  /\ Generated(p) \cap Generated(q) = {}
             /\ <<p, keys[p] + 1>> \notin Generated(q)
  BY <1>1, <1>3, <1>4, <1>7 DEF Generated
<1> QED
  BY <1>5, <1>6, <1>7, Zenon

(* What was sent in a handshake packet was generated. *)
LEMMA TempsGenerated ==
    ASSUME TypeOK, NetInv, NEW p \in Party, NEW i \in BOOLEAN
    PROVE  TempsAs(p, i) \subseteq Generated(p)
<1> SUFFICES ASSUME NEW m \in net, m.from = p, m.nonce < FIRST_TRAFFIC_PACKET
             PROVE  m.temp \in Generated(p)
  <2>1. \A m \in net : m.nonce \in Nat
    BY Zenon DEF TypeOK, Packet
  <2> QED
    BY <2>1 DEF TempsAs, HelloTemps, KeyTemps, FIRST_TRAFFIC_PACKET, KEY
<1> QED
  BY Zenon DEF NetInv

(* No run packet is sealed with Zero or with a key yet to be generated. *)
LEMMA SealsAreOld ==
    ASSUME TypeOK, NetInv, NEW m \in net, m.nonce >= FIRST_TRAFFIC_PACKET, NEW p \in Party
    PROVE  Zero \notin m.seal /\ <<p, keys[p] + 1>> \notin m.seal
<1>1. m.from \in Party /\ m.slot \in BOOLEAN
  BY Zenon DEF TypeOK, Packet
<1>2. PICK a \in TempsAs(m.from, m.slot), b \in TempsAs(Peer(m.from), ~m.slot) :
          m.seal = {a, b}
  BY Zenon DEF NetInv
<1>3. a \in Generated(m.from)
  BY <1>1, TempsGenerated, Zenon
<1>4. b \in Generated(Peer(m.from)) /\ Peer(m.from) \in Party
  BY <1>1, TempsGenerated, PeerIs, Zenon
<1>5. \A q \in Party : \A k \in Generated(q) : k # Zero /\ k # <<p, keys[p] + 1>>
  BY GeneratedIs, Zenon
<1> QED
  BY <1>1, <1>2, <1>3, <1>4, <1>5, Zenon

(* The handshake state of a new or reset session. *)
Blank(s) ==
    /\ s.nextNonce = INIT /\ s.ourTemp = Zero /\ s.herTemp = Zero
    /\ ~s.isInitiator /\ ~s.established

(* A session that starts over is as good as new: what was sent and accepted    *)
(* earlier is under other keys.                                                *)
LEMMA BlankInv ==
    ASSUME TypeOK, NetInv, NEW p \in Party, RunOnly(p), NEW s \in Session, Blank(s)
    PROVE  SessionInv(p, s)
<1>1. Stages(s)
  BY DEF Blank, Stages, INIT, SENT_HELLO, RECEIVED_HELLO, SENT_KEY, RECEIVED_KEY
<1>2. Temps(p, s)
  BY Zenon DEF Blank, Temps
<1>3. SentBelow(p, s)
  BY SealsAreOld, Zenon DEF Blank, SentBelow
<1>4. AllMarked(p, s)
  BY SealsAreOld, Zenon DEF Blank, AllMarked, RunOnly, TypeOK
<1> QED
  BY <1>1, <1>2, <1>3, <1>4, Zenon DEF SessionInv

(* reset and a new session are blank. *)
LEMMA ResetIsBlank ==
    ASSUME NEW s \in Session
    PROVE  /\ NewSession \in Session /\ Blank(NewSession)
           /\ reset(s) \in Session /\ Blank(reset(s))
<1>1. {} \in SUBSET Key /\ {} \in SUBSET Bits /\ Zero \in Key
  BY Zenon DEF Key
<1>2. s.idle \in Nat
  BY Zenon DEF Session
<1> QED
  BY <1>1, <1>2, Zenon DEF Session, Blank, NewSession, reset, INIT

(* The session that encrypt works on, after a timeout and the nonce limit. *)
LEMMA RefreshedInv ==
    ASSUME Inv, NEW p \in Party
    PROVE  LET s == Refreshed(session[p])
           IN  s \in Session /\ SessionInv(p, s) /\ s.nextNonce < NonceLimit
<1>1. session[p] \in Session /\ SessionInv(p, session[p]) /\ RunOnly(p) /\ TypeOK /\ NetInv
  BY Zenon DEF Inv, TypeOK
<1>2. NonceLimit \in Nat /\ NonceLimit > 4
  BY CryptoAssumption, Zenon DEF RECEIVED_KEY
<1> DEFINE t == resetIfTimeout(session[p])
<1>3. t \in Session /\ SessionInv(p, t)
  BY <1>1, BlankInv, ResetIsBlank, Zenon DEF resetIfTimeout
<1>4. reset(t) \in Session /\ Blank(reset(t)) /\ SessionInv(p, reset(t))
  BY <1>1, <1>3, BlankInv, ResetIsBlank, Zenon
<1> HIDE DEF t
<1>5. Refreshed(session[p]) = IF t.nextNonce >= NonceLimit THEN reset(t) ELSE t
  BY Zenon DEF Refreshed, t
<1> QED
  BY <1>2, <1>3, <1>4, <1>5 DEF Blank, INIT, Session

-----------------------------------------------------------------------------
(* Steps that send nothing: p's session becomes s, and D what p has accepted. *)
LEMMA LocalStep ==
    ASSUME Inv, NEW p \in Party, NEW s \in Session, NEW D \in SUBSET net,
           session' = [session EXCEPT ![p] = s],
           delivered' = [delivered EXCEPT ![p] = D],
           UNCHANGED <<keys, net>>,
           password' \in [Party -> Passwords \cup {NoPassword}],
           users' \in [Party -> SUBSET Passwords],
           Stages(s), Temps(p, s), SentBelow(p, s),
           \A m \in D : /\ m.from # p /\ m.nonce >= FIRST_TRAFFIC_PACKET
                        /\ s.ourTemp \in m.seal => s.established /\ Marked(s, m.nonce)
    PROVE  Inv'
<1>1. TypeOK /\ NetInv /\ \A q \in Party : RunOnly(q) /\ SessionInv(q, session[q])
  BY Zenon DEF Inv
<1>2. TypeOK'
  BY <1>1, Zenon DEF TypeOK
<1>3. NetInv'
  <2>1. \A q : HelloTemps(q)' = HelloTemps(q) /\ KeyTemps(q)' = KeyTemps(q)
                 /\ Generated(q)' = Generated(q)
    BY Zenon DEF HelloTemps, KeyTemps, Generated
  <2> QED
    BY <1>1, <2>1, Zenon DEF NetInv, TempsAs
<1>4. ASSUME NEW q \in Party, q # p
      PROVE  RunOnly(q)' /\ SessionInv(q, session[q])'
  <2>1. session'[q] = session[q] /\ delivered'[q] = delivered[q]
    BY <1>1, <1>4, Zenon DEF TypeOK
  <2>2. RunOnly(q)'
    BY <1>1, <2>1, Zenon DEF RunOnly
  <2>3. Stages(session[q])'
    BY <1>1, <2>1, Zenon DEF SessionInv, Stages
  <2>4. Temps(q, session[q])'
    BY <1>1, <2>1, Zenon DEF SessionInv, Temps, TempsAs, HelloTemps, KeyTemps
  <2>5. SentBelow(q, session[q])'
    BY <1>1, <2>1, Zenon DEF SessionInv, SentBelow
  <2>6. AllMarked(q, session[q])'
    BY <1>1, <2>1, Zenon DEF SessionInv, AllMarked, Marked
  <2> QED
    BY <2>2, <2>3, <2>4, <2>5, <2>6, Zenon DEF SessionInv
<1>5. RunOnly(p)' /\ SessionInv(p, session[p])'
  <2>1. session'[p] = s /\ delivered'[p] = D
    BY <1>1, Zenon DEF TypeOK
  <2>2. RunOnly(p)'
    BY <2>1, Zenon DEF RunOnly
  <2>3. Stages(session[p])'
    BY <2>1, Zenon DEF Stages
  <2>4. Temps(p, session[p])'
    BY <2>1, Zenon DEF Temps, TempsAs, HelloTemps, KeyTemps
  <2>5. SentBelow(p, session[p])'
    BY <2>1, Zenon DEF SentBelow
  <2>6. AllMarked(p, session[p])'
    BY <2>1, Zenon DEF AllMarked, Marked
  <2> QED
    BY <2>2, <2>3, <2>4, <2>5, <2>6, Zenon DEF SessionInv
<1> QED
  BY <1>2, <1>3, <1>4, <1>5, Zenon DEF Inv

(* A session that starts over, or whose clock moves. *)
LEMMA KeptOrBlank ==
    ASSUME Inv, NEW p \in Party, NEW s \in Session,
           session' = [session EXCEPT ![p] = s],
           UNCHANGED <<keys, net, delivered>>,
           password' \in [Party -> Passwords \cup {NoPassword}],
           users' \in [Party -> SUBSET Passwords],
           Blank(s) \/ s = [session[p] EXCEPT !.idle = s.idle]
    PROVE  Inv'
<1>1. TypeOK /\ NetInv /\ RunOnly(p) /\ SessionInv(p, session[p]) /\ session[p] \in Session
  BY Zenon DEF Inv, TypeOK
<1>2. SessionInv(p, s)
  <2>1. CASE Blank(s)
    BY <1>1, <2>1, BlankInv, Zenon
  <2>2. CASE s = [session[p] EXCEPT !.idle = s.idle]
    <3>1. /\ s.nextNonce = session[p].nextNonce /\ s.isInitiator = session[p].isInitiator
          /\ s.ourTemp = session[p].ourTemp /\ s.herTemp = session[p].herTemp
          /\ s.sharedSecret = session[p].sharedSecret
          /\ s.established = session[p].established
          /\ s.bits = session[p].bits /\ s.base = session[p].base
      BY <1>1, <2>2, Zenon DEF Session
    <3> QED
      BY <1>1, <3>1, Zenon DEF SessionInv, Stages, Temps, SentBelow, AllMarked, Marked
  <2> QED
    BY <2>1, <2>2, Zenon
<1>3. delivered[p] \in SUBSET net /\ delivered' = [delivered EXCEPT ![p] = delivered[p]]
  BY <1>1, Zenon DEF TypeOK
<1>4. Stages(s) /\ Temps(p, s) /\ SentBelow(p, s)
  BY <1>2, Zenon DEF SessionInv
<1>5. \A m \in delivered[p] :
          /\ m.from # p /\ m.nonce >= FIRST_TRAFFIC_PACKET
          /\ s.ourTemp \in m.seal => s.established /\ Marked(s, m.nonce)
  BY <1>1, <1>2, Zenon DEF SessionInv, RunOnly, AllMarked
<1>6. UNCHANGED <<keys, net>>
  BY Zenon
<1> QED
  BY <1>3, <1>4, <1>5, <1>6, LocalStep, Zenon

-----------------------------------------------------------------------------
(* CryptoAuth_decrypt. *)

(* The temporary key that a handshake packet brings is the peer's. *)
LEMMA ArrivedTemp ==
    ASSUME Inv, NEW p \in Party, NEW m \in net, m.from # p, m.nonce < FIRST_TRAFFIC_PACKET
    PROVE  /\ m.temp \in Key /\ m.temp # Zero
           /\ m.nonce < KEY => m.temp \in TempsAs(Peer(p), TRUE)
           /\ m.nonce >= KEY => m.temp \in TempsAs(Peer(p), FALSE)
<1>1. m \in Packet /\ m.from = Peer(p) /\ TypeOK /\ NetInv
  BY PeerIs, Zenon DEF Inv, TypeOK, Packet
<1>2. m.temp \in Generated(m.from) /\ m.from \in Party
  BY <1>1, Zenon DEF NetInv, Packet
<1>3. /\ m.nonce < KEY => m.temp \in TempsAs(m.from, TRUE)
      /\ m.nonce >= KEY => m.temp \in TempsAs(m.from, FALSE)
  BY <1>1, Zenon DEF TempsAs, HelloTemps, KeyTemps, Packet, KEY
<1> QED
  BY <1>1, <1>2, <1>3, GeneratedIs, Zenon

(* A new hello: the session starts over with the peer's key. *)
LEMMA NewHelloInv ==
    ASSUME Inv, NEW p \in Party, NEW m \in net, m.from # p,
           IsNewHello(p, m), NewHello(p, m),
           UNCHANGED <<keys, password, users, net, delivered>>
    PROVE  Inv'
<1> DEFINE s == [reset(session[p]) EXCEPT !.herTemp = m.temp, !.nextNonce = RECEIVED_HELLO]
<1>1. TypeOK /\ NetInv /\ RunOnly(p) /\ session[p] \in Session
  BY Zenon DEF Inv, TypeOK
<1>2. m.nonce < KEY /\ m.nonce < FIRST_TRAFFIC_PACKET
  BY DEF IsNewHello, HELLO, REPEAT_HELLO, KEY, FIRST_TRAFFIC_PACKET
<1>3. m.temp \in Key /\ m.temp # Zero /\ m.temp \in TempsAs(Peer(p), TRUE)
  BY <1>2, ArrivedTemp, Zenon
<1>4. reset(session[p]) \in Session /\ Blank(reset(session[p]))
  BY <1>1, ResetIsBlank, Zenon
<1>5. /\ s \in Session /\ s.nextNonce = 2 /\ s.ourTemp = Zero /\ s.herTemp = m.temp
      /\ ~s.isInitiator /\ ~s.established
  BY <1>3, <1>4, Zenon DEF Session, Blank, RECEIVED_HELLO
<1>6. session' = [session EXCEPT ![p] = s]
  BY Zenon DEF NewHello
<1> HIDE DEF s
<1>7. Stages(s)
  BY <1>3, <1>5 DEF Stages, INIT, SENT_HELLO, RECEIVED_HELLO, SENT_KEY, RECEIVED_KEY
<1>8. Temps(p, s)
  BY <1>3, <1>5, Zenon DEF Temps
<1>9. SentBelow(p, s)
  BY <1>1, <1>5, SealsAreOld, Zenon DEF SentBelow
<1>10. \A n \in delivered[p] :
          /\ n.from # p /\ n.nonce >= FIRST_TRAFFIC_PACKET
          /\ s.ourTemp \in n.seal => s.established /\ Marked(s, n.nonce)
  BY <1>1, <1>5, SealsAreOld, Zenon DEF RunOnly, TypeOK
<1>11. /\ delivered[p] \in SUBSET net
       /\ delivered' = [delivered EXCEPT ![p] = delivered[p]]
       /\ password' \in [Party -> Passwords \cup {NoPassword}]
       /\ users' \in [Party -> SUBSET Passwords]
  BY <1>1, Zenon DEF TypeOK
<1>12. UNCHANGED <<keys, net>>
  BY Zenon
<1> QED
  BY <1>5, <1>6, <1>7, <1>8, <1>9, <1>10, <1>11, <1>12, LocalStep, Zenon

(* A session in which nothing was accepted: its window may be cleared. *)
LEMMA NothingAccepted ==
    ASSUME Inv, NEW p \in Party, ~session[p].established, NEW n \in delivered[p]
    PROVE  /\ n.from # p /\ n.nonce >= FIRST_TRAFFIC_PACKET
           /\ session[p].ourTemp \notin n.seal
  BY Zenon DEF Inv, RunOnly, SessionInv, AllMarked

(* A repeated hello clears the window and nothing else. *)
LEMMA RepeatHelloInv ==
    ASSUME Inv, NEW p \in Party, NEW m \in net,
           IsRepeatHello(p, m), RepeatHello(p, m),
           UNCHANGED <<keys, password, users, net, delivered>>
    PROVE  Inv'
<1> DEFINE s == Cleared(session[p])
<1>1. TypeOK /\ SessionInv(p, session[p]) /\ session[p] \in Session
  BY Zenon DEF Inv, TypeOK
<1>2. /\ s \in Session
      /\ s.nextNonce = session[p].nextNonce /\ s.isInitiator = session[p].isInitiator
      /\ s.ourTemp = session[p].ourTemp /\ s.herTemp = session[p].herTemp
      /\ s.sharedSecret = session[p].sharedSecret
      /\ s.established = session[p].established
  BY <1>1, Zenon DEF Session, Cleared
<1>3. session' = [session EXCEPT ![p] = s]
  BY Zenon DEF RepeatHello
<1> HIDE DEF s
<1>4. ~session[p].established
  BY <1>1 DEF IsRepeatHello, SessionInv, Stages, RECEIVED_HELLO, SENT_KEY, RECEIVED_KEY
<1>5. Stages(s) /\ Temps(p, s) /\ SentBelow(p, s)
  BY <1>1, <1>2, Zenon DEF SessionInv, Stages, Temps, SentBelow
<1>6. \A n \in delivered[p] :
          /\ n.from # p /\ n.nonce >= FIRST_TRAFFIC_PACKET
          /\ s.ourTemp \in n.seal => s.established /\ Marked(s, n.nonce)
  BY <1>2, <1>4, NothingAccepted, Zenon
<1>7. /\ delivered[p] \in SUBSET net
      /\ delivered' = [delivered EXCEPT ![p] = delivered[p]]
      /\ password' \in [Party -> Passwords \cup {NoPassword}]
      /\ users' \in [Party -> SUBSET Passwords]
  BY <1>1, Zenon DEF TypeOK
<1>8. UNCHANGED <<keys, net>>
  BY Zenon
<1> QED
  BY <1>2, <1>3, <1>5, <1>6, <1>7, <1>8, LocalStep, Zenon

(* A key packet: the peer's key may change, ours stays and so does the role,   *)
(* and nextNonce does not fall unless nothing was sent.                        *)
LEMMA NewKeyInv ==
    ASSUME Inv, NEW p \in Party, NEW m \in net, m.from # p,
           IsKey(p, m), NewKey(p, m),
           UNCHANGED <<keys, password, users, net, delivered>>
    PROVE  Inv'
<1> DEFINE o == session[p]
           sending == o.nextNonce > RECEIVED_KEY
           secret == getSharedSecret(o.ourTemp, m.temp)
           s == [Cleared(o) EXCEPT
                   !.herTemp = m.temp,
                   !.sharedSecret = IF sending /\ m.nonce = KEY THEN secret ELSE @,
                   !.nextNonce = IF sending THEN @ + 1 ELSE RECEIVED_KEY]
<1>1. TypeOK /\ SessionInv(p, o) /\ o \in Session
  BY Zenon DEF Inv, TypeOK
<1>2. m.nonce < FIRST_TRAFFIC_PACKET /\ m.nonce >= KEY
  BY DEF IsKey, KEY, REPEAT_KEY, FIRST_TRAFFIC_PACKET
<1>3. m.temp \in Key /\ m.temp # Zero /\ m.temp \in TempsAs(Peer(p), FALSE)
  BY <1>2, ArrivedTemp, Zenon
<1>4. /\ o.isInitiator /\ ~o.established
      /\ o.nextNonce = 1 \/ o.nextNonce >= 4
      /\ o.nextNonce >= 4 => ((m.nonce = KEY) <=> (m.temp # o.herTemp))
  BY <1>1 DEF IsKey, INIT, RECEIVED_HELLO, SENT_KEY, RECEIVED_KEY, Session
<1>5. secret \in SUBSET Key /\ secret = {o.ourTemp, m.temp}
  BY <1>1, <1>3, Zenon DEF Session, getSharedSecret
<1>6. /\ s \in Session
      /\ s.nextNonce = IF o.nextNonce > 4 THEN o.nextNonce + 1 ELSE 4
      /\ s.isInitiator = o.isInitiator /\ s.ourTemp = o.ourTemp /\ s.herTemp = m.temp
      /\ s.sharedSecret = IF o.nextNonce > 4 /\ m.nonce = KEY THEN secret ELSE o.sharedSecret
      /\ s.established = o.established
  <2> DEFINE nonce == IF sending THEN o.nextNonce + 1 ELSE RECEIVED_KEY
             shared == IF sending /\ m.nonce = KEY THEN secret ELSE o.sharedSecret
             c == Cleared(o)
  <2>1. /\ c \in Session /\ c.nextNonce = o.nextNonce /\ c.isInitiator = o.isInitiator
        /\ c.ourTemp = o.ourTemp /\ c.sharedSecret = o.sharedSecret
        /\ c.established = o.established
    BY <1>1, Zenon DEF Session, Cleared
  <2>2. s = [c EXCEPT !.herTemp = m.temp, !.sharedSecret = shared, !.nextNonce = nonce]
    BY <2>1, Zenon
  <2>3. nonce \in Nat /\ shared \in SUBSET Key
    BY <1>1, <1>5 DEF Session, RECEIVED_KEY
  <2>4. /\ nonce = IF o.nextNonce > 4 THEN o.nextNonce + 1 ELSE 4
        /\ shared = IF o.nextNonce > 4 /\ m.nonce = KEY THEN secret ELSE o.sharedSecret
    BY Zenon DEF RECEIVED_KEY
  <2> HIDE DEF nonce, shared, c, s
  <2>5. /\ s \in Session /\ s.nextNonce = nonce /\ s.isInitiator = c.isInitiator
        /\ s.ourTemp = c.ourTemp /\ s.herTemp = m.temp /\ s.sharedSecret = shared
        /\ s.established = c.established
    BY <1>3, <2>1, <2>2, <2>3, Zenon DEF Session
  <2> QED
    BY <2>1, <2>4, <2>5, Zenon
<1>7. session' = [session EXCEPT ![p] = s]
  BY Zenon DEF NewKey
<1> HIDE DEF s, o, secret
<1>8. o.ourTemp # Zero /\ o.ourTemp \in TempsAs(p, TRUE)
  BY <1>1, <1>4, Zenon DEF SessionInv, Stages, Temps, INIT, RECEIVED_HELLO
<1>9. o.nextNonce > 4 => o.sharedSecret = {o.ourTemp, o.herTemp}
  BY <1>1, Zenon DEF SessionInv, Stages, getSharedSecret, RECEIVED_KEY
<1>10. Stages(s)
  <2>1. s.nextNonce \in Nat /\ s.nextNonce >= 4 /\ s.isInitiator /\ ~s.established
    BY <1>1, <1>4, <1>6 DEF Session
  <2>2. s.nextNonce > 4 => s.sharedSecret = {s.ourTemp, s.herTemp}
    BY <1>1, <1>4, <1>5, <1>6, <1>9 DEF Session
  <2> QED
    BY <1>3, <1>6, <1>8, <2>1, <2>2
    DEF Stages, getSharedSecret, INIT, SENT_HELLO, RECEIVED_HELLO, SENT_KEY, RECEIVED_KEY
<1>11. Temps(p, s)
  BY <1>3, <1>4, <1>6, <1>8, Zenon DEF Temps
<1>12. SentBelow(p, s)
  <2> SUFFICES ASSUME NEW n \in net, n.from = p, n.nonce >= FIRST_TRAFFIC_PACKET,
                      s.ourTemp \in n.seal
               PROVE  n.nonce < s.nextNonce
    BY Zenon DEF SentBelow
  <2>1. n.nonce < o.nextNonce
    BY <1>1, <1>6, Zenon DEF SessionInv, SentBelow
  <2>2. n.nonce \in Nat /\ o.nextNonce \in Nat
    BY <1>1, Zenon DEF TypeOK, Packet, Session
  <2> QED
    BY <1>6, <2>1, <2>2 DEF FIRST_TRAFFIC_PACKET
<1>13. \A n \in delivered[p] :
          /\ n.from # p /\ n.nonce >= FIRST_TRAFFIC_PACKET
          /\ s.ourTemp \in n.seal => s.established /\ Marked(s, n.nonce)
  BY <1>4, <1>6, NothingAccepted, Zenon DEF o
<1>14. /\ delivered[p] \in SUBSET net
       /\ delivered' = [delivered EXCEPT ![p] = delivered[p]]
       /\ password' \in [Party -> Passwords \cup {NoPassword}]
       /\ users' \in [Party -> SUBSET Passwords]
  BY <1>1, Zenon DEF TypeOK
<1>15. UNCHANGED <<keys, net>>
  BY Zenon
<1> QED
  BY <1>6, <1>7, <1>10, <1>11, <1>12, <1>13, <1>14, <1>15, LocalStep, Zenon

(* A run packet before the session is established: accepted or not, the window *)
(* ends up past it.                                                            *)
LEMMA FinalStepInv ==
    ASSUME Inv, NEW p \in Party, NEW m \in net, m.from # p,
           IsFinalStep(p, m), FinalStep(p, m),
           UNCHANGED <<keys, password, users, net>>
    PROVE  Inv'
<1> DEFINE o == session[p]
           secret == getSharedSecret(o.ourTemp, o.herTemp)
           ok == Opens(o, m, secret) /\ NonceIsNew(o, m.nonce)
           t == [o EXCEPT !.base = m.nonce + 1, !.bits = {}]
           u == [t EXCEPT !.sharedSecret = secret, !.established = TRUE,
                          !.nextNonce = @ + 3, !.idle = 0]
           s == IF ok THEN u ELSE t
           D == IF ok THEN delivered[p] \cup {m} ELSE delivered[p]
<1>1. TypeOK /\ SessionInv(p, o) /\ o \in Session /\ m.nonce \in Nat
  BY Zenon DEF Inv, TypeOK, Packet
<1>2. /\ ~o.established /\ o.nextNonce >= 3 /\ m.nonce >= FIRST_TRAFFIC_PACKET
  BY Zenon DEF IsFinalStep, SENT_KEY
<1>3. secret \in SUBSET Key /\ secret = {o.ourTemp, o.herTemp}
  BY <1>1, Zenon DEF Session, getSharedSecret
<1>4. session' = [session EXCEPT ![p] = s] /\ delivered' = [delivered EXCEPT ![p] = D]
  BY <1>1, Zenon DEF FinalStep, TypeOK
<1> HIDE DEF secret, o
<1>5. /\ t \in Session /\ t.base = m.nonce + 1
      /\ t.nextNonce = o.nextNonce /\ t.isInitiator = o.isInitiator
      /\ t.ourTemp = o.ourTemp /\ t.herTemp = o.herTemp
      /\ t.sharedSecret = o.sharedSecret /\ t.established = o.established
  <2> DEFINE b == m.nonce + 1
  <2>1. b \in Nat /\ t = [o EXCEPT !.base = b, !.bits = {}]
    BY <1>1
  <2> HIDE DEF b, t
  <2>2. /\ t \in Session /\ t.base = b
        /\ t.nextNonce = o.nextNonce /\ t.isInitiator = o.isInitiator
        /\ t.ourTemp = o.ourTemp /\ t.herTemp = o.herTemp
        /\ t.sharedSecret = o.sharedSecret /\ t.established = o.established
    BY <1>1, <2>1, Zenon DEF Session
  <2> QED
    BY <2>2, Zenon DEF b
<1> HIDE DEF t
<1>6. /\ u \in Session /\ u.base = m.nonce + 1
      /\ u.nextNonce = o.nextNonce + 3 /\ u.isInitiator = o.isInitiator
      /\ u.ourTemp = o.ourTemp /\ u.herTemp = o.herTemp
      /\ u.sharedSecret = secret /\ u.established = TRUE
  <2> DEFINE n == t.nextNonce + 3
  <2>1. n \in Nat /\ u = [t EXCEPT !.sharedSecret = secret, !.established = TRUE,
                                  !.nextNonce = n, !.idle = 0]
    BY <1>5 DEF Session
  <2> HIDE DEF n, u
  <2>2. /\ u \in Session /\ u.base = t.base /\ u.nextNonce = n
        /\ u.isInitiator = t.isInitiator /\ u.ourTemp = t.ourTemp /\ u.herTemp = t.herTemp
        /\ u.sharedSecret = secret /\ u.established = TRUE
    BY <1>3, <1>5, <2>1, Zenon DEF Session
  <2> QED
    BY <1>5, <2>2, Zenon DEF n
<1> HIDE DEF u, ok
<1>7. /\ s \in Session /\ s.base = m.nonce + 1 /\ s.isInitiator = o.isInitiator
      /\ s.ourTemp = o.ourTemp /\ s.herTemp = o.herTemp
      /\ s.nextNonce = IF ok THEN o.nextNonce + 3 ELSE o.nextNonce
      /\ s.sharedSecret = IF ok THEN secret ELSE o.sharedSecret
      /\ s.established <=> ok
  <2>1. CASE ok
    BY <1>6, <2>1, Zenon
  <2>2. CASE ~ok
    BY <1>2, <1>5, <2>2, Zenon
  <2> QED
    BY <2>1, <2>2, Zenon
<1> HIDE DEF s
<1>8. Stages(s)
  BY <1>1, <1>2, <1>3, <1>7
  DEF SessionInv, Stages, Session, getSharedSecret,
      INIT, SENT_HELLO, RECEIVED_HELLO, SENT_KEY, RECEIVED_KEY
<1>9. Temps(p, s)
  BY <1>1, <1>7, Zenon DEF SessionInv, Temps
<1>10. SentBelow(p, s)
  <2> SUFFICES ASSUME NEW n \in net, n.from = p, n.nonce >= FIRST_TRAFFIC_PACKET,
                      s.ourTemp \in n.seal
               PROVE  n.nonce < s.nextNonce
    BY Zenon DEF SentBelow
  <2>1. n.nonce < o.nextNonce
    BY <1>1, <1>7, Zenon DEF SessionInv, SentBelow
  <2>2. n.nonce \in Nat /\ o.nextNonce \in Nat
    BY <1>1, Zenon DEF TypeOK, Packet, Session
  <2> QED
    BY <1>7, <2>1, <2>2
<1>11. \A n \in delivered[p] :
          /\ n.from # p /\ n.nonce >= FIRST_TRAFFIC_PACKET /\ s.ourTemp \notin n.seal
  BY <1>2, <1>7, NothingAccepted, Zenon DEF o
<1>12. ok => s.established /\ Marked(s, m.nonce)
  BY <1>1, <1>7 DEF Marked
<1>13. D \in SUBSET net
  BY <1>1, Zenon DEF TypeOK
<1>14. \A n \in D : /\ n.from # p /\ n.nonce >= FIRST_TRAFFIC_PACKET
                    /\ s.ourTemp \in n.seal => s.established /\ Marked(s, n.nonce)
  BY <1>2, <1>11, <1>12, Zenon
<1>15. /\ UNCHANGED <<keys, net>>
       /\ password' \in [Party -> Passwords \cup {NoPassword}]
       /\ users' \in [Party -> SUBSET Passwords]
  BY <1>1, Zenon DEF TypeOK
<1> HIDE DEF D
<1> QED
  BY <1>4, <1>7, <1>8, <1>9, <1>10, <1>13, <1>14, <1>15, LocalStep, Zenon

(* A run packet of an established session: it is marked from now on. *)
LEMMA RunInv ==
    ASSUME Inv, NEW p \in Party, NEW m \in net, m.from # p,
           IsRun(p, m), Run(p, m),
           UNCHANGED <<keys, password, users, net>>
    PROVE  Inv'
<1> DEFINE o == session[p]
           ok == NonceIsNew(o, m.nonce)
           f == Filed(o, m.nonce)
           s == [f EXCEPT !.idle = IF ok THEN 0 ELSE @]
           D == IF ok THEN delivered[p] \cup {m} ELSE delivered[p]
<1>1. TypeOK /\ SessionInv(p, o) /\ RunOnly(p) /\ o \in Session /\ m.nonce \in Nat
  BY Zenon DEF Inv, TypeOK, Packet
<1>2. o.established /\ m.nonce >= FIRST_TRAFFIC_PACKET
  BY Zenon DEF IsRun
<1>3. session' = [session EXCEPT ![p] = s] /\ delivered' = [delivered EXCEPT ![p] = D]
  BY <1>1, Zenon DEF Run, TypeOK
<1>4. /\ f \in Session /\ f = [o EXCEPT !.base = f.base, !.bits = f.bits]
      /\ \A n \in Nat : Marked(o, n) \/ n = m.nonce => Marked(f, n)
  BY <1>1, FiledMarks, Zenon
<1> HIDE DEF f, o, ok
<1>5. /\ f.nextNonce = o.nextNonce /\ f.isInitiator = o.isInitiator
      /\ f.ourTemp = o.ourTemp /\ f.herTemp = o.herTemp
      /\ f.sharedSecret = o.sharedSecret /\ f.established = o.established
  BY <1>1, <1>4, Zenon DEF Session
<1>6. /\ s \in Session /\ s.base = f.base /\ s.bits = f.bits
      /\ s.nextNonce = f.nextNonce /\ s.isInitiator = f.isInitiator
      /\ s.ourTemp = f.ourTemp /\ s.herTemp = f.herTemp
      /\ s.sharedSecret = f.sharedSecret /\ s.established = f.established
  BY <1>4, Zenon DEF Session
<1> HIDE DEF s
<1>7. Stages(s) /\ Temps(p, s) /\ SentBelow(p, s)
  BY <1>1, <1>5, <1>6, Zenon DEF SessionInv, Stages, Temps, SentBelow
<1>8. \A n \in Nat : Marked(o, n) \/ n = m.nonce => Marked(s, n)
  BY <1>4, <1>6, Zenon DEF Marked
<1>9. \A n \in delivered[p] :
          /\ n.from # p /\ n.nonce >= FIRST_TRAFFIC_PACKET /\ n.nonce \in Nat
          /\ s.ourTemp \in n.seal => s.established /\ Marked(o, n.nonce)
  BY <1>1, <1>5, <1>6 DEF SessionInv, AllMarked, RunOnly, TypeOK, Packet
<1>10. \A n \in D : /\ n.from # p /\ n.nonce >= FIRST_TRAFFIC_PACKET
                    /\ s.ourTemp \in n.seal => s.established /\ Marked(s, n.nonce)
  BY <1>1, <1>2, <1>5, <1>6, <1>8, <1>9, Zenon
<1>11. D \in SUBSET net
  BY <1>1, Zenon DEF TypeOK
<1>12. /\ UNCHANGED <<keys, net>>
       /\ password' \in [Party -> Passwords \cup {NoPassword}]
       /\ users' \in [Party -> SUBSET Passwords]
  BY <1>1, Zenon DEF TypeOK
<1> HIDE DEF D
<1> QED
  BY <1>3, <1>6, <1>7, <1>10, <1>11, <1>12, LocalStep, Zenon

-----------------------------------------------------------------------------
(* CryptoAuth_encrypt: p sends n, its session becomes s, and it has generated  *)
(* k keys.                                                                     *)
LEMMA SendStep ==
    ASSUME Inv, NEW p \in Party, NEW s \in Session, NEW n \in Packet, NEW k \in Nat,
           session' = [session EXCEPT ![p] = s],
           net' = net \cup {n},
           keys' = [keys EXCEPT ![p] = k], k >= keys[p],
           UNCHANGED <<password, users, delivered>>,
           n.from = p, n.nonce < NonceLimit,
           n.nonce < FIRST_TRAFFIC_PACKET => n.temp \in {<<p, i>> : i \in 1 .. k},
           n.nonce < KEY => n.temp \notin KeyTemps(p),
           n.nonce >= KEY /\ n.nonce < FIRST_TRAFFIC_PACKET => n.temp \notin HelloTemps(p),
           n.nonce >= FIRST_TRAFFIC_PACKET =>
               \E a \in TempsAs(p, n.slot), b \in TempsAs(Peer(p), ~n.slot) : n.seal = {a, b},
           Stages(s),
           \/ s.ourTemp \in TempsAs(p, s.isInitiator)
           \/ /\ s.ourTemp = n.temp /\ n.nonce < FIRST_TRAFFIC_PACKET
              /\ n.nonce < KEY <=> s.isInitiator,
           s.herTemp # Zero => s.herTemp \in TempsAs(Peer(p), ~s.isInitiator),
           \A m \in net \cup {n} :
               m.from = p /\ m.nonce >= FIRST_TRAFFIC_PACKET /\ s.ourTemp \in m.seal
                   => m.nonce < s.nextNonce,
           AllMarked(p, s)
    PROVE  Inv'
<1>1. TypeOK /\ NetInv /\ \A q \in Party : RunOnly(q) /\ SessionInv(q, session[q])
  BY Zenon DEF Inv
<1>2. TypeOK'
  BY <1>1, Zenon DEF TypeOK
<1>3. \A q \in Party : Generated(q) \subseteq Generated(q)'
  BY <1>1 DEF TypeOK, Generated
<1>4. /\ \A q \in Party : q # p => /\ HelloTemps(q)' = HelloTemps(q)
                                   /\ KeyTemps(q)' = KeyTemps(q)
      /\ HelloTemps(p)' = HelloTemps(p) \cup (IF n.nonce < KEY THEN {n.temp} ELSE {})
      /\ KeyTemps(p)' = KeyTemps(p) \cup
             (IF n.nonce >= KEY /\ n.nonce < FIRST_TRAFFIC_PACKET THEN {n.temp} ELSE {})
  BY Zenon DEF HelloTemps, KeyTemps
<1>5. \A q \in Party, i \in BOOLEAN : TempsAs(q, i) \subseteq TempsAs(q, i)'
  BY <1>4, Zenon DEF TempsAs
<1>6. \A q \in Party : Peer(q) \in Party
  BY PeerIs, Zenon
<1>7. n.nonce \in Nat /\ n.slot \in BOOLEAN /\ s.isInitiator \in BOOLEAN
  BY Zenon DEF Packet, Session
<1>8. NetInv'
  <2>1. \A q \in Party : (HelloTemps(q) \cap KeyTemps(q) = {})'
    <3>1. \A q \in Party : HelloTemps(q) \cap KeyTemps(q) = {}
      BY <1>1, Zenon DEF NetInv
    <3> QED
      BY <1>4, <1>7, <3>1 DEF KEY, FIRST_TRAFFIC_PACKET
  <2>2. ASSUME NEW m \in net
        PROVE  /\ m.nonce < NonceLimit
               /\ m.nonce < FIRST_TRAFFIC_PACKET => m.temp \in Generated(m.from)'
               /\ m.nonce >= FIRST_TRAFFIC_PACKET =>
                    \E a \in TempsAs(m.from, m.slot)', b \in TempsAs(Peer(m.from), ~m.slot)' :
                       m.seal = {a, b}
    <3>1. m.from \in Party /\ m.slot \in BOOLEAN /\ (~m.slot) \in BOOLEAN
      BY <1>1, Zenon DEF TypeOK, Packet
    <3>2. /\ m.nonce < NonceLimit
          /\ m.nonce < FIRST_TRAFFIC_PACKET => m.temp \in Generated(m.from)
          /\ m.nonce >= FIRST_TRAFFIC_PACKET =>
               \E a \in TempsAs(m.from, m.slot), b \in TempsAs(Peer(m.from), ~m.slot) :
                  m.seal = {a, b}
      BY <1>1, Zenon DEF NetInv
    <3>3. /\ TempsAs(m.from, m.slot) \subseteq TempsAs(m.from, m.slot)'
          /\ TempsAs(Peer(m.from), ~m.slot) \subseteq TempsAs(Peer(m.from), ~m.slot)'
      BY <1>5, <1>6, <3>1, Zenon
    <3> QED
      BY <1>3, <3>1, <3>2, <3>3, Zenon
  <2>3. n.nonce < FIRST_TRAFFIC_PACKET => n.temp \in Generated(p)'
    BY <1>1, Zenon DEF TypeOK, Generated
  <2>4. n.nonce >= FIRST_TRAFFIC_PACKET =>
            \E a \in TempsAs(p, n.slot)', b \in TempsAs(Peer(p), ~n.slot)' : n.seal = {a, b}
    <3>1. /\ TempsAs(p, n.slot) \subseteq TempsAs(p, n.slot)'
          /\ TempsAs(Peer(p), ~n.slot) \subseteq TempsAs(Peer(p), ~n.slot)'
      BY <1>5, <1>6, <1>7, Zenon
    <3> QED
      BY <3>1, Zenon
  <2>5. ASSUME NEW m \in net'
        PROVE  /\ m.nonce < NonceLimit
               /\ m.nonce < FIRST_TRAFFIC_PACKET => m.temp \in Generated(m.from)'
               /\ m.nonce >= FIRST_TRAFFIC_PACKET =>
                    \E a \in TempsAs(m.from, m.slot)', b \in TempsAs(Peer(m.from), ~m.slot)' :
                       m.seal = {a, b}
    <3>1. CASE m \in net
      BY <2>2, <3>1, Zenon
    <3>2. CASE m = n
      BY <2>3, <2>4, <3>2, Zenon
    <3> QED
      BY <3>1, <3>2, Zenon
  <2> QED
    BY <2>1, <2>5, Zenon DEF NetInv
<1>9. ASSUME NEW q \in Party, q # p
      PROVE  RunOnly(q)' /\ SessionInv(q, session[q])'
  <2>1. session'[q] = session[q] /\ delivered'[q] = delivered[q] /\ session[q] \in Session
    BY <1>1, <1>9, Zenon DEF TypeOK
  <2>2. RunOnly(q)'
    BY <1>1, <2>1, Zenon DEF RunOnly
  <2>3. Stages(session[q])'
    BY <1>1, <2>1, Zenon DEF SessionInv, Stages
  <2>4. Temps(q, session[q])'
    <3>1. session[q].isInitiator \in BOOLEAN /\ (~session[q].isInitiator) \in BOOLEAN
      BY <2>1, Zenon DEF Session
    <3>2. Temps(q, session[q])
      BY <1>1, Zenon DEF SessionInv
    <3>3. /\ TempsAs(q, session[q].isInitiator) \subseteq TempsAs(q, session[q].isInitiator)'
          /\ TempsAs(Peer(q), ~session[q].isInitiator)
                 \subseteq TempsAs(Peer(q), ~session[q].isInitiator)'
      BY <1>4, <1>6, <2>1, <3>1, Zenon DEF TempsAs
    <3> QED
      BY <2>1, <3>2, <3>3, Zenon DEF Temps
  <2>5. SentBelow(q, session[q])'
    BY <1>1, <1>9, <2>1, Zenon DEF SessionInv, SentBelow
  <2>6. AllMarked(q, session[q])'
    BY <1>1, <2>1, Zenon DEF SessionInv, AllMarked, Marked
  <2> QED
    BY <2>2, <2>3, <2>4, <2>5, <2>6, Zenon DEF SessionInv
<1>10. RunOnly(p)' /\ SessionInv(p, session[p])'
  <2>1. session'[p] = s /\ delivered'[p] = delivered[p]
    BY <1>1, Zenon DEF TypeOK
  <2>2. RunOnly(p)'
    BY <1>1, <2>1, Zenon DEF RunOnly
  <2>3. Stages(session[p])'
    BY <2>1, Zenon DEF Stages
  <2>4. Temps(p, session[p])'
    <3>1. /\ TempsAs(p, s.isInitiator) \subseteq TempsAs(p, s.isInitiator)'
          /\ TempsAs(Peer(p), ~s.isInitiator) \subseteq TempsAs(Peer(p), ~s.isInitiator)'
      BY <1>5, <1>6, <1>7, Zenon
    <3>2. s.ourTemp \in TempsAs(p, s.isInitiator)'
      <4>1. CASE s.ourTemp \in TempsAs(p, s.isInitiator)
        BY <3>1, <4>1, Zenon
      <4>2. CASE /\ s.ourTemp = n.temp /\ n.nonce < FIRST_TRAFFIC_PACKET
                 /\ n.nonce < KEY <=> s.isInitiator
        <5>1. CASE s.isInitiator
          BY <1>4, <4>2, <5>1, Zenon DEF TempsAs
        <5>2. CASE ~s.isInitiator
          <6>1. n.nonce >= KEY
            BY <1>7, <4>2, <5>2 DEF KEY
          <6> QED
            BY <1>4, <4>2, <5>2, <6>1, Zenon DEF TempsAs
        <5> QED
          BY <5>1, <5>2, Zenon
      <4> QED
        BY <4>1, <4>2, Zenon
    <3> QED
      BY <2>1, <3>1, <3>2, Zenon DEF Temps
  <2>5. SentBelow(p, session[p])'
    BY <2>1, Zenon DEF SentBelow
  <2>6. AllMarked(p, session[p])'
    BY <2>1, Zenon DEF AllMarked, Marked
  <2> QED
    BY <2>2, <2>3, <2>4, <2>5, <2>6, Zenon DEF SessionInv
<1> QED
  BY <1>2, <1>8, <1>9, <1>10, Zenon DEF Inv

(* Hellos and key packets.  The temporary key is new, or was sent before in    *)
(* packets of the same kind.                                                   *)
LEMMA HandshakeInv ==
    ASSUME Inv, NEW p \in Party, NEW s \in Session, SessionInv(p, s), s.nextNonce < NonceLimit,
           encryptHandshake(p, s), UNCHANGED <<password, users, delivered>>
    PROVE  Inv'
<1> DEFINE isHello == s.nextNonce < 2
           temp == OurTemp(p, s)
           hers == IF isHello THEN PermKey(Peer(p)) ELSE s.herTemp
           n == HandshakePacket(p, s, temp, hers)
           t == [s EXCEPT !.ourTemp = temp, !.isInitiator = @ \/ isHello,
                          !.nextNonce = IF isHello THEN SENT_HELLO ELSE SENT_KEY]
           k == IF NeedsKeyPair(s) THEN keys[p] + 1 ELSE keys[p]
<1>1. TypeOK /\ NetInv /\ RunOnly(p) /\ keys[p] \in Nat
  BY Zenon DEF Inv, TypeOK
<1>2. /\ s.nextNonce \in Nat /\ s.nextNonce < 4
      /\ s.nextNonce \in {0, 2} <=> NeedsKeyPair(s)
  BY Zenon DEF encryptHandshake, Session, NeedsKeyPair, INIT, RECEIVED_HELLO, RECEIVED_KEY
<1>3. Stages(s) /\ Temps(p, s) /\ SentBelow(p, s) /\ AllMarked(p, s)
  BY Zenon DEF SessionInv
<1>4. /\ s.nextNonce \in {2, 3} => ~s.isInitiator
      /\ s.nextNonce = 1 => s.isInitiator
      /\ ~s.established
      /\ isHello <=> s.herTemp = Zero
      /\ ~NeedsKeyPair(s) => s.ourTemp # Zero
  BY <1>2, <1>3 DEF Stages, INIT, SENT_HELLO, RECEIVED_HELLO, SENT_KEY, RECEIVED_KEY
<1>5. /\ session' = [session EXCEPT ![p] = t] /\ net' = net \cup {n}
      /\ keys' = [keys EXCEPT ![p] = k]
  BY <1>1, Zenon DEF encryptHandshake, RECEIVED_HELLO, TypeOK
<1>6. k \in Nat /\ k >= keys[p]
  BY <1>1
(* What is new in the key: it was never used, or as what it is used for now. *)
<1>7. /\ temp \in {<<p, i>> : i \in 1 .. k}
      /\ temp \in Key /\ temp # Zero
      /\ isHello => temp \notin KeyTemps(p)
      /\ ~isHello => temp \notin HelloTemps(p)
      /\ \A m \in net : m.nonce >= FIRST_TRAFFIC_PACKET /\ temp \in m.seal
             => m.from # p /\ m \notin delivered[p]
  <2>1. HelloTemps(p) \subseteq Generated(p) /\ KeyTemps(p) \subseteq Generated(p)
    <3>1. TempsAs(p, TRUE) \subseteq Generated(p) /\ TempsAs(p, FALSE) \subseteq Generated(p)
      BY <1>1, TempsGenerated, Zenon
    <3> QED
      BY <3>1, Zenon DEF TempsAs
  <2>2. CASE NeedsKeyPair(s)
    <3>1. temp = <<p, keys[p] + 1>> /\ k = keys[p] + 1
      BY <2>2, Zenon DEF OurTemp
    <3>2. temp \notin Generated(p)
      BY <1>1, <3>1, GeneratedIs, Zenon
    <3>3. \A m \in net : m.nonce >= FIRST_TRAFFIC_PACKET => temp \notin m.seal
      BY <1>1, <3>1, SealsAreOld, Zenon
    <3>4. temp \in Key /\ temp # Zero /\ temp \in {<<p, i>> : i \in 1 .. k}
      BY <1>1, <3>1 DEF Key, Zero
    <3> QED
      BY <2>1, <3>2, <3>3, <3>4, Zenon
  <2>3. CASE ~NeedsKeyPair(s)
    <3>1. temp = s.ourTemp /\ k = keys[p] /\ temp # Zero
      BY <1>4, <2>3, Zenon DEF OurTemp
    <3>2. /\ s.nextNonce = 1 => s.isInitiator
          /\ s.nextNonce = 3 => ~s.isInitiator
          /\ s.nextNonce = 1 \/ s.nextNonce = 3
      BY <1>2, <1>4, <2>3
    <3>3. temp \in TempsAs(p, s.isInitiator)
      BY <1>3, <3>1, Zenon DEF Temps
    <3>4. temp \in Generated(p)
      BY <2>1, <3>3, Zenon DEF TempsAs
    <3>5. HelloTemps(p) \cap KeyTemps(p) = {}
      BY <1>1, Zenon DEF NetInv
    <3>6. (isHello => temp \notin KeyTemps(p)) /\ (~isHello => temp \notin HelloTemps(p))
      BY <3>2, <3>3, <3>5 DEF TempsAs
    <3>7. ASSUME NEW m \in net, m.nonce >= FIRST_TRAFFIC_PACKET, temp \in m.seal
          PROVE  m.from # p /\ m \notin delivered[p]
      <4>1. m.from = p => m.nonce < s.nextNonce
        BY <1>3, <3>1, <3>7, Zenon DEF SentBelow
      <4>2. m.nonce \in Nat
        BY <1>1, Zenon DEF TypeOK, Packet
      <4>3. m \notin delivered[p]
        BY <1>3, <1>4, <3>1, <3>7, Zenon DEF AllMarked
      <4> QED
        BY <1>2, <3>7, <4>1, <4>2, <4>3 DEF FIRST_TRAFFIC_PACKET
    <3>8. temp \in Key /\ temp \in {<<p, i>> : i \in 1 .. k}
      BY <1>1, <3>1, <3>4, GeneratedIs, Zenon DEF Generated
    <3> QED
      BY <3>1, <3>6, <3>7, <3>8, Zenon
  <2> QED
    BY <2>2, <2>3, Zenon
<1> HIDE DEF temp, k
<1>8. n \in Packet /\ n.from = p /\ n.nonce = s.nextNonce /\ n.temp = temp
  <2>1. hers \in Key
    BY PeerIs, Zenon DEF Session, PermKey, Key
  <2>2. getSharedSecret(PermKey(p), hers) \in SUBSET Key
    BY <2>1 DEF getSharedSecret, PermKey, Key
  <2>3. password[p] \in Passwords \cup {NoPassword}
    BY <1>1, Zenon DEF TypeOK
  <2> HIDE DEF hers
  <2> QED
    BY <1>2, <1>7, <2>2, <2>3, Zenon DEF HandshakePacket, Packet
<1> HIDE DEF n
<1>9. /\ t \in Session /\ t.nextNonce = IF isHello THEN 1 ELSE 3
      /\ t.ourTemp = temp /\ t.herTemp = s.herTemp /\ t.established = s.established
      /\ t.isInitiator <=> s.isInitiator \/ isHello
  <2> DEFINE nonce == IF isHello THEN SENT_HELLO ELSE SENT_KEY
             init == s.isInitiator \/ isHello
  <2>1. nonce \in Nat /\ init \in BOOLEAN
    BY Zenon DEF SENT_HELLO, SENT_KEY
  <2>2. t = [s EXCEPT !.ourTemp = temp, !.isInitiator = init, !.nextNonce = nonce]
    BY Zenon
  <2>3. nonce = IF isHello THEN 1 ELSE 3
    BY Zenon DEF SENT_HELLO, SENT_KEY
  <2> HIDE DEF t, nonce, init
  <2>4. /\ t \in Session /\ t.nextNonce = nonce /\ t.ourTemp = temp /\ t.herTemp = s.herTemp
        /\ t.established = s.established /\ t.isInitiator = init
    BY <1>7, <2>1, <2>2, Zenon DEF Session
  <2> QED
    BY <2>3, <2>4, Zenon DEF init
<1> HIDE DEF t
<1>10. t.isInitiator <=> isHello
  BY <1>2, <1>4, <1>9
<1>11. Stages(t)
  BY <1>4, <1>7, <1>9, <1>10
  DEF Stages, INIT, SENT_HELLO, RECEIVED_HELLO, SENT_KEY, RECEIVED_KEY
<1>12. t.herTemp # Zero => t.herTemp \in TempsAs(Peer(p), ~t.isInitiator)
  <2> SUFFICES ASSUME t.herTemp # Zero PROVE t.herTemp \in TempsAs(Peer(p), TRUE)
    BY <1>4, <1>9, <1>10, Zenon DEF TempsAs
  <2>1. ~isHello /\ ~s.isInitiator
    BY <1>2, <1>4, <1>9
  <2> QED
    BY <1>3, <1>9, <2>1, Zenon DEF Temps, TempsAs
<1>13. \A m \in net \cup {n} :
           m.from = p /\ m.nonce >= FIRST_TRAFFIC_PACKET /\ t.ourTemp \in m.seal
               => m.nonce < t.nextNonce
  BY <1>2, <1>7, <1>8, <1>9 DEF FIRST_TRAFFIC_PACKET
<1>14. AllMarked(p, t)
  BY <1>1, <1>7, <1>9, Zenon DEF AllMarked, RunOnly, TypeOK
<1>15. /\ n.nonce < NonceLimit
       /\ n.nonce < FIRST_TRAFFIC_PACKET /\ ~(n.nonce >= FIRST_TRAFFIC_PACKET)
       /\ n.nonce < KEY <=> isHello
       /\ n.nonce >= KEY <=> ~isHello
  BY <1>2, <1>8 DEF FIRST_TRAFFIC_PACKET, KEY
<1>16. /\ n.nonce < FIRST_TRAFFIC_PACKET => n.temp \in {<<p, i>> : i \in 1 .. k}
       /\ n.nonce < KEY => n.temp \notin KeyTemps(p)
       /\ n.nonce >= KEY /\ n.nonce < FIRST_TRAFFIC_PACKET => n.temp \notin HelloTemps(p)
       /\ t.ourTemp = n.temp /\ (n.nonce < KEY <=> t.isInitiator)
  BY <1>7, <1>8, <1>9, <1>10, <1>15, Zenon
<1> QED
  BY <1>5, <1>6, <1>8, <1>9, <1>11, <1>12, <1>13, <1>14, <1>15, <1>16, SendStep, Zenon

(* Run packets, sealed with the session's pair of keys and numbered upwards. *)
LEMMA EncryptRunInv ==
    ASSUME Inv, NEW p \in Party, NEW s \in Session, SessionInv(p, s), s.nextNonce < NonceLimit,
           encryptRun(p, s), UNCHANGED <<password, users, delivered>>
    PROVE  Inv'
<1> DEFINE secret == getSharedSecret(s.ourTemp, s.herTemp)
           t == IF s.nextNonce = RECEIVED_KEY THEN [s EXCEPT !.sharedSecret = secret] ELSE s
           u == [t EXCEPT !.nextNonce = @ + 1]
           n == RunPacket(p, t)
<1>1. TypeOK /\ NetInv /\ keys[p] \in Nat /\ keys = [keys EXCEPT ![p] = keys[p]]
  BY Zenon DEF Inv, TypeOK
<1>2. s.nextNonce \in Nat /\ s.nextNonce >= 4
  BY Zenon DEF encryptRun, Session, RECEIVED_KEY
<1>3. Stages(s) /\ Temps(p, s) /\ SentBelow(p, s) /\ AllMarked(p, s)
  BY Zenon DEF SessionInv
<1>4. session' = [session EXCEPT ![p] = u] /\ net' = net \cup {n} /\ UNCHANGED keys
  BY Zenon DEF encryptRun
<1>5. secret \in SUBSET Key /\ secret = {s.ourTemp, s.herTemp}
  BY Zenon DEF Session, getSharedSecret
<1> HIDE DEF secret
<1>6. /\ t \in Session /\ t.nextNonce = s.nextNonce /\ t.isInitiator = s.isInitiator
      /\ t.ourTemp = s.ourTemp /\ t.herTemp = s.herTemp /\ t.established = s.established
      /\ t.bits = s.bits /\ t.base = s.base /\ t.sharedSecret = secret
  <2>1. CASE s.nextNonce = RECEIVED_KEY
    BY <1>5, <2>1, Zenon DEF Session
  <2>2. CASE s.nextNonce # RECEIVED_KEY
    BY <1>2, <1>3, <2>2 DEF Stages, RECEIVED_KEY, secret
  <2> QED
    BY <2>1, <2>2, Zenon
<1> HIDE DEF t
<1>7. /\ u \in Session /\ u.nextNonce = s.nextNonce + 1 /\ u.isInitiator = s.isInitiator
      /\ u.ourTemp = s.ourTemp /\ u.herTemp = s.herTemp /\ u.established = s.established
      /\ u.bits = s.bits /\ u.base = s.base /\ u.sharedSecret = secret
  <2> DEFINE next == t.nextNonce + 1
  <2>1. next \in Nat /\ u = [t EXCEPT !.nextNonce = next]
    BY <1>6 DEF Session
  <2> HIDE DEF u, next
  <2>2. /\ u \in Session /\ u.nextNonce = next /\ u.isInitiator = t.isInitiator
        /\ u.ourTemp = t.ourTemp /\ u.herTemp = t.herTemp /\ u.established = t.established
        /\ u.bits = t.bits /\ u.base = t.base /\ u.sharedSecret = t.sharedSecret
    BY <1>6, <2>1, Zenon DEF Session
  <2> QED
    BY <1>6, <2>2, Zenon DEF next
<1> HIDE DEF u
<1>8. /\ n \in Packet /\ n.from = p /\ n.nonce = s.nextNonce
      /\ n.seal = secret /\ n.slot = s.isInitiator
  <2>1. /\ t.nextNonce \in Nat /\ t.sharedSecret \in SUBSET Key
        /\ t.isInitiator \in BOOLEAN /\ Zero \in Key
    BY <1>6, Zenon DEF Session, Key
  <2>2. n = [from |-> p, nonce |-> t.nextNonce, auth |-> NoPassword, temp |-> Zero,
             seal |-> t.sharedSecret, slot |-> t.isInitiator]
    BY Zenon DEF RunPacket
  <2> HIDE DEF n
  <2>3. /\ n \in Packet /\ n.from = p /\ n.nonce = t.nextNonce
        /\ n.seal = t.sharedSecret /\ n.slot = t.isInitiator
    BY <2>1, <2>2, Zenon DEF Packet
  <2> QED
    BY <1>6, <2>3, Zenon
<1> HIDE DEF n
<1>9. s.ourTemp # Zero /\ s.herTemp # Zero
  BY <1>2, <1>3 DEF Stages, INIT, RECEIVED_HELLO
<1>10. /\ s.ourTemp \in TempsAs(p, s.isInitiator)
       /\ s.herTemp \in TempsAs(Peer(p), ~s.isInitiator)
  BY <1>3, <1>9, Zenon DEF Temps
<1>11. \E a \in TempsAs(p, n.slot), b \in TempsAs(Peer(p), ~n.slot) : n.seal = {a, b}
  <2>1. /\ TempsAs(p, n.slot) = TempsAs(p, s.isInitiator)
        /\ TempsAs(Peer(p), ~n.slot) = TempsAs(Peer(p), ~s.isInitiator)
        /\ n.seal = {s.ourTemp, s.herTemp}
    BY <1>5, <1>8, Zenon
  <2> QED
    BY <1>10, <2>1, Zenon
<1>12. Stages(u)
  BY <1>2, <1>3, <1>7, <1>9
  DEF Stages, secret, INIT, SENT_HELLO, RECEIVED_HELLO, SENT_KEY, RECEIVED_KEY
<1>13. \A m \in net \cup {n} :
           m.from = p /\ m.nonce >= FIRST_TRAFFIC_PACKET /\ u.ourTemp \in m.seal
               => m.nonce < u.nextNonce
  <2>1. \A m \in net : m.nonce \in Nat
    BY <1>1, Zenon DEF TypeOK, Packet
  <2> QED
    BY <1>2, <1>3, <1>7, <1>8, <2>1 DEF SentBelow
<1>14. AllMarked(p, u)
  BY <1>3, <1>7, Zenon DEF AllMarked, Marked
<1>15. /\ n.nonce < NonceLimit
       /\ ~(n.nonce < FIRST_TRAFFIC_PACKET) /\ ~(n.nonce < KEY)
  BY <1>2, <1>8 DEF FIRST_TRAFFIC_PACKET, KEY
<1>16. keys[p] >= keys[p] /\ keys' = [keys EXCEPT ![p] = keys[p]]
  BY <1>1, <1>4
<1>17. /\ u.ourTemp \in TempsAs(p, u.isInitiator)
       /\ u.herTemp # Zero => u.herTemp \in TempsAs(Peer(p), ~u.isInitiator)
  BY <1>7, <1>10, Zenon
<1> QED
  BY <1>1, <1>4, <1>7, <1>8, <1>11, <1>12, <1>13, <1>14, <1>15, <1>16, <1>17, SendStep, Zenon

-----------------------------------------------------------------------------
(* The theorems. *)

(* CryptoAuth_newSession: two new sessions satisfy the invariant. *)
LEMMA InitInv ==
    ASSUME Init
    PROVE  Inv
<1>1. NewSession \in Session /\ Blank(NewSession)
  BY Zenon DEF Session, Blank, NewSession, Key, INIT
<1>2. TypeOK
  BY <1>1, Zenon DEF Init, TypeOK
<1>3. NetInv
  BY Zenon DEF Init, NetInv, HelloTemps
<1>4. ASSUME NEW p \in Party
      PROVE  RunOnly(p) /\ SessionInv(p, session[p])
  <2>1. RunOnly(p) /\ session[p] = NewSession
    BY Zenon DEF Init, RunOnly
  <2> QED
    BY <1>1, <1>2, <1>3, <2>1, BlankInv, Zenon
<1> QED
  BY <1>2, <1>3, <1>4, Zenon DEF Inv

(* Every step of CryptoAuth keeps the invariant: sending, taking a packet,     *)
(* resetting, timing out, setting a password and adding or removing a user.    *)
LEMMA NextInv ==
    ASSUME Inv, [Next]_vars
    PROVE  Inv'
<1>1. TypeOK /\ \A p \in Party : session[p] \in Session
  BY Zenon DEF Inv, TypeOK
<1>2. ASSUME UNCHANGED <<session, keys, net, delivered>>,
             password' \in [Party -> Passwords \cup {NoPassword}],
             users' \in [Party -> SUBSET Passwords]
      PROVE  Inv'
  <2>1. PICK p \in Party : TRUE
    BY CryptoAssumption, Zenon
  <2>2. session' = [session EXCEPT ![p] = session[p]]
    BY <1>1, <1>2, Zenon DEF TypeOK
  <2>3. session[p] = [session[p] EXCEPT !.idle = session[p].idle]
    BY <1>1, Zenon DEF Session
  <2>4. UNCHANGED <<keys, net, delivered>>
    BY <1>2, Zenon
  <2> QED
    BY <1>1, <1>2, <2>2, <2>3, <2>4, KeptOrBlank, Zenon
<1>3. ASSUME NEW p \in Party, CryptoAuth_encrypt(p)
      PROVE  Inv'
  <2> DEFINE s == Refreshed(session[p])
  <2>1. s \in Session /\ SessionInv(p, s) /\ s.nextNonce < NonceLimit
    BY RefreshedInv, Zenon
  <2>2. UNCHANGED <<password, users, delivered>>
    BY <1>3, Zenon DEF CryptoAuth_encrypt
  <2>3. encryptHandshake(p, s) \/ encryptRun(p, s)
    BY <1>3, Zenon DEF CryptoAuth_encrypt
  <2> HIDE DEF s
  <2> QED
    BY <2>1, <2>2, <2>3, HandshakeInv, EncryptRunInv, Zenon
<1>4. ASSUME NEW p \in Party, NEW m \in net, CryptoAuth_decrypt(p, m), UNCHANGED net
      PROVE  Inv'
  <2>1. m.from # p /\ UNCHANGED <<keys, password, users, net>>
    BY <1>4, Zenon DEF CryptoAuth_decrypt
  <2>2. CASE decryptHandshake(p, m)
    <3>1. UNCHANGED <<keys, password, users, net, delivered>>
      BY <2>1, <2>2, Zenon DEF decryptHandshake
    <3> QED
      BY <2>1, <2>2, <3>1, NewHelloInv, RepeatHelloInv, NewKeyInv, Zenon DEF decryptHandshake
  <2>3. CASE IsFinalStep(p, m) /\ FinalStep(p, m)
    BY <2>1, <2>3, FinalStepInv, Zenon
  <2>4. CASE IsRun(p, m) /\ Run(p, m)
    BY <2>1, <2>4, RunInv, Zenon
  <2> QED
    BY <1>4, <2>2, <2>3, <2>4, Zenon DEF CryptoAuth_decrypt
<1>5. ASSUME NEW p \in Party,
             CryptoAuth_reset(p) \/ CryptoAuth_newSession(p) \/ CryptoAuth_resetIfTimeout(p)
      PROVE  Inv'
  <2>1. PICK t \in {reset(session[p]), NewSession, session[p]} :
            session' = [session EXCEPT ![p] = t]
    BY <1>5, Zenon DEF CryptoAuth_reset, CryptoAuth_newSession, CryptoAuth_resetIfTimeout,
                resetIfTimeout
  <2>2. /\ UNCHANGED <<keys, net, delivered>>
        /\ password' \in [Party -> Passwords \cup {NoPassword}]
        /\ users' \in [Party -> SUBSET Passwords]
    BY <1>1, <1>5, Zenon
    DEF CryptoAuth_reset, CryptoAuth_newSession, CryptoAuth_resetIfTimeout, TypeOK
  <2>3. t \in Session /\ (Blank(t) \/ t = [session[p] EXCEPT !.idle = t.idle])
    <3>1. session[p] = [session[p] EXCEPT !.idle = session[p].idle]
      BY <1>1, Zenon DEF Session
    <3> QED
      BY <1>1, <2>1, <3>1, ResetIsBlank, Zenon
  <2> QED
    BY <2>1, <2>2, <2>3, KeptOrBlank, Zenon
<1>6. ASSUME NEW p \in Party, NEW pw \in Passwords \cup {NoPassword}, CryptoAuth_setAuth(p, pw)
      PROVE  Inv'
  <2>1. session' = [session EXCEPT ![p] = reset(session[p])]
    BY <1>6, Zenon DEF CryptoAuth_setAuth
  <2>2. /\ UNCHANGED <<keys, net, delivered>>
        /\ password' \in [Party -> Passwords \cup {NoPassword}]
        /\ users' \in [Party -> SUBSET Passwords]
    BY <1>1, <1>6, Zenon DEF CryptoAuth_setAuth, TypeOK
  <2>3. reset(session[p]) \in Session /\ Blank(reset(session[p]))
    BY <1>1, ResetIsBlank, Zenon
  <2> QED
    BY <2>1, <2>2, <2>3, KeptOrBlank, Zenon
<1>7. ASSUME NEW p \in Party, NEW pw \in Passwords,
             CryptoAuth_addUser(p, pw) \/ CryptoAuth_removeUsers(p, pw)
      PROVE  Inv'
  BY <1>1, <1>2, <1>7 DEF CryptoAuth_addUser, CryptoAuth_removeUsers, TypeOK
<1>8. ASSUME NEW p \in Party, Tick(p)
      PROVE  Inv'
  <2> DEFINE later == session[p].idle + 1
             t == [session[p] EXCEPT !.idle = later]
  <2>1. session' = [session EXCEPT ![p] = t]
    BY <1>8, Zenon DEF Tick
  <2>2. /\ UNCHANGED <<keys, net, delivered>>
        /\ password' \in [Party -> Passwords \cup {NoPassword}]
        /\ users' \in [Party -> SUBSET Passwords]
    BY <1>1, <1>8, Zenon DEF Tick, TypeOK
  <2>3. later \in Nat
    BY <1>1 DEF Session
  <2> HIDE DEF later
  <2>4. t \in Session /\ t = [session[p] EXCEPT !.idle = t.idle]
    BY <1>1, <2>3, Zenon DEF Session
  <2> HIDE DEF t
  <2> QED
    BY <2>1, <2>2, <2>4, KeptOrBlank, Zenon
<1>9. CASE UNCHANGED vars
  BY <1>1, <1>2, <1>9, Zenon DEF vars, TypeOK
<1> QED
  BY <1>3, <1>4, <1>5, <1>6, <1>7, <1>8, <1>9, Zenon DEF Next

(* The invariant of two CryptoAuth sessions: a temporary key serves in one     *)
(* role, run packets are sealed with keys of opposite roles, the nonces under  *)
(* the current key are below the next one, and what was accepted under it is   *)
(* marked in the replay protector.                                             *)
THEOREM Invariance == Spec => []Inv
<1>1. Init => Inv
  BY InitInv, Zenon
<1>2. Inv /\ [Next]_vars => Inv'
  BY NextInv, Zenon
<1> QED
  BY <1>1, <1>2, PTL DEF Spec

(* KeysKnown: the assertions of CryptoAuth.c on temporary keys and on the      *)
(* shared secret hold after any sequence of packets, resets and timeouts.      *)
THEOREM AssertionsHold == Spec => []KeysKnown
<1>1. Inv => KeysKnown
  <2>1. Inv => \A p \in Party : Stages(session[p])
    BY Zenon DEF Inv, SessionInv
  <2>2. ASSUME NEW s, Stages(s)
        PROVE  s.nextNonce >= SENT_KEY => s.ourTemp # Zero
    BY <2>2 DEF Stages, INIT, RECEIVED_HELLO, SENT_KEY
  <2> QED
    BY <2>1, <2>2, Zenon DEF KeysKnown, Stages
<1> QED
  BY <1>1, Invariance, PTL

(* The roles of two ends that share a pair of temporary keys, from whose       *)
(* hellos and key packets the keys are.                                        *)
LEMMA RolesFromTemps ==
    ASSUME Inv, NEW p \in Party, session[p].nextNonce >= SENT_KEY
    PROVE  LET s == session[p]
           IN  /\ s.ourTemp \in TempsAs(p, s.isInitiator)
               /\ s.herTemp \in TempsAs(Peer(p), ~s.isInitiator)
<1>1. session[p].nextNonce \in Nat
  BY Zenon DEF Inv, TypeOK, Session
<1>2. Stages(session[p]) /\ Temps(p, session[p])
  BY Zenon DEF Inv, SessionInv
<1> QED
  BY <1>1, <1>2 DEF Stages, Temps, INIT, RECEIVED_HELLO, SENT_KEY

(* OppositeRoles: ends that share a pair of temporary keys agree on who        *)
(* initiated, through crossed, repeated and late handshakes.                   *)
THEOREM RolesDiffer == Spec => []OppositeRoles
<1>1. ASSUME Inv, NEW p \in Party,
             session[p].nextNonce >= SENT_KEY, session[Peer(p)].nextNonce >= SENT_KEY,
             session[p].ourTemp = session[Peer(p)].herTemp
      PROVE  session[p].isInitiator # session[Peer(p)].isInitiator
  <2> DEFINE q == Peer(p)
             k == session[p].ourTemp
  <2>1. q \in Party /\ Peer(q) = p
    BY PeerIs, Zenon
  <2>2. k \in TempsAs(p, session[p].isInitiator)
    BY <1>1, RolesFromTemps, Zenon
  <2>3. k \in TempsAs(p, ~session[q].isInitiator)
    BY <1>1, <2>1, RolesFromTemps, Zenon
  <2>4. HelloTemps(p) \cap KeyTemps(p) = {}
    BY <1>1, Zenon DEF Inv, NetInv
  <2>5. session[p].isInitiator \in BOOLEAN /\ session[q].isInitiator \in BOOLEAN
    BY <1>1, <2>1, Zenon DEF Inv, TypeOK, Session
  <2> QED
    BY <2>2, <2>3, <2>4, <2>5, Zenon DEF TempsAs
<1>2. Inv => OppositeRoles
  BY <1>1, Zenon DEF OppositeRoles
<1> QED
  BY <1>2, Invariance, PTL

(* NonceNeverReused: no nonce is used twice with a secret by either end, and   *)
(* none reaches the limit, for any number of keys, handshakes and packets.     *)
THEOREM NoncesFresh == Spec => []NonceNeverReused
<1>1. ASSUME Inv, NEW p \in Party, NEW m \in net,
             session[p].nextNonce >= RECEIVED_KEY, m.nonce = session[p].nextNonce,
             m.seal = SecretOf(session[p])
      PROVE  m.slot # session[p].isInitiator
  <2> DEFINE s == session[p]
  <2>1. TypeOK /\ NetInv /\ Stages(s) /\ SentBelow(p, s)
    BY <1>1, Zenon DEF Inv, SessionInv
  <2>2. /\ s.nextNonce \in Nat /\ m.nonce \in Nat /\ m.from \in Party
        /\ s.isInitiator \in BOOLEAN /\ m.slot \in BOOLEAN
    BY <2>1, Zenon DEF TypeOK, Session, Packet
  <2>3. m.seal = {s.ourTemp, s.herTemp}
    BY <1>1, <2>1, Zenon DEF SecretOf, Stages, getSharedSecret
  <2>4. m.nonce >= FIRST_TRAFFIC_PACKET
    BY <1>1, <2>2, Zenon DEF FIRST_TRAFFIC_PACKET, RECEIVED_KEY
  <2>5. m.from = Peer(p)
    <3>1. m.from # p
      BY <1>1, <2>1, <2>2, <2>3, <2>4 DEF SentBelow
    <3> QED
      BY <2>2, <3>1, PeerIs, Zenon
  <2>6. PICK a \in TempsAs(Peer(p), m.slot), b \in TempsAs(Peer(Peer(p)), ~m.slot) :
            m.seal = {a, b}
    BY <2>1, <2>4, <2>5, Zenon DEF NetInv
  <2>7. Peer(p) \in Party /\ Peer(p) # p /\ Peer(Peer(p)) = p
    BY PeerIs, Zenon
  <2>8. s.nextNonce >= SENT_KEY
    BY <1>1, <2>2 DEF SENT_KEY, RECEIVED_KEY
  <2>9. s.ourTemp \in Generated(p) /\ s.herTemp \in TempsAs(Peer(p), ~s.isInitiator)
    BY <1>1, <2>1, <2>2, <2>8, RolesFromTemps, TempsGenerated, Zenon
  <2>10. a \in Generated(Peer(p)) /\ a # s.ourTemp
    <3>1. a \in Generated(Peer(p))
      BY <2>1, <2>2, <2>6, <2>7, TempsGenerated, Zenon
    <3>2. Generated(p) \cap Generated(Peer(p)) = {}
      BY <2>1, <2>7, GeneratedIs, Zenon
    <3> QED
      BY <2>9, <3>1, <3>2, Zenon
  <2>11. a = s.herTemp
    BY <2>3, <2>6, <2>10, Zenon
  <2>12. HelloTemps(Peer(p)) \cap KeyTemps(Peer(p)) = {}
    BY <2>1, <2>7, Zenon DEF NetInv
  <2> QED
    BY <2>2, <2>6, <2>9, <2>11, <2>12, Zenon DEF TempsAs
<1>2. Inv => \A m \in net : m.nonce < NonceLimit
  BY Zenon DEF Inv, NetInv
<1>3. Inv => NonceNeverReused
  BY <1>1, <1>2, Zenon DEF NonceNeverReused
<1> QED
  BY <1>3, Invariance, PTL

(* DeliveredOnce: a run packet that was accepted is never accepted again,      *)
(* across resets and new sessions, for any width of the replay window.         *)
THEOREM NoReplay == Spec => []DeliveredOnce
<1>1. ASSUME Inv, NEW p \in Party, NEW m \in delivered[p]
      PROVE  ~Accepts(p, m)
  <2> SUFFICES ASSUME Accepts(p, m)
               PROVE  FALSE
    BY Zenon
  <2> DEFINE s == session[p]
  <2>1. TypeOK /\ Stages(s) /\ AllMarked(p, s)
    BY <1>1, Zenon DEF Inv, SessionInv
  <2>2. s \in Session /\ m.nonce \in Nat
    BY <2>1 DEF TypeOK, Packet
  <2>3. m.seal = SecretOf(s) /\ NonceIsNew(s, m.nonce)
    BY Zenon DEF Accepts, Opens
  <2>4. s.ourTemp \in m.seal
    BY <2>1, <2>3, Zenon DEF SecretOf, Stages, getSharedSecret
  <2>5. Marked(s, m.nonce)
    BY <2>1, <2>4, Zenon DEF AllMarked
  <2> QED
    BY <2>2, <2>3, <2>5, FiledMarks, Zenon
<1>2. Inv => DeliveredOnce
  BY <1>1, Zenon DEF DeliveredOnce
<1> QED
  BY <1>2, Invariance, PTL

(* Where the peer's temporary key of a session may come from in a step. *)
LEMMA HerTempFrom ==
    ASSUME TypeOK, [Next]_vars, NEW p \in Party
    PROVE  /\ net \subseteq net'
           /\ \/ session'[p].herTemp \in {Zero, session[p].herTemp}
              \/ \E m \in net : m.from # p /\ Authorized(p, m) /\ session'[p].herTemp = m.temp
<1>1. session \in [Party -> Session]
  BY Zenon DEF TypeOK
<1>2. ASSUME NEW q \in Party, NEW t, session' = [session EXCEPT ![q] = t],
             \/ t.herTemp \in {Zero, session[q].herTemp}
             \/ \E m \in net : m.from # q /\ Authorized(q, m) /\ t.herTemp = m.temp
      PROVE  \/ session'[p].herTemp \in {Zero, session[p].herTemp}
             \/ \E m \in net : m.from # p /\ Authorized(p, m) /\ session'[p].herTemp = m.temp
  BY <1>1, <1>2, Zenon
<1>3. \A q \in Party : /\ reset(session[q]).herTemp = Zero /\ NewSession.herTemp = Zero
                       /\ resetIfTimeout(session[q]).herTemp \in {Zero, session[q].herTemp}
  BY Zenon DEF reset, NewSession, resetIfTimeout
<1>4. ASSUME NEW q \in Party, CryptoAuth_encrypt(q)
      PROVE  /\ net \subseteq net'
             /\ \E t : /\ session' = [session EXCEPT ![q] = t]
                       /\ t.herTemp \in {Zero, session[q].herTemp}
  <2> DEFINE s == Refreshed(session[q])
  <2>1. s.herTemp \in {Zero, session[q].herTemp} /\ s \in Session
    <3> DEFINE t == resetIfTimeout(session[q])
    <3>1. t \in Session /\ t.herTemp \in {Zero, session[q].herTemp}
      BY <1>1, <1>3, ResetIsBlank, Zenon DEF resetIfTimeout
    <3>2. reset(t) \in Session /\ reset(t).herTemp = Zero
      BY <3>1, ResetIsBlank, Zenon DEF Blank
    <3> QED
      BY <3>1, <3>2, Zenon DEF Refreshed
  <2> HIDE DEF s
  <2>2. encryptHandshake(q, s) \/ encryptRun(q, s)
    BY <1>4, Zenon DEF CryptoAuth_encrypt, s
  <2>3. CASE encryptHandshake(q, s)
    <3> DEFINE temp == OurTemp(q, s)
               isHello == s.nextNonce < RECEIVED_HELLO
               t == [s EXCEPT !.ourTemp = temp, !.isInitiator = @ \/ isHello,
                              !.nextNonce = IF isHello THEN SENT_HELLO ELSE SENT_KEY]
    <3>1. session' = [session EXCEPT ![q] = t] /\ net \subseteq net'
      BY <2>3, Zenon DEF encryptHandshake
    <3>2. t.herTemp = s.herTemp
      BY <2>1, Zenon DEF Session
    <3> QED
      BY <2>1, <3>1, <3>2, Zenon
  <2>4. CASE encryptRun(q, s)
    <3> DEFINE t == IF s.nextNonce = RECEIVED_KEY
                    THEN [s EXCEPT !.sharedSecret = getSharedSecret(s.ourTemp, s.herTemp)]
                    ELSE s
               u == [t EXCEPT !.nextNonce = @ + 1]
    <3>1. session' = [session EXCEPT ![q] = u] /\ net \subseteq net'
      BY <2>4, Zenon DEF encryptRun
    <3>2. u.herTemp = s.herTemp
      BY <2>1, Zenon DEF Session
    <3> QED
      BY <2>1, <3>1, <3>2, Zenon
  <2> QED
    BY <2>2, <2>3, <2>4, Zenon
<1>5. ASSUME NEW q \in Party, NEW m \in net, CryptoAuth_decrypt(q, m)
      PROVE  \E t : /\ session' = [session EXCEPT ![q] = t]
                    /\ \/ t.herTemp = session[q].herTemp
                       \/ m.from # q /\ Authorized(q, m) /\ t.herTemp = m.temp
  <2> DEFINE o == session[q]
  <2>1. m.from # q /\ o \in Session /\ Cleared(o) \in Session
    BY <1>1, <1>5, Zenon DEF CryptoAuth_decrypt, Cleared, Session
  <2>2. CASE decryptHandshake(q, m)
    <3>1. Authorized(q, m) /\ (NewHello(q, m) \/ RepeatHello(q, m) \/ NewKey(q, m))
      BY <2>2, Zenon DEF decryptHandshake
    <3>2. CASE NewHello(q, m)
      <4> DEFINE t == [reset(o) EXCEPT !.herTemp = m.temp, !.nextNonce = RECEIVED_HELLO]
      <4>1. session' = [session EXCEPT ![q] = t]
        BY <3>2, Zenon DEF NewHello
      <4>2. t.herTemp = m.temp
        BY <2>1, ResetIsBlank, Zenon DEF Session
      <4> QED
        BY <2>1, <3>1, <4>1, <4>2, Zenon
    <3>3. CASE RepeatHello(q, m)
      <4>1. session' = [session EXCEPT ![q] = Cleared(o)]
        BY <3>3, Zenon DEF RepeatHello
      <4>2. Cleared(o).herTemp = o.herTemp
        BY <2>1, Zenon DEF Cleared, Session
      <4> QED
        BY <4>1, <4>2, Zenon
    <3>4. CASE NewKey(q, m)
      <4> DEFINE sending == o.nextNonce > RECEIVED_KEY
                 secret == getSharedSecret(o.ourTemp, m.temp)
                 t == [Cleared(o) EXCEPT
                         !.herTemp = m.temp,
                         !.sharedSecret = IF sending /\ m.nonce = KEY THEN secret ELSE @,
                         !.nextNonce = IF sending THEN @ + 1 ELSE RECEIVED_KEY]
      <4>1. session' = [session EXCEPT ![q] = t]
        BY <3>4, Zenon DEF NewKey
      <4>2. t.herTemp = m.temp
        BY <2>1, Zenon DEF Session
      <4> QED
        BY <2>1, <3>1, <4>1, <4>2, Zenon
    <3> QED
      BY <3>1, <3>2, <3>3, <3>4, Zenon
  <2>3. CASE FinalStep(q, m)
    <3> DEFINE secret == getSharedSecret(o.ourTemp, o.herTemp)
               ok == Opens(o, m, secret) /\ NonceIsNew(o, m.nonce)
               t == [o EXCEPT !.base = m.nonce + 1, !.bits = {}]
               u == [t EXCEPT !.sharedSecret = secret, !.established = TRUE,
                              !.nextNonce = @ + 3, !.idle = 0]
               s == IF ok THEN u ELSE t
    <3>1. session' = [session EXCEPT ![q] = s]
      BY <2>3, Zenon DEF FinalStep
    <3>2. t.herTemp = o.herTemp /\ u.herTemp = o.herTemp
      BY <2>1, Zenon DEF Session
    <3> HIDE DEF t, u, ok
    <3> QED
      BY <3>1, <3>2, Zenon
  <2>4. CASE Run(q, m)
    <3> DEFINE f == Filed(o, m.nonce)
               s == [f EXCEPT !.idle = IF NonceIsNew(o, m.nonce) THEN 0 ELSE @]
    <3>1. session' = [session EXCEPT ![q] = s]
      BY <2>4, Zenon DEF Run
    <3>2. m.nonce \in Nat
      BY Zenon DEF TypeOK, Packet
    <3>3. f \in Session /\ f = [o EXCEPT !.base = f.base, !.bits = f.bits]
      BY <2>1, <3>2, FiledMarks, Zenon
    <3> HIDE DEF f
    <3>4. s.herTemp = f.herTemp /\ f.herTemp = o.herTemp
      BY <2>1, <3>3, Zenon DEF Session
    <3> QED
      BY <3>1, <3>4, Zenon
  <2> QED
    BY <1>5, <2>2, <2>3, <2>4, Zenon DEF CryptoAuth_decrypt
<1>6. ASSUME NEW q \in Party,
             \/ CryptoAuth_reset(q) \/ CryptoAuth_newSession(q) \/ CryptoAuth_resetIfTimeout(q)
             \/ \E pw \in Passwords \cup {NoPassword} : CryptoAuth_setAuth(q, pw)
      PROVE  /\ UNCHANGED net
             /\ \E t : /\ session' = [session EXCEPT ![q] = t]
                       /\ t.herTemp \in {Zero, session[q].herTemp}
  BY <1>3, <1>6, Zenon
  DEF CryptoAuth_reset, CryptoAuth_newSession, CryptoAuth_resetIfTimeout, CryptoAuth_setAuth
<1>7. ASSUME NEW q \in Party, Tick(q)
      PROVE  /\ UNCHANGED net
             /\ \E t : /\ session' = [session EXCEPT ![q] = t]
                       /\ t.herTemp \in {Zero, session[q].herTemp}
  <2> DEFINE t == [session[q] EXCEPT !.idle = @ + 1]
  <2>1. session' = [session EXCEPT ![q] = t] /\ UNCHANGED net
    BY <1>7, Zenon DEF Tick
  <2>2. t.herTemp = session[q].herTemp
    BY <1>1, Zenon DEF Session
  <2> QED
    BY <2>1, <2>2, Zenon
<1>8. CASE \/ UNCHANGED vars
           \/ \E q \in Party, pw \in Passwords :
                 CryptoAuth_addUser(q, pw) \/ CryptoAuth_removeUsers(q, pw)
  BY <1>8, Zenon DEF vars, CryptoAuth_addUser, CryptoAuth_removeUsers
<1>9. CASE \E q \in Party :
              \/ CryptoAuth_encrypt(q)
              \/ \E m \in net : CryptoAuth_decrypt(q, m) /\ UNCHANGED net
  <2>1. PICK q \in Party : \/ CryptoAuth_encrypt(q)
                           \/ \E m \in net : CryptoAuth_decrypt(q, m) /\ UNCHANGED net
    BY <1>9, Zenon
  <2>2. CASE CryptoAuth_encrypt(q)
    BY <1>2, <1>4, <2>2, Zenon
  <2>3. CASE \E m \in net : CryptoAuth_decrypt(q, m) /\ UNCHANGED net
    <3>1. PICK m \in net : CryptoAuth_decrypt(q, m) /\ UNCHANGED net
      BY <2>3, Zenon
    <3>2. PICK t : /\ session' = [session EXCEPT ![q] = t]
                   /\ \/ t.herTemp = session[q].herTemp
                      \/ m.from # q /\ Authorized(q, m) /\ t.herTemp = m.temp
      BY <1>5, <3>1, Zenon
    <3> QED
      BY <1>2, <3>1, <3>2, Zenon
  <2> QED
    BY <2>1, <2>2, <2>3, Zenon
<1>10. CASE \E q \in Party :
              \/ CryptoAuth_reset(q) \/ CryptoAuth_newSession(q) \/ CryptoAuth_resetIfTimeout(q)
              \/ \E pw \in Passwords \cup {NoPassword} : CryptoAuth_setAuth(q, pw)
              \/ Tick(q)
  BY <1>2, <1>6, <1>7, <1>10, Zenon
<1> QED
  BY <1>8, <1>9, <1>10, Zenon DEF Next

WithdrawnType == withdrawn \in [Party -> [Passwords -> Key]]

(* What a step does to the users: a password that is gone after it was removed *)
(* from a session that the step leaves alone.                                  *)
LEMMA UsersStep ==
    ASSUME TypeOK, WithdrawnType, [Next]_vars, NEW p \in Party
    PROVE  /\ WithdrawnType'
           /\ \A pw \in users[p] :
                 pw \in users'[p] \/ (/\ session'[p].herTemp = session[p].herTemp
                                    /\ withdrawn'[p][pw] = session[p].herTemp)
           /\ \A pw \in Passwords \ users[p] :
                 pw \in users'[p] \/ withdrawn'[p][pw] = withdrawn[p][pw]
<1>1. /\ users \in [Party -> SUBSET Passwords] /\ session \in [Party -> Session]
      /\ withdrawn \in [Party -> [Passwords -> Key]]
  BY Zenon DEF TypeOK, WithdrawnType
<1>2. ASSUME UNCHANGED <<users, withdrawn>>
      PROVE  /\ WithdrawnType' /\ users'[p] = users[p]
             /\ \A pw : withdrawn'[p][pw] = withdrawn[p][pw]
  BY <1>1, <1>2, Zenon DEF WithdrawnType
<1>3. ASSUME NEW q \in Party, NEW pw \in Passwords, CryptoAuth_addUser(q, pw)
      PROVE  /\ WithdrawnType' /\ users[p] \subseteq users'[p]
             /\ \A x : withdrawn'[p][x] = withdrawn[p][x]
  BY <1>1, <1>3, Zenon DEF CryptoAuth_addUser, WithdrawnType
<1>4. ASSUME NEW q \in Party, NEW pw \in Passwords, CryptoAuth_removeUsers(q, pw)
      PROVE  /\ WithdrawnType'
             /\ session'[p].herTemp = session[p].herTemp
             /\ users[p] \ {pw} \subseteq users'[p]
             /\ p # q => users'[p] = users[p]
             /\ p = q => pw \in users[p] /\ withdrawn'[p][pw] = session[p].herTemp
             /\ \A x \in Passwords : p # q \/ x # pw => withdrawn'[p][x] = withdrawn[p][x]
  <2> DEFINE k == session[q].herTemp
             f == [withdrawn[q] EXCEPT ![pw] = k]
  <2>1. /\ withdrawn' = [withdrawn EXCEPT ![q] = f]
        /\ users' = [users EXCEPT ![q] = users[q] \ {pw}]
        /\ pw \in users[q] /\ session' = session
    BY <1>4, Zenon DEF CryptoAuth_removeUsers
  <2>2. k \in Key /\ withdrawn[q] \in [Passwords -> Key]
    BY <1>1, Zenon DEF Session
  <2>3. /\ f \in [Passwords -> Key] /\ f[pw] = k
        /\ \A x \in Passwords : x # pw => f[x] = withdrawn[q][x]
    <3> HIDE DEF k
    <3> QED
      BY <2>2, Zenon
  <2> HIDE DEF f
  <2>4. withdrawn'[q] = f /\ (p # q => withdrawn'[p] = withdrawn[p])
    BY <1>1, <2>1, Zenon
  <2>5. WithdrawnType'
    BY <1>1, <2>1, <2>3, Zenon DEF WithdrawnType
  <2>6. users'[q] = users[q] \ {pw} /\ (p # q => users'[p] = users[p])
    BY <1>1, <2>1, Zenon
  <2>7. CASE p = q
    BY <2>1, <2>3, <2>4, <2>5, <2>6, <2>7, Zenon
  <2>8. CASE p # q
    BY <2>1, <2>4, <2>5, <2>6, <2>8, Zenon
  <2> QED
    BY <2>7, <2>8, Zenon
<1>5. \/ UNCHANGED <<users, withdrawn>>
      \/ \E q \in Party, pw \in Passwords : CryptoAuth_addUser(q, pw)
      \/ \E q \in Party, pw \in Passwords : CryptoAuth_removeUsers(q, pw)
  BY Zenon DEF Next, vars, CryptoAuth_encrypt, CryptoAuth_decrypt, CryptoAuth_resetIfTimeout,
               CryptoAuth_reset, CryptoAuth_newSession, CryptoAuth_setAuth, Tick
<1>6. CASE UNCHANGED <<users, withdrawn>>
  BY <1>2, <1>6, Zenon
<1>7. CASE \E q \in Party, pw \in Passwords : CryptoAuth_addUser(q, pw)
  BY <1>3, <1>7, Zenon
<1>8. ASSUME NEW q \in Party, NEW pw \in Passwords, CryptoAuth_removeUsers(q, pw),
             NEW x \in Passwords
      PROVE  /\ x \in users[p] =>
                   x \in users'[p] \/ (/\ session'[p].herTemp = session[p].herTemp
                                     /\ withdrawn'[p][x] = session[p].herTemp)
             /\ x \notin users[p] => withdrawn'[p][x] = withdrawn[p][x]
  <2>1. CASE x = pw /\ p = q
    BY <1>4, <1>8, <2>1, Zenon
  <2>2. CASE x # pw \/ p # q
    BY <1>4, <1>8, <2>2, Zenon
  <2> QED
    BY <2>1, <2>2, Zenon
<1>9. CASE \E q \in Party, pw \in Passwords : CryptoAuth_removeUsers(q, pw)
  <2>1. PICK q \in Party, pw \in Passwords : CryptoAuth_removeUsers(q, pw)
    BY <1>9, Zenon
  <2>2. users[p] \subseteq Passwords
    BY <1>1, Zenon
  <2> QED
    BY <1>4, <1>8, <2>1, <2>2, Zenon
<1> QED
  BY <1>5, <1>6, <1>7, <1>9, Zenon

(* AuthDemanded: an end that requires authentication holds no temporary key    *)
(* but one that came with the password of a user, of now or of when the key    *)
(* was taken up, however users, passwords and sessions change meanwhile.       *)
THEOREM PasswordsDemanded == Spec => []AuthDemanded
<1>1. Init => AuthDemanded /\ WithdrawnType
  <2>1. ASSUME Init, NEW p \in RequireAuth
        PROVE  session[p].herTemp = Zero
    <3>1. p \in Party
      BY CryptoAssumption, Zenon
    <3>2. session[p] = NewSession
      BY <2>1, <3>1, Zenon DEF Init
    <3> QED
      BY <3>2 DEF NewSession
  <2>2. Init => WithdrawnType
    <3> DEFINE none == [pw \in Passwords |-> Zero]
    <3>1. Zero \in Key
      BY Zenon DEF Key
    <3>2. none \in [Passwords -> Key]
      BY <3>1, Zenon
    <3>3. Init => withdrawn = [p \in Party |-> none]
      BY Zenon DEF Init
    <3> HIDE DEF none
    <3> QED
      BY <3>2, <3>3, Zenon DEF WithdrawnType
  <2> QED
    BY <2>1, <2>2, Zenon DEF AuthDemanded
<1>2. ASSUME TypeOK, WithdrawnType, AuthDemanded, [Next]_vars, NEW p \in RequireAuth,
             session'[p].herTemp # Zero
      PROVE  \E m \in net' :
                 /\ m.from # p /\ m.temp = session'[p].herTemp /\ m.auth \in Passwords
                 /\ m.auth \in users'[p] \/ session'[p].herTemp = withdrawn'[p][m.auth]
  <2>1. p \in Party /\ NoPassword \notin Passwords
    BY CryptoAssumption, Zenon
  <2>2. net \subseteq net'
    BY <1>2, <2>1, HerTempFrom, Zenon
  <2>3. /\ \A pw \in users[p] :
              pw \in users'[p] \/ (/\ session'[p].herTemp = session[p].herTemp
                                 /\ withdrawn'[p][pw] = session[p].herTemp)
        /\ \A pw \in Passwords \ users[p] :
              pw \in users'[p] \/ withdrawn'[p][pw] = withdrawn[p][pw]
    BY <1>2, <2>1, UsersStep, Zenon
  <2>4. CASE session'[p].herTemp = session[p].herTemp
    <3>1. PICK m \in net :
              /\ m.from # p /\ m.temp = session[p].herTemp /\ m.auth \in Passwords
              /\ m.auth \in users[p] \/ session[p].herTemp = withdrawn[p][m.auth]
      BY <1>2, <2>4, Zenon DEF AuthDemanded
    <3>2. m.auth \in users'[p] \/ session'[p].herTemp = withdrawn'[p][m.auth]
      BY <2>3, <2>4, <3>1, Zenon
    <3> QED
      BY <2>2, <2>4, <3>1, <3>2, Zenon
  <2>5. CASE \E m \in net : m.from # p /\ Authorized(p, m) /\ session'[p].herTemp = m.temp
    <3>1. PICK m \in net : m.from # p /\ Authorized(p, m) /\ session'[p].herTemp = m.temp
      BY <2>5, Zenon
    <3>2. m.auth \in users[p] /\ users[p] \subseteq Passwords
      BY <1>2, <2>1, <3>1, Zenon DEF Authorized, TypeOK
    <3>3. m.auth \in users'[p] \/ session'[p].herTemp = withdrawn'[p][m.auth]
      BY <2>3, <3>2, Zenon
    <3> QED
      BY <2>2, <3>1, <3>2, <3>3, Zenon
  <2> QED
    BY <1>2, <2>1, <2>4, <2>5, HerTempFrom, Zenon
<1>3. TypeOK /\ WithdrawnType /\ AuthDemanded /\ [Next]_vars => AuthDemanded' /\ WithdrawnType'
  <2>1. ASSUME TypeOK, WithdrawnType, AuthDemanded, [Next]_vars
        PROVE  AuthDemanded'
    BY <1>2, <2>1, Zenon DEF AuthDemanded
  <2>2. ASSUME TypeOK, WithdrawnType, [Next]_vars
        PROVE  WithdrawnType'
    <3>1. PICK p \in Party : TRUE
      BY CryptoAssumption, Zenon
    <3> QED
      BY <2>2, UsersStep, Zenon
  <2> QED
    BY <2>1, <2>2, Zenon
<1>4. Inv => TypeOK
  BY Zenon DEF Inv
<1> QED
  BY <1>1, <1>3, <1>4, Invariance, PTL DEF Spec

=============================================================================
