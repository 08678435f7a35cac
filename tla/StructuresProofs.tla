-------------------------- MODULE StructuresProofs --------------------------
(***************************************************************************)
(* Proofs about sequential structures of crypto, util and tunnel.          *)
(*                                                                         *)
(* The replay window, for every width, every keep and every range of       *)
(* nonces that WindowAssumption and NonceAssumption allow, the ones of the *)
(* code (Half = 32, Keep = 47, IntLimit = 2^31, MaxNonce = 2^32 - 1)       *)
(* included.  The argument: Good(w, nonce) says what the invariant says of *)
(* the window, weakened by the nonce that is being checked; each iteration *)
(* of the loop preserves it, three iterations bring the nonce into the     *)
(* window, and setting its bit restores the invariant.  A jump that is not *)
(* an int leaves too few nonces ahead for a second one, so the count of    *)
(* the lost packets errs once at most.                                     *)
(*                                                                         *)
(* util/Map.h, for any keys, values and number of entries, as long as its  *)
(* handles have not run through all of their HandleMod values.  The        *)
(* argument: the array stays in the order of its handles, and the binary   *)
(* search finds every handle of an array in order.                         *)
(*                                                                         *)
(* The tunnels of IpTunnel.c, for any nodes, addresses and number of       *)
(* connections.  The argument: the loop that makes room in the list only   *)
(* moves connections, and an answer, whatever its number, changes only     *)
(* connections with its own node.                                          *)
(***************************************************************************)
EXTENDS ReplayProtector, Map, IpTunnel, FiniteSetTheorems, SequenceTheorems, WellFoundedInduction, TLAPS

(***************************************************************************)
(* The replay window.                                                      *)
(***************************************************************************)

IsWindow(w) == w \in [bits : SUBSET Bits, base : Nat, lost : Nat]

(* The nonces in a .. b - 1 that were not accepted. *)
Unseen(a, b) == {n \in a .. b - 1 : timesAccepted[n] = 0}

(* The window w agrees with the history, up to the nonce being checked. *)
Good(w, nonce) ==
    /\ IsWindow(w)
    /\ w.base \in firstBase .. nonce /\ baseOffset <= w.base
    /\ \A n \in Accepted : n >= w.base => n - w.base \in w.bits
    /\ \A b \in w.bits : w.base + b \in Accepted
    /\ \A n \in firstBase .. w.base - 1 :
           n \in Accepted \/ nonce - n > Keep \/ \E m \in Accepted : m - n > Keep
    /\ w.lost <= w.base - firstBase
    /\ \/ w.lost = Cardinality(Unseen(firstBase, w.base))
       \/ /\ leapt \/ Leap(nonce)
          /\ w.lost - Cardinality(Unseen(firstBase, w.base)) \in -Width .. Width
          /\ MaxNonce - w.base - Keep < IntLimit

-----------------------------------------------------------------------------
(* A number below the modulus is itself, and so it is again when it was        *)
(* brought below zero by the modulus.                                          *)
LEMMA Wraps ==
    ASSUME NEW x \in 0 .. UintMod - 1
    PROVE  x % UintMod = x /\ (x - UintMod) % UintMod = x
<1>1. UintMod \in Nat /\ UintMod > 0 /\ x \in Nat
  BY WindowAssumption DEF UintMod
<1> QED
  BY <1>1

(* There are as many bits in a bitfield as its width, at most. *)
LEMMA OnesBounded ==
    ASSUME NEW bits \in SUBSET Bits
    PROVE  IsFiniteSet(bits) /\ Cardinality(bits) \in 0 .. Width
<1>1. Width \in Nat /\ Width > 0
  BY WindowAssumption DEF Width
<1>2. IsFiniteSet(Bits) /\ Cardinality(Bits) = Width
  <2>1. IsFiniteSet(0 .. Width - 1) /\ Cardinality(0 .. Width - 1)
                                         = IF 0 > Width - 1 THEN 0 ELSE (Width - 1) - 0 + 1
    BY <1>1, FS_Interval
  <2> QED
    BY <1>1, <2>1 DEF Bits
<1>3. IsFiniteSet(bits) /\ Cardinality(bits) <= Cardinality(Bits)
  BY <1>2, FS_Subset, Zenon
<1>4. Cardinality(bits) \in Nat
  BY <1>3, FS_CardinalityType, Zenon
<1> QED
  BY <1>1, <1>2, <1>3, <1>4

(* For an amount that is an int, the branches and the shift of lostInShift     *)
(* come to the number of zeros that a shift by this amount pushes out.         *)
LEMMA LostIsZeros ==
    ASSUME NEW bits \in SUBSET Bits, NEW n \in Nat, NEW stray
    PROVE  lostInShift(bits, n, stray) = Cardinality((0 .. n - 1) \ bits)
<1> USE WindowAssumption
<1>1. Width \in Nat /\ Bits = 0 .. Width - 1
  BY DEF Width, Bits
<1>2. IsFiniteSet(0 .. n - 1) /\ Cardinality(0 .. n - 1) = n
  <2>1. IsFiniteSet(0 .. n - 1) /\ Cardinality(0 .. n - 1) = IF 0 > n - 1 THEN 0 ELSE (n - 1) - 0 + 1
    BY FS_Interval
  <2> QED
    BY <2>1
<1> DEFINE out == (0 .. n - 1) \cap bits
<1>3. IsFiniteSet(out) /\ Cardinality((0 .. n - 1) \ bits) = n - Cardinality(out)
  <2>1. /\ IsFiniteSet((0 .. n - 1) \cap bits)
        /\ Cardinality((0 .. n - 1) \ bits)
             = Cardinality(0 .. n - 1) - Cardinality((0 .. n - 1) \cap bits)
    BY <1>2, FS_Difference, FS_Subset, Zenon
  <2> QED
    BY <1>2, <2>1, Zenon
<1>4. CASE n = 0
  <2>1. (0 .. n - 1) \ bits = {}
    BY <1>4
  <2> QED
    BY <1>4, <2>1, FS_EmptySet, Zenon DEF lostInShift
<1>5. CASE n > Width - 1
  <2>1. out = bits
    <3>1. \A i \in Bits : i \in 0 .. n - 1
      BY <1>1, <1>5
    <3> QED
      BY <3>1, Zenon
  <2>2. n # 0
    BY <1>1, <1>5 DEF Width
  <2> QED
    BY <1>3, <1>5, <2>1, <2>2, Zenon DEF lostInShift
<1>6. CASE n # 0 /\ ~(n > Width - 1)
  <2> DEFINE k == Width - n
             high == {b \in Bits : b - k \in bits}
             f == [b \in out |-> b + k]
  <2>1. k \in 0 .. Width - 1 /\ n \in 1 .. Width - 1
    BY <1>1, <1>6
  <2>2. ShiftedLeft(bits, Width - n, stray) = high
    BY <2>1, Zenon DEF ShiftedLeft
  <2>3. ASSUME NEW b \in out PROVE b + k \in high
    <3>1. b \in bits /\ b \in 0 .. n - 1
      BY <2>3, Zenon
    <3>2. b + k \in Bits /\ (b + k) - k = b
      BY <1>1, <2>1, <3>1
    <3> QED
      BY <3>1, <3>2, Zenon
  <2>4. ASSUME NEW c \in high PROVE c - k \in out /\ (c - k) + k = c
    <3>1. c \in Bits /\ c - k \in bits
      BY <2>4, Zenon
    <3>2. c - k \in Bits
      BY <3>1, Zenon
    <3>3. (c - k) + k = c /\ c - k \in 0 .. n - 1
      BY <1>1, <2>1, <3>1, <3>2
    <3> QED
      BY <3>1, <3>3, Zenon
  <2>5. f \in Bijection(out, high)
    <3>1. f \in [out -> high]
      BY <2>3, Zenon
    <3>2. \A b \in out : b \in Int
      BY <2>1
    <3>3. \A a, b \in out : f[a] = f[b] => a = b
      BY <2>1, <3>2
    <3>4. \A c \in high : \E b \in out : f[b] = c
      BY <2>4, Zenon
    <3> QED
      BY <3>1, <3>3, <3>4, Zenon DEF Bijection, Injection, Surjection, IsInjective
  <2>6. Cardinality(high) = Cardinality(out)
    <3>1. ExistsBijection(out, high)
      BY <2>5, Zenon DEF ExistsBijection
    <3> QED
      BY <1>3, <3>1, FS_Bijection, Zenon
  <2> QED
    BY <1>3, <1>6, <2>2, <2>6, Zenon DEF lostInShift
<1> QED
  BY <1>4, <1>5, <1>6, Zenon

(* The bits that a lossy shift drops as zeros are the unseen nonces it passes. *)
LEMMA LostIsUnseen ==
    ASSUME NEW bits \in SUBSET Bits, NEW base \in Nat, NEW n \in Nat,
           base + n <= MaxNonce + 1,
           timesAccepted \in [Nonce -> Nat],
           \A m \in Accepted : m >= base => m - base \in bits,
           \A b \in bits : base + b \in Accepted
    PROVE  /\ IsFiniteSet(Unseen(base, base + n))
           /\ Cardinality((0 .. n - 1) \ bits) = Cardinality(Unseen(base, base + n))
<1> DEFINE S == (0 .. n - 1) \ bits
           T == Unseen(base, base + n)
           f == [b \in S |-> base + b]
<1>1. IsFiniteSet(S)
  <2>1. IsFiniteSet(0 .. n - 1)
    BY FS_Interval
  <2> QED
    BY <2>1, FS_Subset, Zenon
<1>2. \A b \in S : base + b \in T
  <2> SUFFICES ASSUME NEW b \in S PROVE base + b \in T
    BY Zenon
  <2>1. base + b \in base .. base + n - 1 /\ base + b \in Nonce
    BY NonceAssumption DEF Nonce
  <2>2. base + b \notin Accepted
    <3>1. b \in Nat /\ (base + b) - base = b /\ base + b >= base
      BY DEF Bits
    <3> QED
      BY <3>1, Zenon
  <2> QED
    BY <2>1, <2>2 DEF Unseen, Accepted
<1>3. \A t \in T : t - base \in S /\ base + (t - base) = t
  <2> SUFFICES ASSUME NEW t \in T PROVE t - base \in S /\ base + (t - base) = t
    BY Zenon
  <2>1. t \in base .. base + n - 1 /\ timesAccepted[t] = 0
    BY DEF Unseen
  <2>2. t \notin Accepted
    BY <2>1 DEF Accepted
  <2>3. base + (t - base) = t /\ t - base \in 0 .. n - 1
    BY <2>1
  <2>4. t - base \notin bits
    BY <2>2, <2>3, Zenon
  <2> QED
    BY <2>3, <2>4, Zenon
<1>4. f \in Bijection(S, T)
  <2>1. f \in [S -> T]
    BY <1>2, Zenon
  <2>2. \A a, b \in S : f[a] = f[b] => a = b
    OBVIOUS
  <2>3. \A t \in T : \E b \in S : f[b] = t
    BY <1>3, Zenon
  <2> QED
    BY <2>1, <2>2, <2>3, Zenon DEF Bijection, Injection, Surjection, IsInjective
<1>5. ExistsBijection(S, T)
  BY <1>4, Zenon DEF ExistsBijection
<1> QED
  BY <1>1, <1>5, FS_Bijection, Zenon

(* There are finitely many unseen nonces between two nonces, at most as many   *)
(* as there are nonces.                                                        *)
LEMMA UnseenBounded ==
    ASSUME NEW a \in Nat, NEW b \in Nat, a <= b
    PROVE  /\ IsFiniteSet(Unseen(a, b))
           /\ Cardinality(Unseen(a, b)) \in 0 .. b - a
<1>1. IsFiniteSet(a .. b - 1) /\ Cardinality(a .. b - 1) = b - a
  <2>1. a \in Int /\ b - 1 \in Int
    OBVIOUS
  <2>2. /\ IsFiniteSet(a .. b - 1)
        /\ Cardinality(a .. b - 1) = IF a > b - 1 THEN 0 ELSE (b - 1) - a + 1
    BY <2>1, FS_Interval, Zenon
  <2> QED
    BY <2>2
<1>2. Unseen(a, b) \in SUBSET (a .. b - 1)
  BY Zenon DEF Unseen
<1>3. IsFiniteSet(Unseen(a, b)) /\ Cardinality(Unseen(a, b)) <= Cardinality(a .. b - 1)
  BY <1>1, <1>2, FS_Subset, Zenon
<1>4. Cardinality(Unseen(a, b)) \in Nat
  BY <1>3, FS_CardinalityType, Zenon
<1> QED
  BY <1>1, <1>3, <1>4

(* Passing from base b to base c, the unseen nonces below the base grow by     *)
(* those in between.                                                           *)
LEMMA UnseenSplits ==
    ASSUME NEW a \in Nat, NEW b \in Nat, NEW c \in Nat, a <= b, b <= c
    PROVE  Cardinality(Unseen(a, c)) = Cardinality(Unseen(a, b)) + Cardinality(Unseen(b, c))
<1>1. /\ IsFiniteSet(Unseen(a, b)) /\ Cardinality(Unseen(a, b)) \in Nat
      /\ IsFiniteSet(Unseen(b, c)) /\ Cardinality(Unseen(b, c)) \in Nat
  <2>1. IsFiniteSet(Unseen(a, b)) /\ Cardinality(Unseen(a, b)) \in 0 .. b - a
    BY UnseenBounded, Zenon
  <2>2. IsFiniteSet(Unseen(b, c)) /\ Cardinality(Unseen(b, c)) \in 0 .. c - b
    BY UnseenBounded, Zenon
  <2>3. \A i \in Int : 0 .. i \subseteq Nat
    OBVIOUS
  <2> QED
    BY <2>1, <2>2, <2>3
<1>2. Unseen(a, c) = Unseen(a, b) \cup Unseen(b, c)
  BY DEF Unseen
<1>3. Unseen(a, b) \cap Unseen(b, c) = {}
  BY DEF Unseen
<1>4. Cardinality(Unseen(a, c))
        = Cardinality(Unseen(a, b)) + Cardinality(Unseen(b, c)) - Cardinality({})
  BY <1>1, <1>2, <1>3, FS_Union
<1> QED
  BY <1>1, <1>4, FS_EmptySet

-----------------------------------------------------------------------------
(* What a lossy shift makes of lostPackets: exact if the jump is an int; if it *)
(* is not, the ones that the undefined shift leaves are taken off in place of  *)
(* those in the bitfield, which happens once at most.                          *)
LEMMA LossyCounts ==
    ASSUME NEW w, NEW nonce \in Nonce, NEW stray \in SUBSET Bits,
           firstBase \in Nonce, baseOffset \in Nat,
           timesAccepted \in [Nonce -> Nat], Good(w, nonce),
           nonce - w.base - Keep \in Nat
    PROVE  LET lost == Lost(w, nonce - w.base - Keep, stray)
               base == nonce - Keep
           IN  /\ lost \in Nat /\ lost <= base - firstBase
               /\ \/ lost = Cardinality(Unseen(firstBase, base))
                  \/ /\ leapt \/ Leap(nonce)
                     /\ lost - Cardinality(Unseen(firstBase, base)) \in -Width .. Width
                     /\ MaxNonce - base - Keep < IntLimit
<1> USE WindowAssumption, NonceAssumption
<1> DEFINE far == nonce - w.base - Keep
           base == nonce - Keep
           lost == Lost(w, far, stray)
           C(b) == Cardinality(Unseen(firstBase, b))
           d == Cardinality(Unseen(w.base, base))
<1>0. /\ w.bits \in SUBSET Bits /\ w.base \in Nat /\ w.lost \in Nat
      /\ nonce \in Nat /\ nonce <= MaxNonce /\ firstBase \in Nat
      /\ firstBase <= w.base /\ baseOffset <= w.base /\ w.lost <= w.base - firstBase
      /\ far \in Nat /\ base = w.base + far /\ base \in Nat /\ base < MaxNonce
      /\ MaxNonce < UintMod /\ MaxNonce \in Nat /\ UintMod = 2 * IntLimit
      /\ Width \in Nat /\ Width < IntLimit /\ IntLimit \in Nat /\ Keep \in Nat
  <2>1. w.bits \in SUBSET Bits /\ w.base \in Nat /\ w.lost \in Nat
    BY DEF Good, IsWindow
  <2>2. nonce \in Nat /\ nonce <= MaxNonce /\ firstBase \in Nat
    BY DEF Nonce
  <2>3. firstBase <= w.base /\ baseOffset <= w.base /\ w.lost <= w.base - firstBase
    BY <2>1, <2>2 DEF Good
  <2> QED
    BY <2>1, <2>2, <2>3 DEF Width, UintMod
<1>1. d = Cardinality((0 .. far - 1) \ w.bits)
  <2>1. w.base + far <= MaxNonce + 1
    BY <1>0
  <2>2. Cardinality((0 .. far - 1) \ w.bits) = Cardinality(Unseen(w.base, w.base + far))
    <3> HIDE DEF far
    <3> QED
      BY <1>0, <2>1, LostIsUnseen, Zenon DEF Good
  <2> QED
    BY <1>0, <2>2, Zenon
<1>2. /\ C(w.base) \in 0 .. w.base - firstBase
      /\ C(base) \in 0 .. base - firstBase
      /\ d \in 0 .. base - w.base
      /\ C(base) = C(w.base) + d
  <2>1. firstBase <= base /\ w.base <= base
    BY <1>0
  <2> HIDE DEF base
  <2>2. C(w.base) \in 0 .. w.base - firstBase
    BY <1>0, UnseenBounded, Zenon
  <2>3. C(base) \in 0 .. base - firstBase /\ d \in 0 .. base - w.base
    BY <1>0, <2>1, UnseenBounded, Zenon
  <2>4. C(base) = C(w.base) + d
    <3>1. /\ firstBase \in Nat /\ w.base \in Nat /\ base \in Nat
          /\ firstBase <= w.base /\ w.base <= base
      BY <1>0, <2>1, Zenon
    <3> QED
      BY <3>1, UnseenSplits
  <2> QED
    BY <2>2, <2>3, <2>4, Zenon
<1> HIDE DEF C, d
<1>3. \/ w.lost = C(w.base)
      \/ /\ leapt \/ Leap(nonce)
         /\ w.lost - C(w.base) \in -Width .. Width
         /\ MaxNonce - w.base - Keep < IntLimit
  BY Zenon DEF Good, C
<1>4. CASE far < IntLimit
  <2>1. lost = (w.lost + d) % UintMod
    <3>1. AsInt(far) = far
      BY <1>4, Zenon DEF AsInt
    <3>2. lostInShift(w.bits, far, stray) = d
      <4> HIDE DEF far
      <4> QED
        BY <1>0, <1>1, LostIsZeros, Zenon
    <3> QED
      BY <3>1, <3>2, Zenon DEF Lost
  <2>2. w.lost + d \in 0 .. UintMod - 1 /\ w.lost + d <= base - firstBase
    BY <1>0, <1>2
  <2>3. lost = w.lost + d
    BY <2>1, <2>2, Wraps, Zenon
  <2> HIDE DEF lost, far, base
  <2>4. lost \in Nat /\ lost <= base - firstBase
    BY <2>2, <2>3
  <2>5. CASE w.lost = C(w.base)
    <3>1. lost = C(base)
      BY <1>2, <2>3, <2>5, Zenon
    <3> QED
      BY <2>4, <3>1, Zenon DEF lost, far, base, C
  <2>6. CASE /\ leapt \/ Leap(nonce)
             /\ w.lost - C(w.base) \in -Width .. Width
             /\ MaxNonce - w.base - Keep < IntLimit
    <3>1. lost - C(base) = w.lost - C(w.base)
      BY <1>0, <1>2, <2>3
    <3>2. MaxNonce - base - Keep < IntLimit
      BY <1>0, <2>6
    <3> QED
      BY <2>4, <2>6, <3>1, <3>2, Zenon DEF lost, far, base, C
  <2> QED
    BY <1>3, <2>5, <2>6, Zenon
<1>5. CASE far >= IntLimit
  <2> DEFINE c == Cardinality(stray)
             o == Cardinality(w.bits)
  <2>1. c \in 0 .. Width /\ o \in 0 .. Width
    BY <1>0, OnesBounded, Zenon
  <2> HIDE DEF c, o
  <2>2. AsInt(far) = far - UintMod
    BY <1>0, <1>5 DEF AsInt
  <2>3. lostInShift(w.bits, far - UintMod, stray) = far - UintMod - c
    <3>1. far - UintMod # 0 /\ ~(far - UintMod > Width - 1)
      BY <1>0
    <3>2. Width - (far - UintMod) \notin 0 .. Width - 1
      BY <1>0
    <3> QED
      BY <3>1, <3>2, Zenon DEF lostInShift, ShiftedLeft, c
  <2>4. lost = (w.lost + (far - UintMod - c)) % UintMod
    BY <2>2, <2>3, Zenon DEF Lost
  <2>5. /\ w.lost + far - c \in 0 .. UintMod - 1
        /\ w.lost + (far - UintMod - c) = (w.lost + far - c) - UintMod
    BY <1>0, <1>5, <2>1
  <2>6. lost = w.lost + far - c
    BY <2>4, <2>5, Wraps, Zenon
  <2>7. d = far - o
    <3>1. lostInShift(w.bits, far, stray) = d
      <4> HIDE DEF far
      <4> QED
        BY <1>0, <1>1, LostIsZeros, Zenon
    <3>2. far # 0 /\ far > Width - 1
      BY <1>0, <1>5
    <3> QED
      BY <3>1, <3>2, Zenon DEF lostInShift, o
  <2>8. ~(MaxNonce - w.base - Keep < IntLimit)
    BY <1>0, <1>5
  <2>9. w.lost = C(w.base)
    BY <1>3, <2>8, Zenon
  <2>10. Leap(nonce)
    BY <1>0, <1>5 DEF Leap
  <2>11. MaxNonce - base - Keep < IntLimit
    BY <1>0, <1>5
  <2>12. lost - C(base) \in -Width .. Width /\ lost \in Nat /\ lost <= base - firstBase
    <3> HIDE DEF lost
    <3> QED
      BY <1>0, <1>2, <1>5, <2>1, <2>6, <2>7, <2>9
  <2> QED
    BY <2>10, <2>11, <2>12, Zenon DEF C
<1>6. far < IntLimit \/ far >= IntLimit
  BY <1>0
<1> QED
  BY <1>4, <1>5, <1>6, Zenon

(* One iteration of the loop of checkNonce keeps the window in agreement with  *)
(* the history: the shift by a half passes accepted nonces only, the lossy one *)
(* passes nonces more than Keep behind the nonce being checked.                *)
LEMMA ShiftKeepsGood ==
    ASSUME NEW w, NEW nonce \in Nonce, NEW stray \in SUBSET Bits,
           firstBase \in Nonce, baseOffset \in Nat,
           timesAccepted \in [Nonce -> Nat], Good(w, nonce)
    PROVE  Good(Shift(w, nonce, stray), nonce)
<1> USE WindowAssumption, NonceAssumption
<1> DEFINE offset == nonce - w.base
           far == offset - Keep
<1>0. /\ w.bits \in SUBSET Bits /\ w.base \in Nat /\ w.lost \in Nat
      /\ offset \in Nat /\ nonce \in Nat /\ firstBase \in Nat
      /\ Accepted \subseteq Nat
  BY DEF Good, IsWindow, Nonce, Accepted
<1>1. CASE offset < Width
  BY <1>1, Zenon DEF Shift
<1>2. CASE offset >= Width /\ LowHalf \subseteq w.bits
  <2> DEFINE v == Window(ShiftRight(w.bits, Half), w.base + Half, w.lost)
  <2>1. Shift(w, nonce, stray) = v
    BY <1>0, <1>2 DEF Shift, Width
  <2>2. /\ v.bits = ShiftRight(w.bits, Half) /\ v.base = w.base + Half
        /\ v.lost = w.lost
    BY Zenon DEF Window
  <2>3. IsWindow(v)
    BY <1>0 DEF IsWindow, Window, ShiftRight
  <2>4. v.base \in firstBase .. nonce /\ baseOffset <= v.base
    BY <1>0, <1>2, <2>2 DEF Good, Width
  <2>5. \A n \in Accepted : n >= v.base => n - v.base \in v.bits
    <3> SUFFICES ASSUME NEW n \in Accepted, n >= v.base PROVE n - v.base \in v.bits
      BY Zenon
    <3>1. n - w.base \in w.bits /\ n \in Nat
      BY <1>0, <2>2 DEF Good
    <3>2. n - v.base \in Bits /\ (n - v.base) + Half = n - w.base
      BY <1>0, <2>2, <3>1 DEF Bits, Width
    <3> QED
      BY <2>2, <3>1, <3>2, Zenon DEF ShiftRight
  <2>6. \A b \in v.bits : v.base + b \in Accepted
    <3> SUFFICES ASSUME NEW b \in v.bits PROVE v.base + b \in Accepted
      BY Zenon
    <3>1. b \in Nat /\ b + Half \in w.bits
      BY <2>2 DEF ShiftRight, Bits
    <3>2. v.base + b = w.base + (b + Half)
      BY <1>0, <2>2, <3>1
    <3> QED
      BY <3>1, <3>2, Zenon DEF Good
  <2>7. \A n \in w.base .. v.base - 1 : n \in Accepted
    <3> SUFFICES ASSUME NEW n \in w.base .. v.base - 1 PROVE n \in Accepted
      BY Zenon
    <3>1. n - w.base \in LowHalf /\ w.base + (n - w.base) = n
      BY <1>0, <2>2 DEF LowHalf
    <3> QED
      BY <1>2, <3>1, Zenon DEF Good
  <2>8. \A n \in firstBase .. v.base - 1 :
           n \in Accepted \/ nonce - n > Keep \/ \E m \in Accepted : m - n > Keep
    <3> SUFFICES ASSUME NEW n \in firstBase .. v.base - 1, n \notin w.base .. v.base - 1
                 PROVE  n \in Accepted \/ nonce - n > Keep \/ \E m \in Accepted : m - n > Keep
      BY <2>7, Zenon
    <3>1. n \in firstBase .. w.base - 1
      BY <1>0, <2>2
    <3> QED
      BY <3>1, Zenon DEF Good
  <2>9. Unseen(firstBase, v.base) = Unseen(firstBase, w.base)
    <3>1. \A n \in w.base .. v.base - 1 : timesAccepted[n] # 0
      BY <2>7 DEF Accepted
    <3>2. \A n : n \in firstBase .. v.base - 1 <=>
                     n \in firstBase .. w.base - 1 \/ n \in w.base .. v.base - 1
      BY <1>0, <2>2, <2>4 DEF Good
    <3> QED
      BY <3>1, <3>2, Zenon DEF Unseen
  <2>10. v.lost <= v.base - firstBase
    BY <1>0, <2>2 DEF Good
  <2>11. \/ v.lost = Cardinality(Unseen(firstBase, v.base))
         \/ /\ leapt \/ Leap(nonce)
            /\ v.lost - Cardinality(Unseen(firstBase, v.base)) \in -Width .. Width
            /\ MaxNonce - v.base - Keep < IntLimit
    <3>1. MaxNonce - w.base - Keep < IntLimit => MaxNonce - v.base - Keep < IntLimit
      BY <1>0, <2>2 DEF UintMod
    <3> QED
      BY <2>2, <2>9, <3>1, Zenon DEF Good
  <2> HIDE DEF v
  <2> QED
    BY <2>1, <2>3, <2>4, <2>5, <2>6, <2>8, <2>10, <2>11, Zenon DEF Good
<1>3. CASE offset >= Width /\ ~(LowHalf \subseteq w.bits)
  <2> DEFINE v == Window(ShiftRight(w.bits, far), w.base + far, Lost(w, far, stray))
  <2>0. far \in Nat
    BY <1>0, <1>3 DEF Width
  <2>1. Shift(w, nonce, stray) = v
    BY <1>0, <1>3 DEF Shift, Width
  <2>2. /\ v.bits = ShiftRight(w.bits, far) /\ v.base = w.base + far
        /\ v.lost = Lost(w, far, stray)
        /\ v.base = nonce - Keep
        /\ v = [bits |-> v.bits, base |-> v.base, lost |-> v.lost]
    BY <1>0 DEF Window
  <2>3. v.base \in firstBase .. nonce /\ baseOffset <= v.base
    <3> HIDE DEF v
    <3> QED
      BY <1>0, <1>3, <2>0, <2>2 DEF Good, Width
  <2>4. /\ v.lost \in Nat /\ v.lost <= v.base - firstBase
        /\ \/ v.lost = Cardinality(Unseen(firstBase, v.base))
           \/ /\ leapt \/ Leap(nonce)
              /\ v.lost - Cardinality(Unseen(firstBase, v.base)) \in -Width .. Width
              /\ MaxNonce - v.base - Keep < IntLimit
    <3> HIDE DEF v
    <3> QED
      BY <2>0, <2>2, LossyCounts, Zenon
  <2> HIDE DEF v
  <2>5. IsWindow(v)
    BY <1>0, <2>0, <2>2, <2>4 DEF IsWindow, ShiftRight
  <2>6. \A n \in Accepted : n >= v.base => n - v.base \in v.bits
    <3> SUFFICES ASSUME NEW n \in Accepted, n >= v.base PROVE n - v.base \in v.bits
      BY Zenon
    <3>1. n - w.base \in w.bits /\ n \in Nat
      BY <1>0, <2>0, <2>2 DEF Good
    <3>2. n - v.base \in Bits /\ (n - v.base) + far = n - w.base
      BY <1>0, <2>0, <2>2, <3>1 DEF Bits, Width
    <3> QED
      BY <2>2, <3>1, <3>2, Zenon DEF ShiftRight
  <2>7. \A b \in v.bits : v.base + b \in Accepted
    <3> SUFFICES ASSUME NEW b \in v.bits PROVE v.base + b \in Accepted
      BY Zenon
    <3>1. b \in Nat /\ b + far \in w.bits
      BY <2>2 DEF ShiftRight, Bits
    <3>2. v.base + b = w.base + (b + far)
      BY <1>0, <2>0, <2>2, <3>1
    <3> QED
      BY <3>1, <3>2, Zenon DEF Good
  <2>8. \A n \in firstBase .. v.base - 1 :
           n \in Accepted \/ nonce - n > Keep \/ \E m \in Accepted : m - n > Keep
    BY <1>0, <2>2
  <2> QED
    BY <2>1, <2>3, <2>4, <2>5, <2>6, <2>7, <2>8, Zenon DEF Good
<1> QED
  BY <1>0, <1>1, <1>2, <1>3 DEF Width

(* The loop of checkNonce ends after at most three iterations, with the nonce  *)
(* inside the bitfield.                                                        *)
LEMMA SlideFits ==
    ASSUME NEW w, IsWindow(w), NEW nonce \in Nat, nonce >= w.base, NEW stray
    PROVE  nonce - Slide(w, nonce, stray).base < Width
<1> USE WindowAssumption
<1> DEFINE Far(x) == nonce - x.base >= Width
           Full(x) == LowHalf \subseteq x.bits
<1>1. \A x : nonce - x.base < Width => Shift(x, nonce, stray) = x
  BY Zenon DEF Shift
<1>2. \A x : IsWindow(x) /\ Far(x) /\ ~Full(x) => nonce - Shift(x, nonce, stray).base < Width
  <2> SUFFICES ASSUME NEW x, IsWindow(x), Far(x), ~Full(x)
               PROVE  nonce - Shift(x, nonce, stray).base < Width
    BY Zenon
  <2>1. x.base \in Nat /\ ~(nonce - x.base < Width)
    BY DEF IsWindow, Width
  <2>2. Shift(x, nonce, stray).base = x.base + ((nonce - x.base) - Keep)
    BY <2>1, Zenon DEF Shift, Window
  <2> QED
    BY <2>1, <2>2 DEF Width
<1>3. \A x : IsWindow(x) /\ Far(x) /\ Full(x) =>
               /\ Shift(x, nonce, stray).bits = ShiftRight(x.bits, Half)
               /\ Shift(x, nonce, stray).base = x.base + Half
               /\ IsWindow(Shift(x, nonce, stray))
  <2> SUFFICES ASSUME NEW x, IsWindow(x), Far(x), Full(x)
               PROVE  /\ Shift(x, nonce, stray).bits = ShiftRight(x.bits, Half)
                      /\ Shift(x, nonce, stray).base = x.base + Half
                      /\ IsWindow(Shift(x, nonce, stray))
    BY Zenon
  <2>1. x.base \in Nat /\ x.lost \in Nat /\ ~(nonce - x.base < Width)
    BY DEF IsWindow, Width
  <2>2. Shift(x, nonce, stray) = Window(ShiftRight(x.bits, Half), x.base + Half, x.lost)
    BY <2>1, Zenon DEF Shift
  <2> QED
    BY <2>1, <2>2 DEF Window, IsWindow, ShiftRight
<1>4. \A x : IsWindow(x) => Far(x) \/ nonce - x.base < Width
  BY DEF IsWindow, Width
<1> DEFINE u == Shift(w, nonce, stray)
           v == Shift(u, nonce, stray)
<1>5. Slide(w, nonce, stray) = Shift(v, nonce, stray)
  BY Zenon DEF Slide
<1>6. CASE ~Far(w) \/ ~Full(w)
  <2>1. nonce - u.base < Width
    BY <1>1, <1>2, <1>4, <1>6, Zenon
  <2>2. v = u /\ Shift(v, nonce, stray) = u
    BY <1>1, <2>1, Zenon
  <2> QED
    BY <1>5, <2>1, <2>2, Zenon
<1>7. CASE Far(w) /\ Full(w)
  <2>1. IsWindow(u) /\ u.bits = ShiftRight(w.bits, Half)
    BY <1>3, <1>7, Zenon
  <2>2. CASE ~Far(u) \/ ~Full(u)
    <3>1. nonce - v.base < Width
      BY <1>1, <1>2, <1>4, <2>1, <2>2, Zenon
    <3> QED
      BY <1>1, <1>5, <3>1, Zenon
  <2>3. CASE Far(u) /\ Full(u)
    <3>1. IsWindow(v) /\ v.bits = ShiftRight(u.bits, Half)
      BY <1>3, <2>1, <2>3, Zenon
    <3>2. 0 \notin v.bits /\ 0 \in LowHalf
      <4>1. \A b \in ShiftRight(w.bits, Half) : b + Half \in w.bits
        BY Zenon DEF ShiftRight
      <4>2. Half \notin ShiftRight(w.bits, Half)
        BY <4>1 DEF IsWindow, Bits, Width
      <4> HIDE DEF u, v
      <4> QED
        BY <2>1, <3>1, <4>2 DEF ShiftRight, LowHalf
    <3>3. nonce - Shift(v, nonce, stray).base < Width
      BY <1>1, <1>2, <1>4, <3>1, <3>2, Zenon
    <3> QED
      BY <1>5, <3>3, Zenon
  <2> QED
    BY <2>2, <2>3, Zenon
<1> QED
  BY <1>6, <1>7, Zenon

(* The whole loop: the window still agrees with the history and the nonce is   *)
(* inside the bitfield.                                                        *)
LEMMA SlideKeepsGood ==
    ASSUME Inv, NEW nonce \in Nonce, nonce >= baseOffset, NEW stray \in SUBSET Bits
    PROVE  /\ Good(Slide(Current, nonce, stray), nonce)
           /\ nonce - Slide(Current, nonce, stray).base \in Bits
<1> USE WindowAssumption, NonceAssumption
<1>0. /\ firstBase \in Nonce /\ timesAccepted \in [Nonce -> Nat] /\ nonce \in Nat
      /\ baseOffset \in Nat
  BY DEF Inv, TypeOK, Nonce
<1>1. Good(Current, nonce)
  <2>1. /\ Current.bits = bitfield /\ Current.base = baseOffset
        /\ Current.lost = lostPackets
    BY Zenon DEF Current, Window
  <2>2. IsWindow(Current)
    BY DEF Inv, TypeOK, Nonce, IsWindow, Current, Window
  <2>3. baseOffset \in firstBase .. nonce
    BY <1>0 DEF Inv, TypeOK, PassedIsOld, Nonce
  <2>4. /\ lostPackets <= baseOffset - firstBase
        /\ \/ lostPackets = Cardinality(Unseen(firstBase, baseOffset))
           \/ /\ leapt
              /\ lostPackets - Cardinality(Unseen(firstBase, baseOffset)) \in -Width .. Width
              /\ MaxNonce - baseOffset - Keep < IntLimit
    BY Zenon DEF Inv, LostExact, LossBounded, Unseen
  <2>5. baseOffset <= baseOffset
    BY <1>0
  <2> QED
    BY <2>1, <2>2, <2>3, <2>4, <2>5, Zenon DEF Good, Inv, SeenIsMarked, MarkedIsSeen, PassedIsOld
<1>2. Good(Slide(Current, nonce, stray), nonce)
  BY <1>0, <1>1, ShiftKeepsGood, Zenon DEF Slide
<1>3. nonce - Slide(Current, nonce, stray).base < Width
  <2>1. IsWindow(Current) /\ nonce >= Current.base
    BY <1>1, Zenon DEF Good, Current, Window
  <2> QED
    BY <1>0, <2>1, SlideFits, Zenon
<1> HIDE DEF Slide
<1> QED
  BY <1>0, <1>2, <1>3 DEF Good, IsWindow, Bits, Width

-----------------------------------------------------------------------------
LEMMA InitInv == Init => Inv
<1> SUFFICES ASSUME Init PROVE Inv
  BY Zenon
<1> USE WindowAssumption, NonceAssumption
<1>1. firstBase \in Nonce /\ \A n \in Nonce : timesAccepted[n] = 0
  BY Zenon DEF Init, Nonce
<1>2. Accepted = {}
  BY <1>1 DEF Accepted
<1>3. LostExact /\ LossBounded
  <2>1. {n \in firstBase .. baseOffset - 1 : timesAccepted[n] = 0} = {}
    BY <1>1 DEF Init, Nonce
  <2>2. 0 <= firstBase - firstBase
    BY <1>1 DEF Nonce
  <2> QED
    BY <2>1, <2>2, FS_EmptySet, Zenon DEF LostExact, LossBounded, Init
<1>4. TypeOK
  <2>1. duplicates \in 0 .. CounterMod - 1 /\ receivedOutOfRange \in 0 .. CounterMod - 1
    BY DEF Init
  <2>2. lostPackets \in 0 .. MaxNonce
    BY DEF Init, UintMod
  <2>3. timesAccepted \in [Nonce -> Nat]
    BY DEF Init
  <2> QED
    BY <1>1, <2>1, <2>2, <2>3, Zenon DEF Init, TypeOK
<1> QED
  BY <1>1, <1>2, <1>3, <1>4
     DEF Init, Inv, AtMostOnce, SeenIsMarked, MarkedIsSeen, PassedIsOld, Nonce

(* The types the invariant and Good give to what a call of checkNonce works on. *)
LEMMA CheckedTypes ==
    ASSUME Inv, NEW nonce \in Nonce, NEW w, Good(w, nonce)
    PROVE  /\ w.bits \in SUBSET Bits /\ w.base \in Nat /\ w.lost \in Nat
           /\ nonce \in Nat /\ nonce <= MaxNonce
           /\ firstBase \in Nat /\ w.base \in firstBase .. nonce
           /\ Accepted \subseteq Nat
<1>1. w \in [bits : SUBSET Bits, base : Nat, lost : Nat]
  BY Zenon DEF Good, IsWindow
<1>2. w.bits \in SUBSET Bits /\ w.base \in Nat /\ w.lost \in Nat
  BY <1>1, Zenon
<1>3. nonce \in Nat /\ nonce <= MaxNonce
  BY NonceAssumption DEF Nonce
<1>4. firstBase \in Nat
  BY NonceAssumption DEF Inv, TypeOK, Nonce
<1>5. w.base \in firstBase .. nonce
  BY Zenon DEF Good
<1>6. Accepted \subseteq Nat
  BY NonceAssumption DEF Accepted, Nonce
<1> QED
  BY <1>2, <1>3, <1>4, <1>5, <1>6, Zenon

(* A call of checkNonce that ends with window w, whether it returned true for  *)
(* the nonce or not, leaves everything but AtMostOnce as the invariant asks,   *)
(* once the nonce is known to be accepted and marked.                          *)
LEMMA CheckedKeepsInv ==
    ASSUME Inv, NEW nonce \in Nonce, NEW w, Good(w, nonce), nonce - w.base \in Bits,
           bitfield' = w.bits \cup {nonce - w.base},
           baseOffset' = w.base, lostPackets' = w.lost, firstBase' = firstBase,
           leapt' = (leapt \/ Leap(nonce)),
           duplicates' \in 0 .. CounterMod - 1, UNCHANGED receivedOutOfRange,
           timesAccepted' \in [Nonce -> Nat],
           Accepted' = Accepted \cup {nonce},
           \A n \in Nonce : n # nonce => timesAccepted'[n] = timesAccepted[n],
           AtMostOnce'
    PROVE  Inv'
<1> USE WindowAssumption, NonceAssumption
<1>0. /\ w.bits \in SUBSET Bits /\ w.base \in Nat /\ w.lost \in Nat
      /\ nonce \in Nat /\ nonce <= MaxNonce
      /\ firstBase \in Nat /\ w.base \in firstBase .. nonce
      /\ Accepted \subseteq Nat
  BY CheckedTypes, Zenon
<1>1. LostExact' /\ LossBounded'
  <2>1. \A n \in firstBase .. w.base - 1 : n \in Nonce /\ n # nonce
    BY <1>0 DEF Nonce
  <2>2. {n \in firstBase .. w.base - 1 : timesAccepted'[n] = 0} = Unseen(firstBase, w.base)
    BY <2>1, Zenon DEF Unseen
  <2> DEFINE c == Cardinality(Unseen(firstBase, w.base))
  <2>3. /\ w.lost <= w.base - firstBase
        /\ \/ w.lost = c
           \/ /\ leapt \/ Leap(nonce)
              /\ w.lost - c \in -Width .. Width
              /\ MaxNonce - w.base - Keep < IntLimit
    BY Zenon DEF Good
  <2>4. w.lost = c => w.lost - c \in -Width .. Width
    <3> HIDE DEF c
    <3> QED
      BY <1>0 DEF Width
  <2> QED
    BY <2>2, <2>3, <2>4, Zenon DEF LostExact, LossBounded
<1>2. TypeOK'
  <2>1. lostPackets' \in 0 .. MaxNonce
    <3>1. w.lost <= w.base - firstBase
      BY Zenon DEF Good
    <3> QED
      BY <1>0, <3>1
  <2>2. baseOffset' \in Nonce
    BY <1>0 DEF Nonce
  <2>3. leapt' \in BOOLEAN
    BY Zenon
  <2> QED
    BY <1>0, <2>1, <2>2, <2>3, Zenon DEF Inv, TypeOK
<1>3. SeenIsMarked'
  <2> SUFFICES ASSUME NEW n \in Accepted'
               PROVE  n >= firstBase /\ (n >= w.base => n - w.base \in bitfield')
    BY Zenon DEF SeenIsMarked
  <2>1. CASE n = nonce
    BY <1>0, <2>1
  <2>2. CASE n \in Accepted
    BY <2>2, Zenon DEF Good, Inv, SeenIsMarked
  <2> QED
    BY <2>1, <2>2, Zenon
<1>4. MarkedIsSeen'
  <2> SUFFICES ASSUME NEW b \in bitfield' PROVE w.base + b \in Accepted'
    BY Zenon DEF MarkedIsSeen
  <2>1. CASE b = nonce - w.base
    BY <1>0, <2>1
  <2>2. CASE b \in w.bits
    BY <2>2, Zenon DEF Good
  <2> QED
    BY <2>1, <2>2, Zenon
<1>5. PassedIsOld'
  <2>1. firstBase' <= baseOffset'
    BY <1>0
  <2>2. \A n \in firstBase .. w.base - 1 :
           n \in Accepted' \/ \E m \in Accepted' : m - n > Keep
    BY Zenon DEF Good
  <2> QED
    BY <2>1, <2>2, Zenon DEF PassedIsOld
<1> QED
  BY <1>1, <1>2, <1>3, <1>4, <1>5, Zenon DEF Inv

LEMMA NextInv == Inv /\ [Next]_vars => Inv'
<1> SUFFICES ASSUME Inv, [Next]_vars PROVE Inv'
  BY Zenon
<1> USE WindowAssumption, NonceAssumption
<1>1. ASSUME NEW nonce \in Nonce, OutOfRange(nonce) PROVE Inv'
  <2>1. receivedOutOfRange' \in 0 .. CounterMod - 1
    BY <1>1 DEF OutOfRange, Inv, TypeOK
  <2>2. UNCHANGED <<bitfield, baseOffset, duplicates, lostPackets, firstBase, leapt,
                    timesAccepted>>
    BY <1>1, Zenon DEF OutOfRange
  <2>3. Accepted' = Accepted
    BY <2>2, Zenon DEF Accepted
  <2> QED
    BY <2>1, <2>2, <2>3, Zenon
       DEF Inv, TypeOK, AtMostOnce, LostExact, LossBounded, SeenIsMarked, MarkedIsSeen, PassedIsOld
<1>2. ASSUME NEW nonce \in Nonce, NEW stray \in SUBSET Bits, Duplicate(nonce, stray) PROVE Inv'
  <2> DEFINE w == Slide(Current, nonce, stray)
  <2>1. Good(w, nonce) /\ nonce - w.base \in Bits
    BY <1>2, SlideKeepsGood, Zenon DEF Duplicate
  <2>2. /\ nonce - w.base \in w.bits
        /\ bitfield' = w.bits /\ baseOffset' = w.base /\ lostPackets' = w.lost
        /\ leapt' = (leapt \/ Leap(nonce))
        /\ duplicates' = (duplicates + 1) % CounterMod
        /\ UNCHANGED <<receivedOutOfRange, firstBase, timesAccepted>>
    BY <1>2, Zenon DEF Duplicate
  <2>3. bitfield' = w.bits \cup {nonce - w.base}
    BY <2>2, Zenon
  <2>4. duplicates' \in 0 .. CounterMod - 1
    BY <2>2 DEF Inv, TypeOK
  <2> HIDE DEF w
  <2>5. nonce \in Accepted
    <3>1. w.base + (nonce - w.base) = nonce
      BY <2>1 DEF Good, IsWindow, Nonce
    <3> QED
      BY <2>1, <2>2, <3>1, Zenon DEF Good
  <2>6. Accepted' = Accepted \cup {nonce}
    BY <2>2, <2>5, Zenon DEF Accepted
  <2>7. AtMostOnce' /\ timesAccepted' \in [Nonce -> Nat]
    BY <2>2, Zenon DEF Inv, TypeOK, AtMostOnce
  <2> QED
    BY <2>1, <2>2, <2>3, <2>4, <2>6, <2>7, CheckedKeepsInv, Zenon
<1>3. ASSUME NEW nonce \in Nonce, NEW stray \in SUBSET Bits, Fresh(nonce, stray) PROVE Inv'
  <2> DEFINE w == Slide(Current, nonce, stray)
  <2>1. Good(w, nonce) /\ nonce - w.base \in Bits
    BY <1>3, SlideKeepsGood, Zenon DEF Fresh
  <2>2. /\ nonce - w.base \notin w.bits
        /\ bitfield' = w.bits \cup {nonce - w.base}
        /\ baseOffset' = w.base /\ lostPackets' = w.lost
        /\ leapt' = (leapt \/ Leap(nonce))
        /\ timesAccepted' = [timesAccepted EXCEPT ![nonce] = @ + 1]
        /\ UNCHANGED <<receivedOutOfRange, firstBase, duplicates>>
    BY <1>3, Zenon DEF Fresh
  <2> HIDE DEF w
  <2>3. timesAccepted \in [Nonce -> Nat] /\ duplicates \in 0 .. CounterMod - 1
    BY Zenon DEF Inv, TypeOK
  <2>4. timesAccepted[nonce] = 0
    <3>1. nonce \notin Accepted
      BY <2>1, <2>2 DEF Good, IsWindow, Nonce
    <3> QED
      BY <2>3, <3>1 DEF Accepted
  <2>5. /\ timesAccepted' \in [Nonce -> Nat]
        /\ timesAccepted'[nonce] = 1
        /\ \A n \in Nonce : n # nonce => timesAccepted'[n] = timesAccepted[n]
    BY <2>2, <2>3, <2>4
  <2>6. Accepted' = Accepted \cup {nonce}
    BY <2>5 DEF Accepted
  <2>7. AtMostOnce'
    BY <2>5 DEF Inv, AtMostOnce
  <2> QED
    BY <2>1, <2>2, <2>3, <2>5, <2>6, <2>7, CheckedKeepsInv, Zenon
<1>4. CASE UNCHANGED vars
  <2>1. Accepted' = Accepted
    BY <1>4, Zenon DEF vars, Accepted
  <2> QED
    BY <1>4, <2>1, Zenon
       DEF vars, Inv, TypeOK, AtMostOnce, LostExact, LossBounded, SeenIsMarked, MarkedIsSeen, PassedIsOld
<1>5. \A nonce \in Nonce : Strays(nonce) \subseteq SUBSET Bits
  BY Zenon DEF Strays
<1> QED
  BY <1>1, <1>2, <1>3, <1>4, <1>5, Zenon DEF Next, checkNonce

(* The invariant that carries the others. *)
THEOREM Invariance == Spec => []Inv
BY InitInv, NextInv, PTL DEF Spec

(* checkNonce never returns true twice for the same nonce, for every width of  *)
(* the bitfield and every order, gap and repetition of the nonces.             *)
THEOREM NeverTwice == Spec => []AtMostOnce
<1>1. Inv => AtMostOnce
  BY Zenon DEF Inv
<1> QED
  BY <1>1, Invariance, PTL

(* A packet that is not a replay and is at most Keep behind the newest one is  *)
(* never refused by checkNonce.                                                *)
THEOREM RecentNeverRefused == Spec => []RecentAdmitted
<1>1. Inv => RecentAdmitted
  <2> SUFFICES ASSUME Inv, NEW n \in Nonce, n >= firstBase, timesAccepted[n] = 0,
                      \A m \in Accepted : m - n <= Keep
               PROVE  Admits(n)
    BY Zenon DEF RecentAdmitted
  <2> USE WindowAssumption, NonceAssumption
  <2>0. /\ n \in Nat /\ baseOffset \in Nat /\ firstBase \in Nat
        /\ Accepted \subseteq Nat /\ n \notin Accepted
    BY DEF Inv, TypeOK, Nonce, Accepted
  <2>1. n >= baseOffset
    <3> SUFFICES ASSUME n < baseOffset PROVE FALSE
      BY <2>0
    <3>1. \E m \in Accepted : m - n > Keep
      BY <2>0 DEF Inv, PassedIsOld
    <3> QED
      BY <2>0, <3>1
  <2>2. Good(Slide(Current, n, {}), n)
    BY <2>1, SlideKeepsGood, Zenon
  <2> DEFINE w == Slide(Current, n, {})
  <2> HIDE DEF w
  <2>3. w.base \in Nat /\ w.base + (n - w.base) = n
    BY <2>0, <2>2 DEF Good, IsWindow, w
  <2>4. n - w.base \notin w.bits
    BY <2>0, <2>2, <2>3, Zenon DEF Good, w
  <2> QED
    BY <2>1, <2>4, Zenon DEF Admits, w
<1> QED
  BY <1>1, Invariance, PTL

(* lostPackets is exactly the number of nonces that left the window unseen as  *)
(* long as every jump is an int, and within the width of the bitfield of it    *)
(* after one that is not; it never exceeds the largest nonce, so its uint32_t  *)
(* does not overflow.                                                          *)
THEOREM LossCounted == Spec => [](LostExact /\ lostPackets <= MaxNonce)
<1>1. Inv => LostExact /\ lostPackets <= MaxNonce
  BY NonceAssumption DEF Inv, TypeOK
<1> QED
  BY <1>1, Invariance, PTL

(***************************************************************************)
(* The map.                                                                *)
(***************************************************************************)

Entry == [handle : Nat, key : Keys, value : Values]

(* The array is in the order of its handles, all of them given out before,  *)
(* and has a key once.  This is what put and remove maintain and the binary *)
(* search relies on.                                                        *)
MapOrdered ==
    /\ entries \in Seq(Entry)
    /\ puts \in 0 .. MaxPuts
    /\ nextHandle = IF puts = HandleMod THEN 0 ELSE puts
    /\ \A i \in DOMAIN entries : entries[i].handle < puts
    /\ \A i, j \in DOMAIN entries : i < j => entries[i].handle < entries[j].handle
    /\ \A i, j \in DOMAIN entries : entries[i].key = entries[j].key => i = j

-----------------------------------------------------------------------------
(* Facts about numbers. *)

(* A set of natural numbers that is not empty has a least one. *)
LEMMA NatLeast ==
    ASSUME NEW T, T \subseteq Nat, T # {}
    PROVE  \E x \in T : \A y \in T : x <= y
<1> DEFINE R == OpToRel(<, Nat)
<1>1. IsWellFoundedOn(R, Nat)
    BY NatLessThanWellFounded, Zenon
<1>2. \A x, y \in Nat : <<y, x>> \in R <=> y < x
    BY Zenon DEF OpToRel
<1> HIDE DEF R
<1>3. PICK x \in T : \A y \in T : ~(<<y, x>> \in R)
    BY <1>1, WFMin, Zenon
<1>4. ASSUME NEW y \in T
      PROVE  x <= y
  <2>1. x \in Nat /\ y \in Nat
    BY Zenon
  <2>2. ~(y < x)
    BY <1>2, <1>3, <2>1, Zenon
  <2> QED
    BY <2>1, <2>2
<1> QED
    BY <1>4, Zenon

(* Induction, with a set in the place of a predicate. *)
LEMMA UpTo ==
    ASSUME NEW n \in Nat, NEW S, 0 \in S, \A k \in 0 .. n - 1 : k \in S => k + 1 \in S
    PROVE  \A k \in 0 .. n : k \in S
<1> DEFINE T == (0 .. n) \ S
<1> SUFFICES ASSUME T # {}
             PROVE  FALSE
    BY Zenon
<1>1. T \subseteq Nat /\ \A k \in 0 .. n : k \in T \/ k \in S
    OBVIOUS
<1>2. \A k \in T : k \in 0 .. n /\ k \notin S
    BY Zenon
<1> HIDE DEF T
<1>3. PICK k \in T : \A j \in T : k <= j
    BY <1>1, NatLeast, Zenon
<1>4. k \in 0 .. n /\ k # 0
    BY <1>2, <1>3, Zenon
<1>5. k - 1 \in 0 .. n - 1 /\ k - 1 \in 0 .. n /\ (k - 1) + 1 = k /\ k - 1 \notin T
    BY <1>3, <1>4
<1>6. k - 1 \in S
    BY <1>1, <1>5, Zenon
<1>7. k \in S
    BY <1>5, <1>6, Zenon
<1> QED
    BY <1>2, <1>7, Zenon

(* The two parts that a probe leaves of len entries. *)
LEMMA Halves ==
    ASSUME NEW len \in Nat \ {0}
    PROVE  /\ len \div 2 \in 0 .. len - 1
           /\ (len - 1) \div 2 \in 0 .. len - 1
           /\ len \div 2 + (len - 1) \div 2 = len - 1
    OBVIOUS

(* The counter of handles, before it wraps and when it does. *)
LEMMA NextHandle ==
    ASSUME NEW M \in Nat \ {0}, NEW x \in 0 .. M - 1
    PROVE  /\ x % M = x
           /\ (x + 1) % M = IF x + 1 = M THEN 0 ELSE x + 1
    OBVIOUS

-----------------------------------------------------------------------------
(* The search. *)

(* What the loop returns when it has entries base + 1 to base + len left,   *)
(* by what it returns for fewer.                                            *)
Probe(h, s, len, base) ==
    IF len = 0 THEN 0
    ELSE LET i == base + len \div 2 + 1
         IN  IF h < entries[i].handle THEN s[len \div 2][base]
             ELSE IF h = entries[i].handle THEN i
             ELSE s[(len - 1) \div 2][base + len \div 2 + 1]

(* indexForHandle is what the loop returns for the whole array. *)
LEMMA SearchUnfolds ==
    ASSUME NEW h, Len(entries) \in Nat
    PROVE  \E s : /\ indexForHandle(h) = s[Len(entries)][0]
                  /\ \A len \in 0 .. Len(entries) : \A base \in 0 .. Len(entries) - len :
                         s[len][base] = Probe(h, s, len, base)
<1> DEFINE L == Len(entries)
           Row(s, len) == [base \in 0 .. L - len |-> Probe(h, s, len, base)]
           Solution(s, k) == s = [len \in 0 .. k |-> Row(s, len)]
           T == {k \in 0 .. L : ~ \E s : Solution(s, k)}
<1>1. ASSUME NEW s, NEW t, NEW k \in Nat, NEW len \in 0 .. k,
             \A j \in 0 .. len - 1 : s[j] = t[j]
      PROVE  Row(s, len) = Row(t, len)
  <2>1. ASSUME NEW base \in 0 .. L - len
        PROVE  Probe(h, s, len, base) = Probe(h, t, len, base)
    <3>1. CASE len = 0
      BY <3>1, Zenon DEF Probe
    <3>2. CASE len # 0
      <4>1. len \div 2 \in 0 .. len - 1 /\ (len - 1) \div 2 \in 0 .. len - 1
        BY <3>2, Halves
      <4>2. s[len \div 2] = t[len \div 2] /\ s[(len - 1) \div 2] = t[(len - 1) \div 2]
        BY <1>1, <4>1, Zenon
      <4> QED
        BY <4>2, Zenon DEF Probe
    <3> QED
      BY <3>1, <3>2, Zenon
  <2> QED
    BY <2>1, Zenon
<1>2. T = {}
  <2> SUFFICES ASSUME T # {}
               PROVE  FALSE
    BY Zenon
  <2>1. PICK k \in T : \A j \in T : k <= j
    <3>1. T \subseteq Nat
      OBVIOUS
    <3> HIDE DEF T
    <3> QED
      BY <3>1, NatLeast, Zenon
  <2>2. k \in 0 .. L /\ ~ \E s : Solution(s, k)
    BY Zenon
  <2>3. \E s : \A len \in 0 .. k - 1 : s[len] = Row(s, len)
    <3>1. CASE k = 0
      BY <3>1
    <3>2. CASE k # 0
      <4>1. k - 1 \in 0 .. L /\ k - 1 \notin T
        <5> HIDE DEF T
        <5> QED
          BY <2>1, <2>2, <3>2
      <4>2. PICK s : Solution(s, k - 1)
        BY <4>1, Zenon
      <4> HIDE DEF Row
      <4> QED
        BY <4>2, Zenon
    <3> QED
      BY <3>1, <3>2, Zenon
  <2>4. PICK s : \A len \in 0 .. k - 1 : s[len] = Row(s, len)
    BY <2>3, Zenon
  <2> DEFINE t == [len \in 0 .. k |-> Row(s, len)]
  <2>5. ASSUME NEW len \in 0 .. k
        PROVE  t[len] = Row(t, len)
    <3> HIDE DEF Row
    <3>1. \A j \in 0 .. len - 1 : t[j] = s[j]
      BY <2>2, <2>4
    <3>2. Row(s, len) = Row(t, len)
      BY <1>1, <2>2, <3>1
    <3> QED
      BY <3>2, Zenon
  <2>6. Solution(t, k)
    <3> HIDE DEF Row
    <3> QED
      BY <2>5, Zenon
  <2> QED
    BY <2>2, <2>6, Zenon
<1>3. \E s : Solution(s, L)
  <2>1. L \in 0 .. L /\ L \notin T
    BY <1>2
  <2> QED
    BY <2>1, Zenon
<1> DEFINE search == CHOOSE s : Solution(s, L)
<1>4. Solution(search, L)
    BY <1>3, Zenon
<1>5. indexForHandle(h) = search[L][0]
    BY Zenon DEF indexForHandle, Probe
<1> HIDE DEF search
<1>6. ASSUME NEW len \in 0 .. L, NEW base \in 0 .. L - len
      PROVE  search[len][base] = Probe(h, search, len, base)
  <2>1. search[len] = Row(search, len)
    <3> HIDE DEF Row
    <3> QED
      BY <1>4, Zenon
  <2> QED
    BY <2>1, Zenon
<1> QED
    BY <1>5, <1>6, Zenon

(* In an array in the order of its handles the search returns the place of  *)
(* the handle if it has one, 0 otherwise.                                   *)
LEMMA SearchFinds ==
    ASSUME MapOrdered, NEW h \in Nat
    PROVE  IF \E i \in DOMAIN entries : entries[i].handle = h
           THEN indexForHandle(h) \in DOMAIN entries /\ entries[indexForHandle(h)].handle = h
           ELSE indexForHandle(h) = 0
<1> DEFINE L == Len(entries)
           H(i) == entries[i].handle
           Right(r) == IF \E i \in 1 .. L : H(i) = h THEN r \in 1 .. L /\ H(r) = h ELSE r = 0
           Inside(len, base) == /\ \A i \in 1 .. base : H(i) < h
                                /\ \A i \in base + len + 1 .. L : h < H(i)
<1>1. /\ L \in Nat /\ DOMAIN entries = 1 .. L
      /\ \A i \in 1 .. L : H(i) \in Nat
      /\ \A i, j \in 1 .. L : i < j => H(i) < H(j)
  <2>1. entries \in Seq(Entry)
    BY Zenon DEF MapOrdered
  <2>2. L \in Nat /\ DOMAIN entries = 1 .. L /\ \A i \in 1 .. L : entries[i] \in Entry
    BY <2>1
  <2> HIDE DEF L
  <2> QED
    BY <2>2, Zenon DEF MapOrdered, Entry
<1>2. PICK s : /\ indexForHandle(h) = s[L][0]
               /\ \A len \in 0 .. L : \A base \in 0 .. L - len :
                      s[len][base] = Probe(h, s, len, base)
    BY <1>1, SearchUnfolds, Zenon
<1> DEFINE Fine(len) == \A base \in 0 .. L - len : Inside(len, base) => Right(s[len][base])
           T == {len \in 0 .. L : ~Fine(len)}
<1> HIDE DEF L
<1>3. T = {}
  <2> SUFFICES ASSUME T # {}
               PROVE  FALSE
    BY Zenon
  <2>1. PICK len \in T : \A j \in T : len <= j
    <3>1. T \subseteq Nat
      BY <1>1
    <3> HIDE DEF T
    <3> QED
      BY <3>1, NatLeast, Zenon
  <2>2. len \in 0 .. L
    BY Zenon
  <2>3. \A j \in 0 .. len - 1 : Fine(j)
    <3>1. \A j \in 0 .. len - 1 : j \in 0 .. L /\ j \notin T
      <4> HIDE DEF T
      <4> QED
        BY <1>1, <2>1, <2>2
    <3> QED
      BY <3>1, Zenon
  <2>4. ASSUME NEW base \in 0 .. L - len, Inside(len, base)
        PROVE  Right(s[len][base])
    <3>1. s[len][base] = Probe(h, s, len, base)
      BY <1>2, <2>2, Zenon
    <3>2. CASE len = 0
      <4>1. s[len][base] = 0
        BY <3>1, <3>2, Zenon DEF Probe
      <4>2. \A i \in 1 .. L : H(i) # h
        <5> SUFFICES ASSUME NEW i \in 1 .. L
                     PROVE  H(i) # h
          BY Zenon
        <5>1. i \in 1 .. base \/ i \in base + len + 1 .. L
          BY <1>1, <3>2
        <5>2. H(i) < h \/ h < H(i)
          BY <2>4, <5>1, Zenon
        <5> QED
          BY <1>1, <5>2
      <4> QED
        BY <4>1, <4>2, Zenon
    <3>3. CASE len # 0
      <4> DEFINE i == base + len \div 2 + 1
                 lower == len \div 2
                 upper == (len - 1) \div 2
      <4>1. /\ lower \in 0 .. len - 1 /\ upper \in 0 .. len - 1
            /\ lower + upper = len - 1
        <5>1. len \in Nat \ {0}
          BY <1>1, <2>2, <3>3
        <5> QED
          BY <5>1, Halves, Zenon
      <4>2. s[len][base] = IF h < H(i) THEN s[lower][base]
                           ELSE IF h = H(i) THEN i
                           ELSE s[upper][i]
        BY <3>1, <3>3, Zenon DEF Probe
      <4>3. i = base + lower + 1
        BY Zenon
      <4> HIDE DEF i, lower, upper
      <4>4. i \in 1 .. L /\ i \in 0 .. L - upper /\ base \in 0 .. L - lower
        BY <1>1, <2>2, <3>3, <4>1, <4>3
      <4>5. CASE h < H(i)
        <5>1. Inside(lower, base)
          <6>1. ASSUME NEW j \in base + lower + 1 .. L
                PROVE  h < H(j)
            <7>1. j \in 1 .. L /\ i <= j
              BY <1>1, <4>1, <4>3
            <7>2. j = i \/ H(i) < H(j)
              BY <1>1, <4>4, <7>1
            <7> QED
              BY <1>1, <4>4, <4>5, <7>1, <7>2
          <6> QED
            BY <2>4, <6>1, Zenon
        <5>2. Right(s[lower][base])
          BY <2>3, <4>1, <4>4, <5>1, Zenon
        <5> QED
          BY <4>2, <4>5, <5>2, Zenon
      <4>6. CASE h = H(i)
        <5>1. s[len][base] = i
          BY <1>1, <4>2, <4>4, <4>6
        <5> QED
          BY <4>4, <4>6, <5>1, Zenon
      <4>7. CASE H(i) < h
        <5>1. Inside(upper, i)
          <6>1. ASSUME NEW j \in 1 .. i
                PROVE  H(j) < h
            <7>1. j \in 1 .. L /\ (j = i \/ j < i)
              BY <1>1, <4>4
            <7>2. j = i \/ H(j) < H(i)
              BY <1>1, <4>4, <7>1, Zenon
            <7> QED
              BY <1>1, <4>4, <4>7, <7>1, <7>2
          <6>2. \A j \in i + upper + 1 .. L : h < H(j)
            <7>1. i + upper + 1 = base + len + 1
              BY <1>1, <2>2, <4>1, <4>3
            <7>2. \A j \in base + len + 1 .. L : h < H(j)
              BY <2>4, Zenon
            <7> QED
              BY <7>1, <7>2, Zenon
          <6> QED
            BY <6>1, <6>2, Zenon
        <5>2. Right(s[upper][i])
          BY <2>3, <4>1, <4>4, <5>1, Zenon
        <5>3. s[len][base] = s[upper][i]
          BY <1>1, <4>2, <4>4, <4>7
        <5> QED
          BY <5>2, <5>3, Zenon
      <4>8. h < H(i) \/ h = H(i) \/ H(i) < h
        <5>1. H(i) \in Nat /\ h \in Nat
          BY <1>1, <4>4, Zenon
        <5> HIDE DEF H
        <5> QED
          BY <5>1
      <4> QED
        BY <4>5, <4>6, <4>7, <4>8, Zenon
    <3> QED
      BY <3>2, <3>3, Zenon
  <2>5. Fine(len)
    BY <2>4, Zenon
  <2> QED
    BY <2>5, Zenon
<1>4. Right(s[L][0])
  <2>1. L \in 0 .. L /\ L \notin T /\ 0 \in 0 .. L - L
    BY <1>1, <1>3
  <2>2. Fine(L)
    BY <2>1, Zenon
  <2>3. Inside(L, 0)
    BY <1>1
  <2> QED
    BY <2>1, <2>2, <2>3, Zenon
<1> QED
    BY <1>1, <1>2, <1>4, Zenon

-----------------------------------------------------------------------------
(* The operations. *)

(* The linear search for a key. *)
LEMMA KeyFinds ==
    ASSUME MapOrdered, NEW k
    PROVE  IF \E i \in DOMAIN entries : entries[i].key = k
           THEN indexForKey(k) \in DOMAIN entries /\ entries[indexForKey(k)].key = k
           ELSE indexForKey(k) = 0
<1> DEFINE I == {i \in DOMAIN entries : entries[i].key = k}
           least == CHOOSE i \in I : \A j \in I : i <= j
<1>1. indexForKey(k) = IF I = {} THEN 0 ELSE least
    BY Zenon DEF indexForKey
<1>2. Len(entries) \in Nat /\ DOMAIN entries = 1 .. Len(entries)
    BY DEF MapOrdered
<1>3. CASE I = {}
    BY <1>1, <1>2, <1>3, Zenon
<1>4. CASE I # {}
  <2>1. I \subseteq Nat
    BY <1>2
  <2> HIDE DEF I
  <2>2. \E x \in I : \A y \in I : x <= y
    BY <1>4, <2>1, NatLeast, Zenon
  <2>3. least \in I
    BY <2>2, Zenon
  <2> HIDE DEF least
  <2> QED
    BY <1>1, <1>2, <1>4, <2>3, Zenon DEF I
<1> QED
    BY <1>3, <1>4, Zenon

(* An array with one entry taken out: those above have moved down. *)
LEMMA RemovedIs ==
    ASSUME NEW S, NEW q \in Seq(S), NEW i \in DOMAIN q,
           NEW r, r = [j \in 1 .. Len(q) - 1 |-> q[IF j < i THEN j ELSE j + 1]]
    PROVE  /\ r \in Seq(S) /\ DOMAIN r = 1 .. Len(q) - 1
           /\ \A j \in 1 .. Len(q) - 1 : r[j] = IF j < i THEN q[j] ELSE q[j + 1]
<1>1. Len(q) \in Nat /\ Len(q) - 1 \in Nat /\ i \in 1 .. Len(q) /\ \A j \in 1 .. Len(q) : q[j] \in S
    OBVIOUS
<1>2. \A j \in 1 .. Len(q) - 1 : q[IF j < i THEN j ELSE j + 1] \in S
    BY <1>1
<1>3. r \in Seq(S)
    BY <1>1, <1>2
<1> QED
    BY <1>3, Zenon

(* An empty map is in order. *)
LEMMA MapInitInv == MapInit => MapOrdered
    BY MapAssumption DEF MapInit, MapOrdered

(* put and remove keep the array in order. *)
LEMMA MapNextInv ==
    ASSUME MaxPuts <= HandleMod, MapOrdered, [MapNext]_mapVars
    PROVE  MapOrdered'
<1>1. /\ entries \in Seq(Entry) /\ Len(entries) \in Nat /\ DOMAIN entries = 1 .. Len(entries)
      /\ \A i \in DOMAIN entries : entries[i] \in Entry
      /\ puts \in Nat /\ puts <= MaxPuts
    BY MapAssumption DEF MapOrdered
<1>2. ASSUME NEW k \in Keys, NEW v \in Values, put(k, v), indexForKey(k) = 0
      PROVE  MapOrdered'
  <2> DEFINE n == Len(entries)
             e == [handle |-> nextHandle, key |-> k, value |-> v]
  <2>1. /\ puts < MaxPuts /\ entries' = Append(entries, e)
        /\ nextHandle' = (nextHandle + 1) % HandleMod /\ puts' = puts + 1
    BY <1>2, Zenon DEF put
  <2>2. nextHandle = puts /\ puts \in 0 .. HandleMod - 1
    BY <1>1, <2>1, MapAssumption DEF MapOrdered
  <2>3. nextHandle' = IF puts' = HandleMod THEN 0 ELSE puts'
    BY <2>1, <2>2, NextHandle, MapAssumption, Zenon
  <2>4. \A i \in 1 .. n : entries[i].key # k
    <3>1. 0 \notin DOMAIN entries
      BY <1>1
    <3> QED
      BY <1>1, <1>2, <3>1, KeyFinds, Zenon
  <2>5. e \in Entry /\ e.handle = puts /\ e.key = k
    BY <2>2 DEF Entry
  <2> HIDE DEF e
  <2>6. /\ entries' \in Seq(Entry) /\ DOMAIN entries' = 1 .. n + 1
        /\ entries'[n + 1] = e /\ \A i \in 1 .. n : entries'[i] = entries[i]
    BY <1>1, <2>1, <2>5
  <2> HIDE DEF n
  <2>7. n \in Nat /\ DOMAIN entries = 1 .. n
    BY <1>1, Zenon DEF n
  <2>8. \A i \in 1 .. n : entries[i].handle \in Nat
    BY <1>1, <2>7, Zenon DEF Entry
  <2>9. \A i \in DOMAIN entries' : entries'[i].handle < puts'
    BY <1>1, <2>1, <2>5, <2>6, <2>7, <2>8 DEF MapOrdered
  <2>10. \A i, j \in DOMAIN entries' : i < j => entries'[i].handle < entries'[j].handle
    BY <1>1, <2>5, <2>6, <2>7, <2>8 DEF MapOrdered
  <2>11. \A i, j \in DOMAIN entries' : entries'[i].key = entries'[j].key => i = j
    BY <2>4, <2>5, <2>6, <2>7 DEF MapOrdered
  <2>12. puts' \in 0 .. MaxPuts
    BY <1>1, <2>1, MapAssumption
  <2> QED
    BY <2>3, <2>6, <2>9, <2>10, <2>11, <2>12, Zenon DEF MapOrdered
<1>3. ASSUME NEW k \in Keys, NEW v \in Values, put(k, v), indexForKey(k) # 0
      PROVE  MapOrdered'
  <2> DEFINE x == indexForKey(k)
  <2>1. x \in DOMAIN entries
    BY <1>3, KeyFinds, Zenon
  <2>2. /\ entries' = [entries EXCEPT ![x].value = v]
        /\ nextHandle' = nextHandle /\ puts' = puts
    BY <1>3, Zenon DEF put
  <2> HIDE DEF x
  <2>3. /\ entries' \in Seq(Entry) /\ DOMAIN entries' = DOMAIN entries
        /\ \A i \in DOMAIN entries : /\ entries'[i].handle = entries[i].handle
                                     /\ entries'[i].key = entries[i].key
    <3> DEFINE e == [entries[x] EXCEPT !.value = v]
    <3>1. e \in Entry /\ e.handle = entries[x].handle /\ e.key = entries[x].key
      BY <1>1, <2>1, Zenon DEF Entry
    <3>2. entries' = [entries EXCEPT ![x] = e]
      BY <2>1, <2>2, Zenon
    <3> HIDE DEF e
    <3>3. entries' \in Seq(Entry)
      BY <1>1, <2>1, <3>1, <3>2
    <3> QED
      BY <2>1, <3>1, <3>2, <3>3, Zenon
  <2> QED
    BY <2>2, <2>3 DEF MapOrdered
<1>4. ASSUME NEW x \in DOMAIN entries, remove(x)
      PROVE  MapOrdered'
  <2> DEFINE n == Len(entries) - 1
             from(j) == IF j < x THEN j ELSE j + 1
  <2>1. /\ entries' = [j \in 1 .. Len(entries) - 1 |-> entries[IF j < x THEN j ELSE j + 1]]
        /\ nextHandle' = nextHandle /\ puts' = puts
    BY <1>4, Zenon DEF remove
  <2>2. /\ entries' \in Seq(Entry) /\ DOMAIN entries' = 1 .. n
        /\ \A j \in 1 .. n : entries'[j] = IF j < x THEN entries[j] ELSE entries[j + 1]
    BY <1>1, <2>1, RemovedIs
  <2>3. \A j \in 1 .. n : from(j) \in DOMAIN entries /\ entries'[j] = entries[from(j)]
    BY <1>1, <2>2
  <2>4. /\ \A i, j \in 1 .. n : i < j => from(i) < from(j)
        /\ \A i, j \in 1 .. n : from(i) = from(j) => i = j
    BY <1>1
  <2> HIDE DEF from, n
  <2>5. \A i, j \in 1 .. n : i < j => entries'[i].handle < entries'[j].handle
    BY <2>3, <2>4, Zenon DEF MapOrdered
  <2>6. \A i, j \in 1 .. n : entries'[i].key = entries'[j].key => i = j
    BY <2>3, <2>4 DEF MapOrdered
  <2>7. \A i \in 1 .. n : entries'[i].handle < puts'
    <3>1. \A i \in DOMAIN entries : entries[i].handle < puts
      BY Zenon DEF MapOrdered
    <3>2. puts' = puts
      BY <2>1, Zenon
    <3> QED
      BY <2>3, <3>1, <3>2, Zenon
  <2> QED
    BY <2>1, <2>2, <2>5, <2>6, <2>7, Zenon DEF MapOrdered
<1>5. CASE UNCHANGED mapVars
    BY <1>5, Zenon DEF mapVars, MapOrdered
<1> QED
    BY <1>2, <1>3, <1>4, <1>5, Zenon DEF MapNext

(* MapOrdered is invariant until the handles have wrapped around and are used again. *)
THEOREM MapInvariance ==
    ASSUME MaxPuts <= HandleMod
    PROVE  MapSpec => []MapOrdered
<1>1. MapOrdered /\ [MapNext]_mapVars => MapOrdered'
    BY MapNextInv, Zenon
<1> QED
    BY MapInitInv, <1>1, PTL DEF MapSpec

(* As long as no handle has been given out twice, the binary search of         *)
(* indexForHandle finds the entry of each handle that is in the map, wherever  *)
(* removals have left gaps, and nothing for any other.                         *)
THEOREM HandlesFound ==
    ASSUME MaxPuts <= HandleMod
    PROVE  MapSpec => []FoundByHandle
<1>1. ASSUME MapOrdered, NEW h \in 0 .. HandleMod - 1
      PROVE  IF \E e \in Range(entries) : e.handle = h
             THEN indexForHandle(h) # 0 /\ entries[indexForHandle(h)].handle = h
             ELSE indexForHandle(h) = 0
  <2>1. 0 \notin DOMAIN entries
    BY <1>1 DEF MapOrdered
  <2>2. h \in Nat
    BY MapAssumption
  <2>3. (\E e \in Range(entries) : e.handle = h) <=> \E i \in DOMAIN entries : entries[i].handle = h
    BY Zenon DEF Range
  <2> QED
    BY <1>1, <2>1, <2>2, <2>3, SearchFinds, Zenon
<1>2. MapOrdered => FoundByHandle
    BY <1>1, Zenon DEF FoundByHandle
<1> QED
    BY <1>2, MapInvariance, PTL

-----------------------------------------------------------------------------
(* The table that the map implements. *)

(* Until they wrap the handles given out are those below puts. *)
LEMMA Issued ==
    ASSUME NEW n \in Nat, n <= HandleMod
    PROVE  {i % HandleMod : i \in 0 .. n - 1} = 0 .. n - 1
<1>1. \A i \in 0 .. n - 1 : i % HandleMod = i
  <2> SUFFICES ASSUME NEW i \in 0 .. n - 1
               PROVE  i % HandleMod = i
    BY Zenon
  <2>1. i \in 0 .. HandleMod - 1
    BY MapAssumption
  <2> QED
    BY <2>1, NextHandle, MapAssumption, Zenon
<1> QED
    BY <1>1, Zenon

(* Each step of the map is one of the table: putting a new key takes a handle  *)
(* never given out, putting a known one keeps its entry's handle, and removing *)
(* takes one entry out.                                                        *)
LEMMA TableStep ==
    ASSUME MaxPuts <= HandleMod, MapOrdered, MapOrdered', MapNext
    PROVE  Table!Next
<1> DEFINE issued == {i % HandleMod : i \in 0 .. puts - 1}
<1>1. /\ entries \in Seq(Entry) /\ Len(entries) \in Nat /\ DOMAIN entries = 1 .. Len(entries)
      /\ \A i \in DOMAIN entries : entries[i] \in Entry
      /\ puts \in Nat /\ puts <= MaxPuts /\ puts' \in Nat /\ puts' <= MaxPuts
    BY MapAssumption DEF MapOrdered
<1>2. issued = 0 .. puts - 1 /\ issued' = 0 .. puts' - 1
  <2>1. puts <= HandleMod /\ puts' <= HandleMod
    BY <1>1, MapAssumption
  <2> QED
    BY <1>1, <2>1, Issued, Zenon
<1>3. \A i, j \in DOMAIN entries : entries[i] = entries[j] => i = j
  <2> SUFFICES ASSUME NEW i \in DOMAIN entries, NEW j \in DOMAIN entries, entries[i] = entries[j]
               PROVE  i = j
    BY Zenon
  <2> QED
    BY Zenon DEF MapOrdered
<1> HIDE DEF issued
<1>4. ASSUME NEW k \in Keys, NEW v \in Values, put(k, v), indexForKey(k) = 0
      PROVE  Table!Put(k, v)
  <2> DEFINE e == [handle |-> nextHandle, key |-> k, value |-> v]
  <2>1. /\ puts < MaxPuts /\ entries' = Append(entries, e) /\ puts' = puts + 1
    BY <1>4, Zenon DEF put
  <2>2. nextHandle = puts /\ puts \in 0 .. HandleMod - 1
    BY <1>1, <2>1, MapAssumption DEF MapOrdered
  <2>3. nextHandle \in (0 .. HandleMod - 1) \ issued /\ issued' = issued \cup {nextHandle}
    BY <1>1, <1>2, <2>1, <2>2
  <2>4. \A f \in Range(entries) : f.key # k
    <3>1. 0 \notin DOMAIN entries
      BY <1>1
    <3> QED
      BY <1>4, <3>1, KeyFinds, Zenon DEF Range
  <2>5. Range(entries') = Range(entries) \cup {e}
    <3> HIDE DEF e
    <3>1. /\ DOMAIN entries' = 1 .. Len(entries) + 1 /\ entries'[Len(entries) + 1] = e
          /\ \A i \in 1 .. Len(entries) : entries'[i] = entries[i]
      BY <1>1, <2>1
    <3>2. DOMAIN entries' = DOMAIN entries \cup {Len(entries) + 1}
      BY <1>1, <3>1
    <3>3. \A i \in DOMAIN entries : entries'[i] = entries[i]
      BY <1>1, <3>1, Zenon
    <3>4. ASSUME NEW y
          PROVE  y \in Range(entries') <=> y \in Range(entries) \cup {e}
      BY <3>1, <3>2, <3>3, Zenon DEF Range
    <3> QED
      BY <3>4, Zenon
  <2> QED
    BY <2>3, <2>4, <2>5, Zenon DEF Table!Put, Table!Fresh, issued
<1>5. ASSUME NEW k \in Keys, NEW v \in Values, put(k, v), indexForKey(k) # 0
      PROVE  Table!Put(k, v)
  <2> DEFINE x == indexForKey(k)
             e == entries[x]
             f == [e EXCEPT !.value = v]
  <2>1. x \in DOMAIN entries /\ e.key = k
    BY <1>5, KeyFinds, Zenon
  <2>2. entries' = [entries EXCEPT ![x] = f] /\ puts' = puts
    BY <1>5, Zenon DEF put
  <2>3. issued' = issued
    BY <1>2, <2>2, Zenon
  <2> HIDE DEF x, f
  <2>4. e \in Range(entries)
    BY <2>1, Zenon DEF Range
  <2>5. Range(entries') = (Range(entries) \ {e}) \cup {f}
    <3>1. /\ DOMAIN entries' = DOMAIN entries /\ entries'[x] = f
          /\ \A i \in DOMAIN entries : i # x => entries'[i] = entries[i] /\ entries[i] # e
      BY <1>3, <2>1, <2>2, Zenon
    <3> QED
      BY <2>1, <3>1, Zenon DEF Range
  <2> HIDE DEF e
  <2> QED
    BY <2>1, <2>3, <2>4, <2>5, Zenon DEF Table!Put, issued, f
<1>6. ASSUME NEW x \in DOMAIN entries, remove(x)
      PROVE  \E e \in Range(entries) : Table!Remove(e)
  <2>1. /\ entries' = [j \in 1 .. Len(entries) - 1 |-> entries[IF j < x THEN j ELSE j + 1]]
        /\ puts' = puts
    BY <1>6, Zenon DEF remove
  <2>2. issued' = issued
    BY <1>2, <2>1, Zenon
  <2>3. /\ DOMAIN entries' = 1 .. Len(entries) - 1
        /\ \A j \in 1 .. Len(entries) - 1 :
               entries'[j] = IF j < x THEN entries[j] ELSE entries[j + 1]
    BY <1>1, <2>1, RemovedIs
  <2>4. \A j \in DOMAIN entries' : \E i \in DOMAIN entries : i # x /\ entries'[j] = entries[i]
    <3> SUFFICES ASSUME NEW j \in DOMAIN entries'
                 PROVE  \E i \in DOMAIN entries : i # x /\ entries'[j] = entries[i]
      BY Zenon
    <3>1. CASE j < x
      BY <1>1, <2>3, <3>1
    <3>2. CASE ~(j < x)
      <4>1. j + 1 \in DOMAIN entries /\ j + 1 # x
        BY <1>1, <2>3, <3>2
      <4>2. entries'[j] = entries[j + 1]
        BY <2>3, <3>2, Zenon
      <4> QED
        BY <4>1, <4>2, Zenon
    <3> QED
      BY <3>1, <3>2, Zenon
  <2>5. ASSUME NEW i \in DOMAIN entries, i # x
        PROVE  \E j \in DOMAIN entries' : entries'[j] = entries[i]
    <3>1. CASE i < x
      BY <1>1, <2>3, <3>1
    <3>2. CASE i > x
      <4>1. i - 1 \in DOMAIN entries' /\ ~(i - 1 < x) /\ (i - 1) + 1 = i
        BY <1>1, <2>3, <3>2
      <4> QED
        BY <2>3, <4>1, Zenon
    <3> QED
      BY <1>1, <2>5, <3>1, <3>2
  <2>6. Range(entries') = Range(entries) \ {entries[x]}
    <3>1. ASSUME NEW y \in Range(entries')
          PROVE  y \in Range(entries) \ {entries[x]}
      <4>1. PICK j \in DOMAIN entries' : y = entries'[j]
        BY Zenon DEF Range
      <4>2. PICK i \in DOMAIN entries : i # x /\ entries'[j] = entries[i]
        BY <2>4, Zenon
      <4>3. entries[i] # entries[x]
        BY <1>3, <1>6, <4>2, Zenon
      <4> QED
        BY <4>1, <4>2, <4>3, Zenon DEF Range
    <3>2. ASSUME NEW y \in Range(entries), y # entries[x]
          PROVE  y \in Range(entries')
      <4>1. PICK i \in DOMAIN entries : y = entries[i]
        BY Zenon DEF Range
      <4>2. \E j \in DOMAIN entries' : entries'[j] = entries[i]
        BY <2>5, <3>2, <4>1, Zenon
      <4> QED
        BY <4>1, <4>2, Zenon DEF Range
    <3> QED
      BY <3>1, <3>2, Zenon
  <2>7. entries[x] \in Range(entries)
    BY Zenon DEF Range
  <2> QED
    BY <2>2, <2>6, <2>7, Zenon DEF Table!Remove, issued
<1> QED
    BY <1>4, <1>5, <1>6, Zenon DEF MapNext, Table!Next

(* An empty map is an empty table. *)
LEMMA TableInit == MapInit => Table!Init
<1> SUFFICES ASSUME MapInit
             PROVE  Table!Init
    BY Zenon
<1>1. Range(entries) = {}
    BY DEF MapInit, Range
<1>2. 0 .. puts - 1 = {}
    BY DEF MapInit
<1> QED
    BY <1>1, <1>2, Zenon DEF Table!Init

(* The map implements the table of handles: an entry's handle is its own, was  *)
(* never another's and does not change, until the counter has wrapped.         *)
THEOREM Refinement ==
    ASSUME MaxPuts <= HandleMod
    PROVE  MapSpec => Table!Spec
<1>1. MapOrdered /\ MapOrdered' /\ [MapNext]_mapVars
          => [Table!Next]_<<Range(entries), {i % HandleMod : i \in 0 .. puts - 1}>>
    BY TableStep, Zenon DEF mapVars
<1> QED
    BY TableInit, <1>1, MapInvariance, PTL DEF MapSpec, Table!Spec

(* HandlesFresh: whatever changes the map is a step of the table of handles,   *)
(* put gives a new entry a handle nobody had and an old one keeps its own.     *)
THEOREM FreshHandles ==
    ASSUME MaxPuts <= HandleMod
    PROVE  MapSpec => HandlesFresh
<1>1. MapOrdered /\ MapOrdered' /\ [MapNext]_mapVars => [mapVars' # mapVars => Table!Next]_mapVars
    BY TableStep, Zenon DEF mapVars
<1> QED
    BY TableInit, <1>1, MapInvariance, PTL DEF MapSpec, HandlesFresh

(***************************************************************************)
(* The tunnels.                                                            *)
(***************************************************************************)

Connection == [number : Nat, publicKey : PublicKeys, isOutgoing : BOOLEAN, blocks : Blocks]

(* An answer has been taken for connection c, or may be at any time, if X    *)
(* are the incoming ones that answers were taken for.                        *)
Answerable(c, X) == c.isOutgoing \/ c.number \in X

(* Connection c as it is now was made as m, and has blocks of then or ones   *)
(* that its own node issued.                                                 *)
Same(c, m, X) ==
    /\ c.number = m.number /\ c.publicKey = m.publicKey /\ c.isOutgoing = m.isOutgoing
    /\ \/ c.blocks.ip4 = m.blocks.ip4
       \/ Answerable(c, X) /\ \E b \in Offers[c.publicKey] : c.blocks.ip4 = b.ip4
    /\ \/ c.blocks.ip6 = m.blocks.ip6
       \/ Answerable(c, X) /\ \E b \in Offers[c.publicKey] : c.blocks.ip6 = b.ip6

(* The connections of list are those of M, each once. *)
ListOf(list, M, X) ==
    /\ list \in Seq(Connection)
    /\ \A i, j \in DOMAIN list : list[i].number = list[j].number => i = j
    /\ \A i \in DOMAIN list : \E m \in M : Same(list[i], m, X)
    /\ \A m \in M : \E i \in DOMAIN list : Same(list[i], m, X)

Kept == {m \in made : m.number \notin removed}

(* What is known of a connection as it was made. *)
AsMade(c) ==
    /\ c.number < nextConnectionNumber
    /\ c.isOutgoing => c.blocks = NoBlocks
    /\ NoBits \notin c.blocks.ip4 \cup c.blocks.ip6

(* What holds between calls.  A request names an outgoing connection. *)
TunnelInv ==
    /\ nextConnectionNumber \in Nat
    /\ ListOf(connections, Kept, replaced)
    /\ made \subseteq Connection /\ IsFiniteSet(made)
    /\ \A c, d \in made : c.number = d.number => c = d
    /\ \A c \in made : AsMade(c)
    /\ IsFiniteSet(removed) /\ \A n \in removed : \E c \in made : c.number = n
    /\ Len(connections) = Cardinality(made) - Cardinality(removed)
    /\ \A r \in requests : \E c \in made : /\ c.isOutgoing /\ c.publicKey = r.to
                                           /\ c.number = r.number
    /\ \A g \in given : Due(g)

(* The list with a gap in it holds the connections, each once. *)
Spread(list, gap) ==
    LET places == (1 .. Len(connections) + 1) \ {gap}
    IN  /\ list = [j \in 1 .. Len(connections) + 1 |-> list[j]]
        /\ gap \in 1 .. Len(connections) + 1
        /\ \A j \in places : \E i \in DOMAIN connections : list[j] = connections[i]
        /\ \A i \in DOMAIN connections : \E j \in places : list[j] = connections[i]
        /\ \A j, k \in places : list[j].number = list[k].number => j = k

(* One round of the loop: the connection behind an incoming one moves to the *)
(* gap.                                                                      *)
MoveOnce(s, i) ==
    IF ~s.list[i].isOutgoing /\ s.gap # i + 1
    THEN [list |-> [s.list EXCEPT ![s.gap] = s.list[i + 1]], gap |-> i + 1]
    ELSE s

(* A round leaves the connections in the list. *)
LEMMA MoveSpreads ==
    ASSUME Len(connections) \in Nat, NEW s, Spread(s.list, s.gap), NEW i \in 1 .. Len(connections)
    PROVE  Spread(MoveOnce(s, i).list, MoveOnce(s, i).gap)
<1> DEFINE N == Len(connections) + 1
           l == s.list
           g == s.gap
           x == l[i + 1]
           t == [j \in 1 .. N |-> IF j = g THEN x ELSE l[j]]
<1>1. CASE ~(~s.list[i].isOutgoing /\ s.gap # i + 1)
    BY <1>1, Zenon DEF MoveOnce
<1>2. CASE ~s.list[i].isOutgoing /\ s.gap # i + 1
  <2>1. N \in Nat /\ i + 1 \in 1 .. N /\ i + 1 # g
    BY <1>2
  <2>2. /\ l = [j \in 1 .. N |-> l[j]] /\ g \in 1 .. N
        /\ \A j \in (1 .. N) \ {g} : \E k \in DOMAIN connections : l[j] = connections[k]
        /\ \A k \in DOMAIN connections : \E j \in (1 .. N) \ {g} : l[j] = connections[k]
        /\ \A j, k \in (1 .. N) \ {g} : l[j].number = l[k].number => j = k
    BY Zenon DEF Spread
  <2>3. MoveOnce(s, i).list = [l EXCEPT ![g] = x] /\ MoveOnce(s, i).gap = i + 1
    BY <1>2 DEF MoveOnce
  <2> HIDE DEF N, l, g, x
  <2>4. [l EXCEPT ![g] = x] = t
    <3>1. DOMAIN l = 1 .. N
      BY <2>2, Zenon
    <3> QED
      BY <3>1, Zenon
  <2>5. /\ t = [j \in 1 .. N |-> t[j]] /\ t[g] = x
        /\ \A j \in (1 .. N) \ {g} : t[j] = l[j]
    BY <2>2, Zenon
  <2> HIDE DEF t
  <2>6. i + 1 \in (1 .. N) \ {g} /\ x = l[i + 1]
    BY <2>1, Zenon DEF x
  <2>7. ASSUME NEW j \in (1 .. N) \ {i + 1}
        PROVE  \E k \in DOMAIN connections : t[j] = connections[k]
    <3>1. CASE j = g
      <4>1. \E k \in DOMAIN connections : x = connections[k]
        BY <2>2, <2>6, Zenon
      <4> QED
        BY <2>5, <3>1, <4>1, Zenon
    <3>2. CASE j # g
      <4>1. t[j] = l[j] /\ \E k \in DOMAIN connections : l[j] = connections[k]
        BY <2>2, <2>5, <3>2, Zenon
      <4> QED
        BY <4>1, Zenon
    <3> QED
      BY <3>1, <3>2, Zenon
  <2>8. ASSUME NEW k \in DOMAIN connections
        PROVE  \E j \in (1 .. N) \ {i + 1} : t[j] = connections[k]
    <3>1. PICK j \in (1 .. N) \ {g} : l[j] = connections[k]
      BY <2>2, Zenon
    <3>2. CASE j = i + 1
      BY <2>2, <2>5, <2>6, <3>1, <3>2, Zenon
    <3>3. CASE j # i + 1
      BY <2>5, <3>1, <3>3, Zenon
    <3> QED
      BY <3>2, <3>3, Zenon
  <2>9. ASSUME NEW j \in (1 .. N) \ {i + 1}, NEW k \in (1 .. N) \ {i + 1}, t[j].number = t[k].number
        PROVE  j = k
    <3> DEFINE jj == IF j = g THEN i + 1 ELSE j
               kk == IF k = g THEN i + 1 ELSE k
    <3>1. /\ jj \in (1 .. N) \ {g} /\ kk \in (1 .. N) \ {g}
          /\ t[j] = l[jj] /\ t[k] = l[kk]
      BY <2>5, <2>6, Zenon
    <3> HIDE DEF jj, kk
    <3>2. l[jj].number = l[kk].number
      BY <2>9, <3>1, Zenon
    <3>3. jj = kk
      BY <2>2, <3>1, <3>2, Zenon
    <3> QED
      BY <3>3, Zenon DEF jj, kk
  <2>10. Spread(t, i + 1)
    BY <2>1, <2>5, <2>7, <2>8, <2>9, Zenon DEF Spread, N
  <2> QED
    BY <2>3, <2>4, <2>10, Zenon
<1> QED
    BY <1>1, <1>2, Zenon

(* The list r is q with x at its end. *)
Extended(r, q, x) ==
    /\ Len(q) \in Nat /\ DOMAIN q = 1 .. Len(q)
    /\ r = [j \in 1 .. Len(q) + 1 |-> r[j]] /\ r[Len(q) + 1] = x
    /\ \A j \in 1 .. Len(q) : r[j] = q[j]

(* Append() puts one more at the end. *)
LEMMA AppendIs ==
    ASSUME NEW S, NEW q \in Seq(S), NEW x
    PROVE  Extended(Append(q, x), q, x)
<1> DEFINE T == S \cup {x}
<1>1. q \in Seq(T) /\ x \in T
    OBVIOUS
<1> HIDE DEF T
<1>2. /\ Append(q, x) \in Seq(T) /\ Len(Append(q, x)) = Len(q) + 1
      /\ Append(q, x)[Len(q) + 1] = x
      /\ \A j \in 1 .. Len(q) : Append(q, x)[j] = q[j]
  <2>1. Append(q, x) \in Seq(T) /\ Len(Append(q, x)) = Len(q) + 1 /\ Append(q, x)[Len(q) + 1] = x
    BY <1>1, AppendProperties, Zenon
  <2>2. ASSUME NEW j \in 1 .. Len(q)
        PROVE  Append(q, x)[j] = q[j]
    BY <1>1, <2>2, AppendProperties
  <2> QED
    BY <2>1, <2>2, Zenon
<1>3. ASSUME NEW r \in Seq(T)
      PROVE  r = [j \in 1 .. Len(r) |-> r[j]]
    OBVIOUS
<1>4. Append(q, x) = [j \in 1 .. Len(q) + 1 |-> Append(q, x)[j]]
    BY <1>2, <1>3, Zenon
<1>5. Len(q) \in Nat /\ DOMAIN q = 1 .. Len(q)
    OBVIOUS
<1> QED
    BY <1>2, <1>4, <1>5, Zenon DEF Extended

(* The loop leaves the connections in the list. *)
LEMMA GapSpreads ==
    ASSUME connections \in Seq(Connection),
           \A i, j \in DOMAIN connections : connections[i].number = connections[j].number => i = j
    PROVE  Spread(Gap.list, Gap.gap)
<1> DEFINE N == Len(connections)
           start == [list |-> Append(connections, "free"), gap |-> N + 1]
           Of(f, n) == IF n = 0 THEN start ELSE MoveOnce(f[n - 1], N + 1 - n)
           Solution(f, k) == f = [n \in 0 .. k |-> Of(f, n)]
           moved == CHOOSE f : Solution(f, N)
           S == {k \in 0 .. N : \E f : Solution(f, k)}
<1>1. N \in Nat
    OBVIOUS
<1>2. Gap = moved[N]
    BY Zenon DEF Gap, MoveOnce
<1>3. Spread(start.list, start.gap)
  <2> DEFINE l == Append(connections, "free")
  <2>1. start.list = l /\ start.gap = N + 1
    BY Zenon
  <2>2. Extended(l, connections, "free")
    BY AppendIs, Zenon
  <2>3. DOMAIN connections = 1 .. N
    BY <2>2, Zenon DEF Extended
  <2>4. l = [j \in 1 .. N + 1 |-> l[j]]
    <3> HIDE DEF l
    <3> QED
      BY <2>2, Zenon DEF Extended
  <2>5. \A j \in 1 .. N : l[j] = connections[j]
    <3> HIDE DEF l
    <3> QED
      BY <2>2, Zenon DEF Extended
  <2> HIDE DEF l, start
  <2>6. (1 .. N + 1) \ {N + 1} = 1 .. N /\ N + 1 \in 1 .. N + 1
    BY <1>1
  <2>7. \A j, k \in 1 .. N : l[j].number = l[k].number => j = k
    BY <2>3, <2>5, Zenon
  <2>8. Spread(l, N + 1)
    <3>1. \A j \in 1 .. N : \E i \in DOMAIN connections : l[j] = connections[i]
      BY <2>3, <2>5, Zenon
    <3>2. \A i \in DOMAIN connections : \E j \in 1 .. N : l[j] = connections[i]
      BY <2>3, <2>5, Zenon
    <3> QED
      BY <2>4, <2>6, <2>7, <3>1, <3>2, Zenon DEF Spread
  <2> QED
    BY <2>1, <2>8, Zenon
<1> HIDE DEF N, start
<1>4. 0 \in S
  <2> DEFINE f == [n \in 0 .. 0 |-> start]
  <2>1. \A n \in 0 .. 0 : Of(f, n) = start
    <3>1. \A n \in 0 .. 0 : n = 0
      OBVIOUS
    <3> QED
      BY <3>1, Zenon
  <2>2. Solution(f, 0)
    <3> HIDE DEF Of
    <3> QED
      BY <2>1, Zenon
  <2>3. 0 \in 0 .. N
    BY <1>1
  <2> HIDE DEF Solution, f
  <2> QED
    BY <2>2, <2>3, Zenon
<1>5. ASSUME NEW k \in 0 .. N - 1, k \in S
      PROVE  k + 1 \in S
  <2>1. PICK f : Solution(f, k)
    BY <1>5, Zenon
  <2> DEFINE g == [n \in 0 .. k + 1 |-> Of(f, n)]
  <2>2. \A n \in 0 .. k : g[n] = f[n]
    <3> HIDE DEF Of
    <3> QED
      BY <1>1, <2>1
  <2>3. \A n \in 0 .. k + 1 : Of(g, n) = Of(f, n)
    <3> HIDE DEF g
    <3>1. \A n \in 0 .. k + 1 : n # 0 => n - 1 \in 0 .. k
      BY <1>1
    <3> QED
      BY <2>2, <3>1, Zenon
  <2>4. Solution(g, k + 1)
    <3> HIDE DEF Of
    <3> QED
      BY <2>3, Zenon
  <2>5. k + 1 \in 0 .. N
    BY <1>1
  <2> HIDE DEF Solution, g
  <2> QED
    BY <2>4, <2>5, Zenon
<1>6. \E f : Solution(f, N)
  <2> HIDE DEF S
  <2>1. N \in S
    <3>1. \A k \in 0 .. N : k \in S
      BY <1>1, <1>4, <1>5, UpTo, Zenon
    <3> QED
      BY <1>1, <3>1
  <2> QED
    BY <2>1, Zenon DEF S
<1>7. Solution(moved, N)
  <2> HIDE DEF Solution
  <2> QED
    BY <1>6, Zenon DEF moved
<1> HIDE DEF moved
<1>8. \A n \in 0 .. N : moved[n] = Of(moved, n)
  <2> HIDE DEF Of
  <2> QED
    BY <1>7, Zenon
<1> HIDE DEF Solution, S
<1> DEFINE F == {k \in 0 .. N : Spread(moved[k].list, moved[k].gap)}
<1>9. 0 \in F
  <2>1. 0 \in 0 .. N
    BY <1>1
  <2>2. moved[0] = start
    BY <1>8, <2>1, Zenon
  <2> QED
    BY <1>3, <2>1, <2>2, Zenon
<1>10. ASSUME NEW k \in 0 .. N - 1, k \in F
       PROVE  k + 1 \in F
  <2>1. k + 1 \in 0 .. N /\ (k + 1) - 1 = k /\ k + 1 # 0 /\ N + 1 - (k + 1) \in 1 .. N
    BY <1>1
  <2>2. moved[k + 1] = MoveOnce(moved[k], N + 1 - (k + 1))
    <3>1. moved[k + 1] = MoveOnce(moved[(k + 1) - 1], N + 1 - (k + 1))
      BY <1>8, <2>1, Zenon
    <3> QED
      BY <2>1, <3>1, Zenon
  <2>3. Spread(moved[k].list, moved[k].gap)
    BY <1>10, Zenon
  <2>4. Spread(MoveOnce(moved[k], N + 1 - (k + 1)).list, MoveOnce(moved[k], N + 1 - (k + 1)).gap)
    <3>1. Len(connections) \in Nat /\ N + 1 - (k + 1) \in 1 .. Len(connections)
      BY <1>1, <2>1, Zenon DEF N
    <3> QED
      BY <2>3, <3>1, MoveSpreads, Zenon
  <2> QED
    BY <2>1, <2>2, <2>4, Zenon
<1>11. N \in F
  <2> HIDE DEF F
  <2>1. \A k \in 0 .. N : k \in F
    BY <1>1, <1>9, <1>10, UpTo, Zenon
  <2> QED
    BY <1>1, <2>1
<1> QED
    BY <1>2, <1>11, Zenon

(* A new connection joins the others in the list. *)
LEMMA NewListed ==
    ASSUME NEW M, NEW X, M \subseteq Connection, ListOf(connections, M, X), NEW conn \in Connection,
           Same(conn, conn, X), \A m \in M : m.number # conn.number
    PROVE  /\ ListOf(newConnection(conn), M \cup {conn}, X)
           /\ Len(newConnection(conn)) = Len(connections) + 1
<1> DEFINE N == Len(connections) + 1
           l == newConnection(conn)
<1>1. /\ Len(connections) \in Nat /\ N \in Nat /\ DOMAIN connections = 1 .. Len(connections)
      /\ connections = [i \in 1 .. Len(connections) |-> connections[i]]
      /\ \A i \in DOMAIN connections : connections[i] \in Connection
    BY DEF ListOf
<1>2. /\ \A i, j \in DOMAIN connections : connections[i].number = connections[j].number => i = j
      /\ \A i \in DOMAIN connections : \E m \in M : Same(connections[i], m, X)
      /\ \A m \in M : \E i \in DOMAIN connections : Same(connections[i], m, X)
    BY Zenon DEF ListOf
<1>3. \E list, gap : Spread(list, gap) /\ l = [list EXCEPT ![gap] = conn]
  <2>1. CASE conn.isOutgoing
    <3> DEFINE list == Append(connections, conn)
    <3>1. connections \in Seq(Connection)
      BY Zenon DEF ListOf
    <3>2. l = list
      BY <2>1, Zenon DEF newConnection
    <3>3. Extended(list, connections, conn)
      BY <3>1, AppendIs, Zenon
    <3> HIDE DEF list
    <3>4. /\ list = [j \in 1 .. N |-> list[j]] /\ list[N] = conn
          /\ \A j \in 1 .. Len(connections) : list[j] = connections[j]
      BY <3>3, Zenon DEF Extended
    <3>5. (1 .. N) \ {N} = 1 .. Len(connections) /\ N \in 1 .. N
      BY <1>1
    <3>6. [list EXCEPT ![N] = conn] = list
      BY <3>4, Zenon
    <3>7. \A j, k \in 1 .. Len(connections) : list[j].number = list[k].number => j = k
      BY <1>1, <1>2, <3>4, Zenon
    <3>8. \A j \in 1 .. Len(connections) : \E i \in DOMAIN connections : list[j] = connections[i]
      BY <1>1, <3>4, Zenon
    <3>9. \A i \in DOMAIN connections : \E j \in 1 .. Len(connections) : list[j] = connections[i]
      BY <1>1, <3>4, Zenon
    <3>10. Spread(list, N)
      BY <3>4, <3>5, <3>7, <3>8, <3>9, Zenon DEF Spread
    <3> QED
      BY <3>2, <3>6, <3>10, Zenon
  <2>2. CASE ~conn.isOutgoing
    <3>1. l = [Gap.list EXCEPT ![Gap.gap] = conn]
      BY <2>2, Zenon DEF newConnection
    <3>2. Spread(Gap.list, Gap.gap)
      BY <1>2, GapSpreads, Zenon DEF ListOf
    <3> QED
      BY <3>1, <3>2, Zenon
  <2> QED
    BY <2>1, <2>2, Zenon
<1>4. PICK list, gap : Spread(list, gap) /\ l = [list EXCEPT ![gap] = conn]
    BY <1>3, Zenon
<1> HIDE DEF l
<1> DEFINE P == (1 .. N) \ {gap}
<1>5. /\ list = [j \in 1 .. N |-> list[j]] /\ gap \in 1 .. N
      /\ \A j \in P : \E i \in DOMAIN connections : list[j] = connections[i]
      /\ \A i \in DOMAIN connections : \E j \in P : list[j] = connections[i]
      /\ \A j, k \in P : list[j].number = list[k].number => j = k
    BY <1>4, Zenon DEF Spread
<1>6. DOMAIN l = 1 .. N /\ l[gap] = conn /\ (\A j \in P : l[j] = list[j])
      /\ l = [j \in 1 .. N |-> l[j]]
    BY <1>4, <1>5, Zenon
<1>7. \A j \in 1 .. N : j = gap \/ j \in P
    BY Zenon
<1> HIDE DEF N, P
<1>8. ASSUME NEW j \in P
      PROVE  \E i \in DOMAIN connections : l[j] = connections[i]
  <2>1. l[j] = list[j] /\ \E i \in DOMAIN connections : list[j] = connections[i]
    BY <1>5, <1>6, Zenon
  <2> QED
    BY <2>1, Zenon
<1>9. \A j \in 1 .. N : l[j] \in Connection
    BY <1>1, <1>6, <1>7, <1>8, Zenon
<1>10. l \in Seq(Connection) /\ Len(l) = N
  <2>1. l \in [1 .. N -> Connection]
    BY <1>6, <1>9, Zenon
  <2> QED
    BY <1>1, <2>1
<1>11. \A j \in P : \E m \in M : Same(l[j], m, X)
    BY <1>2, <1>8, Zenon
<1>12. \A j \in P : l[j].number # conn.number
    BY <1>11, Zenon DEF Same
<1>13. ASSUME NEW j \in P, NEW k \in P, l[j].number = l[k].number
       PROVE  j = k
  <2>1. l[j] = list[j] /\ l[k] = list[k]
    BY <1>6, Zenon
  <2>2. list[j].number = list[k].number
    BY <1>13, <2>1, Zenon
  <2> QED
    BY <1>5, <2>2, Zenon
<1>14. ASSUME NEW j \in 1 .. N, NEW k \in 1 .. N, l[j].number = l[k].number
       PROVE  j = k
    BY <1>6, <1>7, <1>12, <1>13, <1>14, Zenon
<1>15. \A j \in 1 .. N : \E m \in M \cup {conn} : Same(l[j], m, X)
    BY <1>6, <1>7, <1>11, Zenon
<1>16. ASSUME NEW m \in M \cup {conn}
       PROVE  \E j \in 1 .. N : Same(l[j], m, X)
  <2>1. CASE m = conn
    BY <1>5, <1>6, <2>1, Zenon
  <2>2. CASE m \in M
    <3>1. PICK i \in DOMAIN connections : Same(connections[i], m, X)
      BY <1>2, <2>2, Zenon
    <3>2. PICK j \in P : list[j] = connections[i]
      BY <1>5, Zenon
    <3>3. l[j] = connections[i] /\ j \in 1 .. N
      BY <1>6, <3>2, Zenon DEF P
    <3> QED
      BY <3>1, <3>3, Zenon
  <2> QED
    BY <2>1, <2>2, Zenon
<1>17. ListOf(l, M \cup {conn}, X)
    BY <1>6, <1>10, <1>14, <1>15, <1>16, Zenon DEF ListOf
<1> QED
    BY <1>10, <1>17, Zenon DEF l, N

(* A connection that is deleted leaves the list, and no other does. *)
LEMMA DeleteListed ==
    ASSUME NEW M, NEW X, ListOf(connections, M, X), NEW i \in DOMAIN connections
    PROVE  /\ ListOf(deleteConnection(i), {m \in M : m.number # connections[i].number}, X)
           /\ Len(deleteConnection(i)) = Len(connections) - 1
<1> DEFINE N == Len(connections)
           l == deleteConnection(i)
           Old(j) == IF j < i THEN j ELSE j + 1
           R == {m \in M : m.number # connections[i].number}
<1>1. /\ connections \in Seq(Connection)
      /\ \A j, k \in DOMAIN connections : connections[j].number = connections[k].number => j = k
      /\ \A j \in DOMAIN connections : \E m \in M : Same(connections[j], m, X)
      /\ \A m \in M : \E j \in DOMAIN connections : Same(connections[j], m, X)
    BY Zenon DEF ListOf
<1>2. N \in Nat /\ DOMAIN connections = 1 .. N /\ i \in 1 .. N
    BY <1>1
<1>3. /\ l \in Seq(Connection) /\ DOMAIN l = 1 .. N - 1
      /\ \A j \in 1 .. N - 1 : l[j] = IF j < i THEN connections[j] ELSE connections[j + 1]
  <2>1. l = [j \in 1 .. N - 1 |-> connections[IF j < i THEN j ELSE j + 1]]
    BY Zenon DEF deleteConnection
  <2> HIDE DEF l
  <2>2. l \in Seq(Connection)
    <3>1. \A j \in 1 .. N - 1 : connections[IF j < i THEN j ELSE j + 1] \in Connection
      <4> HIDE DEF Connection
      <4> QED
        BY <1>1, <1>2
    <3> QED
      BY <1>2, <2>1, <3>1
  <2>3. \A j \in 1 .. N - 1 : l[j] = IF j < i THEN connections[j] ELSE connections[j + 1]
    BY <2>1, Zenon
  <2> QED
    BY <2>1, <2>2, <2>3, Zenon
<1> HIDE DEF N, l
<1>4. \A j \in 1 .. N - 1 : Old(j) \in 1 .. N /\ Old(j) # i /\ l[j] = connections[Old(j)]
  <2> SUFFICES ASSUME NEW j \in 1 .. N - 1
               PROVE  Old(j) \in 1 .. N /\ Old(j) # i /\ l[j] = connections[Old(j)]
    BY Zenon
  <2>1. Old(j) \in 1 .. N /\ Old(j) # i
    BY <1>2
  <2>2. l[j] = connections[Old(j)]
    BY <1>3, Zenon
  <2> QED
    BY <2>1, <2>2, Zenon
<1>5. \A j, k \in 1 .. N - 1 : Old(j) = Old(k) => j = k
    BY <1>2
<1>6. \A k \in 1 .. N : k # i => \E j \in 1 .. N - 1 : Old(j) = k
  <2> SUFFICES ASSUME NEW k \in 1 .. N, k # i
               PROVE  \E j \in 1 .. N - 1 : Old(j) = k
    BY Zenon
  <2> DEFINE j == IF k < i THEN k ELSE k - 1
  <2>1. j \in 1 .. N - 1 /\ Old(j) = k
    BY <1>2
  <2> QED
    BY <2>1, Zenon
<1> HIDE DEF Old
<1>7. ASSUME NEW j \in 1 .. N - 1, NEW k \in 1 .. N - 1, l[j].number = l[k].number
      PROVE  j = k
  <2>1. connections[Old(j)].number = connections[Old(k)].number
    BY <1>4, <1>7, Zenon
  <2>2. Old(j) = Old(k)
    BY <1>1, <1>2, <1>4, <2>1, Zenon
  <2> QED
    BY <1>5, <2>2, Zenon
<1>8. ASSUME NEW j \in 1 .. N - 1
      PROVE  \E m \in R : Same(l[j], m, X)
  <2>1. PICK m \in M : Same(connections[Old(j)], m, X)
    BY <1>1, <1>2, <1>4, Zenon
  <2>2. connections[Old(j)].number # connections[i].number
    BY <1>1, <1>2, <1>4, Zenon
  <2>3. m.number # connections[i].number
    BY <2>1, <2>2, Zenon DEF Same
  <2>4. l[j] = connections[Old(j)]
    BY <1>4, Zenon
  <2> QED
    BY <2>1, <2>3, <2>4, Zenon
<1>9. ASSUME NEW m \in R
      PROVE  \E j \in 1 .. N - 1 : Same(l[j], m, X)
  <2>1. PICK k \in 1 .. N : Same(connections[k], m, X)
    BY <1>1, <1>2, Zenon
  <2>2. k # i
    BY <2>1, Zenon DEF Same
  <2>3. PICK j \in 1 .. N - 1 : Old(j) = k
    BY <1>6, <2>2, Zenon
  <2>4. l[j] = connections[k]
    BY <1>4, <2>3, Zenon
  <2> QED
    BY <2>1, <2>4, Zenon
<1>10. ListOf(l, R, X)
  <2> HIDE DEF R
  <2> QED
    BY <1>3, <1>7, <1>8, <1>9, Zenon DEF ListOf
<1>11. Len(l) = N - 1
    BY <1>2, <1>3
<1> QED
    BY <1>10, <1>11, Zenon DEF l, N

(* FirstOf() returns a place if there is one. *)
LEMMA FirstIs ==
    ASSUME NEW places, places \subseteq Nat
    PROVE  FirstOf(places) # 0 => FirstOf(places) \in places
<1>1. places # {} => \E i \in places : \A j \in places : i <= j
    BY NatLeast, Zenon
<1> QED
    BY <1>1, Zenon DEF FirstOf

(* A connection has blocks of old or ones that its node issued. *)
Renewed(old, new, k) ==
    /\ new.ip4 = old.ip4 \/ \E b \in Offers[k] : new.ip4 = b.ip4
    /\ new.ip6 = old.ip6 \/ \E b \in Offers[k] : new.ip6 = b.ip6

(* A list stays one of the same connections when more are answered for. *)
LEMMA MoreAnswered ==
    ASSUME NEW M, NEW Y, NEW X, Y \subseteq X, ListOf(connections, M, Y)
    PROVE  ListOf(connections, M, X)
<1>1. \A c, m : Same(c, m, Y) => Same(c, m, X)
    BY Zenon DEF Same, Answerable
<1> QED
    BY <1>1, Zenon DEF ListOf

(* What a connection is issued in an answer replaces what it had. *)
LEMMA AnswerListed ==
    ASSUME NEW M, NEW X, ListOf(connections, M, X),
           NEW i \in DOMAIN connections, Answerable(connections[i], X),
           NEW blocks \in Blocks,
           Renewed(connections[i].blocks, blocks, connections[i].publicKey)
    PROVE  /\ ListOf([connections EXCEPT ![i].blocks = blocks], M, X)
           /\ Len([connections EXCEPT ![i].blocks = blocks]) = Len(connections)
<1> DEFINE l == [connections EXCEPT ![i].blocks = blocks]
           c == [connections[i] EXCEPT !.blocks = blocks]
<1>1. /\ connections \in Seq(Connection)
      /\ \A j, k \in DOMAIN connections : connections[j].number = connections[k].number => j = k
      /\ \A j \in DOMAIN connections : \E m \in M : Same(connections[j], m, X)
      /\ \A m \in M : \E j \in DOMAIN connections : Same(connections[j], m, X)
    BY Zenon DEF ListOf
<1>2. connections[i] \in Connection
    BY <1>1
<1>3. /\ c \in Connection /\ c.number = connections[i].number
      /\ c.publicKey = connections[i].publicKey /\ c.isOutgoing = connections[i].isOutgoing
      /\ c.blocks = blocks
    BY <1>2 DEF Connection
<1>4. l \in Seq(Connection) /\ DOMAIN l = DOMAIN connections /\ Len(l) = Len(connections)
      /\ l[i] = c /\ \A j \in DOMAIN connections : j # i => l[j] = connections[j]
  <2> HIDE DEF c
  <2>1. l = [connections EXCEPT ![i] = c]
    BY Zenon DEF c
  <2> HIDE DEF l, Connection
  <2> QED
    BY <1>1, <1>3, <2>1
<1> HIDE DEF l, c
<1>5. \A m : Same(connections[i], m, X) => Same(c, m, X)
    BY <1>3, Zenon DEF Same, Renewed, Answerable
<1>6. \A j \in DOMAIN connections : l[j].number = connections[j].number
    BY <1>3, <1>4, Zenon
<1>7. ASSUME NEW j \in DOMAIN connections, NEW m, Same(connections[j], m, X)
      PROVE  Same(l[j], m, X)
    BY <1>4, <1>5, <1>7, Zenon
<1>8. \A j, k \in DOMAIN l : l[j].number = l[k].number => j = k
    BY <1>1, <1>4, <1>6, Zenon
<1>9. \A j \in DOMAIN l : \E m \in M : Same(l[j], m, X)
    BY <1>1, <1>4, <1>7, Zenon
<1>10. \A m \in M : \E j \in DOMAIN l : Same(l[j], m, X)
    BY <1>1, <1>4, <1>7, Zenon
<1>11. ListOf(l, M, X)
    BY <1>4, <1>8, <1>9, <1>10, Zenon DEF ListOf
<1> QED
    BY <1>4, <1>11, Zenon DEF l

-----------------------------------------------------------------------------
(* The calls. *)

(* A connection is made. *)
LEMMA MakeStep ==
    ASSUME TunnelInv, NEW k \in PublicKeys, NEW out \in BOOLEAN, NEW blocks \in Blocks,
           out => blocks = NoBlocks, NoBits \notin blocks.ip4 \cup blocks.ip6,
           Make(k, out, blocks), removed' = removed, given' = given, replaced' = replaced,
           \/ requests' = requests
           \/ out /\ requests' = requests \cup {[to |-> k, number |-> nextConnectionNumber]}
    PROVE  TunnelInv'
<1> DEFINE n == nextConnectionNumber
           conn == [number |-> n, publicKey |-> k, isOutgoing |-> out, blocks |-> blocks]
<1>1. /\ n \in Nat /\ ListOf(connections, Kept, replaced)
      /\ made \subseteq Connection /\ IsFiniteSet(made)
      /\ \A c, d \in made : c.number = d.number => c = d
      /\ \A c \in made : AsMade(c)
      /\ IsFiniteSet(removed) /\ \A x \in removed : \E c \in made : c.number = x
      /\ Len(connections) = Cardinality(made) - Cardinality(removed)
    BY Zenon DEF TunnelInv
<1>2. /\ \A r \in requests : \E c \in made : /\ c.isOutgoing /\ c.publicKey = r.to
                                            /\ c.number = r.number
      /\ \A g \in given : Due(g)
    BY Zenon DEF TunnelInv
<1>3. /\ connections' = newConnection(conn) /\ nextConnectionNumber' = n + 1
      /\ made' = made \cup {conn}
    BY Zenon DEF Make
<1>4. /\ conn \in Connection /\ conn.number = n /\ conn.publicKey = k /\ conn.isOutgoing = out
      /\ conn.blocks = blocks
    BY <1>1 DEF Connection
<1> HIDE DEF conn, n
<1>5. Same(conn, conn, replaced)
    BY Zenon DEF Same
<1>6. \A c \in made : c.number \in Nat /\ c.number # n
  <2>1. \A c \in made : c.number \in Nat /\ c.number < n
    BY <1>1, Zenon DEF Connection, AsMade, n
  <2> QED
    BY <1>1, <2>1
<1>7. conn \notin made /\ n \notin removed
    BY <1>1, <1>4, <1>6, Zenon
<1>8. Kept' = Kept \cup {conn}
  <2>1. Kept' = {m \in made' : m.number \notin removed'}
    BY Zenon DEF Kept
  <2>2. \A m : m \in Kept' <=> m \in made \cup {conn} /\ m.number \notin removed
    BY <1>3, <2>1, Zenon
  <2> QED
    BY <1>4, <1>7, <2>2, Zenon DEF Kept
<1>9. ListOf(connections', Kept', replaced') /\ Len(connections') = Len(connections) + 1
  <2>1. Kept \subseteq Connection /\ \A m \in Kept : m.number # conn.number
    BY <1>1, <1>4, <1>6, Zenon DEF Kept
  <2> QED
    BY <1>1, <1>3, <1>4, <1>5, <1>8, <2>1, NewListed, Zenon
<1>10. IsFiniteSet(made') /\ Cardinality(made') = Cardinality(made) + 1
    BY <1>1, <1>3, <1>7, FS_AddElement, Zenon
<1>11. Cardinality(made) \in Nat /\ Cardinality(removed) \in Nat /\ Len(connections) \in Nat
  <2>1. Len(connections) \in Nat
    BY <1>1 DEF ListOf
  <2> QED
    BY <1>1, <2>1, FS_CardinalityType, Zenon
<1>12. Len(connections') = Cardinality(made') - Cardinality(removed')
  <2>1. Cardinality(removed') = Cardinality(removed)
    BY Zenon
  <2> QED
    BY <1>1, <1>9, <1>10, <1>11, <2>1
<1>13. made' \subseteq Connection /\ \A c, d \in made' : c.number = d.number => c = d
    BY <1>1, <1>3, <1>4, <1>6, Zenon
<1>14. ASSUME NEW c \in made'
       PROVE  AsMade(c)'
  <2>1. CASE c = conn
    <3>1. n < n + 1
      BY <1>1
    <3> QED
      BY <1>3, <1>4, <2>1, <3>1, Zenon DEF AsMade
  <2>2. CASE c \in made
    <3>1. AsMade(c) /\ c.number \in Nat
      BY <1>1, <1>6, <2>2, Zenon
    <3>2. c.number < n + 1
      BY <1>1, <3>1 DEF AsMade, n
    <3> QED
      BY <1>3, <3>1, <3>2, Zenon DEF AsMade
  <2> QED
    BY <1>3, <2>1, <2>2, Zenon
<1>15. \A x \in removed' : \E c \in made' : c.number = x
    BY <1>1, <1>3, Zenon
<1>16. ASSUME NEW r \in requests'
       PROVE  \E c \in made' : c.isOutgoing /\ c.publicKey = r.to /\ c.number = r.number
  <2>1. CASE r \in requests
    BY <1>2, <1>3, <2>1, Zenon
  <2>2. CASE out /\ r = [to |-> k, number |-> n]
    <3>1. r.to = k /\ r.number = n
      BY <2>2
    <3> QED
      BY <1>3, <1>4, <2>2, <3>1, Zenon
  <2> QED
    BY <1>16, <2>1, <2>2, Zenon DEF n
<1>17. \A g \in given' : Due(g)'
    BY <1>2, <1>3, Zenon DEF Due
<1>18. nextConnectionNumber' \in Nat /\ IsFiniteSet(removed')
    BY <1>1, <1>3
<1> QED
    BY <1>9, <1>10, <1>12, <1>13, <1>14, <1>15, <1>16, <1>17, <1>18, Zenon DEF TunnelInv

(* A connection is removed. *)
LEMMA RemoveStep ==
    ASSUME TunnelInv, NEW i \in DOMAIN connections, IpTunnel_removeConnection(i)
    PROVE  TunnelInv'
<1> DEFINE x == connections[i].number
<1>1. /\ ListOf(connections, Kept, replaced) /\ IsFiniteSet(made)
      /\ IsFiniteSet(removed) /\ \A y \in removed : \E c \in made : c.number = y
      /\ Len(connections) = Cardinality(made) - Cardinality(removed)
    BY Zenon DEF TunnelInv
<1>2. /\ connections' = deleteConnection(i) /\ removed' = removed \cup {x}
      /\ UNCHANGED <<nextConnectionNumber, requests, given, made, replaced>>
    BY Zenon DEF IpTunnel_removeConnection
<1>3. /\ UNCHANGED nextConnectionNumber /\ UNCHANGED requests /\ UNCHANGED given /\ made' = made
      /\ replaced' = replaced
    BY <1>2, Zenon
<1>4. \E m \in made : m.number = x /\ x \notin removed
  <2>1. \E m \in Kept : Same(connections[i], m, replaced)
    BY <1>1, Zenon DEF ListOf
  <2> QED
    BY <2>1, Zenon DEF Same, Kept
<1>5. ListOf(deleteConnection(i), {m \in Kept : m.number # x}, replaced)
      /\ Len(deleteConnection(i)) = Len(connections) - 1
    BY <1>1, DeleteListed, Zenon
<1> HIDE DEF x
<1>6. Kept' = {m \in Kept : m.number # x}
  <2>1. Kept' = {m \in made' : m.number \notin removed'}
    BY Zenon DEF Kept
  <2>2. \A m : m \in Kept' <=> m \in made /\ m.number \notin removed \cup {x}
    BY <1>2, <1>3, <2>1, Zenon
  <2>3. \A m : m \in Kept <=> m \in made /\ m.number \notin removed
    BY Zenon DEF Kept
  <2> QED
    BY <2>2, <2>3, Zenon
<1>7. IsFiniteSet(removed') /\ Cardinality(removed') = Cardinality(removed) + 1
    BY <1>1, <1>2, <1>4, FS_AddElement, Zenon
<1>8. Len(connections') = Cardinality(made') - Cardinality(removed')
  <2>1. Cardinality(made) \in Nat /\ Cardinality(removed) \in Nat
    BY <1>1, FS_CardinalityType, Zenon
  <2>2. Len(connections') = Len(connections) - 1 /\ Cardinality(made') = Cardinality(made)
    BY <1>2, <1>3, <1>5, Zenon
  <2> QED
    BY <1>1, <1>7, <2>1, <2>2
<1>9. \A y \in removed' : \E c \in made' : c.number = y
    BY <1>1, <1>2, <1>3, <1>4, Zenon
<1>10. ListOf(connections', Kept', replaced')
    BY <1>2, <1>3, <1>5, <1>6, Zenon
<1>11. \A g \in given' : Due(g)'
    BY <1>3, Zenon DEF TunnelInv, Due
<1>12. \A c \in made' : AsMade(c)'
    BY <1>3, Zenon DEF TunnelInv, AsMade
<1> QED
    BY <1>3, <1>7, <1>8, <1>9, <1>10, <1>11, <1>12, Zenon DEF TunnelInv

(* An answer comes in, of node k and with any number. *)
LEMMA AnswerStep ==
    ASSUME TunnelInv, NEW k \in PublicKeys, NEW number, NEW b \in Offers[k],
           incomingAddresses(k, number, b)
    PROVE  TunnelInv'
<1> DEFINE i == Answered(k, number)
           named == FirstOf({j \in DOMAIN connections : connections[j].number = number})
           first == FirstOf({j \in DOMAIN connections : connections[j].publicKey = k})
           old == connections[i].blocks
           new == [ip4 |-> IF b.ip4 # {} THEN b.ip4 ELSE old.ip4,
                   ip6 |-> IF b.ip6 # {} THEN b.ip6 ELSE old.ip6]
<1>1. ListOf(connections, Kept, replaced)
    BY Zenon DEF TunnelInv
<1>2. /\ i # 0 /\ connections' = [connections EXCEPT ![i].blocks = new]
      /\ replaced' = replaced \cup {n \in {number} : ~connections[i].isOutgoing}
      /\ UNCHANGED <<nextConnectionNumber, requests, given, made, removed>>
    BY Zenon DEF incomingAddresses
<1>3. /\ UNCHANGED nextConnectionNumber /\ UNCHANGED requests /\ UNCHANGED given
      /\ made' = made /\ removed' = removed
    BY <1>2, Zenon
<1>4. connections \in Seq(Connection)
    BY <1>1, Zenon DEF ListOf
<1>5. DOMAIN connections \subseteq Nat
    BY <1>4
<1>6. /\ first # 0 => first \in DOMAIN connections /\ connections[first].publicKey = k
      /\ named # 0 => named \in DOMAIN connections /\ connections[named].number = number
  <2>1. ASSUME NEW T, T \subseteq DOMAIN connections
        PROVE  FirstOf(T) # 0 => FirstOf(T) \in T
    BY <1>5, <2>1, FirstIs, Zenon
  <2> QED
    BY <2>1, Zenon
<1>7. \/ i = 0
      \/ i = first /\ first # 0 /\ connections[first].isOutgoing
      \/ i = named /\ named # 0 /\ connections[named].publicKey = k
    BY Zenon DEF Answered, connectionByPubKey
<1> HIDE DEF i, named, first
<1>8. /\ i \in DOMAIN connections /\ connections[i].publicKey = k
      /\ connections[i].isOutgoing \/ connections[i].number = number
    BY <1>2, <1>6, <1>7, Zenon
<1>9. replaced \subseteq replaced' /\ Answerable(connections[i], replaced')
    BY <1>2, <1>8, Zenon DEF Answerable
<1>10. b \in Blocks /\ old \in Blocks
  <2>1. b \in Blocks
    BY TunnelAssumption, Zenon
  <2>2. connections[i] \in Connection
    BY <1>4, <1>8
  <2> QED
    BY <2>1, <2>2, Zenon DEF Connection
<1> HIDE DEF old
<1>11. new \in Blocks /\ new.ip4 = (IF b.ip4 # {} THEN b.ip4 ELSE old.ip4)
       /\ new.ip6 = (IF b.ip6 # {} THEN b.ip6 ELSE old.ip6)
    BY <1>10 DEF Blocks
<1> HIDE DEF new
<1>12. Renewed(connections[i].blocks, new, connections[i].publicKey)
  <2>1. Renewed(old, new, k)
    BY <1>11, Zenon DEF Renewed
  <2> QED
    BY <1>8, <2>1, Zenon DEF old
<1>13. ListOf(connections', Kept, replaced') /\ Len(connections') = Len(connections)
  <2>1. i \in DOMAIN connections /\ new \in Blocks
    BY <1>8, <1>11, Zenon
  <2>2. ListOf(connections, Kept, replaced') /\ Answerable(connections[i], replaced')
    BY <1>1, <1>9, MoreAnswered, Zenon
  <2>3. /\ ListOf([connections EXCEPT ![i].blocks = new], Kept, replaced')
        /\ Len([connections EXCEPT ![i].blocks = new]) = Len(connections)
    BY <1>12, <2>1, <2>2, AnswerListed, Zenon
  <2>4. connections' = [connections EXCEPT ![i].blocks = new]
    BY <1>2, Zenon
  <2> QED
    BY <2>3, <2>4, Zenon
<1>14. Kept' = Kept
    BY <1>3, Zenon DEF Kept
<1>15. \A g \in given' : Due(g)'
    BY <1>3, <1>9, Zenon DEF TunnelInv, Due
<1> QED
    BY <1>3, <1>13, <1>14, <1>15, Zenon DEF TunnelInv, AsMade

(* A node is answered with what it was issued. *)
LEMMA GiveStep ==
    ASSUME TunnelInv, NEW k \in PublicKeys, requestForAddresses(k)
    PROVE  TunnelInv'
<1> DEFINE i == connectionByPubKey(k)
<1>1. /\ i # 0 /\ ~connections[i].isOutgoing
      /\ given' = given \cup {[to |-> k, blocks |-> connections[i].blocks]}
      /\ UNCHANGED <<connections, nextConnectionNumber, requests, made, removed, replaced>>
    BY Zenon DEF requestForAddresses
<1>2. /\ connections' = connections /\ UNCHANGED nextConnectionNumber /\ UNCHANGED requests
      /\ made' = made /\ removed' = removed /\ replaced' = replaced
    BY <1>1, Zenon
<1>3. /\ connections \in Seq(Connection)
      /\ \A j \in DOMAIN connections : \E m \in Kept : Same(connections[j], m, replaced)
    BY Zenon DEF TunnelInv, ListOf
<1>4. i \in DOMAIN connections /\ connections[i].publicKey = k
  <2>1. DOMAIN connections \subseteq Nat
    BY <1>3
  <2> QED
    BY <1>1, <2>1, FirstIs, Zenon DEF connectionByPubKey
<1> HIDE DEF i
<1>5. Due([to |-> k, blocks |-> connections[i].blocks])
  <2>1. PICK m \in Kept : Same(connections[i], m, replaced)
    BY <1>3, <1>4, Zenon
  <2>2. m \in made /\ ~m.isOutgoing /\ m.publicKey = k /\ m.number = connections[i].number
    BY <1>1, <1>4, <2>1, Zenon DEF Same, Kept
  <2>3. /\ \/ connections[i].blocks.ip4 = m.blocks.ip4
           \/ m.number \in replaced /\ \E b \in Offers[k] : connections[i].blocks.ip4 = b.ip4
        /\ \/ connections[i].blocks.ip6 = m.blocks.ip6
           \/ m.number \in replaced /\ \E b \in Offers[k] : connections[i].blocks.ip6 = b.ip6
    BY <1>1, <1>4, <2>1, <2>2, Zenon DEF Same, Answerable
  <2> DEFINE g == [to |-> k, blocks |-> connections[i].blocks]
  <2>4. g.to = k /\ g.blocks = connections[i].blocks
    BY Zenon
  <2> HIDE DEF g
  <2> QED
    BY <2>2, <2>3, <2>4, Zenon DEF Due, g
<1>6. ASSUME NEW g \in given'
      PROVE  Due(g)'
  <2>1. Due(g)
    BY <1>1, <1>5, Zenon DEF TunnelInv
  <2> QED
    BY <1>2, <2>1, Zenon DEF Due
<1>7. Kept' = Kept
    BY <1>2, Zenon DEF Kept
<1> QED
    BY <1>2, <1>6, <1>7, Zenon DEF TunnelInv, AsMade

(* A connection without addresses is asked for once more. *)
LEMMA PollStep ==
    ASSUME TunnelInv, NEW i \in DOMAIN connections, timeout(i)
    PROVE  TunnelInv'
<1> DEFINE c == connections[i]
<1>1. /\ c.isOutgoing /\ requests' = requests \cup {[to |-> c.publicKey, number |-> c.number]}
      /\ UNCHANGED <<connections, nextConnectionNumber, given, made, removed, replaced>>
    BY Zenon DEF timeout
<1>2. /\ connections' = connections /\ nextConnectionNumber' = nextConnectionNumber
      /\ given' = given /\ made' = made /\ removed' = removed /\ replaced' = replaced
    BY <1>1, Zenon
<1>3. PICK m \in made : Same(c, m, replaced)
    BY Zenon DEF TunnelInv, ListOf, Kept
<1>4. m.publicKey = c.publicKey /\ m.number = c.number /\ m.isOutgoing
    BY <1>1, <1>3, Zenon DEF Same
<1> HIDE DEF c
<1>5. ASSUME NEW r \in requests'
      PROVE  \E d \in made' : d.isOutgoing /\ d.publicKey = r.to /\ d.number = r.number
  <2>1. CASE r \in requests
    BY <1>2, <2>1, Zenon DEF TunnelInv
  <2>2. CASE r = [to |-> c.publicKey, number |-> c.number]
    <3>1. r.to = c.publicKey /\ r.number = c.number
      BY <2>2
    <3> QED
      BY <1>2, <1>4, <3>1, Zenon
  <2> QED
    BY <1>1, <2>1, <2>2, Zenon
<1>6. Kept' = Kept
    BY <1>2, Zenon DEF Kept
<1> QED
    BY <1>2, <1>5, <1>6, Zenon DEF TunnelInv, AsMade, Due

(* Without connections TunnelInv holds. *)
LEMMA TunnelInitInv == TunnelInit => TunnelInv
<1> SUFFICES ASSUME TunnelInit
             PROVE  TunnelInv
    BY Zenon
<1>1. /\ connections = <<>> /\ nextConnectionNumber = 0 /\ requests = {} /\ given = {}
      /\ made = {} /\ removed = {} /\ replaced = {}
    BY Zenon DEF TunnelInit
<1>2. ListOf(connections, Kept, replaced)
  <2>1. connections \in Seq(Connection) /\ DOMAIN connections = {} /\ Kept = {}
    BY <1>1 DEF Kept
  <2> QED
    BY <2>1, Zenon DEF ListOf
<1>3. Len(connections) = Cardinality(made) - Cardinality(removed)
  <2>1. Cardinality(made) = 0 /\ Cardinality(removed) = 0 /\ Len(connections) = 0
    BY <1>1, FS_EmptySet
  <2> QED
    BY <2>1
<1>4. IsFiniteSet(made) /\ IsFiniteSet(removed) /\ nextConnectionNumber \in Nat
    BY <1>1, FS_EmptySet
<1> QED
    BY <1>1, <1>2, <1>3, <1>4, Zenon DEF TunnelInv

(* Every call preserves TunnelInv. *)
LEMMA TunnelNextInv == TunnelInv /\ [TunnelNext]_tunnelVars => TunnelInv'
<1> SUFFICES ASSUME TunnelInv, [TunnelNext]_tunnelVars
             PROVE  TunnelInv'
    BY Zenon
<1>1. ASSUME NEW k \in PublicKeys, NEW b \in Issues[k], IpTunnel_allowConnection(k, b)
      PROVE  TunnelInv'
  <2>1. /\ Make(k, FALSE, b) /\ UNCHANGED <<requests, given, removed, replaced>>
    BY <1>1, Zenon DEF IpTunnel_allowConnection
  <2>2. requests' = requests /\ given' = given /\ removed' = removed /\ replaced' = replaced
    BY <2>1, Zenon
  <2>3. b \in Blocks /\ NoBits \notin b.ip4 \cup b.ip6
    BY TunnelAssumption, Zenon
  <2> QED
    BY <2>1, <2>2, <2>3, MakeStep, Zenon
<1>2. ASSUME NEW k \in PublicKeys, IpTunnel_connectTo(k)
      PROVE  TunnelInv'
  <2>1. /\ Make(k, TRUE, NoBlocks) /\ UNCHANGED <<given, removed, replaced>>
        /\ requests' = requests \cup {[to |-> k, number |-> nextConnectionNumber]}
    BY <1>2, Zenon DEF IpTunnel_connectTo
  <2>2. given' = given /\ removed' = removed /\ replaced' = replaced
    BY <2>1, Zenon
  <2>3. NoBlocks \in Blocks /\ NoBits \notin NoBlocks.ip4 \cup NoBlocks.ip6
    BY DEF NoBlocks, Blocks
  <2> QED
    BY <2>1, <2>2, <2>3, MakeStep, Zenon
<1>3. CASE UNCHANGED tunnelVars
  <2>1. /\ connections' = connections /\ nextConnectionNumber' = nextConnectionNumber
        /\ requests' = requests /\ given' = given /\ made' = made /\ removed' = removed
        /\ replaced' = replaced
    BY <1>3, Zenon DEF tunnelVars
  <2>2. Kept' = Kept
    BY <2>1, Zenon DEF Kept
  <2> QED
    BY <2>1, <2>2, Zenon DEF TunnelInv, AsMade, Due
<1> QED
    BY <1>1, <1>2, <1>3, GiveStep, RemoveStep, PollStep, AnswerStep, Zenon DEF TunnelNext

(* A block of a connection is part of what its node was issued or, once it   *)
(* was answered, of what its node issued.                                    *)
LEMMA BlockIs ==
    ASSUME TunnelInv, NEW i \in DOMAIN connections,
           NEW a \in connections[i].blocks.ip4 \cup connections[i].blocks.ip6
    PROVE  LET c == connections[i]
           IN  \/ ~c.isOutgoing /\ a \in IssuedTo(c.publicKey) /\ a # NoBits
               \/ /\ a \in OfferedBy(c.publicKey)
                  /\ c.isOutgoing \/ Overridden(c.publicKey)
<1> DEFINE c == connections[i]
<1>1. PICK m \in Kept : Same(c, m, replaced)
    BY Zenon DEF TunnelInv, ListOf
<1>2. /\ m \in made /\ m.number \notin removed /\ m.publicKey = c.publicKey
      /\ m.isOutgoing = c.isOutgoing /\ m.number = c.number
    BY <1>1, Zenon DEF Same, Kept
<1>3. AsMade(m)
    BY <1>2, Zenon DEF TunnelInv
<1>4. \/ a \in m.blocks.ip4 \cup m.blocks.ip6
      \/ /\ Answerable(c, replaced)
         /\ \E b \in Offers[c.publicKey] : a \in b.ip4 \cup b.ip6
    BY <1>1, Zenon DEF Same
<1> HIDE DEF c
<1>5. CASE a \in m.blocks.ip4 \cup m.blocks.ip6
  <2>1. NoBlocks.ip4 \cup NoBlocks.ip6 = {}
    BY DEF NoBlocks
  <2>2. ~m.isOutgoing /\ a # NoBits
    BY <1>3, <1>5, <2>1, Zenon DEF AsMade
  <2>3. a \in IssuedTo(c.publicKey)
    BY <1>2, <1>5, <2>2, Zenon DEF IssuedTo
  <2> QED
    BY <1>2, <2>2, <2>3, Zenon DEF c
<1>6. CASE /\ Answerable(c, replaced)
           /\ \E b \in Offers[c.publicKey] : a \in b.ip4 \cup b.ip6
  <2>1. a \in OfferedBy(c.publicKey)
    BY <1>6, Zenon DEF OfferedBy
  <2>2. c.isOutgoing \/ Overridden(c.publicKey)
    BY <1>2, <1>6, Zenon DEF Answerable, Overridden
  <2> QED
    BY <2>1, <2>2, Zenon DEF c
<1> QED
    BY <1>4, <1>5, <1>6, Zenon

(* What a connection lets pass may pass, and what fails its comparison met   *)
(* an address that its node issued with no bits to match.                    *)
LEMMA PassesRightly ==
    ASSUME TunnelInv, NEW i \in DOMAIN connections, NEW src, NEW dest, NEW isFromTun \in BOOLEAN
    PROVE  LET k == connections[i].publicKey
           IN  /\ isValidAddress(src, dest, isFromTun, connections[i]) =>
                     Rightful(k, IF isFromTun THEN dest ELSE src, IF isFromTun THEN src ELSE dest)
               /\ Fails(src, dest, connections[i]) => NoBits \in OfferedBy(k)
<1> DEFINE c == connections[i]
           k == c.publicKey
           compared == IF isFromTun <=> c.isOutgoing THEN src ELSE dest
<1>1. ASSUME isValidAddress(src, dest, isFromTun, c)
      PROVE  Rightful(k, IF isFromTun THEN dest ELSE src, IF isFromTun THEN src ELSE dest)
  <2>1. compared \in c.blocks.ip4 \cup c.blocks.ip6
    BY <1>1, Zenon DEF isValidAddress, isValidAddress4, isValidAddress6
  <2>2. \/ ~c.isOutgoing /\ compared \in IssuedTo(k)
        \/ compared \in OfferedBy(k) /\ (c.isOutgoing \/ Overridden(k))
    <3> HIDE DEF compared
    <3> QED
      BY <2>1, BlockIs, Zenon
  <2>3. CASE c.isOutgoing
    BY <2>2, <2>3, Zenon DEF Rightful
  <2>4. CASE ~c.isOutgoing
    BY <2>2, <2>4, Zenon DEF Rightful
  <2> QED
    BY <2>3, <2>4, Zenon
<1>2. ASSUME Fails(src, dest, c)
      PROVE  NoBits \in OfferedBy(k)
  <2>1. NoBits \in c.blocks.ip4 \cup c.blocks.ip6
    BY <1>2, Zenon DEF Fails, Bitless
  <2> QED
    BY <2>1, BlockIs, Zenon
<1> QED
    BY <1>1, <1>2, Zenon

(* TunnelInv has what TunnelsExact says. *)
LEMMA TunnelInvSays == TunnelInv => TunnelsExact
<1> SUFFICES ASSUME TunnelInv
             PROVE  TunnelsExact
    BY Zenon
<1> DEFINE Id(c) == <<c.number, c.publicKey, c.isOutgoing>>
<1>1. /\ connections \in Seq(Connection)
      /\ \A i \in DOMAIN connections : \E m \in Kept : Same(connections[i], m, replaced)
      /\ \A m \in Kept : \E i \in DOMAIN connections : Same(connections[i], m, replaced)
    BY Zenon DEF TunnelInv, ListOf
<1>2. DOMAIN connections \subseteq Nat
    BY <1>1
<1>3. {Id(c) : c \in Range(connections)} = {Id(c) : c \in Kept}
  <2>1. \A c, m : Same(c, m, replaced) => Id(c) = Id(m)
    BY Zenon DEF Same
  <2>2. ASSUME NEW c \in Range(connections)
        PROVE  \E m \in Kept : Id(c) = Id(m)
    <3>1. PICK i \in DOMAIN connections : c = connections[i]
      BY Zenon DEF Range
    <3> QED
      BY <1>1, <2>1, <3>1, Zenon
  <2>3. ASSUME NEW m \in Kept
        PROVE  \E c \in Range(connections) : Id(c) = Id(m)
    <3>1. PICK i \in DOMAIN connections : Same(connections[i], m, replaced)
      BY <1>1, Zenon
    <3>2. connections[i] \in Range(connections)
      BY Zenon DEF Range
    <3> QED
      BY <2>1, <3>1, <3>2, Zenon
  <2> HIDE DEF Id
  <2>4. ASSUME NEW x
        PROVE  x \in {Id(c) : c \in Range(connections)} <=> x \in {Id(c) : c \in Kept}
    <3>1. ASSUME NEW c \in Range(connections), x = Id(c)
          PROVE  x \in {Id(m) : m \in Kept}
      BY <2>2, <3>1
    <3>2. ASSUME NEW m \in Kept, x = Id(m)
          PROVE  x \in {Id(c) : c \in Range(connections)}
      BY <2>3, <3>2
    <3> QED
      BY <3>1, <3>2, Zenon
  <2> QED
    BY <2>4, Zenon
<1>4. ASSUME NEW p \in Packet, NEW k \in PublicKeys, incomingFromNode(k, p[1], p[2])
      PROVE  Rightful(k, p[1], p[2])
  <2> DEFINE i == connectionByPubKey(k)
  <2>1. i # 0 /\ isValidAddress(p[1], p[2], FALSE, connections[i])
    BY <1>4, Zenon DEF incomingFromNode
  <2>2. i \in DOMAIN connections /\ connections[i].publicKey = k
    BY <1>2, <2>1, FirstIs, Zenon DEF connectionByPubKey
  <2> HIDE DEF i
  <2> QED
    BY <2>1, <2>2, PassesRightly, Zenon
<1>5. ASSUME NEW p \in Packet, findConnection(p[1], p[2]) # 0
      PROVE  LET i == findConnection(p[1], p[2])
                 k == connections[i].publicKey
             IN  IF Fails(p[1], p[2], connections[i]) THEN NoBits \in OfferedBy(k)
                 ELSE Rightful(k, p[2], p[1])
  <2> DEFINE i == findConnection(p[1], p[2])
  <2>1. /\ i \in DOMAIN connections
        /\ \/ isValidAddress(p[1], p[2], TRUE, connections[i])
           \/ Fails(p[1], p[2], connections[i])
    BY <1>2, <1>5, FirstIs, Zenon DEF findConnection
  <2> HIDE DEF i
  <2>2. LET k == connections[i].publicKey
        IN  /\ isValidAddress(p[1], p[2], TRUE, connections[i]) => Rightful(k, p[2], p[1])
            /\ Fails(p[1], p[2], connections[i]) => NoBits \in OfferedBy(k)
    BY <2>1, PassesRightly, Zenon
  <2> QED
    BY <2>1, <2>2, Zenon DEF i
<1>6. {Id(c) : c \in Kept} = {Id(c) : c \in {m \in made : m.number \notin removed}}
    BY Zenon DEF Kept
<1>7. /\ Len(connections) = Cardinality(made) - Cardinality(removed)
      /\ \A g \in given : Due(g)
    BY Zenon DEF TunnelInv
<1> QED
    BY <1>3, <1>4, <1>5, <1>6, <1>7, Zenon DEF TunnelsExact

(* TunnelInv holds always: newConnection and deleteConnection lose and       *)
(* repeat no connection, and an answer with any number changes at most a     *)
(* connection with its sender, which has blocks as made or of its node's.    *)
THEOREM TunnelInvariance == TunnelSpec => []TunnelInv
<1> QED
    BY TunnelInitInv, TunnelNextInv, PTL DEF TunnelSpec

(* TunnelsExact: the list of IpTunnel.c is exactly the connections made and  *)
(* not removed; a packet passes only with an address that was issued to its  *)
(* node and not withdrawn, or that its node issued, at the node's end only   *)
(* if its own answer named its own connection; and the assertion of          *)
(* prefixMatches fails only at a node that issued no bits to match.          *)
THEOREM TunnelsHold == TunnelSpec => []TunnelsExact
<1> QED
    BY TunnelInvariance, TunnelInvSays, PTL
=============================================================================
