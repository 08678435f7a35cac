--------------------------- MODULE SwitchCoreProofs ---------------------------
(***************************************************************************)
(* Answers find their way back through any network of switches, for labels *)
(* of any length.                                                          *)
(***************************************************************************)
EXTENDS SwitchCore, WellFoundedInduction, TLAPS

-----------------------------------------------------------------------------
(* Facts about numbers. *)

(* A set of natural numbers that is not empty has a least one. *)
LEMMA NatLeast ==
    ASSUME NEW T, T \subseteq Nat, T # {}
    PROVE  \E x \in T : \A y \in T : x <= y
<1> DEFINE R == OpToRel(<, Nat)
<1>1. IsWellFoundedOn(R, Nat)
    BY NatLessThanWellFounded, Zenon
<1>2. \A x, y \in Nat : <<y, x>> \in R <=> y < x
    BY Zenon DEF OpToRel
<1> HIDE DEF R
<1>3. PICK x \in T : \A y \in T : ~(<<y, x>> \in R)
    BY <1>1, WFMin, Zenon
<1>4. ASSUME NEW y \in T
      PROVE  x <= y
  <2>1. x \in Nat /\ y \in Nat
    BY Zenon
  <2>2. ~(y < x)
    BY <1>2, <1>3, <2>1, Zenon
  <2> QED
    BY <2>1, <2>2
<1> QED
    BY <1>4, Zenon

(* Induction, with a set in the place of a predicate. *)
LEMMA UpTo ==
    ASSUME NEW n \in Nat, NEW S, 0 \in S, \A k \in 0 .. n - 1 : k \in S => k + 1 \in S
    PROVE  \A k \in 0 .. n : k \in S
<1> DEFINE T == (0 .. n) \ S
<1> SUFFICES ASSUME T # {}
             PROVE  FALSE
    BY Zenon
<1>1. T \subseteq Nat /\ \A k \in 0 .. n : k \in T \/ k \in S
    OBVIOUS
<1>2. \A k \in T : k \in 0 .. n /\ k \notin S
    BY Zenon
<1> HIDE DEF T
<1>3. PICK k \in T : \A j \in T : k <= j
    BY <1>1, NatLeast, Zenon
<1>4. k \in 0 .. n /\ k # 0
    BY <1>2, <1>3, Zenon
<1>5. k - 1 \in 0 .. n - 1 /\ k - 1 \in 0 .. n /\ (k - 1) + 1 = k /\ k - 1 \notin T
    BY <1>3, <1>4
<1>6. k - 1 \in S
    BY <1>1, <1>5, Zenon
<1>7. k \in S
    BY <1>5, <1>6, Zenon
<1> QED
    BY <1>2, <1>7, Zenon

(* Division: its result is the only one. *)
LEMMA Division ==
    ASSUME NEW d \in Nat \ {0}, NEW q \in Nat, NEW r \in 0 .. d - 1
    PROVE  (q * d + r) \div d = q /\ (q * d + r) % d = r
    OBVIOUS

(* Quotient and remainder. *)
LEMMA Divided ==
    ASSUME NEW d \in Nat \ {0}, NEW a \in Nat
    PROVE  /\ a = (a \div d) * d + (a % d)
           /\ a \div d \in Nat /\ a % d \in 0 .. d - 1
    OBVIOUS

(* Dividing twice. *)
LEMMA DivideTwice ==
    ASSUME NEW a \in Nat, NEW b \in Nat \ {0}, NEW c \in Nat \ {0}
    PROVE  (a \div b) \div c = a \div (b * c)
<1> DEFINE q == (a \div b) \div c
           r == (a \div b) % c
           s == a % b
<1>1. a = (a \div b) * b + s /\ s \in 0 .. b - 1 /\ a \div b \in Nat
    BY Divided, Zenon
<1>2. a \div b = q * c + r /\ r \in 0 .. c - 1 /\ q \in Nat
    BY <1>1, Divided, Zenon
<1> HIDE DEF q, r, s
<1>3. r * b + s \in 0 .. (b * c) - 1
  <2>1. r * b <= (c - 1) * b /\ r * b \in Nat
    BY <1>2
  <2>2. (c - 1) * b = (b * c) - b
    BY <1>2
  <2> QED
    BY <1>1, <2>1, <2>2
<1>4. a = q * (b * c) + (r * b + s)
    BY <1>1, <1>2
<1>5. b * c \in Nat \ {0}
    OBVIOUS
<1>6. a \div (b * c) = q
    BY <1>2, <1>3, <1>4, <1>5, Division, Zenon
<1> QED
    BY <1>6, Zenon DEF q

-----------------------------------------------------------------------------
(* Powers of two and the reversal of labels. *)

(* The powers of two are that. *)
LEMMA Powers ==
    /\ TwoTo[0] = 1
    /\ \A n \in 0 .. LabelBits - 1 : TwoTo[n + 1] = 2 * TwoTo[n]
    /\ \A n \in 0 .. LabelBits : TwoTo[n] \in Nat \ {0}
<1> DEFINE B == LabelBits
           Of(f, n) == IF n = 0 THEN 1 ELSE 2 * f[n - 1]
           Solution(f, k) == f = [n \in 0 .. k |-> Of(f, n)]
           S == {k \in 0 .. B : \E f : Solution(f, k)}
<1>1. B \in Nat
    BY LabelAssumption
<1>2. 0 \in S
  <2> DEFINE f == [n \in 0 .. 0 |-> 1]
  <2>1. Solution(f, 0)
    OBVIOUS
  <2>2. 0 \in 0 .. B
    BY <1>1
  <2> HIDE DEF Solution, f
  <2> QED
    BY <2>1, <2>2, Zenon
<1>3. ASSUME NEW k \in 0 .. B - 1, k \in S
      PROVE  k + 1 \in S
  <2>1. PICK f : Solution(f, k)
    BY <1>3, Zenon
  <2> DEFINE g == [n \in 0 .. k + 1 |-> Of(f, n)]
  <2>2. \A n \in 0 .. k : g[n] = f[n]
    BY <1>1, <2>1
  <2>3. \A n \in 0 .. k + 1 : Of(g, n) = Of(f, n)
    <3> HIDE DEF g
    <3>1. \A n \in 0 .. k + 1 : n # 0 => n - 1 \in 0 .. k
      BY <1>1
    <3> QED
      BY <2>2, <3>1, Zenon
  <2>4. Solution(g, k + 1)
    <3> HIDE DEF Of
    <3> QED
      BY <2>3, Zenon
  <2>5. k + 1 \in 0 .. B
    BY <1>1
  <2> HIDE DEF Solution, g
  <2> QED
    BY <2>4, <2>5, Zenon
<1>4. \E f : Solution(f, B)
  <2> HIDE DEF S
  <2>1. B \in S
    BY <1>1, <1>2, <1>3, UpTo
  <2> QED
    BY <2>1, Zenon DEF S
<1>5. Solution(Power, B)
    BY <1>4, Zenon DEF Power
<1>6. \A n \in 0 .. B : TwoTo[n] = IF n = 0 THEN 1 ELSE 2 * TwoTo[n - 1]
    BY <1>1, <1>5, Zenon DEF TwoTo
<1> HIDE DEF Solution, S
<1> DEFINE N == {k \in 0 .. B : TwoTo[k] \in Nat \ {0}}
<1>7. 0 \in N
    BY <1>1, <1>6
<1>8. \A k \in 0 .. B - 1 : TwoTo[k + 1] = 2 * TwoTo[k]
    BY <1>1, <1>6
<1>9. \A k \in 0 .. B - 1 : k \in N => k + 1 \in N
    BY <1>1, <1>8
<1>10. \A k \in 0 .. B : k \in N
  <2> HIDE DEF N
  <2> QED
    BY <1>1, <1>7, <1>9, UpTo, Zenon
<1> QED
    BY <1>1, <1>6, <1>8, <1>10

(* The powers that the three forms of a director need. *)
LEMMA SmallPowers ==
    /\ TwoTo[0] = 1 /\ TwoTo[1] = 2 /\ TwoTo[2] = 4 /\ TwoTo[3] = 8 /\ TwoTo[4] = 16 /\ TwoTo[5] = 32
    /\ TwoTo[7] = 128 /\ TwoTo[8] = 256 /\ TwoTo[10] = 1024 /\ TwoTo[14] = 16384
<1>1. \A n \in 0 .. 15 : TwoTo[n + 1] = 2 * TwoTo[n]
    BY Powers, LabelAssumption
<1>2. TwoTo[0] = 1 /\ TwoTo[0 + 1] = 2 /\ TwoTo[1 + 1] = 4 /\ TwoTo[2 + 1] = 8 /\ TwoTo[3 + 1] = 16
    BY <1>1, Powers
<1>3. TwoTo[4 + 1] = 32 /\ TwoTo[5 + 1] = 64 /\ TwoTo[6 + 1] = 128 /\ TwoTo[7 + 1] = 256
    BY <1>1, <1>2
<1>4. TwoTo[8 + 1] = 512 /\ TwoTo[9 + 1] = 1024 /\ TwoTo[10 + 1] = 2048 /\ TwoTo[11 + 1] = 4096
    BY <1>1, <1>3
<1>5. TwoTo[12 + 1] = 8192 /\ TwoTo[13 + 1] = 16384
    BY <1>1, <1>4
<1> QED
    BY <1>2, <1>3, <1>4, <1>5

(* Powers of two multiply. *)
LEMMA PowerSum ==
    ASSUME NEW m \in Nat, NEW n \in Nat, m + n <= LabelBits
    PROVE  TwoTo[m + n] = TwoTo[m] * TwoTo[n]
<1> DEFINE S == {k \in 0 .. n : TwoTo[m + k] = TwoTo[m] * TwoTo[k]}
<1>1. LabelBits \in Nat /\ TwoTo[m] \in Nat
    BY Powers, LabelAssumption
<1>2. 0 \in S
    BY <1>1, Powers
<1>3. ASSUME NEW k \in 0 .. n - 1, TwoTo[m + k] = TwoTo[m] * TwoTo[k]
      PROVE  TwoTo[m + (k + 1)] = TwoTo[m] * TwoTo[k + 1]
  <2>1. TwoTo[k + 1] = 2 * TwoTo[k] /\ TwoTo[k] \in Nat
    BY <1>1, Powers
  <2>2. TwoTo[(m + k) + 1] = 2 * TwoTo[m + k]
    BY <1>1, Powers
  <2>3. (m + k) + 1 = m + (k + 1)
    OBVIOUS
  <2> QED
    BY <1>1, <1>3, <2>1, <2>2, <2>3
<1>4. \A k \in 0 .. n - 1 : k \in S => k + 1 \in S
    BY <1>3
<1>5. n \in S
  <2> HIDE DEF S
  <2> QED
    BY <1>2, <1>4, UpTo
<1> QED
    BY <1>5, Zenon

(* The n lowest bits of x in reverse, as Bits_bitReverse64 puts them together. *)
Reverse(x) ==
    CHOOSE rev : rev = [n \in 0 .. LabelBits |->
                            IF n = 0 THEN 0 ELSE 2 * rev[n - 1] + Low(High(x, n - 1), 1)]

Bit(x, n) == (x \div TwoTo[n]) % 2

(* The bits of x from the lowest up, as Bits_bitReverse64 collects them. *)
LEMMA Reversal ==
    ASSUME NEW x \in Nat
    PROVE  /\ Bits_bitReverse64(x) = Reverse(x)[LabelBits]
           /\ Reverse(x)[0] = 0
           /\ \A n \in 0 .. LabelBits - 1 : Reverse(x)[n + 1] = 2 * Reverse(x)[n] + Bit(x, n)
<1> DEFINE B == LabelBits
           Of(f, n) == IF n = 0 THEN 0 ELSE 2 * f[n - 1] + Low(High(x, n - 1), 1)
           Solution(f, k) == f = [n \in 0 .. k |-> Of(f, n)]
           S == {k \in 0 .. B : \E f : Solution(f, k)}
<1>1. B \in Nat
    BY LabelAssumption
<1>2. 0 \in S
  <2> DEFINE f == [n \in 0 .. 0 |-> 0]
  <2>1. Solution(f, 0)
    OBVIOUS
  <2>2. 0 \in 0 .. B
    BY <1>1
  <2> HIDE DEF Solution, f
  <2> QED
    BY <2>1, <2>2, Zenon
<1>3. ASSUME NEW k \in 0 .. B - 1, k \in S
      PROVE  k + 1 \in S
  <2>1. PICK f : Solution(f, k)
    BY <1>3, Zenon
  <2> DEFINE g == [n \in 0 .. k + 1 |-> Of(f, n)]
  <2>2. \A n \in 0 .. k : g[n] = f[n]
    BY <1>1, <2>1
  <2>3. \A n \in 0 .. k + 1 : Of(g, n) = Of(f, n)
    <3> HIDE DEF g
    <3>1. \A n \in 0 .. k + 1 : n # 0 => n - 1 \in 0 .. k
      BY <1>1
    <3> QED
      BY <2>2, <3>1, Zenon
  <2>4. Solution(g, k + 1)
    <3> HIDE DEF Of
    <3> QED
      BY <2>3, Zenon
  <2>5. k + 1 \in 0 .. B
    BY <1>1
  <2> HIDE DEF Solution, g
  <2> QED
    BY <2>4, <2>5, Zenon
<1>4. \E f : Solution(f, B)
  <2> HIDE DEF S
  <2>1. B \in S
    BY <1>1, <1>2, <1>3, UpTo
  <2> QED
    BY <2>1, Zenon DEF S
<1>5. Solution(Reverse(x), B)
    BY <1>4, Zenon DEF Reverse
<1>6. Bits_bitReverse64(x) = Reverse(x)[B]
    BY Zenon DEF Bits_bitReverse64, Reverse
<1>7. \A n \in 0 .. B : Reverse(x)[n] = Of(Reverse(x), n)
  <2> HIDE DEF Of
  <2> QED
    BY <1>5, Zenon
<1>8. ASSUME NEW n \in 0 .. B - 1
      PROVE  Reverse(x)[n + 1] = 2 * Reverse(x)[n] + Bit(x, n)
  <2>1. n + 1 \in 0 .. B /\ (n + 1) - 1 = n /\ n + 1 # 0
    BY <1>1
  <2>2. Reverse(x)[n + 1] = 2 * Reverse(x)[n] + Low(High(x, n), 1)
    BY <1>7, <2>1, Zenon
  <2> QED
    BY <2>2, SmallPowers DEF Low, High, Bit
<1> QED
    BY <1>1, <1>6, <1>7, <1>8

(* A bit is 0 or 1. *)
LEMMA BitRange ==
    ASSUME NEW x \in Nat, NEW n \in 0 .. LabelBits - 1
    PROVE  Bit(x, n) \in 0 .. 1
<1> DEFINE q == x \div TwoTo[n]
<1>1. n \in 0 .. LabelBits
    BY LabelAssumption
<1>2. TwoTo[n] \in Nat \ {0}
    BY <1>1, Powers, Zenon
<1>3. q \in Nat
    BY <1>2, Divided, Zenon
<1> HIDE DEF q
<1>4. q % 2 \in 0 .. 1
    BY <1>3
<1> QED
    BY <1>4, Zenon DEF Bit, q

(* The first n bits, reversed, make a number of n bits. *)
LEMMA ReverseRange ==
    ASSUME NEW x \in Nat, NEW n \in 0 .. LabelBits
    PROVE  Reverse(x)[n] \in 0 .. TwoTo[n] - 1
<1> DEFINE S == {k \in 0 .. n : Reverse(x)[k] \in 0 .. TwoTo[k] - 1}
<1>1. LabelBits \in Nat
    BY LabelAssumption
<1>2. 0 \in S
    BY <1>1, Powers, Reversal
<1>3. ASSUME NEW k \in 0 .. n - 1, Reverse(x)[k] \in 0 .. TwoTo[k] - 1
      PROVE  Reverse(x)[k + 1] \in 0 .. TwoTo[k + 1] - 1
  <2>1. k \in 0 .. LabelBits - 1 /\ TwoTo[k] \in Nat \ {0} /\ TwoTo[k + 1] = 2 * TwoTo[k]
    BY <1>1, Powers
  <2>2. Bit(x, k) \in 0 .. 1
    BY <2>1, BitRange, Zenon
  <2>3. Reverse(x)[k + 1] = 2 * Reverse(x)[k] + Bit(x, k)
    BY <2>1, Reversal, Zenon
  <2> QED
    BY <1>3, <2>1, <2>2, <2>3
<1>4. \A k \in 0 .. n - 1 : k \in S => k + 1 \in S
    BY <1>1, <1>3
<1>5. n \in S
  <2> HIDE DEF S
  <2> QED
    BY <1>1, <1>2, <1>4, UpTo
<1> QED
    BY <1>5, Zenon

(* The m lowest bits do not depend on those above. *)
LEMMA ReverseLow ==
    ASSUME NEW m \in 0 .. LabelBits, NEW x \in Nat, NEW y \in Nat
    PROVE  Reverse(x + TwoTo[m] * y)[m] = Reverse(x)[m]
<1> DEFINE z == x + TwoTo[m] * y
           S == {k \in 0 .. m : Reverse(z)[k] = Reverse(x)[k]}
<1>1. LabelBits \in Nat /\ m \in Nat /\ TwoTo[m] \in Nat
    BY LabelAssumption, Powers
<1>2. z \in Nat
    BY <1>1
<1>3. 0 \in S
    BY <1>1, <1>2, Reversal
<1>4. ASSUME NEW k \in 0 .. m - 1, Reverse(z)[k] = Reverse(x)[k]
      PROVE  Reverse(z)[k + 1] = Reverse(x)[k + 1]
  <2> DEFINE p == TwoTo[k]
             w == TwoTo[m - (k + 1)]
             q == x \div p
             r == x % p
  <2>1. k \in 0 .. LabelBits - 1 /\ m - (k + 1) \in Nat /\ m - (k + 1) \in 0 .. LabelBits
    BY <1>1
  <2>2. p \in Nat \ {0} /\ w \in Nat /\ TwoTo[k + 1] = 2 * p
    BY <1>1, <2>1, Powers
  <2>3. (k + 1) + (m - (k + 1)) = m /\ k + 1 \in Nat /\ m <= LabelBits
    BY <1>1
  <2>4. TwoTo[m] = (2 * p) * w
    BY <2>1, <2>2, <2>3, PowerSum
  <2>5. x = q * p + r /\ q \in Nat /\ r \in 0 .. p - 1
    BY <2>2, Divided, Zenon
  <2> HIDE DEF p, w, q, r
  <2>6. w * y \in Nat /\ q + 2 * (w * y) \in Nat
    BY <2>2, <2>5
  <2>7. z = (q + 2 * (w * y)) * p + r
    BY <2>2, <2>4, <2>5
  <2>8. z \div p = q + 2 * (w * y)
    <3> HIDE DEF z
    <3> QED
      BY <2>2, <2>5, <2>6, <2>7, Division, Zenon
  <2>9. (q + 2 * (w * y)) % 2 = q % 2
    BY <2>5, <2>6
  <2>10. Bit(z, k) = Bit(x, k)
    BY <2>8, <2>9, Zenon DEF Bit, p, q
  <2> HIDE DEF z
  <2> QED
    BY <1>2, <1>4, <2>1, <2>10, Reversal, Zenon
<1>5. \A k \in 0 .. m - 1 : k \in S => k + 1 \in S
    BY <1>1, <1>4
<1>6. m \in S
  <2> HIDE DEF S
  <2> QED
    BY <1>1, <1>3, <1>5, UpTo
<1> QED
    BY <1>6, Zenon

(* The reverse of two pieces: their reverses, in the other order. *)
LEMMA ReverseJoin ==
    ASSUME NEW m \in Nat, NEW n \in Nat, m + n <= LabelBits,
           NEW x \in 0 .. TwoTo[m] - 1, NEW y \in Nat
    PROVE  Reverse(x + TwoTo[m] * y)[m + n] = Reverse(y)[n] + TwoTo[n] * Reverse(x)[m]
<1> DEFINE z == x + TwoTo[m] * y
           h == Reverse(x)[m]
           S == {k \in 0 .. n : Reverse(z)[m + k] = Reverse(y)[k] + TwoTo[k] * h}
<1>1. /\ LabelBits \in Nat /\ m \in 0 .. LabelBits /\ n \in 0 .. LabelBits
      /\ TwoTo[m] \in Nat \ {0} /\ x \in Nat
    BY LabelAssumption, Powers
<1>2. z \in Nat
    BY <1>1
<1>3. h \in Nat
    BY <1>1, Powers, ReverseRange
<1>4. Reverse(z)[m] = h
    BY <1>1, ReverseLow, Zenon
<1>5. z \div TwoTo[m] = y
  <2>1. z = y * TwoTo[m] + x
    BY <1>1
  <2> HIDE DEF z
  <2> QED
    BY <1>1, <2>1, Division, Zenon
<1> HIDE DEF z, h
<1>6. 0 \in S
  <2>1. Reverse(y)[0] = 0 /\ TwoTo[0] = 1
    BY Reversal, Powers, Zenon
  <2> QED
    BY <1>1, <1>3, <1>4, <2>1
<1>7. ASSUME NEW k \in 0 .. n - 1, Reverse(z)[m + k] = Reverse(y)[k] + TwoTo[k] * h
      PROVE  Reverse(z)[m + (k + 1)] = Reverse(y)[k + 1] + TwoTo[k + 1] * h
  <2>1. /\ k \in 0 .. LabelBits - 1 /\ k \in Nat /\ m + k \in 0 .. LabelBits - 1
        /\ m + (k + 1) = (m + k) + 1 /\ m + k <= LabelBits
    BY <1>1
  <2>2. TwoTo[k] \in Nat \ {0} /\ TwoTo[k + 1] = 2 * TwoTo[k] /\ TwoTo[m + k] = TwoTo[m] * TwoTo[k]
    BY <1>1, <2>1, Powers, PowerSum
  <2>3. Bit(z, m + k) = Bit(y, k)
    BY <1>1, <1>2, <1>5, <2>2, DivideTwice DEF Bit
  <2>4. /\ Reverse(z)[(m + k) + 1] = 2 * Reverse(z)[m + k] + Bit(z, m + k)
        /\ Reverse(y)[k + 1] = 2 * Reverse(y)[k] + Bit(y, k)
    BY <1>2, <2>1, Reversal, Zenon
  <2>5. Reverse(y)[k] \in Nat /\ Bit(y, k) \in Nat
    <3>1. Reverse(y)[k] \in 0 .. TwoTo[k] - 1
      BY <1>1, <2>1, ReverseRange
    <3>2. Bit(y, k) \in 0 .. 1
      BY <2>1, BitRange, Zenon
    <3> QED
      BY <2>2, <3>1, <3>2
  <2> DEFINE a == Reverse(y)[k]
             b == Bit(y, k)
             p == TwoTo[k]
  <2>6. 2 * (a + p * h) + b = (2 * a + b) + (2 * p) * h
    <3> HIDE DEF a, b, p
    <3>1. a \in Nat /\ b \in Nat /\ p \in Nat
      BY <2>2, <2>5, Zenon DEF a, b, p
    <3> QED
      BY <1>3, <3>1
  <2> QED
    BY <1>7, <2>1, <2>2, <2>3, <2>4, <2>6, Zenon
<1>8. \A k \in 0 .. n - 1 : k \in S => k + 1 \in S
    BY <1>1, <1>7
<1>9. n \in S
  <2> HIDE DEF S
  <2> QED
    BY <1>6, <1>8, UpTo
<1> QED
    BY <1>9, Zenon DEF z, h

(* Zero reversed is zero. *)
LEMMA ReverseZero ==
    ASSUME NEW n \in 0 .. LabelBits
    PROVE  Reverse(0)[n] = 0
<1> DEFINE S == {k \in 0 .. n : Reverse(0)[k] = 0}
<1>1. LabelBits \in Nat
    BY LabelAssumption
<1>2. 0 \in S
    BY <1>1, Reversal
<1>3. ASSUME NEW k \in 0 .. n - 1, Reverse(0)[k] = 0
      PROVE  Reverse(0)[k + 1] = 0
  <2>1. k \in 0 .. LabelBits - 1 /\ TwoTo[k] \in Nat \ {0}
    BY <1>1, Powers
  <2>2. Bit(0, k) = 0
    <3>1. 0 \div TwoTo[k] = 0
      BY <2>1
    <3> QED
      BY <3>1 DEF Bit
  <2> QED
    BY <1>3, <2>1, <2>2, Reversal
<1>4. \A k \in 0 .. n - 1 : k \in S => k + 1 \in S
    BY <1>1, <1>3
<1>5. n \in S
  <2> HIDE DEF S
  <2> QED
    BY <1>1, <1>2, <1>4, UpTo
<1> QED
    BY <1>5, Zenon

(* A piece with zeros above it. *)
LEMMA ReversePadded ==
    ASSUME NEW m \in Nat, NEW n \in Nat, m + n <= LabelBits, NEW x \in 0 .. TwoTo[m] - 1
    PROVE  Reverse(x)[m + n] = TwoTo[n] * Reverse(x)[m]
<1>1. m \in 0 .. LabelBits /\ n \in 0 .. LabelBits
    BY LabelAssumption
<1>2. TwoTo[m] \in Nat /\ TwoTo[n] \in Nat
    BY <1>1, Powers, Zenon
<1>3. Reverse(x)[m] \in Nat
  <2>1. x \in Nat
    BY <1>2
  <2> QED
    BY <1>1, <1>2, <2>1, ReverseRange
<1>4. x + TwoTo[m] * 0 = x
    BY <1>2
<1>5. Reverse(x)[m + n] = Reverse(0)[n] + TwoTo[n] * Reverse(x)[m]
  <2>1. 0 \in Nat
    BY Zenon
  <2> QED
    BY <1>4, <2>1, ReverseJoin
<1> QED
    BY <1>1, <1>2, <1>3, <1>5, ReverseZero

(* One bit reversed is itself. *)
LEMMA ReverseBit ==
    ASSUME NEW b \in 0 .. 1
    PROVE  Reverse(b)[1] = b
<1>1. 0 \in 0 .. LabelBits - 1 /\ b \in Nat
    BY LabelAssumption
<1>2. Reverse(b)[0 + 1] = 2 * Reverse(b)[0] + Bit(b, 0) /\ Reverse(b)[0] = 0
    BY <1>1, Reversal, Zenon
<1>3. Bit(b, 0) = b
    BY Powers DEF Bit
<1> QED
    BY <1>2, <1>3

(* Reversing twice changes nothing. *)
LEMMA ReverseTwice ==
    ASSUME NEW n \in 0 .. LabelBits, NEW x \in 0 .. TwoTo[n] - 1
    PROVE  Reverse(Reverse(x)[n])[n] = x
<1> DEFINE S == {k \in 0 .. n : \A y \in 0 .. TwoTo[k] - 1 : Reverse(Reverse(y)[k])[k] = y}
<1>1. LabelBits \in Nat /\ n \in Nat /\ n <= LabelBits
    BY LabelAssumption
<1>2. 0 \in S
  <2> SUFFICES ASSUME NEW y \in 0 .. TwoTo[0] - 1
               PROVE  Reverse(Reverse(y)[0])[0] = y
    BY <1>1
  <2>1. y = 0
    BY Powers
  <2>2. Reverse(0)[0] = 0
    BY Reversal, Zenon
  <2> QED
    BY <2>1, <2>2, Zenon
<1>3. ASSUME NEW k \in 0 .. n - 1, \A y \in 0 .. TwoTo[k] - 1 : Reverse(Reverse(y)[k])[k] = y,
             NEW y \in 0 .. TwoTo[k + 1] - 1
      PROVE  Reverse(Reverse(y)[k + 1])[k + 1] = y
  <2> DEFINE t == y \div TwoTo[k]
             z == y % TwoTo[k]
             r == Reverse(z)[k]
  <2>1. /\ k \in 0 .. LabelBits - 1 /\ k \in 0 .. LabelBits /\ k \in Nat
        /\ k + 1 <= LabelBits /\ 1 + k <= LabelBits /\ 1 \in Nat /\ k + 1 = 1 + k
    BY <1>1
  <2>2. TwoTo[k] \in Nat \ {0} /\ TwoTo[k + 1] = 2 * TwoTo[k] /\ TwoTo[1] = 2
    BY <2>1, Powers, SmallPowers
  <2>3. y \in Nat /\ y = t * TwoTo[k] + z /\ t \in Nat /\ z \in 0 .. TwoTo[k] - 1
    <3>1. y \in Nat
      BY <2>2
    <3> QED
      BY <2>2, <3>1, Divided, Zenon
  <2> HIDE DEF t, z
  <2>4. t \in 0 .. 1
    <3>1. ~(t >= 2)
      <4> SUFFICES ASSUME t >= 2
                   PROVE  FALSE
        BY Zenon
      <4>1. t * TwoTo[k] >= 2 * TwoTo[k]
        BY <2>2, <2>3
      <4> QED
        BY <2>2, <2>3, <4>1
    <3> QED
      BY <2>3, <3>1
  <2>5. y = z + TwoTo[k] * t
    BY <2>2, <2>3
  <2>6. r \in 0 .. TwoTo[k] - 1 /\ r \in Nat
    <3>1. z \in Nat
      BY <2>2, <2>3
    <3>2. r \in 0 .. TwoTo[k] - 1
      BY <2>1, <3>1, ReverseRange, Zenon
    <3> QED
      BY <2>2, <3>2
  <2>7. Reverse(t)[1] = t
    BY <2>4, ReverseBit, Zenon
  <2>8. Reverse(y)[k + 1] = t + TwoTo[1] * r
    BY <2>1, <2>3, <2>5, <2>7, ReverseJoin
  <2>9. Reverse(t + TwoTo[1] * r)[1 + k] = Reverse(r)[k] + TwoTo[k] * Reverse(t)[1]
    <3>1. t \in 0 .. TwoTo[1] - 1
      BY <2>2, <2>4
    <3> HIDE DEF r
    <3> QED
      BY <2>1, <2>6, <3>1, ReverseJoin
  <2>10. Reverse(r)[k] = z
    BY <1>3, <2>3, Zenon
  <2> QED
    BY <2>1, <2>5, <2>7, <2>8, <2>9, <2>10, Zenon
<1>4. \A k \in 0 .. n - 1 : k \in S => k + 1 \in S
    BY <1>1, <1>3
<1>5. n \in S
  <2> HIDE DEF S
  <2> QED
    BY <1>1, <1>2, <1>4, UpTo
<1> QED
    BY <1>5, Zenon

-----------------------------------------------------------------------------
(* The directors of the v3x5x8 scheme. *)

Slots == 0 .. INTERFACES - 1
Widths == {4, 7, 10}

(* What a label's lowest bits say of the interface it leads to. *)
LEMMA Decoded ==
    ASSUME NEW label \in Nat
    PROVE  /\ DirectorBits(label) \in Widths
           /\ Destination(label) \in Slots
           /\ bitsUsedForNumber(Destination(label)) \in Widths
           /\ bitsUsedForNumber(Destination(label)) <= DirectorBits(label)
<1>1. CASE label % 2 = 1
  <2>1. DirectorBits(label) = 4
    BY <1>1 DEF DirectorBits, bitsUsedForLabel
  <2>2. Destination(label) = SwapZeroOne((label \div 2) % 8)
    BY <2>1, SmallPowers DEF Destination, getDecompressed, Low, High
  <2>3. (label \div 2) % 8 \in 0 .. 7
    OBVIOUS
  <2>4. Destination(label) \in 0 .. 7
    BY <2>2, <2>3 DEF SwapZeroOne
  <2> QED
    BY <2>1, <2>4 DEF Widths, Slots, INTERFACES, bitsUsedForNumber
<1>2. CASE label % 4 = 2
  <2>1. DirectorBits(label) = 7
    BY <1>2 DEF DirectorBits, bitsUsedForLabel
  <2>2. Destination(label) = SkipOne((label \div 4) % 32)
    BY <2>1, SmallPowers DEF Destination, getDecompressed, Low, High
  <2>3. (label \div 4) % 32 \in 0 .. 31
    OBVIOUS
  <2>4. Destination(label) \in 0 .. 32
    BY <2>2, <2>3 DEF SkipOne
  <2> QED
    BY <2>1, <2>4 DEF Widths, Slots, INTERFACES, bitsUsedForNumber
<1>3. CASE label % 2 # 1 /\ label % 4 # 2
  <2>1. DirectorBits(label) = 10
    BY <1>3, Zenon DEF DirectorBits, bitsUsedForLabel
  <2>2. Destination(label) = SkipOne((label \div 4) % 256)
    BY <2>1, SmallPowers DEF Destination, getDecompressed, Low, High
  <2>3. (label \div 4) % 256 \in 0 .. 255
    OBVIOUS
  <2>4. Destination(label) \in 0 .. 256
    BY <2>2, <2>3 DEF SkipOne
  <2> QED
    BY <2>1, <2>4 DEF Widths, Slots, INTERFACES, bitsUsedForNumber
<1> QED
    BY <1>1, <1>2, <1>3, Zenon

(* The form of a director is in the two lowest bits. *)
LEMMA FormIsLow ==
    ASSUME NEW x \in Nat, NEW y \in Nat
    PROVE  DirectorBits(x + 4 * y) = DirectorBits(x)
<1>1. (x + 4 * y) % 2 = x % 2 /\ (x + 4 * y) % 4 = x % 4
    OBVIOUS
<1> QED
    BY <1>1, Zenon DEF DirectorBits, bitsUsedForLabel

(* 0001 is the router. *)
LEMMA RouterDirector ==
    ASSUME NEW y \in Nat
    PROVE  DirectorBits(1 + 16 * y) = 4 /\ Destination(1 + 16 * y) = Router
<1>1. (1 + 16 * y) % 2 = 1 /\ ((1 + 16 * y) \div 2) % 8 = 0
    OBVIOUS
<1>2. DirectorBits(1 + 16 * y) = 4
    BY <1>1 DEF DirectorBits, bitsUsedForLabel
<1> QED
    BY <1>1, <1>2, SmallPowers DEF Destination, getDecompressed, Low, High, SwapZeroOne, Router

(* A director that was written for a slot, with as many bits as it needs or    *)
(* more, is read as that slot; the router's is always 0001.                    *)
LEMMA Compressed ==
    ASSUME NEW slot \in Slots, NEW bits \in Widths, bitsUsedForNumber(slot) <= bits
    PROVE  /\ getCompressed(slot, bits) \in 0 .. TwoTo[bits] - 1
           /\ slot = Router => getCompressed(slot, bits) = 1
           /\ slot # Router => \A y \in Nat :
                  /\ DirectorBits(getCompressed(slot, bits) + TwoTo[bits] * y) = bits
                  /\ Destination(getCompressed(slot, bits) + TwoTo[bits] * y) = slot
<1> DEFINE c == getCompressed(slot, bits)
<1>1. CASE slot = Router
    BY <1>1, SmallPowers DEF getCompressed, Router, Widths
<1>2. CASE slot # Router /\ bits = 4
  <2>1. slot \in 0 .. 7
    BY <1>2 DEF Slots, INTERFACES, bitsUsedForNumber
  <2>2. c = 2 * SwapZeroOne(slot) + 1
    BY <1>2 DEF getCompressed, Router
  <2>3. SwapZeroOne(slot) \in 0 .. 7 /\ SwapZeroOne(SwapZeroOne(slot)) = slot
    BY <2>1 DEF SwapZeroOne
  <2>4. c \in 0 .. 15
    BY <2>2, <2>3
  <2>5. ASSUME NEW y \in Nat
        PROVE  DirectorBits(c + 16 * y) = 4 /\ Destination(c + 16 * y) = slot
    <3> HIDE DEF c
    <3> DEFINE z == SwapZeroOne(slot)
    <3>1. c = 2 * z + 1 /\ z \in 0 .. 7 /\ SwapZeroOne(z) = slot
      BY <2>2, <2>3, Zenon
    <3> HIDE DEF z
    <3>2. (c + 16 * y) % 2 = 1 /\ (c + 16 * y) % 4 # 2 /\ ((c + 16 * y) \div 2) % 8 = z
      BY <3>1
    <3>3. DirectorBits(c + 16 * y) = 4
      BY <3>2, Zenon DEF DirectorBits, bitsUsedForLabel
    <3> QED
      BY <3>1, <3>2, <3>3, SmallPowers DEF Destination, getDecompressed, Low, High
  <2> QED
    BY <1>2, <2>4, <2>5, SmallPowers
<1>3. CASE slot # Router /\ bits = 7
  <2>1. slot \in (0 .. 32) \ {1}
    BY <1>3 DEF Slots, INTERFACES, bitsUsedForNumber, Router
  <2>2. c = 4 * UnskipOne(slot) + 2
    BY <1>3 DEF getCompressed, Router
  <2>3. UnskipOne(slot) \in 0 .. 31 /\ SkipOne(UnskipOne(slot)) = slot
    BY <2>1 DEF SkipOne, UnskipOne
  <2>4. c \in 0 .. 127
    BY <2>2, <2>3
  <2>5. ASSUME NEW y \in Nat
        PROVE  DirectorBits(c + 128 * y) = 7 /\ Destination(c + 128 * y) = slot
    <3> HIDE DEF c
    <3> DEFINE z == UnskipOne(slot)
    <3>1. c = 4 * z + 2 /\ z \in 0 .. 31 /\ SkipOne(z) = slot
      BY <2>2, <2>3, Zenon
    <3> HIDE DEF z
    <3>2. (c + 128 * y) % 2 = 0 /\ (c + 128 * y) % 4 = 2 /\ ((c + 128 * y) \div 4) % 32 = z
      BY <3>1
    <3>3. DirectorBits(c + 128 * y) = 7
      BY <3>2, Zenon DEF DirectorBits, bitsUsedForLabel
    <3> QED
      BY <3>1, <3>2, <3>3, SmallPowers DEF Destination, getDecompressed, Low, High
  <2> QED
    BY <1>3, <2>4, <2>5, SmallPowers
<1>4. CASE slot # Router /\ bits = 10
  <2>1. slot \in (0 .. 256) \ {1}
    BY <1>4 DEF Slots, INTERFACES, Router
  <2>2. c = 4 * UnskipOne(slot)
    BY <1>4 DEF getCompressed, Router
  <2>3. UnskipOne(slot) \in 0 .. 255 /\ SkipOne(UnskipOne(slot)) = slot
    BY <2>1 DEF SkipOne, UnskipOne
  <2>4. c \in 0 .. 1023
    BY <2>2, <2>3
  <2>5. ASSUME NEW y \in Nat
        PROVE  DirectorBits(c + 1024 * y) = 10 /\ Destination(c + 1024 * y) = slot
    <3> HIDE DEF c
    <3> DEFINE z == UnskipOne(slot)
    <3>1. c = 4 * z /\ z \in 0 .. 255 /\ SkipOne(z) = slot
      BY <2>2, <2>3, Zenon
    <3> HIDE DEF z
    <3>2. (c + 1024 * y) % 2 = 0 /\ (c + 1024 * y) % 4 = 0 /\ ((c + 1024 * y) \div 4) % 256 = z
      BY <3>1
    <3>3. DirectorBits(c + 1024 * y) = 10
      BY <3>2 DEF DirectorBits, bitsUsedForLabel
    <3> QED
      BY <3>1, <3>2, <3>3, SmallPowers DEF Destination, getDecompressed, Low, High
  <2> QED
    BY <1>4, <2>4, <2>5, SmallPowers
<1> QED
    BY <1>1, <1>2, <1>3, <1>4, Zenon DEF Widths

-----------------------------------------------------------------------------
(* What becomes of a label on its way. *)

(* Numbers whose four lowest bits are zero. *)
Sixteens == {16 * j : j \in Nat}

(* Whatever is shifted by four bits or more ends in four zeros. *)
LEMMA PowerOfFour ==
    ASSUME NEW n \in 4 .. LabelBits, NEW x \in Nat
    PROVE  TwoTo[n] * x \in Sixteens
<1>1. 4 \in Nat /\ n - 4 \in Nat /\ 4 + (n - 4) = n /\ n <= LabelBits /\ n - 4 \in 0 .. LabelBits
    BY LabelAssumption
<1>2. TwoTo[n] = TwoTo[4] * TwoTo[n - 4]
    BY <1>1, PowerSum, Zenon
<1>3. TwoTo[4] = 16 /\ TwoTo[n - 4] \in Nat
    BY <1>1, Powers, SmallPowers
<1>4. TwoTo[n] * x = 16 * (TwoTo[n - 4] * x) /\ TwoTo[n - 4] * x \in Nat
    BY <1>2, <1>3
<1> QED
    BY <1>4, Zenon DEF Sixteens

(* Two such numbers add up to one. *)
LEMMA SumOfSixteens ==
    ASSUME NEW x \in Sixteens, NEW y \in Sixteens
    PROVE  x + y \in Sixteens
<1>1. PICK i \in Nat : x = 16 * i
    BY Zenon DEF Sixteens
<1>2. PICK j \in Nat : y = 16 * j
    BY Zenon DEF Sixteens
<1>3. x + y = 16 * (i + j) /\ i + j \in Nat
    BY <1>1, <1>2
<1> QED
    BY <1>3, Zenon DEF Sixteens

(* Taking off the lowest bits. *)
LEMMA HighJoin ==
    ASSUME NEW m \in Nat, NEW n \in Nat, m + n <= LabelBits, NEW x \in Nat, NEW y \in Nat
    PROVE  High(x + TwoTo[m + n] * y, m) = High(x, m) + TwoTo[n] * y
<1> DEFINE p == TwoTo[m]
           w == TwoTo[n]
           q == x \div p
           r == x % p
<1>1. m \in 0 .. LabelBits /\ n \in 0 .. LabelBits
    BY LabelAssumption
<1>2. p \in Nat \ {0} /\ w \in Nat /\ TwoTo[m + n] = p * w
    BY <1>1, Powers, PowerSum, Zenon
<1>3. x = q * p + r /\ q \in Nat /\ r \in 0 .. p - 1
    BY <1>2, Divided, Zenon
<1> HIDE DEF p, w, q, r
<1>4. x + (p * w) * y = (q + w * y) * p + r /\ q + w * y \in Nat
    BY <1>2, <1>3
<1>5. (x + (p * w) * y) \div p = q + w * y
    BY <1>2, <1>3, <1>4, Division, Zenon
<1> QED
    BY <1>2, <1>5, Zenon DEF High, p, w, q

(* Two shifts to the right are one. *)
LEMMA HighHigh ==
    ASSUME NEW m \in Nat, NEW n \in Nat, m + n <= LabelBits, NEW x \in Nat
    PROVE  High(High(x, m), n) = High(x, m + n)
<1>1. m \in 0 .. LabelBits /\ n \in 0 .. LabelBits
    BY LabelAssumption
<1>2. TwoTo[m] \in Nat \ {0} /\ TwoTo[n] \in Nat \ {0} /\ TwoTo[m + n] = TwoTo[m] * TwoTo[n]
    BY <1>1, Powers, PowerSum, Zenon
<1> QED
    BY <1>2, DivideTwice DEF High

(* What is left of a route keeps clear of the place where the directors of the *)
(* way back begin, by four bits.                                               *)
LEMMA RestClear ==
    ASSUME NEW label, NEW end, NEW cuts, IsRouteWith(label, end, cuts),
           NEW len \in 0 .. LabelBits - 1
    PROVE  /\ High(label, len) \in 0 .. TwoTo[LabelBits - len] - 1
           /\ Reverse(High(label, len))[LabelBits - len] \in Sixteens
<1> DEFINE B == LabelBits
           rest == High(label, len)
<1>1. /\ B \in Nat /\ B >= 16 /\ end \in Nat /\ end <= B - 5 /\ end \in 0 .. B - 1
      /\ end \in 0 .. B /\ len \in 0 .. B /\ B - len \in 0 .. B
    BY LabelAssumption DEF IsRouteWith, LongestRoute
<1>2. /\ TwoTo[B] \in Nat /\ TwoTo[end] \in Nat \ {0} /\ TwoTo[end + 1] = 2 * TwoTo[end]
      /\ TwoTo[len] \in Nat \ {0} /\ TwoTo[B - len] \in Nat \ {0}
    BY <1>1, Powers
<1>3. label \in Nat
    BY <1>2 DEF IsRouteWith, Labels
<1>4. label < TwoTo[end + 1]
  <2>1. label \div TwoTo[end] = 1
    BY Zenon DEF IsRouteWith, High
  <2>2. label = (label \div TwoTo[end]) * TwoTo[end] + (label % TwoTo[end])
        /\ label % TwoTo[end] \in 0 .. TwoTo[end] - 1
    BY <1>2, <1>3, Divided, Zenon
  <2> QED
    BY <1>2, <1>3, <2>1, <2>2
<1>5. rest \in Nat /\ rest * TwoTo[len] <= label
  <2>1. label = (label \div TwoTo[len]) * TwoTo[len] + (label % TwoTo[len])
        /\ label % TwoTo[len] \in 0 .. TwoTo[len] - 1 /\ label \div TwoTo[len] \in Nat
    BY <1>2, <1>3, Divided, Zenon
  <2> QED
    BY <1>2, <1>3, <2>1 DEF High
<1> HIDE DEF rest
<1>6. CASE len <= end + 1
  <2> DEFINE m == (end + 1) - len
             n == (B - 1) - end
  <2>1. /\ m \in Nat /\ n \in 4 .. B /\ n \in Nat /\ m + n = B - len /\ m \in 0 .. B
        /\ len + m = end + 1 /\ len + m <= B /\ m + n <= B
    BY <1>1, <1>6
  <2>2. TwoTo[m] \in Nat \ {0} /\ TwoTo[n] \in Nat \ {0}
        /\ TwoTo[end + 1] = TwoTo[len] * TwoTo[m] /\ TwoTo[B - len] = TwoTo[m] * TwoTo[n]
    <3>1. TwoTo[m] \in Nat \ {0} /\ TwoTo[n] \in Nat \ {0}
      BY <2>1, Powers
    <3>2. TwoTo[len + m] = TwoTo[len] * TwoTo[m] /\ TwoTo[m + n] = TwoTo[m] * TwoTo[n]
      BY <1>1, <2>1, PowerSum
    <3> QED
      BY <2>1, <3>1, <3>2, Zenon
  <2> HIDE DEF m, n
  <2>3. rest < TwoTo[m]
    <3> SUFFICES ASSUME rest >= TwoTo[m]
                 PROVE  FALSE
      BY <1>5, <2>2
    <3>1. rest * TwoTo[len] >= TwoTo[m] * TwoTo[len]
      BY <1>2, <1>5, <2>2
    <3> QED
      BY <1>2, <1>3, <1>4, <1>5, <2>2, <3>1
  <2>4. TwoTo[m] <= TwoTo[B - len]
    BY <2>2
  <2>5. rest \in 0 .. TwoTo[m] - 1 /\ rest \in 0 .. TwoTo[B - len] - 1
    BY <1>2, <1>5, <2>2, <2>3, <2>4
  <2>6. Reverse(rest)[m + n] = TwoTo[n] * Reverse(rest)[m]
    BY <2>1, <2>5, ReversePadded, Zenon
  <2>7. Reverse(rest)[m] \in Nat
    BY <1>5, <2>1, <2>2, ReverseRange
  <2>8. TwoTo[n] * Reverse(rest)[m] \in Sixteens
    BY <2>1, <2>7, PowerOfFour, Zenon
  <2> QED
    BY <2>1, <2>5, <2>6, <2>8, Zenon DEF rest
<1>7. CASE ~(len <= end + 1)
  <2> DEFINE m == len - (end + 1)
  <2>1. /\ m \in Nat /\ (end + 1) + m = len /\ m \in 0 .. B /\ end + 1 \in Nat
        /\ end + 1 \in 0 .. B /\ (end + 1) + m <= B
    BY <1>1, <1>7
  <2>2. TwoTo[m] \in Nat \ {0} /\ TwoTo[end + 1] \in Nat \ {0}
    BY <2>1, Powers, Zenon
  <2>3. TwoTo[len] = TwoTo[end + 1] * TwoTo[m]
    BY <2>1, PowerSum, Zenon
  <2> HIDE DEF m
  <2>4. TwoTo[len] >= TwoTo[end + 1]
    BY <2>2, <2>3
  <2>5. rest = 0
    <3> SUFFICES ASSUME rest >= 1
                 PROVE  FALSE
      BY <1>5
    <3>1. rest * TwoTo[len] >= TwoTo[len]
      BY <1>2, <1>5
    <3> QED
      BY <1>2, <1>3, <1>4, <1>5, <2>4, <3>1
  <2>6. 0 \in Sixteens
    BY DEF Sixteens
  <2>7. Reverse(0)[B - len] = 0
    BY <1>1, ReverseZero, Zenon
  <2>8. 0 \in 0 .. TwoTo[B - len] - 1
    BY <1>2
  <2> QED
    BY <2>5, <2>6, <2>7, <2>8, Zenon DEF rest
<1> QED
    BY <1>6, <1>7, Zenon

(* The reverse of a director is at the top of a label. *)
LEMMA ReverseWhole ==
    ASSUME NEW bits \in Widths, NEW c \in 0 .. TwoTo[bits] - 1
    PROVE  /\ Bits_bitReverse64(c) = TwoTo[LabelBits - bits] * Reverse(c)[bits]
           /\ Reverse(c)[bits] \in 0 .. TwoTo[bits] - 1
           /\ Reverse(Reverse(c)[bits])[bits] = c
<1>1. /\ bits \in Nat /\ bits \in 0 .. LabelBits /\ LabelBits - bits \in Nat
      /\ bits + (LabelBits - bits) = LabelBits /\ bits + (LabelBits - bits) <= LabelBits
    BY LabelAssumption DEF Widths
<1>2. c \in Nat
    BY <1>1, Powers
<1>3. Bits_bitReverse64(c) = Reverse(c)[LabelBits]
    BY <1>2, Reversal, Zenon
<1>4. Reverse(c)[bits + (LabelBits - bits)] = TwoTo[LabelBits - bits] * Reverse(c)[bits]
    BY <1>1, ReversePadded, Zenon
<1>5. Reverse(c)[bits] \in 0 .. TwoTo[bits] - 1
    BY <1>1, <1>2, ReverseRange, Zenon
<1> QED
    BY <1>1, <1>3, <1>4, <1>5, ReverseTwice, Zenon

(* A packet that is sent back the way it came has the directors of that way in *)
(* front, and four zeros behind them.                                          *)
LEMMA TurnedRound ==
    ASSUME NEW label, NEW end, NEW cuts, IsRouteWith(label, end, cuts),
           NEW len \in 0 .. LabelBits - 1, NEW R \in Nat
    PROVE  LET back == Bits_bitReverse64(High(label, len) + TwoTo[LabelBits - len] * R)
           IN  \E J \in Sixteens : back = Reverse(R)[len] + TwoTo[len] * J
<1> DEFINE B == LabelBits
           rest == High(label, len)
           x == rest + TwoTo[B - len] * R
<1>1. /\ B - len \in Nat /\ B - len \in 0 .. B /\ len \in Nat
      /\ (B - len) + len = B /\ (B - len) + len <= B
    BY LabelAssumption
<1>2. rest \in 0 .. TwoTo[B - len] - 1 /\ Reverse(rest)[B - len] \in Sixteens
    BY RestClear, Zenon
<1>3. TwoTo[B - len] \in Nat
    BY <1>1, Powers, Zenon
<1>4. Reverse(x)[(B - len) + len] = Reverse(R)[len] + TwoTo[len] * Reverse(rest)[B - len]
  <2> HIDE DEF rest
  <2> QED
    BY <1>1, <1>2, ReverseJoin, Zenon
<1>5. x \in Nat
  <2> HIDE DEF rest
  <2> QED
    BY <1>2, <1>3
<1>6. Bits_bitReverse64(x) = Reverse(x)[B]
  <2> HIDE DEF x
  <2> QED
    BY <1>5, Reversal, Zenon
<1> QED
    BY <1>1, <1>2, <1>4, <1>6, Zenon

(* A switch takes a director off the route and puts that of the way back on.   *)
LEMMA Forwarded ==
    ASSUME NEW label \in Nat, NEW len \in Nat, NEW bits \in Widths, len + bits <= LabelBits,
           NEW R \in 0 .. TwoTo[len] - 1, NEW c \in 0 .. TwoTo[bits] - 1
    PROVE  \E Q \in 0 .. TwoTo[len + bits] - 1 :
               /\ High(High(label, len) + TwoTo[LabelBits - len] * R, bits) + Bits_bitReverse64(c)
                      = High(label, len + bits) + TwoTo[LabelBits - (len + bits)] * Q
               /\ Reverse(Q)[len + bits] = c + TwoTo[bits] * Reverse(R)[len]
<1> DEFINE B == LabelBits
           r == Reverse(c)[bits]
           Q == R + TwoTo[len] * r
           n == B - (len + bits)
<1>1. /\ bits \in Nat /\ n \in Nat /\ bits + n = B - len /\ bits + n <= B /\ len + n = B - bits
      /\ len + n <= B /\ len \in 0 .. B /\ bits \in 0 .. B /\ n \in 0 .. B /\ n + len = B - bits
    BY LabelAssumption DEF Widths
<1>2. TwoTo[len] \in Nat \ {0} /\ TwoTo[bits] \in Nat \ {0} /\ TwoTo[n] \in Nat \ {0}
    BY <1>1, Powers, Zenon
<1>3. r \in 0 .. TwoTo[bits] - 1 /\ Reverse(r)[bits] = c /\ Bits_bitReverse64(c) = TwoTo[B - bits] * r
    BY ReverseWhole, Zenon
<1>4. /\ TwoTo[len + bits] = TwoTo[len] * TwoTo[bits]
      /\ TwoTo[B - bits] = TwoTo[n] * TwoTo[len]
  <2>1. TwoTo[n + len] = TwoTo[n] * TwoTo[len]
    BY <1>1, PowerSum, Zenon
  <2>2. TwoTo[len + bits] = TwoTo[len] * TwoTo[bits]
    BY <1>1, PowerSum, Zenon
  <2> QED
    BY <1>1, <2>1, <2>2, Zenon
<1>5. High(label, len) \in Nat /\ High(label, len + bits) \in Nat
  <2>1. len + bits \in 0 .. B
    BY <1>1
  <2>2. TwoTo[len + bits] \in Nat \ {0}
    BY <2>1, Powers, Zenon
  <2> QED
    BY <1>2, <2>2, Divided, Zenon DEF High
<1>6. High(High(label, len) + TwoTo[B - len] * R, bits) = High(label, len + bits) + TwoTo[n] * R
  <2>1. R \in Nat
    BY <1>2
  <2>2. High(High(label, len) + TwoTo[bits + n] * R, bits) = High(High(label, len), bits) + TwoTo[n] * R
    <3> HIDE DEF n
    <3> QED
      BY <1>1, <1>5, <2>1, HighJoin
  <2>3. High(High(label, len), bits) = High(label, len + bits)
    BY <1>1, HighHigh, Zenon
  <2> QED
    BY <1>1, <2>2, <2>3, Zenon
<1> HIDE DEF r, n
<1>7. Q \in 0 .. TwoTo[len + bits] - 1
  <2> DEFINE p == TwoTo[len]
             w == TwoTo[bits]
  <2>1. p \in Nat \ {0} /\ w \in Nat \ {0} /\ r \in 0 .. w - 1 /\ R \in 0 .. p - 1
    BY <1>2, <1>3, Zenon
  <2> HIDE DEF p, w
  <2>2. p * r <= p * (w - 1) /\ p * r \in Nat
    BY <2>1
  <2>3. p * (w - 1) = p * w - p
    BY <2>1
  <2>4. R + p * r \in 0 .. (p * w) - 1
    BY <2>1, <2>2, <2>3
  <2> QED
    BY <1>4, <2>4, Zenon DEF p, w
<1>8. Reverse(Q)[len + bits] = c + TwoTo[bits] * Reverse(R)[len]
  <2>1. r \in Nat
    BY <1>2, <1>3
  <2> QED
    BY <1>1, <1>3, <2>1, ReverseJoin
<1>9. TwoTo[n] * R + (TwoTo[n] * TwoTo[len]) * r = TwoTo[n] * Q
  <2>1. r \in Nat /\ R \in Nat
    BY <1>2, <1>3
  <2> QED
    BY <1>2, <2>1
<1>10. (High(label, len + bits) + TwoTo[n] * R) + TwoTo[B - bits] * r
           = High(label, len + bits) + TwoTo[n] * Q
  <2>1. r \in Nat /\ R \in Nat
    BY <1>2, <1>3
  <2>2. TwoTo[n] * R \in Nat /\ (TwoTo[n] * TwoTo[len]) * r \in Nat
    BY <1>2, <2>1
  <2> QED
    BY <1>4, <1>5, <1>9, <2>2
<1> QED
    BY <1>3, <1>6, <1>7, <1>8, <1>10, Zenon DEF n

(* The same on the way back: what is put on is above the directors left and    *)
(* above four zeros behind them.                                               *)
PassedBack(x, bits, c, d, enc, len, J) ==
    x = (c + TwoTo[bits] * enc) + TwoTo[len + bits] * J
        => \E K \in Sixteens : High(x, bits) + Bits_bitReverse64(d) = enc + TwoTo[len] * K

(* A switch on the way back takes its director off and puts its source on. *)
LEMMA Backed ==
    ASSUME NEW enc \in Nat, NEW len \in Nat, NEW bits \in Widths, len + bits <= LabelBits,
           NEW c \in 0 .. TwoTo[bits] - 1, NEW d \in 0 .. TwoTo[bits] - 1, NEW J \in Sixteens,
           TwoTo[LabelBits - (len + bits)] * Reverse(d)[bits] \in Sixteens,
           NEW x
    PROVE  PassedBack(x, bits, c, d, enc, len, J)
<1> DEFINE B == LabelBits
           n == B - (len + bits)
           r == Reverse(d)[bits]
           K == J + TwoTo[n] * r
<1>1. /\ bits \in Nat /\ n \in Nat /\ n + len = B - bits /\ n + len <= B /\ bits + len = len + bits
      /\ len \in 0 .. B /\ bits \in 0 .. B /\ n \in 0 .. B /\ bits + len <= B
    BY LabelAssumption DEF Widths
<1>2. TwoTo[len] \in Nat \ {0} /\ TwoTo[bits] \in Nat \ {0} /\ TwoTo[n] \in Nat \ {0}
    BY <1>1, Powers, Zenon
<1>3. r \in 0 .. TwoTo[bits] - 1 /\ Bits_bitReverse64(d) = TwoTo[B - bits] * r
    BY ReverseWhole, Zenon
<1>4. TwoTo[B - bits] = TwoTo[n] * TwoTo[len]
  <2>1. TwoTo[n + len] = TwoTo[n] * TwoTo[len]
    BY <1>1, PowerSum, Zenon
  <2> QED
    BY <1>1, <2>1, Zenon
<1>5. J \in Nat
    BY DEF Sixteens
<1>6. K \in Sixteens
    BY SumOfSixteens, Zenon
<1>7. High((c + TwoTo[bits] * enc) + TwoTo[len + bits] * J, bits) = enc + TwoTo[len] * J
  <2>1. c + TwoTo[bits] * enc \in Nat /\ c \in Nat
    BY <1>2
  <2>2. High((c + TwoTo[bits] * enc) + TwoTo[bits + len] * J, bits)
            = High(c + TwoTo[bits] * enc, bits) + TwoTo[len] * J
    <3> DEFINE e == c + TwoTo[bits] * enc
    <3>1. e \in Nat
      BY <2>1, Zenon
    <3> HIDE DEF e
    <3>2. High(e + TwoTo[bits + len] * J, bits) = High(e, bits) + TwoTo[len] * J
      BY <1>1, <1>5, <3>1, HighJoin
    <3> QED
      BY <3>2, Zenon DEF e
  <2>3. High(c + TwoTo[bits] * enc, bits) = enc
    <3>1. c + TwoTo[bits] * enc = enc * TwoTo[bits] + c
      BY <1>2, <2>1
    <3>2. (enc * TwoTo[bits] + c) \div TwoTo[bits] = enc
      BY <1>2, Division, Zenon
    <3> QED
      BY <3>1, <3>2, Zenon DEF High
  <2> QED
    BY <1>1, <2>2, <2>3, Zenon
<1> HIDE DEF r, n
<1>8. (enc + TwoTo[len] * J) + (TwoTo[n] * TwoTo[len]) * r = enc + TwoTo[len] * K
  <2>1. r \in Nat
    BY <1>2, <1>3
  <2>2. TwoTo[len] * K = TwoTo[len] * J + (TwoTo[n] * TwoTo[len]) * r
    BY <1>2, <1>5, <2>1
  <2>3. TwoTo[len] * J \in Nat /\ (TwoTo[n] * TwoTo[len]) * r \in Nat
    BY <1>2, <1>5, <2>1
  <2> QED
    BY <2>2, <2>3
<1> QED
    BY <1>3, <1>4, <1>6, <1>7, <1>8, Zenon DEF PassedBack

(* At the node that sent the packet the label is 0001 with zeros, as far as    *)
(* any switch looks.                                                           *)
LEMMA LastDirector ==
    ASSUME NEW bits \in Widths, NEW J \in Sixteens, NEW label, label = 1 + TwoTo[bits] * J
    PROVE  /\ label \in Nat /\ DirectorBits(label) = 4 /\ Destination(label) = Router
           /\ \A b \in Widths : b <= bits => Low(label, b + 4) = 1
<1>1. PICK j \in Nat : J = 16 * j
    BY Zenon DEF Sixteens
<1>2. bits \in Nat /\ 4 \in Nat /\ bits + 4 <= LabelBits /\ bits \in 0 .. LabelBits
    BY LabelAssumption DEF Widths
<1>3. TwoTo[bits] \in Nat \ {0}
    BY <1>2, Powers, Zenon
<1>4. label = 1 + 16 * (TwoTo[bits] * j) /\ TwoTo[bits] * j \in Nat
    BY <1>1, <1>3
<1>5. ASSUME NEW b \in Widths, b <= bits
      PROVE  Low(label, b + 4) = 1
  <2>1. /\ b \in Nat /\ bits - b \in Nat /\ (b + 4) + (bits - b) = bits + 4 /\ b + 4 \in Nat
        /\ bits - b \in 0 .. LabelBits /\ b + 4 \in 0 .. LabelBits /\ (b + 4) + (bits - b) <= LabelBits
        /\ b \in 0 .. LabelBits /\ b + 4 <= LabelBits
    BY <1>2, <1>5, LabelAssumption DEF Widths
  <2>2. TwoTo[b + 4] \in Nat \ {0} /\ TwoTo[bits - b] \in Nat /\ TwoTo[b + 4] > 1
    <3>1. TwoTo[b + 4] = TwoTo[b] * TwoTo[4] /\ TwoTo[b] \in Nat \ {0} /\ TwoTo[4] = 16
      BY <1>2, <2>1, PowerSum, Powers, SmallPowers
    <3> QED
      BY <2>1, <3>1, Powers
  <2>3. TwoTo[bits] * 16 = TwoTo[b + 4] * TwoTo[bits - b]
    <3>1. TwoTo[(b + 4) + (bits - b)] = TwoTo[b + 4] * TwoTo[bits - b]
      BY <2>1, PowerSum, Zenon
    <3>2. TwoTo[bits + 4] = TwoTo[bits] * TwoTo[4] /\ TwoTo[4] = 16
      BY <1>2, PowerSum, SmallPowers
    <3> QED
      BY <2>1, <3>1, <3>2, Zenon
  <2> DEFINE p == TwoTo[b + 4]
             w == TwoTo[bits - b]
             v == TwoTo[bits]
  <2>4. p \in Nat \ {0} /\ p > 1 /\ w \in Nat /\ v \in Nat /\ v * 16 = p * w
    BY <1>3, <2>2, <2>3, Zenon
  <2>5. label = 1 + v * (16 * j)
    BY <1>1, Zenon
  <2> HIDE DEF p, w, v
  <2>6. label = (w * j) * p + 1 /\ w * j \in Nat
    <3>1. v * (16 * j) = (v * 16) * j
      BY <2>4
    <3>2. (p * w) * j = (w * j) * p
      BY <2>4
    <3> QED
      BY <2>4, <2>5, <3>1, <3>2
  <2>7. label % p = 1
    <3>1. 1 \in 0 .. p - 1
      BY <2>4
    <3>2. ((w * j) * p + 1) % p = 1
      BY <2>4, <2>6, <3>1, Division, Zenon
    <3> QED
      BY <2>6, <3>2, Zenon
  <2> QED
    BY <2>7, Zenon DEF Low, p
<1> QED
    BY <1>4, <1>5, RouterDirector

(* The next director of a packet that keeps to its route: how many bits are    *)
(* taken off, that they are enough for the way back, and that the route goes   *)
(* on behind them unless the packet is for the router.                         *)
LEMMA NextDirector ==
    ASSUME NEW label, NEW end, NEW cuts, IsRouteWith(label, end, cuts), NEW len \in cuts,
           NEW R \in Nat, NEW x, x = High(label, len) + TwoTo[LabelBits - len] * R,
           NEW source \in Slots, SourceTooLong(source, x) => Destination(x) = Router,
           NEW bits, bits = BitsUsed(source, x), len + bits <= LabelBits - 1
    PROVE  /\ bits \in Widths /\ Destination(x) \in Slots
           /\ bitsUsedForNumber(source) <= bits
           /\ bitsUsedForNumber(Destination(x)) <= bits
           /\ Destination(x) # Router => len + bits \in cuts
           /\ TwoTo[LabelBits - (len + bits)] * Reverse(getCompressed(Destination(x), bits))[bits]
                  \in Sixteens
<1> DEFINE B == LabelBits
           rest == High(label, len)
           out == Destination(x)
<1>1. /\ B \in Nat /\ end \in Nat /\ end <= B - 5 /\ end >= len /\ len \in Nat /\ len \in 0 .. B - 1
      /\ B - len \in Nat /\ B - len \in 5 .. B /\ B - len \in 0 .. B
    BY LabelAssumption DEF IsRouteWith, LongestRoute
<1>2. TwoTo[B - len] \in Nat /\ rest \in 0 .. TwoTo[B - len] - 1
    BY <1>1, Powers, RestClear, Zenon
<1>3. rest \in Nat /\ x \in Nat
  <2> HIDE DEF rest
  <2>1. x = rest + TwoTo[B - len] * R
    BY Zenon DEF rest
  <2> QED
    BY <1>2, <2>1
<1>4. /\ DirectorBits(x) \in Widths /\ out \in Slots
      /\ bitsUsedForNumber(out) \in Widths /\ bitsUsedForNumber(out) <= DirectorBits(x)
    BY <1>3, Decoded, Zenon
<1>5. bitsUsedForNumber(source) \in Widths
    BY Zenon DEF bitsUsedForNumber, Widths
<1>6. /\ bits \in Widths /\ bitsUsedForNumber(source) <= bits /\ DirectorBits(x) <= bits
      /\ ~SourceTooLong(source, x) => bits = DirectorBits(x)
  <2>1. CASE SourceTooLong(source, x)
    BY <1>4, <1>5, <2>1 DEF BitsUsed, SourceTooLong, Widths
  <2>2. CASE ~SourceTooLong(source, x)
    BY <1>4, <1>5, <2>2 DEF BitsUsed, SourceTooLong, Widths
  <2> QED
    BY <2>1, <2>2, Zenon
<1>7. bitsUsedForNumber(out) <= bits
    BY <1>4, <1>6 DEF Widths
<1>8. \E y \in Nat : TwoTo[B - len] * R = 16 * y
  <2>1. TwoTo[B - len] * R \in Sixteens
    BY <1>1, PowerOfFour
  <2> QED
    BY <2>1, Zenon DEF Sixteens
<1>9. PICK y \in Nat : TwoTo[B - len] * R = 16 * y
    BY <1>8, Zenon
<1>10. x = rest + 16 * y
    BY <1>9, Zenon
<1>11. CASE out # Router
  <2>1. bits = DirectorBits(x)
    BY <1>6, <1>11, Zenon
  <2>2. DirectorBits(x) = DirectorBits(rest)
    <3>1. x = rest + 4 * (4 * y) /\ 4 * y \in Nat
      <4> HIDE DEF rest
      <4> QED
        BY <1>3, <1>10
    <3> HIDE DEF rest
    <3> QED
      BY <1>3, <3>1, FormIsLow, Zenon
  <2>3. len # end
    <3> SUFFICES ASSUME len = end
                 PROVE  FALSE
      BY Zenon
    <3>1. rest = 1
      BY Zenon DEF IsRouteWith
    <3>2. Destination(1 + 16 * y) = Router
      BY RouterDirector, Zenon
    <3> QED
      BY <1>10, <1>11, <3>1, <3>2, Zenon
  <2>4. len + bits \in cuts
    BY <2>1, <2>2, <2>3, Zenon DEF IsRouteWith
  <2>5. len + bits \in 0 .. end
    BY <2>4, Zenon DEF IsRouteWith
  <2>6. B - (len + bits) \in 4 .. B
    BY <1>1, <2>5
  <2>7. Reverse(getCompressed(out, bits))[bits] \in Nat
    <3>1. getCompressed(out, bits) \in 0 .. TwoTo[bits] - 1
      BY <1>4, <1>6, <1>7, Compressed, Zenon
    <3>2. Reverse(getCompressed(out, bits))[bits] \in 0 .. TwoTo[bits] - 1
      BY <1>6, <3>1, ReverseWhole, Zenon
    <3>3. bits \in 0 .. B
      BY <1>6, LabelAssumption DEF Widths
    <3>4. TwoTo[bits] \in Nat
      BY <3>3, Powers, Zenon
    <3> QED
      BY <3>2, <3>4
  <2>8. TwoTo[B - (len + bits)] * Reverse(getCompressed(out, bits))[bits] \in Sixteens
    BY <2>6, <2>7, PowerOfFour, Zenon
  <2> QED
    BY <1>4, <1>6, <1>7, <2>4, <2>8, Zenon
<1>12. CASE out = Router
  <2> DEFINE m == B - (len + bits)
             w == bits - 1
  <2>1. /\ bits \in Nat /\ w \in Nat /\ 1 + w = bits /\ 1 + w <= B /\ m \in Nat /\ 1 \in Nat
        /\ m + w = (B - len) - 1 /\ m + w <= B /\ m + w \in 4 .. B
    BY <1>1, <1>6, LabelAssumption DEF Widths
  <2>2. getCompressed(out, bits) = 1
    BY <1>4, <1>6, <1>7, <1>12, Compressed, Zenon
  <2>3. Reverse(1)[1 + w] = TwoTo[w] * Reverse(1)[1] /\ Reverse(1)[1] = 1
    <3>1. 1 \in 0 .. TwoTo[1] - 1 /\ 1 \in 0 .. 1
      BY SmallPowers
    <3> HIDE DEF w
    <3> QED
      BY <2>1, <3>1, ReversePadded, ReverseBit, Zenon
  <2>4. TwoTo[w] \in Nat /\ TwoTo[m + w] = TwoTo[m] * TwoTo[w] /\ TwoTo[m + w] \in Nat
    <3>1. w \in 0 .. B /\ m + w \in 0 .. B
      BY <2>1, LabelAssumption
    <3> HIDE DEF m, w
    <3> QED
      BY <2>1, <3>1, PowerSum, Powers, Zenon
  <2>5. Reverse(1)[bits] = TwoTo[w]
    <3> HIDE DEF w
    <3> QED
      BY <2>1, <2>3, <2>4
  <2>6. TwoTo[m + w] * 1 \in Sixteens
    BY <2>1, PowerOfFour, Zenon
  <2>7. TwoTo[m] * Reverse(getCompressed(out, bits))[bits] \in Sixteens
    <3> HIDE DEF m, w
    <3> QED
      BY <2>2, <2>4, <2>5, <2>6
  <2> QED
    BY <1>4, <1>6, <1>7, <1>12, <2>7, Zenon
<1> QED
    BY <1>11, <1>12, Zenon

-----------------------------------------------------------------------------
(* The network as it is until a table changes. *)

Ports(n) == DOMAIN Table[n] \cup {Router}
PeerOn(n, slot) == IF slot = Router THEN n ELSE Table[n][slot]
Start == [n \in Nodes |-> [s \in Ports(n) |-> Interface(PeerOn(n, s))]]

(* What the switches find in the tables at the start. *)
LEMMA StartIs ==
    ASSUME interfaces = Start, NEW n \in Nodes
    PROVE  /\ DOMAIN interfaces[n] = Ports(n)
           /\ \A s \in Ports(n) : interfaces[n][s].peer = PeerOn(n, s) /\ interfaces[n][s].state = "UP"
           /\ \A peer : SlotOf(n, peer) = {s \in Ports(n) : PeerOn(n, s) = peer}
<1>1. interfaces[n] = [s \in Ports(n) |-> Interface(PeerOn(n, s))]
    BY Zenon DEF Start
<1>2. /\ DOMAIN interfaces[n] = Ports(n)
      /\ \A s \in Ports(n) : interfaces[n][s].peer = PeerOn(n, s) /\ interfaces[n][s].state = "UP"
    BY <1>1 DEF Interface
<1> QED
    BY <1>2, Zenon DEF SlotOf

(* A peer is on one interface, and no node is its own. *)
LEMMA OnePort ==
    ASSUME NEW n \in Nodes, NEW s \in Ports(n), NEW u \in Ports(n)
    PROVE  /\ s \in Slots /\ Router \in Ports(n)
           /\ PeerOn(n, s) = PeerOn(n, u) => s = u
<1>1. DOMAIN Table[n] \subseteq Slots /\ Router \in Slots
    BY SwitchAssumption DEF Slots, Router, INTERFACES
<1>2. \A a, b \in DOMAIN Table[n] : Table[n][a] = Table[n][b] => a = b
    BY SwitchAssumption, Zenon DEF IsInjective
<1>3. \A a \in DOMAIN Table[n] : Table[n][a] # n
    BY SwitchAssumption, Zenon DEF Range
<1> QED
    BY <1>1, <1>2, <1>3, Zenon DEF Ports, PeerOn

(* One switch that a packet has passed: the interface it came in on, the one   *)
(* it left by, the bits its label was shifted by, and the directors of the way *)
(* back from there with the number of bits that they take.                     *)
Home(n) == [node |-> n, slot |-> Router, out |-> Router, bits |-> 0, enc |-> 0, len |-> 0]

HopOK(h) ==
    /\ h.node \in Nodes /\ h.slot \in Ports(h.node) /\ h.out \in Ports(h.node)
    /\ h.bits \in Widths
    /\ bitsUsedForNumber(h.slot) <= h.bits /\ bitsUsedForNumber(h.out) <= h.bits
    /\ h.enc \in Nat /\ h.len \in 0 .. LabelBits - 1
    /\ TwoTo[LabelBits - h.len] * Reverse(getCompressed(h.out, h.bits))[h.bits] \in Sixteens

Follows(g, h) ==
    /\ PeerOn(g.node, g.out) = h.node /\ PeerOn(h.node, h.slot) = g.node
    /\ h.enc = getCompressed(h.slot, h.bits) + TwoTo[h.bits] * g.enc
    /\ h.len = g.len + h.bits

(* The switches that a packet of node n has passed, in order. *)
Trail(T, k, n) ==
    /\ T[0] = Home(n)
    /\ \A i \in 1 .. k : /\ HopOK(T[i])
                         /\ Follows(T[i - 1], T[i])
                         /\ T[i].slot = Router <=> i = 1

(* A packet and what it holds. *)
Carried(p, kind, at, from, in, label, shift, suppress, origin) ==
    /\ DOMAIN p = {"kind", "at", "from", "inRouter", "label", "shift", "suppress", "origin"}
    /\ p.kind = kind /\ p.at = at /\ p.from = from /\ p.inRouter = in
    /\ p.label = label /\ p.shift = shift /\ p.suppress = suppress /\ p.origin = origin

(* A packet that is on its route, or has come out of it at a router. *)
OnItsWay(p, T, k, n, label, end, cuts, R) ==
    /\ Trail(T, k, n)
    /\ IsRouteWith(label, end, cuts)
    /\ R \in 0 .. TwoTo[T[k].len] - 1 /\ Reverse(R)[T[k].len] = T[k].enc
    /\ p.inRouter \in BOOLEAN
    /\ p.inRouter => k > 0 /\ T[k].out = Router
    /\ ~p.inRouter => T[k].len \in cuts /\ (T[k].out = Router <=> k = 0)
    /\ Carried(p, "data", PeerOn(T[k].node, T[k].out), T[k].node, p.inRouter,
                   High(label, T[k].len) + TwoTo[LabelBits - T[k].len] * R, T[k].len, FALSE, n)

(* An answer that has k switches to pass, with their directors in front. *)
OnItsWayBack(p, T, k, n, J) ==
    /\ Trail(T, k, n)
    /\ k > 0 /\ J \in Sixteens
    /\ p.kind \in {"reply", "error"}
    /\ p.shift \in Nat /\ p.shift + T[k].len <= LabelBits - 1
    /\ Carried(p, p.kind, T[k].node, PeerOn(T[k].node, T[k].out), FALSE,
                   T[k].enc + TwoTo[T[k].len] * J, p.shift, p.suppress, n)

(* An answer in the router that it is for. *)
Back(p) == p.kind \in {"reply", "error"} /\ p.inRouter = TRUE /\ p.at = p.origin

PacketOK(p) ==
    \/ p = NoPacket
    \/ \E T, label, end, cuts, R : \E k \in Nat, n \in Nodes :
           OnItsWay(p, T, k, n, label, end, cuts, R)
    \/ \E T, J : \E k \in Nat, n \in Nodes : OnItsWayBack(p, T, k, n, J)
    \/ Back(p)

EndedOK(e) == e.kind \in {"reply", "error"} => e.how = "arrived" /\ e.at = e.origin

Inv ==
    /\ changes \in Nat
    /\ changes = 0 => interfaces = Start /\ PacketOK(packet) /\ EndedOK(ended)

-----------------------------------------------------------------------------
(* Steps. *)

(* The switch that a packet has passed last. *)
LEMMA TrailAt ==
    ASSUME NEW T, NEW k \in Nat, NEW n \in Nodes, Trail(T, k, n)
    PROVE  /\ T[k].node \in Nodes /\ T[k].out \in Ports(T[k].node)
           /\ T[k].enc \in Nat /\ T[k].len \in 0 .. LabelBits - 1
<1>1. CASE k = 0
  <2>1. T[k] = Home(n)
    BY <1>1, Zenon DEF Trail
  <2> QED
    BY <2>1, LabelAssumption DEF Home, Ports
<1>2. CASE k # 0
  <2>1. k \in 1 .. k
    BY <1>2
  <2> QED
    BY <2>1, Zenon DEF Trail, HopOK
<1> QED
    BY <1>1, <1>2, Zenon

(* A packet comes in from the router exactly where it was sent. *)
Reaches(g, k, m, source) ==
    /\ m = PeerOn(g.node, g.out) /\ PeerOn(m, source) = g.node
    /\ g.out = Router <=> k = 0

Enters(source, k, m, n) ==
    /\ source = Router <=> k = 0
    /\ k = 0 => m = n

(* The switch knows the sender's own packet by the interface it comes in on. *)
LEMMA CameIn ==
    ASSUME NEW T, NEW k \in Nat, NEW n \in Nodes, Trail(T, k, n),
           NEW m \in Nodes, NEW source \in Ports(m), Reaches(T[k], k, m, source)
    PROVE  Enters(source, k, m, n)
<1>0. /\ m = PeerOn(T[k].node, T[k].out) /\ PeerOn(m, source) = T[k].node
      /\ T[k].out = Router <=> k = 0
    BY Zenon DEF Reaches
<1>1. T[k].node \in Nodes /\ T[k].out \in Ports(T[k].node)
    BY TrailAt, Zenon
<1>2. ASSUME source = Router
      PROVE  k = 0
  <2>1. PeerOn(T[k].node, T[k].out) = PeerOn(T[k].node, Router)
    BY <1>0, <1>2, Zenon DEF PeerOn
  <2>2. T[k].out = Router
    BY <1>1, <2>1, OnePort, Zenon
  <2> QED
    BY <1>0, <2>2, Zenon
<1>3. ASSUME k = 0
      PROVE  source = Router /\ m = n
  <2>1. T[k] = Home(n)
    BY <1>3, Zenon DEF Trail
  <2>2. T[k].node = n /\ m = n
    BY <1>0, <2>1 DEF Home, PeerOn
  <2>3. PeerOn(m, source) = PeerOn(m, Router)
    BY <1>0, <2>2, Zenon DEF PeerOn
  <2> QED
    BY <2>2, <2>3, OnePort, Zenon
<1> QED
    BY <1>2, <1>3, Zenon DEF Enters

(* A packet passes one more switch. *)
LEMMA TrailGrows ==
    ASSUME NEW T, NEW k \in Nat, NEW n, Trail(T, k, n),
           NEW h, HopOK(h), Follows(T[k], h), h.slot = Router <=> k = 0
    PROVE  LET U == [i \in 0 .. k + 1 |-> IF i = k + 1 THEN h ELSE T[i]]
           IN  Trail(U, k + 1, n) /\ U[k + 1] = h
<1> DEFINE U == [i \in 0 .. k + 1 |-> IF i = k + 1 THEN h ELSE T[i]]
<1>1. U[k + 1] = h /\ \A i \in 0 .. k : U[i] = T[i]
    OBVIOUS
<1> HIDE DEF U
<1>2. U[0] = Home(n)
    BY <1>1 DEF Trail
<1>3. ASSUME NEW i \in 1 .. k + 1
      PROVE  HopOK(U[i]) /\ Follows(U[i - 1], U[i]) /\ (U[i].slot = Router <=> i = 1)
  <2>1. CASE i = k + 1
    <3>1. U[i] = h /\ U[i - 1] = T[k] /\ (k = 0 <=> i = 1)
      BY <1>1, <2>1
    <3> QED
      BY <3>1, Zenon
  <2>2. CASE i # k + 1
    <3>1. i \in 1 .. k /\ U[i] = T[i] /\ U[i - 1] = T[i - 1]
      BY <1>1, <2>2
    <3> QED
      BY <3>1, Zenon DEF Trail
  <2> QED
    BY <2>1, <2>2, Zenon
<1>4. Trail(U, k + 1, n)
    BY <1>2, <1>3, Zenon DEF Trail
<1> QED
    BY <1>1, <1>4, Zenon DEF U

(* The ways a packet's fields are set: when it leaves a switch, is turned *)
(* into an error, is forwarded, is answered.                              *)
LEMMA SetPlace ==
    ASSUME NEW p, NEW kind, NEW at, NEW from, NEW in, NEW label, NEW shift, NEW suppress, NEW origin,
           Carried(p, kind, at, from, in, label, shift, suppress, origin),
           NEW a, NEW f, NEW i
    PROVE  Carried([p EXCEPT !.at = a, !.from = f, !.inRouter = i],
                   kind, a, f, i, label, shift, suppress, origin)
    BY Zenon DEF Carried

(* A packet that becomes an error. *)
LEMMA SetError ==
    ASSUME NEW p, NEW kind, NEW at, NEW from, NEW in, NEW label, NEW shift, NEW suppress, NEW origin,
           Carried(p, kind, at, from, in, label, shift, suppress, origin),
           NEW e, NEW z, NEW t, NEW l
    PROVE  Carried([p EXCEPT !.kind = e, !.shift = z, !.suppress = t, !.label = l],
                   e, at, from, in, l, z, t, origin)
    BY Zenon DEF Carried

(* A packet that is shifted. *)
LEMMA SetLabel ==
    ASSUME NEW p, NEW kind, NEW at, NEW from, NEW in, NEW label, NEW shift, NEW suppress, NEW origin,
           Carried(p, kind, at, from, in, label, shift, suppress, origin),
           NEW l, NEW z
    PROVE  Carried([p EXCEPT !.label = l, !.shift = z],
                   kind, at, from, in, l, z, suppress, origin)
    BY Zenon DEF Carried

(* A packet that is answered. *)
LEMMA SetReply ==
    ASSUME NEW p, NEW kind, NEW at, NEW from, NEW in, NEW label, NEW shift, NEW suppress, NEW origin,
           Carried(p, kind, at, from, in, label, shift, suppress, origin),
           NEW r, NEW i, NEW f, NEW z, NEW l
    PROVE  Carried([p EXCEPT !.kind = r, !.inRouter = i, !.from = f, !.shift = z, !.label = l],
                   r, at, f, i, l, z, suppress, origin)
    BY Zenon DEF Carried

(* A packet that leaves a node. *)
LEMMA Leaving ==
    ASSUME interfaces = Start, NEW n \in Nodes, NEW slot \in Ports(n),
           NEW p, NEW kind, NEW at, NEW from, NEW in, NEW label, NEW shift, NEW suppress, NEW origin,
           Carried(p, kind, at, from, in, label, shift, suppress, origin)
    PROVE  Carried(Leave(n, slot, p),
                   kind, PeerOn(n, slot), n, slot = Router, label, shift, suppress, origin)
<1>1. interfaces[n][slot].peer = PeerOn(n, slot)
    BY StartIs, Zenon
<1> DEFINE b == (slot = Router)
<1>2. Leave(n, slot, p) = [p EXCEPT !.at = PeerOn(n, slot), !.from = n, !.inRouter = b]
    BY <1>1, Zenon DEF Leave
<1> HIDE DEF b
<1>3. Carried([p EXCEPT !.at = PeerOn(n, slot), !.from = n, !.inRouter = b],
              kind, PeerOn(n, slot), n, b, label, shift, suppress, origin)
    BY SetPlace, Zenon
<1> QED
    BY <1>2, <1>3, Zenon DEF b

(* A switch that refuses a packet sends it back the way it came. *)
LEMMA ErrorStep ==
    ASSUME interfaces = Start,
           NEW T, NEW k \in Nat, NEW n \in Nodes, NEW label, NEW end, NEW cuts, NEW R,
           OnItsWay(packet, T, k, n, label, end, cuts, R), ~packet.inRouter,
           NEW m \in Nodes, m = packet.at,
           NEW source \in Ports(m), PeerOn(m, source) = packet.from,
           sendError(m, source, packet)
    PROVE  PacketOK(packet') /\ ended' = ended
<1> DEFINE g == T[k]
           x == High(label, g.len) + TwoTo[LabelBits - g.len] * R
           back == Bits_bitReverse64(x)
<1>1. /\ Trail(T, k, n) /\ IsRouteWith(label, end, cuts)
      /\ R \in 0 .. TwoTo[g.len] - 1 /\ Reverse(R)[g.len] = g.enc
      /\ g.out = Router <=> k = 0
    BY Zenon DEF OnItsWay
<1>2. Carried(packet, "data", PeerOn(g.node, g.out), g.node, packet.inRouter, x, g.len, FALSE, n)
    BY Zenon DEF OnItsWay
<1>3. m = PeerOn(g.node, g.out) /\ PeerOn(m, source) = g.node /\ packet.suppress = FALSE
  <2> HIDE DEF x, g
  <2> QED
    BY <1>2, Zenon DEF Carried
<1>4. /\ source = Router <=> k = 0
      /\ k = 0 => m = n
  <2>1. Reaches(g, k, m, source)
    <3> HIDE DEF g
    <3> QED
      BY <1>1, <1>3, Zenon DEF Reaches
  <2>2. Enters(source, k, m, n)
    BY <1>1, <2>1, CameIn, Zenon
  <2> QED
    BY <2>2, Zenon DEF Enters
<1>5. g.len \in 0 .. LabelBits - 1 /\ g.enc \in Nat
    BY <1>1, TrailAt, Zenon
<1>6. R \in Nat
  <2>1. g.len \in 0 .. LabelBits
    BY <1>5, LabelAssumption
  <2>2. TwoTo[g.len] \in Nat
    BY <2>1, Powers, Zenon
  <2> QED
    BY <1>1, <2>2
<1>7. PICK J \in Sixteens : back = g.enc + TwoTo[g.len] * J
    BY <1>1, <1>5, <1>6, TurnedRound
<1> HIDE DEF x
<1>7a. packet.label = x
  <2> HIDE DEF g
  <2> QED
    BY <1>2, Zenon DEF Carried
<1>8. /\ ended' = ended
      /\ packet' = Leave(m, source, [packet EXCEPT !.kind = "error", !.shift = 0, !.suppress = TRUE,
                                                   !.label = Bits_bitReverse64(packet.label)])
    BY <1>3, Zenon DEF sendError
<1>9. Carried([packet EXCEPT !.kind = "error", !.shift = 0, !.suppress = TRUE,
                             !.label = Bits_bitReverse64(packet.label)],
              "error", PeerOn(g.node, g.out), g.node, packet.inRouter, back, 0, TRUE, n)
    BY <1>2, <1>7a, SetError, Zenon
<1> HIDE DEF back
<1>10. Carried(packet', "error", g.node, m, source = Router, back, 0, TRUE, n)
  <2> DEFINE q == [packet EXCEPT !.kind = "error", !.shift = 0, !.suppress = TRUE,
                                !.label = Bits_bitReverse64(packet.label)]
             at == PeerOn(g.node, g.out)
  <2>1. Carried(q, "error", at, g.node, packet.inRouter, back, 0, TRUE, n)
    BY <1>9, Zenon
  <2>2. packet' = Leave(m, source, q)
    BY <1>8, Zenon
  <2> HIDE DEF q, at, g
  <2>3. Carried(Leave(m, source, q), "error", PeerOn(m, source), m, source = Router, back, 0, TRUE, n)
    BY <2>1, Leaving, Zenon
  <2> QED
    BY <1>3, <2>2, <2>3, Zenon
<1>11. CASE k = 0
  <2>1. source = Router /\ g.node = n
    <3>1. T[0] = Home(n)
      BY <1>1, Zenon DEF Trail
    <3>2. g.node = n
      <4>1. g = Home(n)
        BY <1>11, <3>1, Zenon
      <4> HIDE DEF g
      <4> QED
        BY <4>1, Zenon DEF Home
    <3> QED
      BY <1>4, <1>11, <3>2, Zenon
  <2>2. Back(packet')
    <3>1. /\ packet'.kind = "error" /\ packet'.inRouter = (source = Router)
          /\ packet'.at = g.node /\ packet'.origin = n
      BY <1>10, Zenon DEF Carried
    <3> QED
      BY <2>1, <3>1, Zenon DEF Back
  <2> QED
    BY <1>8, <2>2, Zenon DEF PacketOK
<1>12. CASE k # 0
  <2>1. Carried(packet', "error", g.node, PeerOn(g.node, g.out), FALSE,
                          g.enc + TwoTo[g.len] * J, 0, TRUE, n)
    <3>1. (source = Router) = FALSE
      BY <1>4, <1>12, Zenon
    <3> QED
      BY <1>3, <1>7, <1>10, <3>1, Zenon
  <2>2. 0 + g.len <= LabelBits - 1 /\ k > 0
    BY <1>5, <1>12
  <2> HIDE DEF g
  <2>3. packet'.kind = "error" /\ packet'.shift = 0 /\ packet'.suppress = TRUE
    BY <2>1, Zenon DEF Carried
  <2>5. packet'.shift \in Nat /\ packet'.shift + g.len <= LabelBits - 1
        /\ packet'.kind \in {"reply", "error"}
    BY <2>2, <2>3
  <2>4. OnItsWayBack(packet', T, k, n, J)
    BY <1>1, <2>1, <2>2, <2>3, <2>5, Zenon DEF OnItsWayBack, g
  <2> QED
    BY <1>8, <2>4, Zenon DEF PacketOK
<1> QED
    BY <1>11, <1>12, Zenon

(* A switch that passes a packet on. *)
LEMMA ForwardStep ==
    ASSUME interfaces = Start,
           NEW T, NEW k \in Nat, NEW n \in Nodes, NEW label, NEW end, NEW cuts, NEW R,
           OnItsWay(packet, T, k, n, label, end, cuts, R), ~packet.inRouter,
           NEW m \in Nodes, m = packet.at,
           NEW source \in Ports(m), PeerOn(m, source) = packet.from,
           SourceTooLong(source, packet.label) => Destination(packet.label) = Router,
           Destination(packet.label) \in Ports(m),
           LabelShift(source, packet) <= LabelBits - 1,
           packet' = Leave(m, Destination(packet.label),
                           [packet EXCEPT !.label = TargetLabel(source, packet.label),
                                          !.shift = LabelShift(source, packet)])
    PROVE  PacketOK(packet')
<1> DEFINE g == T[k]
           x == High(label, g.len) + TwoTo[LabelBits - g.len] * R
           bits == BitsUsed(source, x)
           out == Destination(x)
           c == getCompressed(source, bits)
           h == [node |-> m, slot |-> source, out |-> out, bits |-> bits,
                 enc |-> c + TwoTo[bits] * g.enc, len |-> g.len + bits]
<1>1. /\ Trail(T, k, n) /\ IsRouteWith(label, end, cuts)
      /\ R \in 0 .. TwoTo[g.len] - 1 /\ Reverse(R)[g.len] = g.enc
      /\ g.out = Router <=> k = 0
      /\ g.len \in cuts
    BY Zenon DEF OnItsWay
<1>2. Carried(packet, "data", PeerOn(g.node, g.out), g.node, packet.inRouter, x, g.len, FALSE, n)
    BY Zenon DEF OnItsWay
<1>3. /\ m = PeerOn(g.node, g.out) /\ PeerOn(m, source) = g.node
      /\ packet.label = x /\ packet.shift = g.len
  <2> HIDE DEF x, g
  <2> QED
    BY <1>2, Zenon DEF Carried
<1>4. source = Router <=> k = 0
  <2>1. Reaches(g, k, m, source)
    <3> HIDE DEF g
    <3> QED
      BY <1>1, <1>3, Zenon DEF Reaches
  <2>2. Enters(source, k, m, n)
    BY <1>1, <2>1, CameIn, Zenon
  <2> QED
    BY <2>2, Zenon DEF Enters
<1>5. g.len \in 0 .. LabelBits - 1 /\ g.enc \in Nat
    BY <1>1, TrailAt, Zenon
<1>6. R \in Nat /\ label \in Nat
  <2>1. g.len \in 0 .. LabelBits /\ LabelBits \in 0 .. LabelBits
    BY <1>5, LabelAssumption
  <2>2. TwoTo[g.len] \in Nat /\ TwoTo[LabelBits] \in Nat
    BY <2>1, Powers, Zenon
  <2> QED
    BY <1>1, <2>2 DEF IsRouteWith, Labels
<1>7. source \in Slots
    BY OnePort, Zenon
<1>8. g.len + bits <= LabelBits - 1
    BY <1>3, Zenon DEF LabelShift
<1>9. /\ bits \in Widths /\ out \in Slots
      /\ bitsUsedForNumber(source) <= bits /\ bitsUsedForNumber(out) <= bits
      /\ out # Router => g.len + bits \in cuts
      /\ TwoTo[LabelBits - (g.len + bits)] * Reverse(getCompressed(out, bits))[bits] \in Sixteens
  <2>1. /\ IsRouteWith(label, end, cuts) /\ g.len \in cuts /\ R \in Nat /\ source \in Slots
        /\ x = High(label, g.len) + TwoTo[LabelBits - g.len] * R
        /\ SourceTooLong(source, x) => Destination(x) = Router
        /\ bits = BitsUsed(source, x) /\ g.len + bits <= LabelBits - 1 /\ out = Destination(x)
    BY <1>1, <1>3, <1>6, <1>7, <1>8, Zenon
  <2> HIDE DEF g, x, bits, out
  <2> QED
    BY <2>1, NextDirector
<1> HIDE DEF bits, out
<1>10. c \in 0 .. TwoTo[bits] - 1
    BY <1>7, <1>9, Compressed, Zenon
<1>11. PICK Q \in 0 .. TwoTo[g.len + bits] - 1 :
           /\ High(x, bits) + Bits_bitReverse64(c)
                  = High(label, g.len + bits) + TwoTo[LabelBits - (g.len + bits)] * Q
           /\ Reverse(Q)[g.len + bits] = c + TwoTo[bits] * Reverse(R)[g.len]
  <2>1. g.len + bits <= LabelBits /\ g.len \in Nat
    BY <1>5, <1>8, <1>9, LabelAssumption DEF Widths
  <2> HIDE DEF c, g
  <2> QED
    BY <1>1, <1>6, <1>9, <1>10, <2>1, Forwarded
<1>12. Carried(packet', "data", PeerOn(m, out), m, out = Router,
                         High(x, bits) + Bits_bitReverse64(c), g.len + bits, FALSE, n)
  <2>1. TargetLabel(source, x) = High(x, bits) + Bits_bitReverse64(c) /\ LabelShift(source, packet) = g.len + bits
    BY <1>3, Zenon DEF TargetLabel, LabelShift, bits
  <2>4. TargetLabel(source, packet.label) = High(x, bits) + Bits_bitReverse64(c)
        /\ LabelShift(source, packet) = g.len + bits
    BY <1>3, <2>1, Zenon
  <2> HIDE DEF x, c, g, bits, out
  <2>2. Carried([packet EXCEPT !.label = TargetLabel(source, packet.label),
                               !.shift = LabelShift(source, packet)],
                "data", PeerOn(g.node, g.out), g.node, packet.inRouter,
                High(x, bits) + Bits_bitReverse64(c), g.len + bits, FALSE, n)
    BY <1>2, <2>4, SetLabel, Zenon
  <2>3. out \in Ports(m) /\ packet' = Leave(m, out, [packet EXCEPT !.label = TargetLabel(source, packet.label),
                                                                   !.shift = LabelShift(source, packet)])
    BY <1>3, Zenon DEF out
  <2> QED
    <3> DEFINE q == [packet EXCEPT !.label = TargetLabel(source, packet.label),
                                   !.shift = LabelShift(source, packet)]
               l == High(x, bits) + Bits_bitReverse64(c)
               s == g.len + bits
    <3>1. Carried(q, "data", PeerOn(g.node, g.out), g.node, packet.inRouter, l, s, FALSE, n)
          /\ out \in Ports(m) /\ packet' = Leave(m, out, q)
      BY <2>2, <2>3, Zenon
    <3> HIDE DEF q, l, s
    <3>2. Carried(Leave(m, out, q), "data", PeerOn(m, out), m, out = Router, l, s, FALSE, n)
      BY <3>1, Leaving, Zenon
    <3> QED
      BY <3>1, <3>2, Zenon DEF l, s
<1>13. HopOK(h) /\ Follows(g, h)
  <2>1. g.len + bits \in 0 .. LabelBits - 1 /\ bits \in 0 .. LabelBits
    BY <1>5, <1>8, <1>9, LabelAssumption DEF Widths
  <2>2. TwoTo[bits] \in Nat
    BY <2>1, Powers, Zenon
  <2>3. c + TwoTo[bits] * g.enc \in Nat
    <3> HIDE DEF c, g
    <3> QED
      BY <1>5, <1>10, <2>2
  <2>4. out \in Ports(m)
    BY <1>3, Zenon DEF out
  <2> HIDE DEF c, g
  <2>5. HopOK(h)
    BY <1>9, <2>1, <2>3, <2>4, Zenon DEF HopOK
  <2>6. Follows(g, h)
    BY <1>3, Zenon DEF Follows, c
  <2> QED
    BY <2>5, <2>6, Zenon
<1> DEFINE U == [i \in 0 .. k + 1 |-> IF i = k + 1 THEN h ELSE T[i]]
<1>14. Trail(U, k + 1, n) /\ U[k + 1] = h
  <2>1. h.slot = source
    BY Zenon
  <2> HIDE DEF h
  <2> QED
    BY <1>1, <1>4, <1>13, <2>1, TrailGrows
<1>15. /\ h.node = m /\ h.out = out /\ h.len = g.len + bits
       /\ Reverse(Q)[h.len] = h.enc /\ Q \in 0 .. TwoTo[h.len] - 1
    BY <1>1, <1>11, Zenon
<1>16. Carried(packet', "data", PeerOn(h.node, h.out), h.node, out = Router,
                         High(label, h.len) + TwoTo[LabelBits - h.len] * Q, h.len, FALSE, n)
  <2> HIDE DEF h, c, x
  <2> QED
    BY <1>11, <1>12, <1>15, Zenon
<1> HIDE DEF h, U, g, c, x
<1>17. packet'.inRouter = (out = Router)
    BY <1>16, Zenon DEF Carried
<1>18. OnItsWay(packet', U, k + 1, n, label, end, cuts, Q)
  <2>1. k + 1 > 0 /\ k + 1 # 0
    OBVIOUS
  <2>2. Carried(packet', "data", PeerOn(h.node, h.out), h.node, packet'.inRouter,
                          High(label, h.len) + TwoTo[LabelBits - h.len] * Q, h.len, FALSE, n)
    BY <1>16, <1>17, Zenon
  <2>3. packet'.inRouter \in BOOLEAN
    BY <1>17, Zenon
  <2>4. packet'.inRouter => h.out = Router
    BY <1>15, <1>17, Zenon
  <2>5. ~packet'.inRouter => h.len \in cuts /\ h.out # Router
    BY <1>9, <1>15, <1>17, Zenon
  <2> QED
    BY <1>1, <1>14, <1>15, <2>1, <2>2, <2>3, <2>4, <2>5, Zenon DEF OnItsWay
<1> QED
    BY <1>18 DEF PacketOK

(* The front of an answer's label: the interface that the packet came in on. *)
LEMMA Returned ==
    ASSUME NEW g, NEW h, HopOK(h), Follows(g, h), g.enc \in Nat, g.len \in 0 .. LabelBits - 1,
           NEW J \in Sixteens
    PROVE  /\ g.enc + TwoTo[g.len] * J \in Nat
           /\ h.enc + TwoTo[h.len] * J
                  = getCompressed(h.slot, h.bits) + TwoTo[h.bits] * (g.enc + TwoTo[g.len] * J)
<1>1. J \in Nat /\ h.bits \in Nat /\ g.len \in Nat
    BY DEF Sixteens, HopOK, Widths
<1>2. g.len + h.bits = h.len /\ h.len \in 0 .. LabelBits - 1
    BY Zenon DEF Follows, HopOK
<1>3. TwoTo[h.len] = TwoTo[g.len] * TwoTo[h.bits]
    BY <1>1, <1>2, LabelAssumption, PowerSum
<1>4. g.len \in 0 .. LabelBits /\ h.bits \in 0 .. LabelBits
    BY <1>1, <1>2, LabelAssumption
<1>5. TwoTo[g.len] \in Nat /\ TwoTo[h.bits] \in Nat
    BY <1>4, Powers, Zenon
<1>6. getCompressed(h.slot, h.bits) \in Nat
  <2>1. h.slot \in Slots
    BY OnePort, Zenon DEF HopOK
  <2>2. getCompressed(h.slot, h.bits) \in 0 .. TwoTo[h.bits] - 1
    BY <2>1, Compressed, Zenon DEF HopOK
  <2> QED
    BY <1>5, <2>2
<1> DEFINE c == getCompressed(h.slot, h.bits)
           a == TwoTo[g.len]
           b == TwoTo[h.bits]
           e == g.enc
<1>7. c \in Nat /\ a \in Nat /\ b \in Nat /\ e \in Nat
    BY <1>5, <1>6, Zenon
<1>8. h.enc = c + b * e /\ TwoTo[h.len] = a * b
    BY <1>3, Zenon DEF Follows
<1> HIDE DEF a, b, c, e
<1>9. e + a * J \in Nat
    BY <1>1, <1>7
<1>10. (c + b * e) + (a * b) * J = c + b * (e + a * J)
    BY <1>1, <1>7
<1> QED
    BY <1>8, <1>9, <1>10, Zenon DEF a, b, c, e

(* What an answer's next switch and the one behind it are. *)
AtHop(T, k, n, J, m, source) ==
    /\ k \in 1 .. k /\ k - 1 \in Nat /\ Trail(T, k, n) /\ Trail(T, k - 1, n)
    /\ HopOK(T[k]) /\ Follows(T[k - 1], T[k]) /\ (T[k].slot = Router <=> k = 1)
    /\ m = T[k].node /\ source = T[k].out
    /\ T[k].out \in Slots /\ T[k].slot \in Slots
    /\ T[k - 1].enc \in Nat /\ T[k - 1].len \in 0 .. LabelBits - 1
    /\ T[k - 1].node \in Nodes
    /\ J \in Sixteens
    /\ packet.label = T[k].enc + TwoTo[T[k].len] * J

(* An answer comes to a switch that its packet has passed, on the interface it left by. *)
LEMMA AnswerAt ==
    ASSUME NEW T, NEW k \in Nat, NEW n \in Nodes, NEW J, OnItsWayBack(packet, T, k, n, J),
           NEW m \in Nodes, m = packet.at, NEW source \in Ports(m), PeerOn(m, source) = packet.from
    PROVE  AtHop(T, k, n, J, m, source)
<1>1. k \in 1 .. k /\ k - 1 \in Nat /\ Trail(T, k, n) /\ J \in Sixteens
    BY DEF OnItsWayBack
<1>2. HopOK(T[k]) /\ Follows(T[k - 1], T[k]) /\ (T[k].slot = Router <=> k = 1)
    BY <1>1, Zenon DEF Trail
<1>3. Trail(T, k - 1, n)
    BY <1>1 DEF Trail
<1>4. /\ m = T[k].node /\ PeerOn(m, source) = PeerOn(T[k].node, T[k].out)
      /\ packet.label = T[k].enc + TwoTo[T[k].len] * J
    BY Zenon DEF OnItsWayBack, Carried
<1>5. T[k].node \in Nodes /\ T[k].out \in Ports(T[k].node) /\ T[k].slot \in Ports(T[k].node)
    BY <1>2, Zenon DEF HopOK
<1>6. source = T[k].out /\ T[k].out \in Slots /\ T[k].slot \in Slots
    BY <1>4, <1>5, OnePort, Zenon
<1>7. /\ T[k - 1].enc \in Nat /\ T[k - 1].len \in 0 .. LabelBits - 1
      /\ T[k - 1].node \in Nodes
    BY <1>1, <1>3, TrailAt, Zenon
<1> QED
    BY <1>1, <1>2, <1>3, <1>4, <1>6, <1>7, Zenon DEF AtHop

(* No switch refuses an answer to a packet that it has passed on. *)
LEMMA AnswerFits ==
    ASSUME interfaces = Start,
           NEW T, NEW k \in Nat, NEW n \in Nodes, NEW J, OnItsWayBack(packet, T, k, n, J),
           NEW m \in Nodes, m = packet.at, NEW source \in Ports(m), PeerOn(m, source) = packet.from
    PROVE  /\ Refusal(interfaces[m], source, packet.label) = "none"
           /\ Destination(packet.label) = T[k].slot
           /\ BitsUsed(source, packet.label) <= T[k].bits
           /\ BitsUsed(source, packet.label) \in Widths
           /\ k # 1 => BitsUsed(source, packet.label) = T[k].bits
<1>0. AtHop(T, k, n, J, m, source)
    BY AnswerAt, Zenon
<1> DEFINE h == T[k]
           g == T[k - 1]
           x == packet.label
           y == g.enc + TwoTo[g.len] * J
<1>1. /\ HopOK(h) /\ Follows(g, h) /\ (h.slot = Router <=> k = 1)
      /\ m = h.node /\ source = h.out /\ source \in Slots /\ h.slot \in Slots
      /\ g.enc \in Nat /\ g.len \in 0 .. LabelBits - 1 /\ J \in Sixteens
      /\ x = h.enc + TwoTo[h.len] * J
    BY <1>0, Zenon DEF AtHop
<1>2. y \in Nat /\ x = getCompressed(h.slot, h.bits) + TwoTo[h.bits] * y
    BY <1>1, Returned, Zenon
<1>3. /\ h.bits \in Widths /\ bitsUsedForNumber(h.slot) <= h.bits
      /\ bitsUsedForNumber(source) <= h.bits /\ h.slot \in Ports(m)
    BY <1>1, Zenon DEF HopOK
<1>4. bitsUsedForNumber(source) \in Widths
    BY <1>1, Zenon DEF bitsUsedForNumber, Widths, Slots, INTERFACES
<1>5. h.slot \in DOMAIN interfaces[m] /\ interfaces[m][h.slot].state = "UP"
    BY <1>3, StartIs, Zenon
<1>6. CASE k # 1
  <2>1. DirectorBits(x) = h.bits /\ Destination(x) = h.slot
    <3>1. /\ h.slot \in Slots /\ h.bits \in Widths /\ bitsUsedForNumber(h.slot) <= h.bits
          /\ h.slot # Router
      BY <1>1, <1>3, <1>6, Zenon
    <3> HIDE DEF x, y, h
    <3>2. \A z \in Nat : /\ DirectorBits(getCompressed(h.slot, h.bits) + TwoTo[h.bits] * z) = h.bits
                         /\ Destination(getCompressed(h.slot, h.bits) + TwoTo[h.bits] * z) = h.slot
      BY <3>1, Compressed, Zenon
    <3> QED
      BY <1>2, <3>2, Zenon
  <2>2. ~SourceTooLong(source, x)
    BY <1>3, <1>4, <2>1 DEF SourceTooLong, Widths
  <2>3. Refusal(interfaces[m], source, x) = "none"
    BY <1>5, <2>1, <2>2, Zenon DEF Refusal
  <2> QED
    BY <1>3, <2>1, <2>2, <2>3 DEF BitsUsed, Widths
<1>7. CASE k = 1
  <2>1. y = J /\ getCompressed(h.slot, h.bits) = 1
    <3>1. g = Home(n)
      <4>1. Trail(T, k, n) /\ k - 1 = 0
        BY <1>7 DEF OnItsWayBack
      <4> QED
        BY <4>1, Zenon DEF Trail
    <3>2. g.enc = 0 /\ g.len = 0
      BY <3>1 DEF Home
    <3>3. y = J
      BY <1>1, <3>2, SmallPowers DEF Sixteens
    <3> QED
      BY <1>1, <1>3, <1>7, <3>3, Compressed, Zenon
  <2>2. /\ DirectorBits(x) = 4 /\ Destination(x) = Router
        /\ Low(x, bitsUsedForNumber(source) + 4) = 1
    <3>1. x = 1 + TwoTo[h.bits] * J
      BY <1>2, <2>1, Zenon
    <3> HIDE DEF x, y, h
    <3> QED
      BY <1>1, <1>3, <1>4, <3>1, LastDirector, Zenon
  <2>3. Destination(x) = h.slot /\ ReturnPathFits(source, x)
    BY <1>1, <1>7, <2>2, Zenon DEF ReturnPathFits
  <2>4. Refusal(interfaces[m], source, x) = "none"
    BY <1>5, <2>2, <2>3, Zenon DEF Refusal
  <2>5. BitsUsed(source, x) <= h.bits /\ BitsUsed(source, x) \in Widths
    BY <1>3, <1>4, <2>2 DEF BitsUsed, Widths
  <2> QED
    BY <1>7, <2>3, <2>4, <2>5, Zenon
<1> QED
    BY <1>6, <1>7, Zenon

(* The label that a switch passes an answer on with. *)
LEMMA BackLabel ==
    ASSUME NEW g, NEW h, HopOK(h), Follows(g, h), g.enc \in Nat, g.len \in 0 .. LabelBits - 1,
           h.slot \in Slots, h.out \in Slots, NEW J \in Sixteens
    PROVE  \E K \in Sixteens :
               High(h.enc + TwoTo[h.len] * J, h.bits) + Bits_bitReverse64(getCompressed(h.out, h.bits))
                   = g.enc + TwoTo[g.len] * K
<1> DEFINE c == getCompressed(h.slot, h.bits)
           d == getCompressed(h.out, h.bits)
           bits == h.bits
           e == g.enc
           len == g.len
<1>1. /\ h.enc = c + TwoTo[bits] * e /\ h.len = len + bits /\ bits \in Widths
      /\ TwoTo[LabelBits - h.len] * Reverse(d)[bits] \in Sixteens /\ h.len \in 0 .. LabelBits - 1
    BY Zenon DEF Follows, HopOK
<1>2. c \in 0 .. TwoTo[bits] - 1 /\ d \in 0 .. TwoTo[bits] - 1
    BY Compressed, Zenon DEF HopOK
<1>3. e \in Nat /\ len \in Nat
    OBVIOUS
<1>4. /\ TwoTo[LabelBits - (len + bits)] * Reverse(d)[bits] \in Sixteens
      /\ len + bits \in 0 .. LabelBits - 1
    BY <1>1, Zenon
<1> HIDE DEF c, d, e, len, bits
<1>5. len + bits <= LabelBits
    BY <1>4, LabelAssumption
<1> DEFINE x == h.enc + TwoTo[h.len] * J
<1>6. x = (c + TwoTo[bits] * e) + TwoTo[len + bits] * J
    BY <1>1, Zenon
<1> HIDE DEF x
<1>7. \E K \in Sixteens : High(x, bits) + Bits_bitReverse64(d) = e + TwoTo[len] * K
  <2>1. bits \in Widths /\ TwoTo[LabelBits - (len + bits)] * Reverse(d)[bits] \in Sixteens
    BY <1>1, <1>4, Zenon
  <2>2. PassedBack(x, bits, c, d, e, len, J)
    BY <1>2, <1>3, <1>5, <2>1, Backed, Zenon
  <2> QED
    BY <1>6, <2>2, Zenon DEF PassedBack
<1> QED
    BY <1>7, Zenon DEF x, d, e, len, bits

(* An answer that is passed on to the switch before. *)
LEMMA BackHop ==
    ASSUME interfaces = Start,
           NEW T, NEW k \in Nat, NEW n \in Nodes, NEW J, OnItsWayBack(packet, T, k, n, J), k # 1,
           NEW m \in Nodes, m = packet.at, NEW source \in Ports(m), PeerOn(m, source) = packet.from,
           NEW out, out = Destination(packet.label), NEW bits, bits = BitsUsed(source, packet.label),
           packet' = Leave(m, out, [packet EXCEPT !.label = TargetLabel(source, packet.label),
                                                  !.shift = LabelShift(source, packet)])
    PROVE  PacketOK(packet')
<1>0. AtHop(T, k, n, J, m, source)
    BY AnswerAt, Zenon
<1> DEFINE h == T[k]
           g == T[k - 1]
           c == getCompressed(h.slot, h.bits)
<1>1. /\ HopOK(h) /\ Follows(g, h) /\ (h.slot = Router <=> k = 1)
      /\ m = h.node /\ source = h.out /\ source \in Slots /\ h.slot \in Slots
      /\ g.enc \in Nat /\ g.len \in 0 .. LabelBits - 1 /\ J \in Sixteens
      /\ packet.label = h.enc + TwoTo[h.len] * J /\ g.node \in Nodes
    BY <1>0, Zenon DEF AtHop
<1>2. Trail(T, k - 1, n) /\ k - 1 \in Nat /\ k - 1 > 0
  <2>1. Trail(T, k - 1, n) /\ k - 1 \in Nat
    BY <1>0, Zenon DEF AtHop
  <2> QED
    BY <2>1
<1>3. out = h.slot /\ bits = h.bits /\ bits \in Widths
    BY AnswerFits, Zenon
<1>4. /\ packet.kind \in {"reply", "error"} /\ packet.shift \in Nat
      /\ packet.shift + h.len <= LabelBits - 1
      /\ Carried(packet, packet.kind, h.node, PeerOn(h.node, h.out), FALSE,
                 h.enc + TwoTo[h.len] * J, packet.shift, packet.suppress, n)
    BY Zenon DEF OnItsWayBack
<1>5. /\ h.enc = c + TwoTo[bits] * g.enc /\ h.len = g.len + bits
      /\ PeerOn(g.node, g.out) = m /\ PeerOn(m, h.slot) = g.node /\ h.slot \in Ports(m)
      /\ g.len + bits <= LabelBits - 1
  <2> HIDE DEF g, h
  <2>1. h.enc = c + TwoTo[bits] * g.enc /\ h.len = g.len + bits
    BY <1>1, <1>3, Zenon DEF Follows
  <2>2. PeerOn(g.node, g.out) = m /\ PeerOn(m, h.slot) = g.node /\ h.slot \in Ports(m)
    BY <1>1, Zenon DEF Follows, HopOK
  <2>3. h.len <= LabelBits - 1
    BY <1>1 DEF HopOK
  <2> QED
    BY <2>1, <2>2, <2>3, Zenon
<1>8. PICK K \in Sixteens : TargetLabel(source, packet.label) = g.enc + TwoTo[g.len] * K
  <2>1. TargetLabel(source, packet.label)
            = High(h.enc + TwoTo[h.len] * J, h.bits) + Bits_bitReverse64(getCompressed(h.out, h.bits))
    BY <1>1, <1>3, Zenon DEF TargetLabel
  <2>2. \E K \in Sixteens :
            High(h.enc + TwoTo[h.len] * J, h.bits) + Bits_bitReverse64(getCompressed(h.out, h.bits))
                = g.enc + TwoTo[g.len] * K
    <3>1. /\ HopOK(h) /\ Follows(g, h) /\ g.enc \in Nat /\ g.len \in 0 .. LabelBits - 1
          /\ h.slot \in Slots /\ h.out \in Slots /\ J \in Sixteens
      BY <1>1, Zenon
    <3> HIDE DEF g, h
    <3> QED
      BY <3>1, BackLabel
  <2> QED
    BY <2>1, <2>2, Zenon
<1>9. LabelShift(source, packet) = packet.shift + bits
    BY Zenon DEF LabelShift
<1> DEFINE q == [packet EXCEPT !.label = TargetLabel(source, packet.label),
                               !.shift = LabelShift(source, packet)]
           l == g.enc + TwoTo[g.len] * K
           s == packet.shift + bits
<1> HIDE DEF h, g, c
<1>10. Carried(q, packet.kind, h.node, PeerOn(h.node, h.out), FALSE, l, s, packet.suppress, n)
  <2> HIDE DEF l, s
  <2>1. TargetLabel(source, packet.label) = l /\ LabelShift(source, packet) = s
    BY <1>8, <1>9, Zenon DEF l, s
  <2> QED
    BY <1>4, <2>1, SetLabel, Zenon
<1>11. packet' = Leave(m, out, q) /\ out \in Ports(m)
    BY <1>3, <1>5, Zenon
<1> HIDE DEF q
<1>12. Carried(packet', packet.kind, g.node, m, FALSE, l, s, packet.suppress, n)
  <2> HIDE DEF l, s
  <2>1. Carried(Leave(m, out, q), packet.kind, PeerOn(m, out), m, out = Router, l, s, packet.suppress, n)
    BY <1>10, <1>11, Leaving, Zenon
  <2>2. (out = Router) = FALSE
    BY <1>1, <1>3, Zenon
  <2>3. PeerOn(m, out) = g.node
    BY <1>3, <1>5, Zenon
  <2> QED
    BY <1>11, <2>1, <2>2, <2>3, Zenon
<1>13. /\ packet'.kind = packet.kind /\ packet'.shift = packet.shift + bits
       /\ packet'.suppress = packet.suppress
    BY <1>12, Zenon DEF Carried
<1>14. packet'.shift \in Nat /\ packet'.shift + g.len <= LabelBits - 1
  <2>1. /\ packet'.shift = packet.shift + bits /\ packet.shift \in Nat /\ bits \in Widths
        /\ packet.shift + h.len <= LabelBits - 1 /\ h.len = g.len + bits /\ g.len \in 0 .. LabelBits - 1
    BY <1>1, <1>3, <1>4, <1>5, <1>13, Zenon
  <2> HIDE DEF g, h
  <2> QED
    BY <2>1, LabelAssumption DEF Widths
<1>15. OnItsWayBack(packet', T, k - 1, n, K)
  <2>1. Carried(packet', packet'.kind, g.node, PeerOn(g.node, g.out), FALSE,
                g.enc + TwoTo[g.len] * K, packet'.shift, packet'.suppress, n)
    BY <1>5, <1>12, <1>13, Zenon
  <2>2. packet'.kind \in {"reply", "error"}
    BY <1>4, <1>13, Zenon
  <2> QED
    BY <1>2, <1>8, <1>14, <2>1, <2>2, Zenon DEF OnItsWayBack, g
<1> QED
    BY <1>2, <1>15, Zenon DEF PacketOK

(* An answer that comes home. *)
LEMMA BackHome ==
    ASSUME interfaces = Start,
           NEW T, NEW k \in Nat, NEW n \in Nodes, NEW J, OnItsWayBack(packet, T, k, n, J), k = 1,
           NEW m \in Nodes, m = packet.at, NEW source \in Ports(m), PeerOn(m, source) = packet.from,
           NEW out, out = Destination(packet.label), NEW l, NEW s,
           packet' = Leave(m, out, [packet EXCEPT !.label = l, !.shift = s])
    PROVE  PacketOK(packet')
<1>0. AtHop(T, k, n, J, m, source)
    BY AnswerAt, Zenon
<1> DEFINE q == [packet EXCEPT !.label = l, !.shift = s]
           h == T[k]
           x == h.enc + TwoTo[h.len] * J
<1>1. HopOK(h) /\ Follows(T[k - 1], h) /\ (h.slot = Router <=> k = 1) /\ m = h.node /\ Trail(T, k, n)
    BY <1>0, Zenon DEF AtHop
<1>2. out = Router /\ out \in Ports(m)
  <2>1. out = h.slot
    BY AnswerFits, Zenon
  <2> QED
    BY <1>1, <2>1, Zenon DEF HopOK
<1>3. m = n
  <2>1. T[k - 1] = Home(n)
    BY <1>1 DEF Trail
  <2>2. PeerOn(n, Router) = h.node
    BY <1>1, <2>1 DEF Follows, Home
  <2> QED
    BY <1>1, <2>2, Zenon DEF PeerOn
<1>4. /\ packet.kind \in {"reply", "error"}
      /\ Carried(packet, packet.kind, h.node, PeerOn(h.node, h.out), FALSE, x, packet.shift,
                 packet.suppress, n)
    BY Zenon DEF OnItsWayBack
<1> HIDE DEF x, h
<1>5. Carried(q, packet.kind, h.node, PeerOn(h.node, h.out), FALSE, l, s, packet.suppress, n)
    BY <1>4, SetLabel, Zenon
<1>6. packet' = Leave(m, out, q)
    BY Zenon
<1> HIDE DEF q
<1>7. Carried(Leave(m, out, q), packet.kind, PeerOn(m, out), m, out = Router, l, s, packet.suppress, n)
    BY <1>2, <1>5, Leaving, Zenon
<1>8. /\ packet'.kind = packet.kind /\ packet'.at = PeerOn(m, out) /\ packet'.inRouter = (out = Router)
      /\ packet'.origin = n
    BY <1>6, <1>7, Zenon DEF Carried
<1>9. packet'.inRouter = TRUE
    BY <1>2, <1>8, Zenon
<1>10. packet'.at = packet'.origin
    BY <1>2, <1>3, <1>8, Zenon DEF PeerOn
<1>11. packet'.kind \in {"reply", "error"}
    BY <1>4, <1>8, Zenon
<1> QED
    BY <1>9, <1>10, <1>11, Zenon DEF PacketOK, Back

-----------------------------------------------------------------------------
(* The actions. *)

(* A packet that a router sends. *)
LEMMA SendStep ==
    ASSUME \A label \in SentLabels : IsRoute(label),
           NEW n \in Nodes, NEW label \in SentLabels, packet' = Packet("data", n, label)
    PROVE  PacketOK(packet')
<1> DEFINE T == [i \in {0} |-> Home(n)]
<1>1. PICK end, cuts : IsRouteWith(label, end, cuts)
    BY Zenon DEF IsRoute
<1>2. T[0] = Home(n)
    BY Zenon
<1>3. T[0].node = n /\ T[0].out = Router /\ T[0].len = 0 /\ T[0].enc = 0
    BY Zenon DEF Home
<1> HIDE DEF T
<1>4. Trail(T, 0, n)
    BY <1>2 DEF Trail
<1>5. High(label, 0) = label
  <2>1. label \in Nat
    <3>1. TwoTo[LabelBits] \in Nat
      BY Powers, LabelAssumption
    <3> QED
      BY <1>1, <3>1 DEF IsRouteWith, Labels
  <2> QED
    BY <2>1, SmallPowers DEF High
<1>6. label + TwoTo[LabelBits] * 0 = label
  <2>1. TwoTo[LabelBits] \in Nat
    BY Powers, LabelAssumption
  <2>2. label \in Nat
    BY <1>1, <2>1 DEF IsRouteWith, Labels
  <2> QED
    BY <2>1, <2>2
<1>7. High(label, T[0].len) + TwoTo[LabelBits - T[0].len] * 0 = label
    BY <1>3, <1>5, <1>6, LabelAssumption
<1>8. Carried(packet', "data", n, n, FALSE, label, 0, FALSE, n)
    BY Zenon DEF Carried, Packet
<1>9. PeerOn(n, Router) = n
    BY Zenon DEF PeerOn
<1>10. packet'.inRouter = FALSE
    BY <1>8, Zenon DEF Carried
<1>11. Carried(packet', "data", PeerOn(T[0].node, T[0].out), T[0].node, packet'.inRouter,
               High(label, T[0].len) + TwoTo[LabelBits - T[0].len] * 0, T[0].len, FALSE, n)
    BY <1>3, <1>7, <1>8, <1>9, <1>10, Zenon
<1>12. 0 \in 0 .. TwoTo[T[0].len] - 1 /\ Reverse(0)[T[0].len] = T[0].enc
    BY <1>3, SmallPowers, Reversal
<1>13. T[0].len \in cuts
    BY <1>1, <1>3, Zenon DEF IsRouteWith
<1>14. OnItsWay(packet', T, 0, n, label, end, cuts, 0)
    BY <1>1, <1>3, <1>4, <1>10, <1>11, <1>12, <1>13, Zenon DEF OnItsWay
<1> QED
    BY <1>14, Zenon DEF PacketOK

(* The answer of the router that a packet comes out at. *)
LEMMA ReplyStep ==
    ASSUME NEW T, NEW k \in Nat, NEW n \in Nodes, NEW label, NEW end, NEW cuts, NEW R,
           OnItsWay(packet, T, k, n, label, end, cuts, R), packet.inRouter, packet' = ReplyTo(packet)
    PROVE  PacketOK(packet')
<1> DEFINE g == T[k]
           x == High(label, g.len) + TwoTo[LabelBits - g.len] * R
<1>1. /\ Trail(T, k, n) /\ IsRouteWith(label, end, cuts)
      /\ R \in 0 .. TwoTo[g.len] - 1 /\ Reverse(R)[g.len] = g.enc
      /\ k > 0 /\ g.out = Router
    BY Zenon DEF OnItsWay
<1>2. Carried(packet, "data", PeerOn(g.node, g.out), g.node, packet.inRouter, x, g.len, FALSE, n)
    BY Zenon DEF OnItsWay
<1>3. g.len \in 0 .. LabelBits - 1 /\ g.enc \in Nat
    BY <1>1, TrailAt, Zenon
<1>4. R \in Nat
  <2>1. g.len \in 0 .. LabelBits
    BY <1>3, LabelAssumption
  <2>2. TwoTo[g.len] \in Nat
    BY <2>1, Powers, Zenon
  <2> QED
    BY <1>1, <2>2
<1>5. PICK J \in Sixteens : Bits_bitReverse64(x) = g.enc + TwoTo[g.len] * J
    BY <1>1, <1>3, <1>4, TurnedRound
<1> HIDE DEF x, g
<1>6. PeerOn(g.node, g.out) = g.node
    BY <1>1, Zenon DEF PeerOn
<1>7. packet.label = x /\ packet.at = g.node
    BY <1>2, <1>6, Zenon DEF Carried
<1>8. packet' = [packet EXCEPT !.kind = "reply", !.inRouter = FALSE, !.from = g.node, !.shift = 0,
                               !.label = g.enc + TwoTo[g.len] * J]
    BY <1>5, <1>7, Zenon DEF ReplyTo
<1>9. Carried([packet EXCEPT !.kind = "reply", !.inRouter = FALSE, !.from = g.node, !.shift = 0,
                             !.label = g.enc + TwoTo[g.len] * J],
              "reply", PeerOn(g.node, g.out), g.node, FALSE, g.enc + TwoTo[g.len] * J, 0, FALSE, n)
    BY <1>2, SetReply, Zenon
<1>10. Carried(packet', "reply", g.node, PeerOn(g.node, g.out), FALSE, g.enc + TwoTo[g.len] * J,
               0, FALSE, n)
    BY <1>6, <1>8, <1>9, Zenon
<1>11. packet'.kind = "reply" /\ packet'.shift = 0 /\ packet'.suppress = FALSE
    BY <1>10, Zenon DEF Carried
<1>12. packet'.shift \in Nat /\ packet'.shift + g.len <= LabelBits - 1
       /\ packet'.kind \in {"reply", "error"}
    BY <1>3, <1>11
<1>13. OnItsWayBack(packet', T, k, n, J)
    BY <1>1, <1>10, <1>11, <1>12, Zenon DEF OnItsWayBack, g
<1> QED
    BY <1>13, Zenon DEF PacketOK

(* A switch and a packet of its network. *)
LEMMA SwitchData ==
    ASSUME interfaces = Start, EndedOK(ended),
           NEW T, NEW k \in Nat, NEW n \in Nodes, NEW label, NEW end, NEW cuts, NEW R,
           OnItsWay(packet, T, k, n, label, end, cuts, R), Switch
    PROVE  PacketOK(packet') /\ EndedOK(ended')
<1> DEFINE m == packet.at
           slots == SlotOf(m, packet.from)
<1>1. packet.kind = "data"
    BY Zenon DEF OnItsWay, Carried
<1>2. ASSUME NEW how, End(how, m)
      PROVE  PacketOK(packet') /\ EndedOK(ended')
    BY <1>1, <1>2, Zenon DEF End, PacketOK, EndedOK
<1>3. CASE m \notin Nodes \/ slots = {}
    BY <1>2, <1>3, Zenon DEF Switch
<1>4. CASE ~(m \notin Nodes \/ slots = {})
  <2>1. m \in Nodes /\ ~packet.inRouter /\ \E source \in slots : receiveMessage(m, source, packet)
    BY <1>4, Zenon DEF Switch
  <2>2. PICK source \in slots : receiveMessage(m, source, packet)
    BY <2>1, Zenon
  <2>3. source \in Ports(m) /\ PeerOn(m, source) = packet.from
    BY <2>1, <2>2, StartIs
  <2> HIDE DEF m
  <2>4. m = packet.at
    BY Zenon DEF m
  <2>5. CASE Refusal(interfaces[m], source, packet.label) # "none"
    <3>1. sendError(m, source, packet)
      BY <2>2, <2>5, Zenon DEF receiveMessage
    <3>2. PacketOK(packet') /\ ended' = ended
      BY <2>1, <2>3, <2>4, <3>1, ErrorStep, Zenon
    <3> QED
      BY <3>2, Zenon
  <2>6. CASE Refusal(interfaces[m], source, packet.label) = "none"
    <3>1. CASE LabelShift(source, packet) > LabelBits - 1
      <4>1. End("rolled over", m)
        BY <2>2, <2>6, <3>1, Zenon DEF receiveMessage
      <4> QED
        BY <1>2, <4>1, Zenon DEF m
    <3>2. CASE ~(LabelShift(source, packet) > LabelBits - 1)
      <4>1. /\ packet' = Leave(m, Destination(packet.label),
                               [packet EXCEPT !.label = TargetLabel(source, packet.label),
                                              !.shift = LabelShift(source, packet)])
            /\ ended' = ended
        BY <2>2, <2>6, <3>2, Zenon DEF receiveMessage
      <4>2. /\ SourceTooLong(source, packet.label) => Destination(packet.label) = Router
            /\ Destination(packet.label) \in DOMAIN interfaces[m]
        BY <2>6, Zenon DEF Refusal
      <4>3. Destination(packet.label) \in Ports(m)
        BY <2>1, <4>2, StartIs, Zenon
      <4>4. LabelShift(source, packet) <= LabelBits - 1
        <5>1. packet.shift \in Nat
          <6>1. packet.shift = T[k].len /\ Trail(T, k, n)
            BY Zenon DEF OnItsWay, Carried
          <6> QED
            BY <6>1, TrailAt
        <5>2. BitsUsed(source, packet.label) \in Widths
          BY Zenon DEF BitsUsed, bitsUsedForNumber, DirectorBits, bitsUsedForLabel, Widths
        <5>3. LabelShift(source, packet) \in Nat
          BY <5>1, <5>2 DEF LabelShift, Widths
        <5> QED
          BY <3>2, <5>3, LabelAssumption
      <4>5. PacketOK(packet')
        BY <2>1, <2>3, <2>4, <4>1, <4>2, <4>3, <4>4, ForwardStep, Zenon
      <4> QED
        BY <4>1, <4>5, Zenon
    <3> QED
      BY <3>1, <3>2, Zenon
  <2> QED
    BY <2>5, <2>6, Zenon
<1> QED
    BY <1>3, <1>4, Zenon

(* A switch and an answer: it is never refused, cut off or lost. *)
LEMMA SwitchAnswer ==
    ASSUME interfaces = Start, EndedOK(ended),
           NEW T, NEW k \in Nat, NEW n \in Nodes, NEW J, OnItsWayBack(packet, T, k, n, J), Switch
    PROVE  PacketOK(packet') /\ EndedOK(ended')
<1> DEFINE m == packet.at
           slots == SlotOf(m, packet.from)
<1>1. Trail(T, k, n) /\ k \in 1 .. k
    BY DEF OnItsWayBack
<1>2. m = T[k].node /\ packet.from = PeerOn(T[k].node, T[k].out)
    BY Zenon DEF OnItsWayBack, Carried
<1>3. T[k].node \in Nodes /\ T[k].out \in Ports(T[k].node)
    BY <1>1, TrailAt, Zenon
<1>4. m \in Nodes /\ T[k].out \in slots
    BY <1>2, <1>3, StartIs
<1>5. PICK source \in slots : receiveMessage(m, source, packet)
    BY <1>4, Zenon DEF Switch
<1>6. source \in Ports(m) /\ PeerOn(m, source) = packet.from
    BY <1>4, <1>5, StartIs
<1> HIDE DEF m, slots
<1>7. m = packet.at
    BY Zenon DEF m
<1>8. /\ Refusal(interfaces[m], source, packet.label) = "none"
      /\ BitsUsed(source, packet.label) <= T[k].bits /\ BitsUsed(source, packet.label) \in Widths
    BY <1>4, <1>6, <1>7, AnswerFits, Zenon
<1>9. LabelShift(source, packet) <= LabelBits - 1 /\ LabelShift(source, packet) \in Nat
  <2>1. HopOK(T[k]) /\ Follows(T[k - 1], T[k])
    BY <1>1, Zenon DEF Trail
  <2>2. T[k - 1].len \in Nat
    <3>1. AtHop(T, k, n, J, m, source)
      BY <1>4, <1>6, <1>7, AnswerAt, Zenon
    <3> QED
      BY <3>1 DEF AtHop
  <2>3. T[k].bits <= T[k].len /\ T[k].len \in Nat /\ T[k].bits \in Nat
    <3>1. T[k].len = T[k - 1].len + T[k].bits /\ T[k].bits \in Widths
      BY <2>1, Zenon DEF Follows, HopOK
    <3> QED
      BY <2>2, <3>1 DEF Widths
  <2>4. packet.shift \in Nat /\ packet.shift + T[k].len <= LabelBits - 1
    BY Zenon DEF OnItsWayBack
  <2> QED
    BY <1>8, <2>3, <2>4, LabelAssumption DEF LabelShift, Widths
<1>10. /\ packet' = Leave(m, Destination(packet.label),
                          [packet EXCEPT !.label = TargetLabel(source, packet.label),
                                         !.shift = LabelShift(source, packet)])
       /\ ended' = ended
  <2>1. ~(LabelShift(source, packet) > LabelBits - 1)
    BY <1>9, LabelAssumption
  <2> QED
    BY <1>5, <1>8, <2>1, Zenon DEF receiveMessage
<1>11. CASE k = 1
    BY <1>4, <1>6, <1>7, <1>10, <1>11, BackHome, Zenon
<1>12. CASE k # 1
    BY <1>4, <1>6, <1>7, <1>10, <1>12, BackHop, Zenon
<1> QED
    BY <1>10, <1>11, <1>12, Zenon

(* The two kinds of step that a packet takes, while no table has changed. *)
LEMMA SwitchStep ==
    ASSUME interfaces = Start, PacketOK(packet), EndedOK(ended), Switch
    PROVE  PacketOK(packet') /\ EndedOK(ended')
<1>1. packet # NoPacket /\ ~packet.inRouter
    BY Zenon DEF Switch
<1>2. CASE \E T, label, end, cuts, R : \E k \in Nat, n \in Nodes :
               OnItsWay(packet, T, k, n, label, end, cuts, R)
    BY <1>2, SwitchData, Zenon
<1>3. CASE \E T, J : \E k \in Nat, n \in Nodes : OnItsWayBack(packet, T, k, n, J)
    BY <1>3, SwitchAnswer, Zenon
<1>4. ~Back(packet)
    BY <1>1, Zenon DEF Back
<1> QED
    BY <1>1, <1>2, <1>3, <1>4, Zenon DEF PacketOK

(* A router and what comes out of its switch. *)
LEMMA RouterStep ==
    ASSUME PacketOK(packet), EndedOK(ended), incomingFromSwitchIf
    PROVE  PacketOK(packet') /\ EndedOK(ended')
<1>1. packet # NoPacket /\ packet.inRouter
    BY Zenon DEF incomingFromSwitchIf
<1>2. ASSUME NEW T, NEW label, NEW end, NEW cuts, NEW R, NEW k \in Nat, NEW n \in Nodes,
             OnItsWay(packet, T, k, n, label, end, cuts, R)
      PROVE  PacketOK(packet') /\ EndedOK(ended')
  <2>1. packet.kind = "data"
    BY <1>2, Zenon DEF OnItsWay, Carried
  <2>2. packet' = ReplyTo(packet) /\ ended' = ended
    BY <2>1, Zenon DEF incomingFromSwitchIf
  <2> QED
    BY <1>1, <1>2, <2>2, ReplyStep, Zenon
<1>3. ASSUME NEW T, NEW J, NEW k \in Nat, NEW n \in Nodes, OnItsWayBack(packet, T, k, n, J)
      PROVE  FALSE
  <2>1. packet.inRouter = FALSE
    BY <1>3, Zenon DEF OnItsWayBack, Carried
  <2> QED
    BY <1>1, <2>1, Zenon
<1>4. CASE Back(packet)
  <2>1. packet.kind \in {"reply", "error"} /\ packet.at = packet.origin
    BY <1>4, Zenon DEF Back
  <2>2. End("arrived", packet.at)
    BY <2>1, Zenon DEF incomingFromSwitchIf
  <2> QED
    BY <2>1, <2>2, Zenon DEF End, PacketOK, EndedOK
<1> QED
    BY <1>1, <1>2, <1>3, <1>4, Zenon DEF PacketOK

-----------------------------------------------------------------------------
(* The invariant. *)

(* The invariant holds at the start. *)
LEMMA InitInv ==
    Init => Inv
<1> SUFFICES ASSUME Init
             PROVE  Inv
    BY Zenon
<1>1. interfaces = Start
    BY Zenon DEF Init, Start, Ports, PeerOn
<1>2. PacketOK(packet)
    BY Zenon DEF Init, PacketOK
<1>3. EndedOK(ended)
    BY Zenon DEF Init, EndedOK, NoPacket
<1>4. changes = 0
    BY Zenon DEF Init
<1> QED
    BY <1>1, <1>2, <1>3, <1>4, Zenon DEF Inv

(* Every step keeps it; once a table has changed it says nothing. *)
LEMMA NextInv ==
    ASSUME \A label \in SentLabels : IsRoute(label)
    PROVE  Inv /\ [Next]_vars => Inv'
<1> SUFFICES ASSUME Inv, [Next]_vars
             PROVE  Inv'
    BY Zenon
<1>1. changes \in Nat
    BY Zenon DEF Inv
<1>2. ASSUME UNCHANGED <<interfaces, changes>>,
             changes = 0 => PacketOK(packet') /\ EndedOK(ended')
      PROVE  Inv'
    BY <1>1, <1>2, Zenon DEF Inv, PacketOK, EndedOK
<1>3. ASSUME NEW n \in Nodes, NEW label \in SentLabels, Send(n, label)
      PROVE  Inv'
  <2>1. PacketOK(packet')
    BY <1>3, SendStep, Zenon DEF Send
  <2>2. EndedOK(ended')
    BY <1>3, Zenon DEF Send, EndedOK, NoPacket
  <2> QED
    BY <1>2, <1>3, <2>1, <2>2, Zenon DEF Send
<1>4. CASE Switch
    BY <1>2, <1>4, SwitchStep, Zenon DEF Inv, Switch
<1>5. CASE incomingFromSwitchIf
    BY <1>2, <1>5, RouterStep, Zenon DEF Inv, incomingFromSwitchIf
<1>6. ASSUME NEW n, NEW table, Change(n, table)
      PROVE  Inv'
    BY <1>1, <1>6 DEF Change, Inv
<1>7. CASE UNCHANGED vars
    BY <1>2, <1>7, Zenon DEF vars, Inv
<1> QED
    BY <1>3, <1>4, <1>5, <1>6, <1>7, Zenon
       DEF Next, SwitchCore_addInterface, removeInterface, SwitchCore_setInterfaceState

(* While no table changes, every packet is on its route with the way back      *)
(* written behind it, or an answer is on that way, or home.                    *)
THEOREM Invariance ==
    ASSUME \A label \in SentLabels : IsRoute(label)
    PROVE  Spec => []Inv
<1> QED
    BY InitInv, NextInv, PTL DEF Spec

(* A reply, or the error of any switch on the way, comes back to the router    *)
(* that sent the packet, however many switches there are, whatever forms the   *)
(* directors are in and however many bits a label has.                         *)
THEOREM AnswersReturn ==
    ASSUME \A label \in SentLabels : IsRoute(label)
    PROVE  Spec => []AnswersReachSender
<1>1. Inv => AnswersReachSender
    BY Zenon DEF Inv, EndedOK, AnswersReachSender
<1> QED
    BY <1>1, Invariance, PTL

-----------------------------------------------------------------------------
(* The interface tables. *)

TablesOK ==
    /\ DOMAIN interfaces = Nodes
    /\ \A n \in Nodes :
           /\ DOMAIN interfaces[n] \subseteq 0 .. INTERFACES - 1
           /\ \A s \in DOMAIN interfaces[n] : DOMAIN interfaces[n][s] = {"peer", "state"}

(* A changed table: the entries it keeps have their peers. *)
Kept(n, table) ==
    /\ DOMAIN table \subseteq 0 .. INTERFACES - 1
    /\ \A s \in DOMAIN table : DOMAIN table[s] = {"peer", "state"}
    /\ \A s \in DOMAIN interfaces[n] \cap DOMAIN table : table[s].peer = interfaces[n][s].peer

(* A new peer gets an interface that nobody has. *)
LEMMA AddKeeps ==
    ASSUME TablesOK, NEW n \in Nodes, NEW peer, Vacant(n) # {}
    PROVE  Kept(n, With(interfaces[n], FirstVacant(n), Interface(peer)))
<1> DEFINE s == FirstVacant(n)
<1>1. s \in Vacant(n)
  <2>1. Vacant(n) \subseteq Nat
    BY DEF Vacant, INTERFACES
  <2>2. \E x \in Vacant(n) : \A y \in Vacant(n) : x <= y
    BY <2>1, NatLeast, Zenon
  <2> QED
    BY <2>2, Zenon DEF FirstVacant
<1>2. s \in 0 .. INTERFACES - 1 /\ s \notin DOMAIN interfaces[n]
    BY <1>1, Zenon DEF Vacant
<1> HIDE DEF s
<1>3. DOMAIN Interface(peer) = {"peer", "state"}
    BY Zenon DEF Interface
<1> DEFINE table == With(interfaces[n], s, Interface(peer))
<1>4. /\ DOMAIN table = DOMAIN interfaces[n] \cup {s}
      /\ table[s] = Interface(peer)
      /\ \A u \in DOMAIN interfaces[n] : table[u] = interfaces[n][u]
    BY <1>2, Zenon DEF With
<1> HIDE DEF table
<1>5. Kept(n, table)
    BY <1>2, <1>3, <1>4 DEF Kept, TablesOK
<1> QED
    BY <1>5, Zenon DEF table, s

(* A peer that leaves takes only its own interface with it. *)
LEMMA RemoveKeeps ==
    ASSUME TablesOK, NEW n \in Nodes, NEW slot
    PROVE  Kept(n, Restrict(interfaces[n], DOMAIN interfaces[n] \ {slot}))
    BY Zenon DEF Kept, TablesOK, Restrict

(* An interface that goes up or down keeps its peer. *)
LEMMA StateKeeps ==
    ASSUME TablesOK, NEW n \in Nodes, NEW slot \in DOMAIN interfaces[n], NEW state
    PROVE  Kept(n, [interfaces[n] EXCEPT ![slot].state = state])
<1> DEFINE entry == [interfaces[n][slot] EXCEPT !.state = state]
           table == [interfaces[n] EXCEPT ![slot].state = state]
<1>1. DOMAIN interfaces[n][slot] = {"peer", "state"}
    BY Zenon DEF TablesOK
<1>2. DOMAIN entry = {"peer", "state"} /\ entry.peer = interfaces[n][slot].peer
    BY <1>1, Zenon
<1>3. /\ DOMAIN table = DOMAIN interfaces[n] /\ table[slot] = entry
      /\ \A s \in DOMAIN interfaces[n] : s # slot => table[s] = interfaces[n][s]
    BY Zenon
<1> HIDE DEF entry, table
<1>4. Kept(n, table)
    BY <1>2, <1>3 DEF Kept, TablesOK
<1> QED
    BY <1>4, Zenon DEF table

(* No step changes more than one table, and every change keeps the others' peers. *)
LEMMA TableStep ==
    ASSUME TablesOK, [Next]_vars
    PROVE  \/ UNCHANGED interfaces
           \/ \E n \in Nodes : \E table : Kept(n, table) /\ interfaces' = [interfaces EXCEPT ![n] = table]
<1>1. ASSUME NEW n \in Nodes, NEW peer, SwitchCore_addInterface(n, peer)
      PROVE  \E table : Kept(n, table) /\ interfaces' = [interfaces EXCEPT ![n] = table]
    BY <1>1, AddKeeps, Zenon DEF SwitchCore_addInterface, Change
<1>2. ASSUME NEW n \in Nodes, NEW slot, removeInterface(n, slot)
      PROVE  \E table : Kept(n, table) /\ interfaces' = [interfaces EXCEPT ![n] = table]
    BY <1>2, RemoveKeeps, Zenon DEF removeInterface, Change
<1>3. ASSUME NEW n \in Nodes, NEW slot \in DOMAIN interfaces[n], NEW state,
             SwitchCore_setInterfaceState(n, slot, state)
      PROVE  \E table : Kept(n, table) /\ interfaces' = [interfaces EXCEPT ![n] = table]
    BY <1>3, StateKeeps, Zenon DEF SwitchCore_setInterfaceState, Change
<1>4. CASE UNCHANGED vars
    BY <1>4, Zenon DEF vars
<1>5. CASE \E n \in Nodes, label \in SentLabels : Send(n, label)
    BY <1>5, Zenon DEF Send
<1>6. CASE Switch \/ incomingFromSwitchIf
    BY <1>6, Zenon DEF Switch, incomingFromSwitchIf
<1> QED
    BY <1>1, <1>2, <1>3, <1>4, <1>5, <1>6, Zenon DEF Next

(* No step moves a peer to another interface, or puts another peer on one that *)
(* is taken.                                                                   *)
THEOREM LabelsHold ==
    Spec => LabelsStay
<1>1. Init => TablesOK
    BY SwitchAssumption DEF Init, TablesOK, Interface, INTERFACES, Router
<1>2. ASSUME TablesOK, [Next]_vars
      PROVE  /\ TablesOK'
             /\ \A n \in Nodes : \A s \in DOMAIN interfaces[n] \cap DOMAIN interfaces'[n] :
                    interfaces'[n][s].peer = interfaces[n][s].peer
  <2>1. CASE UNCHANGED interfaces
    BY <1>2, <2>1, Zenon DEF TablesOK
  <2>2. CASE \E n \in Nodes : \E table : Kept(n, table) /\ interfaces' = [interfaces EXCEPT ![n] = table]
    BY <1>2, <2>2 DEF TablesOK, Kept
  <2> QED
    BY <1>2, <2>1, <2>2, TableStep, Zenon
<1> QED
    BY <1>1, <1>2, PTL DEF Spec, LabelsStay
===============================================================================
