---------------------------- MODULE ReplayWindow ----------------------------
(***************************************************************************)
(* The arithmetic of the sliding window of crypto/ReplayProtector.h, as    *)
(* operators.  A window is the part of struct ReplayProtector that the     *)
(* loop of checkNonce changes:                                             *)
(*   bits   the positions of the 1 bits of bitfield; bit b stands for the  *)
(*          nonce base + b                                                 *)
(*   base   baseOffset                                                     *)
(*   lost   lostPackets                                                    *)
(*                                                                         *)
(* A jump that does not fit in an int makes the count of losses shift by   *)
(* more than the width of the bitfield, which C leaves undefined: stray    *)
(* stands for the bits that come out of such a shift.                      *)
(***************************************************************************)
EXTENDS Integers, FiniteSets

CONSTANTS
    Half,     \* half of the bits in the bitfield: 32 in the code
    Keep,     \* offset of the newest nonce after a lossy shift: 47 in the code
    IntLimit  \* the first number that is not an int: 2^31 in the code

ASSUME WindowAssumption ==
    /\ Half \in Nat \ {0}
    /\ Keep \in 1 .. 2 * Half - 1
    /\ IntLimit \in Nat /\ IntLimit > 2 * Half

Width == 2 * Half
UintMod == 2 * IntLimit
Bits == 0 .. Width - 1
LowHalf == 0 .. Half - 1

Window(bits, base, lost) == [bits |-> bits, base |-> base, lost |-> lost]

(* bitfield >> n, which is 0 when n exceeds the width. *)
ShiftRight(bits, n) == {b \in Bits : b + n \in bits}

(* bitfield << n. *)
ShiftedLeft(bits, n, stray) ==
    IF n \in 0 .. Width - 1 THEN {b \in Bits : b - n \in bits} ELSE stray

(* A uint32_t given for an int. *)
AsInt(n) == IF n < IntLimit THEN n ELSE n - UintMod

(* Mutant of lostInShift: the shift is one short, so that a bit that stays in  *)
(* the bitfield counts among those pushed out.                                 *)
LostInShiftOffByOne(bits, shiftAmount, stray) ==
    IF shiftAmount = 0 THEN 0
    ELSE shiftAmount - Cardinality(IF shiftAmount > Width - 1 THEN bits
                                   ELSE ShiftedLeft(bits, Width - 1 - shiftAmount, stray))

(* The zeros among the bits that a shift by shiftAmount pushes out: bits that  *)
(* stay are shifted out to the left before the ones are counted.               *)
lostInShift(bits, shiftAmount, stray) ==
    IF shiftAmount = 0 THEN 0
    ELSE shiftAmount - Cardinality(IF shiftAmount > Width - 1 THEN bits
                                   ELSE ShiftedLeft(bits, Width - shiftAmount, stray))

(* What a lossy shift by far makes of lostPackets. *)
Lost(w, far, stray) == (w.lost + lostInShift(w.bits, AsInt(far), stray)) % UintMod

(* Mutant of Shift: the lossy branch moves the base and forgets the bits. *)
ShiftForgetsBits(w, nonce, stray) ==
    LET far == nonce - w.base - Keep
    IN  IF nonce - w.base < Width THEN w
        ELSE Window(w.bits, w.base + far, Lost(w, far, stray))

(* Mutant of Shift: the newest nonce lands at offset 0, nothing older is kept. *)
ShiftKeepsNothing(w, nonce, stray) ==
    LET far == nonce - w.base
    IN  IF nonce - w.base < Width THEN w
        ELSE Window(ShiftRight(w.bits, far), w.base + far, Lost(w, far, stray))

(* One iteration of the loop of checkNonce; no change once the nonce fits. *)
Shift(w, nonce, stray) ==
    LET offset == nonce - w.base
        far == offset - Keep
    IN  IF offset < Width THEN w
        ELSE IF LowHalf \subseteq w.bits
             THEN Window(ShiftRight(w.bits, Half), w.base + Half, w.lost)
             ELSE Window(ShiftRight(w.bits, far), w.base + far, Lost(w, far, stray))

(* The whole loop.  Two shifts by a half empty the bitfield, so that a third  *)
(* iteration, if there is one, is lossy and leaves the nonce at offset Keep.  *)
Slide(w, nonce, stray) ==
    Shift(Shift(Shift(w, nonce, stray), nonce, stray), nonce, stray)
=============================================================================
