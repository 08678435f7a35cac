---------------------------- MODULE SwitchLabels ----------------------------
(***************************************************************************)
(* Route labels: switch/NumberCompress.h (the v3x5x8 scheme, the one built *)
(* in), switch/EncodingScheme.c, switch/LabelSplicer.h and util/Bits.h.    *)
(* A label is a number below 2^LabelBits; its lowest bits are the first    *)
(* director and its highest 1 ends the route.                              *)
(***************************************************************************)
EXTENDS Integers, FiniteSets

CONSTANT LabelBits    \* 64 in the code

ASSUME LabelAssumption == LabelBits \in 16 .. 64

(* 1 << n, as far as a label goes. *)
Power[n \in 0 .. LabelBits] == IF n = 0 THEN 1 ELSE 2 * Power[n - 1]
TwoTo == [n \in 0 .. LabelBits |-> Power[n]]

Labels == 0 .. TwoTo[LabelBits] - 1

(* The 59 of splice and convertLabel: five bits short of a label. *)
LongestRoute == LabelBits - 5

INVALID == TwoTo[LabelBits] - 1

Low(x, n) == x % TwoTo[n]
High(x, n) == x \div TwoTo[n]
ShiftLeft(x, n) == IF n >= LabelBits THEN 0 ELSE Low(x, LabelBits - n) * TwoTo[n]

Bits_log2x64(x) ==
    IF x = 0 THEN 0 ELSE CHOOSE n \in 0 .. LabelBits - 1 : TwoTo[n] <= x /\ x < TwoTo[n + 1]

Bits_bitReverse64(x) ==
    LET rev[n \in 0 .. LabelBits] ==
            IF n = 0 THEN 0 ELSE 2 * rev[n - 1] + Low(High(x, n - 1), 1)
    IN  rev[LabelBits]

-----------------------------------------------------------------------------
(* NumberCompress.h, v3x5x8. *)

INTERFACES == 257

bitsUsedForLabel(label) ==
    CASE label % 2 = 1 -> 4
      [] label % 4 = 2 -> 7
      [] OTHER -> 10

bitsUsedForNumber(number) ==
    CASE number < 8 -> 4
      [] number \in 8 .. 32 -> 7
      [] OTHER -> 10

(* 0 and 1 change places in the short form; the long ones skip 1. *)
SwapZeroOne(n) == IF n < 2 THEN 1 - n ELSE n
SkipOne(n) == IF n > 0 THEN n + 1 ELSE n
UnskipOne(n) == IF n > 0 THEN n - 1 ELSE n

getCompressed(number, bitsUsed) ==
    CASE number = 1 -> 1
      [] number # 1 /\ bitsUsed = 4 -> 2 * SwapZeroOne(number) + 1
      [] number # 1 /\ bitsUsed = 7 -> 4 * UnskipOne(number) + 2
      [] number # 1 /\ bitsUsed = 10 -> 4 * UnskipOne(number)

getDecompressed(label, bitsUsed) ==
    CASE bitsUsed = 4 -> SwapZeroOne(Low(High(label, 1), 3))
      [] bitsUsed = 7 -> SkipOne(Low(High(label, 2), 5))
      [] bitsUsed = 10 -> SkipOne(Low(High(label, 2), 8))

getLabelFor(target, whoIsAsking) ==
    LET targetBits == bitsUsedForLabel(target)
        askingBits == bitsUsedForLabel(whoIsAsking)
        rest == target - Low(target, targetBits)
    IN  IF targetBits >= askingBits THEN target
        ELSE ShiftLeft(rest, askingBits - targetBits)
             + getCompressed(getDecompressed(target, targetBits), askingBits)

-----------------------------------------------------------------------------
(* EncodingScheme.c for the scheme of NumberCompress_v3x5x8_defineScheme.  *)

Form(bitCount, prefixLen, prefix) ==
    [bitCount |-> bitCount, prefixLen |-> prefixLen, prefix |-> prefix]

v3x5x8 == <<Form(3, 1, 1), Form(5, 2, 2), Form(8, 2, 0)>>

Forms == DOMAIN v3x5x8

formSize(f) == v3x5x8[f].bitCount + v3x5x8[f].prefixLen

getFormNum(label) ==
    CHOOSE f \in Forms : Low(label, v3x5x8[f].prefixLen) = v3x5x8[f].prefix

isSelfRoute(label) == Low(label, formSize(getFormNum(label))) = 1

isOneHop(label) == Bits_log2x64(label) = formSize(getFormNum(label))

(* The interface a director stands for in a form, and back. *)
FromForm(director, f) == IF f = 1 THEN SwapZeroOne(director) ELSE SkipOne(director)
ToForm(number, f) == IF f = 1 THEN SwapZeroOne(number) ELSE UnskipOne(number)

DirectorOf(label) ==
    LET form == v3x5x8[getFormNum(label)]
    IN  Low(High(label, form.prefixLen), form.bitCount)

parseDirector(label) == FromForm(DirectorOf(label), getFormNum(label))

SmallestForm(number) ==
    LET fits == {f \in Forms : Bits_log2x64(IF f = 1 THEN number ELSE UnskipOne(number)) + 1
                                   <= v3x5x8[f].bitCount}
    IN  IF fits = {} THEN 0 ELSE CHOOSE f \in fits : \A g \in fits : f <= g

CANNONICAL == -5000

convertLabel(label, convertTo) ==
    LET number == parseDirector(label)
        to == IF convertTo = CANNONICAL THEN SmallestForm(number) ELSE convertTo
        rest == High(label, formSize(getFormNum(label)))
        converted == ShiftLeft(rest, formSize(to))
                     + ToForm(number, to) * TwoTo[v3x5x8[to].prefixLen] + v3x5x8[to].prefix
    IN  IF isSelfRoute(label)
        THEN IF convertTo \in {1, CANNONICAL} THEN label ELSE INVALID
        ELSE IF \/ to \notin Forms
                \/ Bits_log2x64(ToForm(number, to)) + 1 > v3x5x8[to].bitCount
                \/ Bits_log2x64(rest) + formSize(to) > LongestRoute
                \/ isSelfRoute(converted)
             THEN INVALID
             ELSE converted

-----------------------------------------------------------------------------
(* LabelSplicer.h *)

unsplice(fullPath, midPath) == High(fullPath, Bits_log2x64(midPath))

(* Mutant of splice: the length is not checked. *)
SpliceAnyLength(goHere, viaHere) ==
    LET via == Bits_log2x64(viaHere)
    IN  ShiftLeft(goHere, via) + Low(viaHere, via)

(* ((goHere ^ 1) << via) ^ viaHere: the end bit of viaHere, xored with the *)
(* flipped first bit of goHere, comes out as that bit.                     *)
splice(goHere, viaHere) ==
    LET via == Bits_log2x64(viaHere)
    IN  IF Bits_log2x64(goHere) + via > LongestRoute THEN INVALID
        ELSE ShiftLeft(goHere, via) + Low(viaHere, via)

routesThrough(destination, midPath) ==
    LET n == Bits_log2x64(midPath)
    IN  midPath <= destination /\ (midPath < 2 \/ Low(destination, n) = Low(midPath, n))
=============================================================================
