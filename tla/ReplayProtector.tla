--------------------------- MODULE ReplayProtector ---------------------------
(***************************************************************************)
(* crypto/ReplayProtector.h as a state machine.  A session files the nonce *)
(* of every authenticated run packet here and drops the packet when the    *)
(* nonce was seen before or is too old to tell.  Nonces arrive in any      *)
(* order, with gaps and repetitions: that is all a datagram network does.  *)
(***************************************************************************)
EXTENDS ReplayWindow

CONSTANTS
    MaxNonce,    \* the largest nonce a packet carries: 2^32 - 1 in the code
    FirstBase,   \* the values baseOffset may start from
    CounterMod   \* the counters of refused packets wrap here: 2^32 in the code

ASSUME NonceAssumption ==
    /\ MaxNonce \in 0 .. UintMod - 1
    /\ FirstBase \subseteq 0 .. MaxNonce
    /\ CounterMod \in Nat \ {0}

VARIABLES
    bitfield,            \* uint64_t bitfield
    baseOffset,          \* uint32_t baseOffset
    duplicates,          \* uint32_t duplicates
    lostPackets,         \* uint32_t lostPackets
    receivedOutOfRange,  \* uint32_t receivedOutOfRange
    firstBase,           \* history: the value baseOffset started from
    leapt,               \* history: some nonce was an int's range ahead
    timesAccepted        \* history: how often checkNonce returned true for each nonce

vars == <<bitfield, baseOffset, duplicates, lostPackets, receivedOutOfRange,
          firstBase, leapt, timesAccepted>>

Nonce == 0 .. MaxNonce

Current == Window(bitfield, baseOffset, lostPackets)

(* A jump to this nonce may not fit in an int. *)
Leap(nonce) == nonce - baseOffset - Keep >= IntLimit

(* What an undefined shift may give. *)
Strays(nonce) == IF Leap(nonce) THEN SUBSET Bits ELSE {{}}

(* What checkNonce(nonce) would return now. *)
Admits(nonce) ==
    LET w == Slide(Current, nonce, {})
    IN  nonce >= baseOffset /\ nonce - w.base \notin w.bits

-----------------------------------------------------------------------------
Init ==
    /\ bitfield = {}
    /\ firstBase \in FirstBase
    /\ baseOffset = firstBase
    /\ duplicates = 0 /\ lostPackets = 0 /\ receivedOutOfRange = 0
    /\ leapt = FALSE
    /\ timesAccepted = [n \in Nonce |-> 0]

(* checkNonce below the window: counted and refused. *)
OutOfRange(nonce) ==
    /\ nonce < baseOffset
    /\ receivedOutOfRange' = (receivedOutOfRange + 1) % CounterMod
    /\ UNCHANGED <<bitfield, baseOffset, duplicates, lostPackets, firstBase,
                   leapt, timesAccepted>>

(* checkNonce at a bit that is set already: the window may have slid. *)
Duplicate(nonce, stray) ==
    LET w == Slide(Current, nonce, stray)
    IN  /\ nonce >= baseOffset
        /\ nonce - w.base \in w.bits
        /\ duplicates' = (duplicates + 1) % CounterMod
        /\ bitfield' = w.bits
        /\ baseOffset' = w.base
        /\ lostPackets' = w.lost
        /\ leapt' = (leapt \/ Leap(nonce))
        /\ UNCHANGED <<receivedOutOfRange, firstBase, timesAccepted>>

(* checkNonce at a clear bit: set it and return true. *)
Fresh(nonce, stray) ==
    LET w == Slide(Current, nonce, stray)
    IN  /\ nonce >= baseOffset
        /\ nonce - w.base \notin w.bits
        /\ bitfield' = w.bits \cup {nonce - w.base}
        /\ baseOffset' = w.base
        /\ lostPackets' = w.lost
        /\ leapt' = (leapt \/ Leap(nonce))
        /\ timesAccepted' = [timesAccepted EXCEPT ![nonce] = @ + 1]
        /\ UNCHANGED <<receivedOutOfRange, duplicates, firstBase>>

checkNonce(nonce) ==
    \/ OutOfRange(nonce)
    \/ \E stray \in Strays(nonce) : Duplicate(nonce, stray) \/ Fresh(nonce, stray)

Next == \E nonce \in Nonce : checkNonce(nonce)

Spec == Init /\ [][Next]_vars

-----------------------------------------------------------------------------
Accepted == {n \in Nonce : timesAccepted[n] > 0}

(* The fields keep their types. *)
TypeOK ==
    /\ bitfield \subseteq Bits
    /\ baseOffset \in Nonce
    /\ duplicates \in 0 .. CounterMod - 1
    /\ receivedOutOfRange \in 0 .. CounterMod - 1
    /\ lostPackets \in 0 .. MaxNonce
    /\ firstBase \in FirstBase
    /\ leapt \in BOOLEAN
    /\ timesAccepted \in [Nonce -> Nat]

(* checkNonce returns true at most once for a nonce, whatever the order, the   *)
(* gaps and the repetitions in which nonces arrive ("true if the packet is     *)
(* provably not a replay").                                                    *)
AtMostOnce == \A n \in Nonce : timesAccepted[n] <= 1

(* The window never refuses what it has no reason to refuse: a nonce that was  *)
(* not seen and is at most Keep behind every nonce seen is accepted, so        *)
(* reordering by up to Keep packets loses nothing.                             *)
RecentAdmitted ==
    \A n \in Nonce :
        (/\ n >= firstBase
         /\ timesAccepted[n] = 0
         /\ \A m \in Accepted : m - n <= Keep) => Admits(n)

(* lostPackets counts the nonces that slid out of the window unseen, each      *)
(* exactly once: it is what peer statistics and the link state report as loss. *)
(* Once a nonce came that was further ahead than an int counts, the shift by   *)
(* which the ones are masked is undefined; the count is then off, but by no    *)
(* more than the width of the bitfield, and no later jump makes it worse.      *)
LostExact ==
    LET unseen == Cardinality({n \in firstBase .. baseOffset - 1 : timesAccepted[n] = 0})
    IN  IF leapt THEN lostPackets - unseen \in -Width .. Width ELSE lostPackets = unseen

(* What makes the above inductive.  A nonce seen is below the window or its    *)
(* bit is set; a set bit is a nonce seen; a nonce below the window was seen or *)
(* fell more than Keep behind one that was.                                    *)
SeenIsMarked ==
    \A n \in Accepted :
        /\ n >= firstBase
        /\ n >= baseOffset => n - baseOffset \in bitfield

MarkedIsSeen == \A b \in bitfield : baseOffset + b \in Accepted

PassedIsOld ==
    /\ firstBase <= baseOffset
    /\ \A n \in firstBase .. baseOffset - 1 :
           n \in Accepted \/ \E m \in Accepted : m - n > Keep

(* lostPackets never exceeds what the base has moved, and when it is off then  *)
(* the nonces that are left are too few for another leap.                      *)
LossBounded ==
    /\ lostPackets <= baseOffset - firstBase
    /\ lostPackets # Cardinality({n \in firstBase .. baseOffset - 1 : timesAccepted[n] = 0})
           => MaxNonce - baseOffset - Keep < IntLimit

(* The inductive invariant of checkNonce: TypeOK, AtMostOnce and LostExact     *)
(* with the facts that keep them.                                              *)
Inv ==
    /\ TypeOK /\ AtMostOnce /\ LostExact /\ LossBounded
    /\ SeenIsMarked /\ MarkedIsSeen /\ PassedIsOld
=============================================================================
