---------------------------- MODULE MCCryptoAuth ----------------------------
(***************************************************************************)
(* Two parties.  AliceKeys and BobKeys bound the handshakes: with two keys *)
(* each, both start over once, by hellos that cross, by old ones that come *)
(* again or because bob resets, and four temporary keys mix.  With one key *)
(* each there is room for passwords and timeouts: of one and two ticks, in *)
(* the order of the code's 10 and 60 seconds.  A replay window of two bits *)
(* slides, lossily and not, within a few run packets.  MaxNonce and        *)
(* NonceLimit leave room for a key packet that replaces another in         *)
(* mid-traffic and for the reset of encrypt at the limit.                  *)
(***************************************************************************)
EXTENDS CryptoAuth

CONSTANTS alice, bob, AliceKeys, BobKeys

MCParty == {alice, bob}
MCMaxKeys == [p \in {alice, bob} |-> IF p = alice THEN AliceKeys ELSE BobKeys]
=============================================================================
