-------------------------- MODULE MCCryptoAuthLive --------------------------
(***************************************************************************)
(* Two faults at any time.  A handshake takes three rounds, so that the    *)
(* timeouts of five and seven rounds come after it, as 10 and 60 seconds   *)
(* do in the code.  Eight keys, nonces up to NonceLimit and MaxNonce are   *)
(* more than any behaviour with two faults uses.                           *)
(***************************************************************************)
EXTENDS CryptoAuthLive

CONSTANTS alice, bob, KeysEach

MCParty == {alice, bob}
MCMaxKeys == [p \in {alice, bob} |-> KeysEach]
=============================================================================
