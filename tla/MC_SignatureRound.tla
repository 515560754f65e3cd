-------------------------- MODULE MC_SignatureRound --------------------------
(***************************************************************************)
(* One nonce in a committee of three with a quorum of two.                 *)
(***************************************************************************)
EXTENDS SignatureRound

CONSTANTS me, p1, p2

MCRelayers == {me, p1, p2}
=============================================================================
