-------------------------- MODULE MC_CosmosWatcher ---------------------------
(***************************************************************************)
(* The watch over the Sovereign chain with two burns, which may share a    *)
(* block, on three blocks after the one a daemon starts from.              *)
(***************************************************************************)
EXTENDS CosmosWatcher

CONSTANTS n1, n2

MCBurns == {n1, n2}
=============================================================================
