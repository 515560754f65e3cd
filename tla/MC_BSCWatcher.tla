---------------------------- MODULE MC_BSCWatcher ----------------------------
(***************************************************************************)
(* The watch over BSC with two deposits, a standard one that needs one     *)
(* confirmation and a large one that needs two.                            *)
(***************************************************************************)
EXTENDS BSCWatcher

CONSTANTS small, large

MCLocks == {small, large}
MCConfirmations == [l \in MCLocks |-> IF l = small THEN 1 ELSE 2]
=============================================================================
