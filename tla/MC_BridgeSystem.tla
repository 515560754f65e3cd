--------------------------- MODULE MC_BridgeSystem ---------------------------
(***************************************************************************)
(* The bridge with three relayers, of which r3 is faulty, and quorums of   *)
(* two on both chains.  Amounts are 3-bit numbers where the daemon has 64  *)
(* bits, so that a deposit of 10 mints 2.                                  *)
(***************************************************************************)
EXTENDS BridgeSystem, TLC

CONSTANTS
    u1, box, alice, mallory, r1, r2, r3, cb, safe,
    MaxBurns  \* bound: MsgBridgeOut events

OneHolder      == {u1}
MCRelayerAddrs == {r1, r2, r3}
MCKeyOf        == [r \in MCRelayerAddrs |-> r]  \* a key is named for its relayer
MCFaulty       == {r3}
MCGuardians    == {cb}
MCAccounts     == {alice, mallory}
MCRecipients   == {alice}

MCAmounts      == {1, 10}
MCNonceHash(user, n, block, amount) == 150 * block + 10 * amount + n
MCTxHash(tx)   == 254 + tx

\* The nonces of the deposits that can be made, and one that no deposit has.
MCNonces       == LockNonces \cup {7}
MCUnlockNonces == {MCTxHash(1), MCTxHash(2)}

Wrapped(n) == [d \in Denoms |-> IF d = "uwsov" THEN n ELSE 0]

MCDeposits       == {Wrapped(1), Wrapped(2)}
MCWithdrawals    == {Wrapped(1)}
MCOwnKeys        == {<<r, MCKeyOf[r]>> : r \in MCRelayerAddrs}
MCGenesis        == MCKeyOf

(***************************************************************************)
(* At most MaxBurns withdrawals; and the steps the runs of LockBox and     *)
(* BridgeKeeper cover by themselves are left out: pauses, tokens sent to   *)
(* the contract beside lock(), and payments between accounts.              *)
(***************************************************************************)
BridgeOnly ==
    /\ Len(outEvents') <= MaxBurns
    /\ ~paused'
    /\ tokens'[box] + totalReleasedToUsers' = totalLocked'
    /\ balances' = balances \/ inEvents' # inEvents \/ outEvents' # outEvents

MCSystemSpec == SystemInit /\ [][SystemNext /\ BridgeOnly]_systemVars

Symmetric == Permutations({r1, r2})
==============================================================================
