----------------------------- MODULE MC_LockBox ------------------------------
(***************************************************************************)
(* LockBox.sol with two holders, a committee of two, one stranger that     *)
(* signs too, and two blocks.  The withdrawal nonces 0 and 256 have the    *)
(* same bit of different words.                                            *)
(***************************************************************************)
EXTENDS LockBox, TLC

CONSTANTS u1, u2, box, r1, r2, stranger, cb1, cb2, safe, acct

MCTokenHolders     == {u1, u2}
MCCosmosRecipients == {acct}
MCCommittee        == {r1, r2}
MCSigners          == {r1, r2, stranger}
MCGuardians        == {cb1, cb2}
MCAmounts          == {1, 2}
MCUnlockNonces     == {0, 256}

\* An injection of the preimages into the numbers.
MCNonceHash(user, n, block, amount) ==
    1000 * block + 100 * amount + 10 * n + (IF user = u1 THEN 0 ELSE 1)

Symmetric == Permutations({r1, r2}) \cup Permutations({cb1, cb2})
=============================================================================
