------------------------------- MODULE LockBox -------------------------------
(***************************************************************************)
(* LockBox.sol: the BSC end of the bridge.  lock() takes SOV into escrow   *)
(* and emits Locked under a nonce of the contract's making; unlock() pays  *)
(* SOV out against a quorum of committee signatures.                       *)
(*                                                                         *)
(* A call that fails a require reverts in full, so only the successful     *)
(* path of a call is a step.                                               *)
(***************************************************************************)
EXTENDS NonceBitmap, FiniteSets, Sequences

CONSTANTS
    TokenHolders,       \* BSC accounts that may hold the token
    Escrow,             \* the contract's own address
    CosmosRecipients,   \* the strings a depositor may name
    Committee,          \* isRelayer: fixed by the constructor
    Signers,            \* whoever can sign a message, committee or not
    Threshold,
    GnosisSafe,
    Guardians,          \* addresses the Safe may appoint as circuit breaker
    MaxUnlockPerBlock,
    Amounts,            \* amounts a call may name
    UnlockNonces,       \* nonces a call of unlock may name
    NonceHash(_, _, _, _),  \* keccak256(sender, userNonce, block, amount)
    Funds,              \* tokens of each holder when the contract is deployed
    MaxUserNonce,       \* bound: calls of lock by one account
    MaxBlock            \* bound: blocks of the chain

\* The constructor's requirements, and the collision freedom of keccak256.
ASSUME LockBoxParams ==
    /\ Threshold \in Nat /\ Threshold > 0
    /\ IsFiniteSet(Committee) /\ Threshold <= Cardinality(Committee)
    /\ Committee \subseteq Signers
    /\ MaxUnlockPerBlock \in Nat
    /\ Amounts \subseteq Nat
    /\ UnlockNonces \subseteq Nat
    /\ Escrow \notin TokenHolders
    /\ Funds \in Nat
    /\ Guardians # {}
    /\ MaxUserNonce \in Nat /\ MaxBlock \in Nat \ {0}

LockPreimages == TokenHolders \X (0..MaxUserNonce) \X (1..MaxBlock) \X Amounts

ASSUME NonceHashParams ==
    /\ \A p \in LockPreimages : NonceHash(p[1], p[2], p[3], p[4]) \in Nat
    /\ \A p, q \in LockPreimages :
          NonceHash(p[1], p[2], p[3], p[4]) = NonceHash(q[1], q[2], q[3], q[4]) => p = q

LockEvent ==
    [user : TokenHolders, amount : Amounts, recipient : CosmosRecipients, nonce : Nat, block : Nat]
UnlockEvent ==
    [user : TokenHolders, amount : Amounts, nonce : UnlockNonces, block : Nat]

VARIABLES
    tokens,                   \* balances of the ERC-20 token
    userNonce,
    nonceBitmap,
    totalLocked,
    totalReleasedToUsers,
    paused,
    circuitBreaker,
    currentBlockUnlockAmount,
    lastUnlockBlock,
    blockNumber,              \* block.number of the chain
    lockEvents,               \* Locked events of the log
    unlockEvents              \* Unlocked events of the log

unlockVars  == <<nonceBitmap, totalReleasedToUsers, currentBlockUnlockAmount, lastUnlockBlock, unlockEvents>>
lockVars    == <<userNonce, totalLocked, lockEvents>>
pauseVars   == <<paused, circuitBreaker>>
lockBoxVars == <<tokens, blockNumber, lockVars, unlockVars, pauseVars>>

LockBoxTypeOK ==
    /\ tokens \in [TokenHolders \cup {Escrow} -> Nat]
    /\ userNonce \in [TokenHolders -> 0..MaxUserNonce]
    /\ IsBitmap(nonceBitmap)
    /\ totalLocked \in Nat /\ totalReleasedToUsers \in Nat
    /\ paused \in BOOLEAN /\ circuitBreaker \in Guardians
    /\ currentBlockUnlockAmount \in 0..MaxUnlockPerBlock
    /\ blockNumber \in 1..MaxBlock
    /\ lastUnlockBlock \in 0..blockNumber
    /\ lockEvents \in Seq(LockEvent)
    /\ unlockEvents \in Seq(UnlockEvent)

LockBoxInit ==
    /\ tokens = [a \in TokenHolders \cup {Escrow} |-> IF a = Escrow THEN 0 ELSE Funds]
    /\ userNonce = [u \in TokenHolders |-> 0]
    /\ nonceBitmap = EmptyBitmap
    /\ totalLocked = 0 /\ totalReleasedToUsers = 0
    /\ paused = FALSE /\ circuitBreaker \in Guardians
    /\ currentBlockUnlockAmount = 0 /\ lastUnlockBlock = 0
    /\ blockNumber = 1
    /\ lockEvents = <<>> /\ unlockEvents = <<>>

------------------------------------------------------------------------------
\* Mutant: a token that keeps a fee.
FeeOnTransfer(from, to, amount) ==
    /\ tokens[from] >= amount
    /\ tokens' = [tokens EXCEPT ![from] = @ - amount, ![to] = @ + amount - 1]

\* ERC-20 transfer and transferFrom (the depositor has approved the contract).
PayToken(from, to, amount) ==
    /\ tokens[from] >= amount
    /\ tokens' = [tokens EXCEPT ![from] = @ - amount, ![to] = @ + amount]

\* Mutant: the hash leaves out the account's counter.
NonceOfAmount(user, amount) == NonceHash(user, 0, blockNumber, amount)

LockNonce(user, amount) == NonceHash(user, userNonce[user], blockNumber, amount)

\* userNonce is read for the nonce and incremented.
Lock(user, amount, recipient) ==
    /\ ~paused
    /\ amount > 0
    /\ userNonce[user] < MaxUserNonce
    /\ PayToken(user, Escrow, amount)
    /\ userNonce' = [userNonce EXCEPT ![user] = @ + 1]
    /\ totalLocked' = totalLocked + amount
    /\ lockEvents' = Append(lockEvents,
          [user |-> user, amount |-> amount, recipient |-> recipient,
           nonce |-> LockNonce(user, amount), block |-> blockNumber])
    /\ UNCHANGED <<blockNumber, unlockVars, pauseVars>>

\* Mutant: two signatures of one relayer count twice.
RecoveredTwice(sigs) == \E a \in Committee : sigs[a] >= Threshold

\* sigs[a] is the number of signatures of the call that recover to a: all of
\* them must be of the committee, and at least Threshold of them distinct.
RecoveredQuorum(sigs) ==
    LET recovered == {a \in Signers : sigs[a] > 0}
    IN  recovered \subseteq Committee /\ Cardinality(recovered) >= Threshold

\* Mutant: every call begins the amount of the block anew.
CallAmount(amount) == IF blockNumber >= lastUnlockBlock THEN amount ELSE currentBlockUnlockAmount + amount

\* What the running block has released once amount is added to it.
BlockUnlockAmount(amount) ==
    IF blockNumber > lastUnlockBlock THEN amount ELSE currentBlockUnlockAmount + amount

Unlock(user, amount, nonce, sigs) ==
    /\ ~paused
    /\ amount > 0
    /\ ~IsNonceProcessed(nonceBitmap, nonce)
    /\ BlockUnlockAmount(amount) <= MaxUnlockPerBlock
    /\ RecoveredQuorum(sigs)
    /\ lastUnlockBlock' = blockNumber
    /\ currentBlockUnlockAmount' = BlockUnlockAmount(amount)
    /\ nonceBitmap' = SetNonceProcessed(nonceBitmap, nonce)
    /\ totalReleasedToUsers' = totalReleasedToUsers + amount
    /\ PayToken(Escrow, user, amount)
    /\ unlockEvents' = Append(unlockEvents,
          [user |-> user, amount |-> amount, nonce |-> nonce, block |-> blockNumber])
    /\ UNCHANGED <<blockNumber, lockVars, pauseVars>>

Pause(caller) ==
    /\ caller \in {circuitBreaker, GnosisSafe}
    /\ paused' = TRUE
    /\ UNCHANGED <<tokens, blockNumber, lockVars, unlockVars, circuitBreaker>>

Unpause(caller) ==
    /\ caller = GnosisSafe
    /\ paused' = FALSE
    /\ UNCHANGED <<tokens, blockNumber, lockVars, unlockVars, circuitBreaker>>

RotateCircuitBreaker(caller, newCB) ==
    /\ caller = GnosisSafe
    /\ circuitBreaker' = newCB
    /\ UNCHANGED <<tokens, blockNumber, lockVars, unlockVars, paused>>

\* The token moves without the contract: an account pays another account, or
\* the contract's address.
TransferToken(from, to, amount) ==
    /\ from # to
    /\ PayToken(from, to, amount)
    /\ UNCHANGED <<blockNumber, lockVars, unlockVars, pauseVars>>

\* The chain moves on to the next block.
NextBlock ==
    /\ blockNumber < MaxBlock
    /\ blockNumber' = blockNumber + 1
    /\ UNCHANGED <<tokens, lockVars, unlockVars, pauseVars>>

------------------------------------------------------------------------------
\* Whose signatures a call carries, and how often.
UnlockSignatures == [Signers -> 0..2]

Administer ==
    \E caller \in Guardians \cup {GnosisSafe} :
        \/ Pause(caller)
        \/ Unpause(caller)
        \/ \E newCB \in Guardians : RotateCircuitBreaker(caller, newCB)

LockBoxNext ==
    \/ \E u \in TokenHolders, a \in Amounts, r \in CosmosRecipients : Lock(u, a, r)
    \/ \E u \in TokenHolders, a \in Amounts, n \in UnlockNonces, s \in UnlockSignatures : Unlock(u, a, n, s)
    \/ Administer
    \/ \E u \in TokenHolders, a \in Amounts, to \in TokenHolders \cup {Escrow} : TransferToken(u, to, a)
    \/ NextBlock

LockBoxSpec == LockBoxInit /\ [][LockBoxNext]_lockBoxVars

------------------------------------------------------------------------------
\* No two deposits share a nonce, not even two equal deposits of one account
\* in one block: with a shared nonce the second would never be minted.
LockNoncesUnique ==
    \A i, j \in DOMAIN lockEvents : lockEvents[i].nonce = lockEvents[j].nonce => i = j

\* A withdrawal nonce pays out at most once, under any recipient and amount.
UnlockedOnce ==
    \A i, j \in DOMAIN unlockEvents : unlockEvents[i].nonce = unlockEvents[j].nonce => i = j

\* The escrow holds what is locked and not yet released, whoever sends tokens
\* to the contract beside lock(): every pending withdrawal can be paid.
Solvent == tokens[Escrow] + totalReleasedToUsers >= totalLocked

\* The sum of the first n values.
Total(values, n) ==
    LET sum[i \in 0..n] == IF i = 0 THEN 0 ELSE sum[i - 1] + values[i]
    IN  sum[n]

\* What a log of Unlocked events says was released in a block.
ReleasedIn(log, block) ==
    Total([i \in DOMAIN log |-> IF log[i].block = block THEN log[i].amount ELSE 0], Len(log))

\* The rate limit, read off the log: no block releases more than
\* maxUnlockPerBlock in total, however the calls are spread over the blocks.
BlockLimit == \A b \in 1..MaxBlock : ReleasedIn(unlockEvents, b) <= MaxUnlockPerBlock
=============================================================================
