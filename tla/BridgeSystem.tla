---------------------------- MODULE BridgeSystem -----------------------------
(***************************************************************************)
(* The bridge end to end: LockBox.sol on BSC, x/bridge on the Sovereign    *)
(* chain, and the relayer committee between them.                          *)
(*                                                                         *)
(* A correct relayer signs what its daemon decodes from the events of the  *)
(* two chains (relayer/): a deposit once its block is deep enough, a       *)
(* withdrawal when it sees the burn.  A faulty relayer may sign anything.  *)
(* Signatures are public: anyone may submit any of them, with any payload, *)
(* any number of times and in any order.                                   *)
(***************************************************************************)
EXTENDS LockBox, BridgeKeeper

CONSTANTS
    Faulty,                  \* relayers whose keys sign anything
    KeyOf,                   \* the public key of each relayer
    Registrations,           \* <<address, key>> pairs governance may register
    LargeTransferThreshold,  \* BSCWatcher.largeTransferThreshold
    StandardDepth,           \* 15 confirmations
    LargeDepth,              \* 50 confirmations
    Width,                   \* bits of the daemon's uint64 amounts
    TxHash(_),               \* sha256 of the i-th transaction with a burn
    MaxTxs                   \* bound: transactions with a burn

ASSUME SystemParams ==
    /\ Faulty \subseteq RelayerAddrs
    /\ IsFiniteSet(Faulty)
    /\ Cardinality(Faulty) < QuorumThreshold /\ Cardinality(Faulty) < Threshold
    /\ Committee = RelayerAddrs /\ Signers = RelayerAddrs
    /\ KeyOf \in [RelayerAddrs -> PubKeys]
    /\ \A r, s \in RelayerAddrs : KeyOf[r] = KeyOf[s] => r = s
    /\ Registrations \subseteq RelayerAddrs \X PubKeys
    /\ \A a \in DOMAIN GenesisRelayers : GenesisRelayers[a] = KeyOf[a]
    /\ LargeTransferThreshold \in Nat /\ StandardDepth \in Nat /\ LargeDepth \in Nat
    /\ Width \in Nat \ {0} /\ MaxTxs \in Nat
    /\ BscUsers \subseteq TokenHolders
    /\ CosmosRecipients \subseteq Accounts

Correct == RelayerAddrs \ Faulty

VARIABLES
    attestedLocks,  \* <<relayer, index of the Locked event>> signed
    attestedBurns,  \* <<relayer, index of the MsgBridgeOut event>> signed
    burnTx          \* the transaction of each MsgBridgeOut event

systemVars == <<lockBoxVars, keeperVars, attestedLocks, attestedBurns, burnTx>>

Unattested == UNCHANGED <<attestedLocks, attestedBurns, burnTx>>

SystemInit ==
    /\ LockBoxInit /\ KeeperInit
    /\ attestedLocks = {} /\ attestedBurns = {}
    /\ burnTx = <<>>

------------------------------------------------------------------------------
(***************************************************************************)
(* What the daemon makes of an event.  A locked amount is read into 64     *)
(* bits; a withdrawal's amount is the number its coins begin with when     *)
(* they are printed in the order of their denominations; a withdrawal's    *)
(* nonce is the hash of its transaction.                                   *)
(***************************************************************************)
RelayedAmount(amount) == amount % 2^Width

RelayedCoins(amount) == [d \in Denoms |-> IF d = "uwsov" THEN RelayedAmount(amount) ELSE 0]

BurnAmount(coins) == IF coins["ucsov"] > 0 THEN coins["ucsov"] ELSE coins["uwsov"]

ConfirmationDepth(amount) ==
    IF RelayedAmount(amount) >= LargeTransferThreshold THEN LargeDepth ELSE StandardDepth

\* The handler signs through int64: an amount beyond it panics before the
\* signature, and an amount of zero makes no coin that a MsgBridgeIn may carry.
Signable(amount) == RelayedAmount(amount) < 2^(Width - 1) /\ RelayedAmount(amount) > 0

\* Mutant: the signed payload leaves out the amount.
AnyPayment(i, user, amount, nonce) ==
    outEvents[i].recipient = user /\ TxHash(burnTx[i]) = nonce

\* The payloads signed by the relayers.
IsDeposit(i, receiver, coins, nonce) ==
    /\ lockEvents[i].recipient = receiver
    /\ RelayedCoins(lockEvents[i].amount) = coins
    /\ lockEvents[i].nonce = nonce

IsWithdrawal(i, user, amount, nonce) ==
    /\ outEvents[i].recipient = user
    /\ BurnAmount(outEvents[i].coins) = amount
    /\ TxHash(burnTx[i]) = nonce

DepositSigners(receiver, coins, nonce) ==
    Faulty \cup {r \in Correct : \E i \in DOMAIN lockEvents :
                    <<r, i>> \in attestedLocks /\ IsDeposit(i, receiver, coins, nonce)}

WithdrawalSigners(user, amount, nonce) ==
    Faulty \cup {r \in Correct : \E i \in DOMAIN outEvents :
                    <<r, i>> \in attestedBurns /\ IsWithdrawal(i, user, amount, nonce)}

------------------------------------------------------------------------------
AttestLock(r, i) ==
    /\ blockNumber >= lockEvents[i].block + ConfirmationDepth(lockEvents[i].amount)
    /\ Signable(lockEvents[i].amount)
    /\ attestedLocks' = attestedLocks \cup {<<r, i>>}
    /\ UNCHANGED <<lockBoxVars, keeperVars, attestedBurns, burnTx>>

AttestBurn(r, i) ==
    /\ attestedBurns' = attestedBurns \cup {<<r, i>>}
    /\ UNCHANGED <<lockBoxVars, keeperVars, attestedLocks, burnTx>>

\* The signatures a call can carry, when only some of all signers have signed.
Signatures(all, signed) ==
    {[x \in all |-> IF x \in signed THEN f[x] ELSE 0] : f \in [signed -> 0..2]}

\* MsgBridgeIn with signatures that exist, whoever submits it.
SubmitBridgeIn(receiver, coins, nonce) ==
    /\ \E sigs \in Signatures(PubKeys, {KeyOf[r] : r \in DepositSigners(receiver, coins, nonce)}) :
          BridgeIn(receiver, coins, nonce, sigs)
    /\ UNCHANGED lockBoxVars /\ Unattested

\* unlock() with signatures that exist, whoever submits it.
SubmitUnlock(user, amount, nonce) ==
    /\ \E sigs \in Signatures(Signers, WithdrawalSigners(user, amount, nonce)) :
          Unlock(user, amount, nonce, sigs)
    /\ UNCHANGED keeperVars /\ Unattested

\* MsgBridgeOut, in a transaction of its own or after another MsgBridgeOut of
\* the same transaction.
Withdraw(sender, recipient, coins) ==
    /\ BridgeOut(sender, recipient, coins)
    /\ \E tx \in IF burnTx = <<>> THEN {1} ELSE {burnTx[Len(burnTx)], burnTx[Len(burnTx)] + 1} :
          tx <= MaxTxs /\ burnTx' = Append(burnTx, tx)
    /\ UNCHANGED <<lockBoxVars, attestedLocks, attestedBurns>>

\* Steps of one chain that concern no relayer.
BscStep ==
    /\ \/ \E u \in TokenHolders, a \in Amounts, r \in CosmosRecipients : Lock(u, a, r)
       \/ Administer
       \/ \E u \in TokenHolders, a \in Amounts, to \in TokenHolders \cup {Escrow} : TransferToken(u, to, a)
       \/ NextBlock
    /\ UNCHANGED keeperVars /\ Unattested

CosmosStep ==
    /\ \/ \E p \in Registrations : SetRelayer(p[1], p[2])
       \/ \E a \in RelayerAddrs : DeleteRelayer(a)
       \/ \E a, b \in Accounts, c \in Withdrawals : Transfer(a, b, c)
    /\ UNCHANGED lockBoxVars /\ Unattested

SystemNext ==
    \/ BscStep
    \/ CosmosStep
    \/ \E r \in Correct : \/ \E i \in DOMAIN lockEvents : AttestLock(r, i)
                          \/ \E i \in DOMAIN outEvents : AttestBurn(r, i)
    \/ \E r \in Accounts, c \in Deposits, n \in Nonces : SubmitBridgeIn(r, c, n)
    \/ \E a \in Accounts, u \in BscUsers, c \in Withdrawals : Withdraw(a, u, c)
    \/ \E u \in BscUsers, a \in Amounts, n \in UnlockNonces : SubmitUnlock(u, a, n)

SystemSpec == SystemInit /\ [][SystemNext]_systemVars

------------------------------------------------------------------------------
\* Governance registers every relayer under its own key only.
DistinctKeys == \A p \in Registrations : p[2] = KeyOf[p[1]]

\* Only wrapped tokens leave through MsgBridgeOut.
OnlyWrappedLeaves == \A c \in Withdrawals : c["ucsov"] = 0

\* Every mint is a deposit that was locked for this receiver, in this amount,
\* and lay deep enough in its chain: fewer than a quorum of faulty relayers
\* mint nothing, also while governance changes the relayer set.
MintsBacked ==
    \A m \in DOMAIN inEvents : \E i \in DOMAIN lockEvents :
        /\ IsDeposit(i, inEvents[m].receiver, inEvents[m].coins, inEvents[m].nonce)
        /\ blockNumber >= lockEvents[i].block + ConfirmationDepth(lockEvents[i].amount)

\* Every payment out of the escrow answers a burn for this user and amount.
ReleasesBacked ==
    \A p \in DOMAIN unlockEvents : \E i \in DOMAIN outEvents :
        IsWithdrawal(i, unlockEvents[p].user, unlockEvents[p].amount, unlockEvents[p].nonce)

(***************************************************************************)
(* The refinement mapping: what the logs of the two chains say of the      *)
(* pegged token.                                                           *)
(***************************************************************************)
DepositRecord(receiver, amount, nonce) == [receiver |-> receiver, amount |-> amount, nonce |-> nonce]
WithdrawalRecord(user, amount, nonce)  == [user |-> user, amount |-> amount, nonce |-> nonce]

LockNonces == {NonceHash(p[1], p[2], p[3], p[4]) : p \in LockPreimages}

DepositRecords ==
    [receiver : Accounts, amount : {RelayedAmount(a) : a \in Amounts}, nonce : LockNonces]
WithdrawalRecords ==
    [user : BscUsers, amount : {BurnAmount(c) : c \in Withdrawals}, nonce : {TxHash(tx) : tx \in 1..MaxTxs}]

Logged(log) == {log[i] : i \in DOMAIN log}

DepositsOfLocks(log)    == {DepositRecord(e.recipient, RelayedAmount(e.amount), e.nonce) : e \in Logged(log)}
DepositsOfMints(log)    == {DepositRecord(e.receiver, e.coins["uwsov"], e.nonce) : e \in Logged(log)}
WithdrawalsOfBurns(log, txs) ==
    {WithdrawalRecord(log[i].recipient, BurnAmount(log[i].coins), TxHash(txs[i])) : i \in DOMAIN log}
WithdrawalsOfUnlocks(log) == {WithdrawalRecord(e.user, e.amount, e.nonce) : e \in Logged(log)}

LockedDeposits    == DepositsOfLocks(lockEvents)
MintedDeposits    == DepositsOfMints(inEvents)
BurnedWithdrawals == WithdrawalsOfBurns(outEvents, burnTx)
PaidWithdrawals   == WithdrawalsOfUnlocks(unlockEvents)

Peg == INSTANCE PeggedToken WITH
    Deposit    <- DepositRecords,
    Withdrawal <- WithdrawalRecords,
    locked     <- LockedDeposits,
    minted     <- MintedDeposits,
    supply     <- wrappedSupply,
    withdrawn  <- BurnedWithdrawals,
    paid       <- PaidWithdrawals

\* The bridge implements the pegged token.
ImplementsPeg == Peg!PegSpec
=============================================================================
