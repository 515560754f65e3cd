---------------------------- MODULE PeggedToken -----------------------------
(***************************************************************************)
(* What the bridge promises, with no committee, watcher or contract in     *)
(* sight: a token is locked on one chain, minted on the other once, burned *)
(* there, and paid back once.                                              *)
(***************************************************************************)
EXTENDS Naturals

CONSTANTS
    Deposit,     \* records with a field amount: what may be locked
    Withdrawal   \* records with fields amount and nonce: what may be burned

VARIABLES
    locked,     \* deposits made
    minted,     \* deposits that were minted on the other chain
    supply,     \* tokens circulating on the other chain
    withdrawn,  \* withdrawals requested by burning
    paid        \* withdrawals paid out of the lock

pegVars == <<locked, minted, supply, withdrawn, paid>>

PegInit ==
    /\ locked = {} /\ minted = {}
    /\ supply = 0
    /\ withdrawn = {} /\ paid = {}

LockDeposit(d) ==
    /\ locked' = locked \cup {d}
    /\ UNCHANGED <<minted, supply, withdrawn, paid>>

\* A deposit is minted once, and only after it was locked.
MintDeposit(d) ==
    /\ d \in locked \ minted
    /\ minted' = minted \cup {d}
    /\ supply' = supply + d.amount
    /\ UNCHANGED <<locked, withdrawn, paid>>

BurnWithdrawal(w) ==
    /\ w.amount <= supply
    /\ supply' = supply - w.amount
    /\ withdrawn' = withdrawn \cup {w}
    /\ UNCHANGED <<locked, minted, paid>>

\* A withdrawal is paid once, and only after it was burned for.
PayWithdrawal(w) ==
    /\ w \in withdrawn
    /\ \A p \in paid : p.nonce # w.nonce
    /\ paid' = paid \cup {w}
    /\ UNCHANGED <<locked, minted, supply, withdrawn>>

PegNext ==
    \/ \E d \in Deposit : LockDeposit(d) \/ MintDeposit(d)
    \/ \E w \in Withdrawal : BurnWithdrawal(w) \/ PayWithdrawal(w)

PegSpec == PegInit /\ [][PegNext]_pegVars
=============================================================================
