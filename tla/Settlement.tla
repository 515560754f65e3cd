----------------------------- MODULE Settlement -----------------------------
(***************************************************************************)
(* x/settlement: payouts from an escrow on the signature of a registered   *)
(* witness (chain/x/settlement/keeper.go).  The registry is written by     *)
(* governance.                                                             *)
(***************************************************************************)
EXTENDS Integers

CONSTANTS Witnesses,    \* identifiers of witnesses
          WitnessKeys,
          Payloads,     \* payload hashes
          Amounts,
          Funds,        \* what the escrow is given
          Tolerance     \* TimestampToleranceSeconds

FutureOffset == 300     \* MaxFutureTimestampOffset

VARIABLES
    registry,       \* WitnessKeyPrefix: from registered identifiers to keys
    processed,      \* SettlementNonceKeyPrefix
    escrow,         \* the module account's balance
    attested_by,    \* signatures that witnesses have given away
    paid            \* how often each payload was paid, for the properties

settlementVars == <<registry, processed, escrow, attested_by, paid>>

SettlementTypeOK ==
    /\ DOMAIN registry \subseteq Witnesses
    /\ \A id \in DOMAIN registry : registry[id] \in WitnessKeys
    /\ processed \subseteq Payloads
    /\ escrow \in 0 .. Funds
    /\ attested_by \subseteq [key: WitnessKeys, payload: Payloads]
    /\ paid \in [Payloads -> Nat]

SettlementInit ==
    /\ registry = [id \in {} |-> {}]
    /\ processed = {}
    /\ escrow = Funds
    /\ attested_by = {}
    /\ paid = [p \in Payloads |-> 0]

(* SetWitnessPubKey and DeleteWitnessPubKey: the old key is gone at once. *)
SetWitnessPubKey(id, key) ==
    /\ registry' = [w \in DOMAIN registry \cup {id} |->
                      IF w = id THEN key ELSE registry[w]]
    /\ UNCHANGED <<processed, escrow, attested_by, paid>>

DeleteWitnessPubKey(id) ==
    /\ registry' = [w \in DOMAIN registry \ {id} |-> registry[w]]
    /\ UNCHANGED <<processed, escrow, attested_by, paid>>

(* A witness signs a payload.  The signature covers the chain and the payload,
   neither time nor amount nor destination. *)
Attest(key, p) ==
    /\ [key |-> key, payload |-> p] \notin attested_by
    /\ attested_by' = attested_by \cup {[key |-> key, payload |-> p]}
    /\ UNCHANGED <<registry, processed, escrow, paid>>

Timely(timestamp, now) ==
    /\ timestamp <= now + FutureOffset
    /\ timestamp - now <= Tolerance
    /\ now - timestamp <= Tolerance

Verifies(id, p) == [key |-> registry[id], payload |-> p] \in attested_by

(* MsgSettlement at block time now, from anyone who has the signature. *)
ProcessSettlement(id, p, amount, timestamp, now) ==
    /\ p \notin processed
    /\ id \in DOMAIN registry
    /\ Timely(timestamp, now)
    /\ Verifies(id, p)
    /\ amount <= escrow
    /\ escrow' = escrow - amount
    /\ processed' = processed \cup {p}
    /\ paid' = [paid EXCEPT ![p] = @ + 1]
    /\ UNCHANGED <<registry, attested_by>>

\* Mutant of ImportedNonces: the nonces are not exported.
NoNonces == {}

(* InitGenesis of an exported genesis: parameters, witnesses and nonces are
   all exported. *)
ImportedNonces == processed

SettlementRestart ==
    /\ processed' = ImportedNonces
    /\ UNCHANGED <<registry, escrow, attested_by, paid>>

-----------------------------------------------------------------------------
(* A payload is paid once, whoever witnesses it, under whichever key, and
   through restarts (keeper.go:118). *)
SettledOnce == \A p \in Payloads : paid[p] <= 1
=============================================================================
