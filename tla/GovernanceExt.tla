---------------------------- MODULE GovernanceExt ----------------------------
(***************************************************************************)
(* x/governance-ext between the constitution contract and the modules it   *)
(* writes: x/validator and x/settlement here, with x/certification         *)
(* (chain/x/governance-ext/keeper.go, contracts/constitution).  The routes *)
(* to x/milestone, x/oracle and x/bridge are actions of those modules.     *)
(***************************************************************************)
EXTENDS Certification, Settlement

CONSTANTS Governor, ColdMultisig, Stranger  \* addresses at the contract

Addresses == {Governor, ColdMultisig, Stranger}

VARIABLES
    paused,         \* Config.is_paused of the constitution
    governor,       \* Config.governance_address
    multisig        \* Config.cold_multisig_address

contractVars == <<paused, governor, multisig>>
govVars == <<vars, settlementVars, contractVars>>

GovernanceTypeOK ==
    /\ CertificationTypeOK
    /\ SettlementTypeOK
    /\ paused \in BOOLEAN
    /\ governor \in Addresses
    /\ multisig \in Addresses

(* instantiate; the genesis file installs the contract. *)
GovernanceInit ==
    /\ CertificationInit
    /\ SettlementInit
    /\ paused = FALSE
    /\ governor = Governor
    /\ multisig = ColdMultisig

-----------------------------------------------------------------------------
(* The constitution contract's messages. *)
EmergencyPause(sender) ==
    /\ sender \in {governor, multisig}
    /\ paused' = TRUE
    /\ UNCHANGED <<governor, multisig>>

Unpause(sender) ==
    /\ sender = governor
    /\ paused' = FALSE
    /\ UNCHANGED <<governor, multisig>>

RotateColdMultisig(sender, new) ==
    /\ sender = governor
    /\ multisig' = new
    /\ UNCHANGED <<paused, governor>>

UpdateGovernanceAddress(sender, new) ==
    /\ sender \in {governor, multisig}
    /\ governor' = new
    /\ UNCHANGED <<paused, multisig>>

ConstitutionStep ==
    \E sender \in Addresses :
        \/ EmergencyPause(sender)
        \/ Unpause(sender)
        \/ \E new \in Addresses : \/ RotateColdMultisig(sender, new)
                                  \/ UpdateGovernanceAddress(sender, new)

\* Mutant of CheckProposal: a paused contract fails instead of answering.
FailsWhenPaused(violates) ==
    [error |-> IF paused THEN "paused" ELSE "none", valid |-> ~violates]

(* The contract's query CheckProposal: what it answers, never an error. *)
CheckProposal(violates) ==
    [error |-> "none", valid |-> ~paused /\ ~violates]

(* ExecuteProposal goes on when the contract approves, and also when the query
   fails with a message that says it is paused or unavailable. *)
ConstitutionAllows(violates) ==
    LET answer == CheckProposal(violates)
    IN  \/ answer.error \in {"paused", "unavailable"}
        \/ answer.error = "none" /\ answer.valid

(* Messages of governance whose mutation the constitution checks. *)
UpdateValidatorSlot(n, violates) ==
    /\ ConstitutionAllows(violates)
    /\ SetMaxValidators(n)
    /\ UNCHANGED <<certVars, recordVars, height, settlementVars, contractVars>>

UpdateWitnessRegistry(id, key, isActive, violates) ==
    /\ ConstitutionAllows(violates)
    /\ IF isActive THEN SetWitnessPubKey(id, key) ELSE DeleteWitnessPubKey(id)
    /\ UNCHANGED <<vars, contractVars>>

-----------------------------------------------------------------------------
(* The chain stops and starts from its exported genesis, with the contracts'
   state. *)
Restart ==
    /\ ExportImportGenesis
    /\ SettlementRestart
    /\ UNCHANGED contractVars

Proposal ==
    \E violates \in BOOLEAN :
        \/ \E n \in Sizes : UpdateValidatorSlot(n, violates)
        \/ \E id \in Witnesses, key \in WitnessKeys, isActive \in BOOLEAN :
             UpdateWitnessRegistry(id, key, isActive, violates)

(* A message of x/settlement carries any time its sender likes. *)
SettlementStep ==
    \/ \E key \in WitnessKeys, p \in Payloads : Attest(key, p)
    \/ \E id \in Witnesses, p \in Payloads, amount \in Amounts,
          timestamp \in height .. height + 1 :
         ProcessSettlement(id, p, amount, timestamp, height)

Message ==
    \/ \E v \in Validators : /\ \/ Stake(v)
                                \/ Unstake(v)
                                \/ Unjail(v)
                                \/ FillValidatorSlot(v)
                                \/ EjectValidator(v)
                             /\ UNCHANGED <<certVars, recordVars, height>>
                             /\ UNCHANGED <<settlementVars, contractVars>>
    \/ /\ \E n \in Limits : UpdateCertificationParams(n)
       /\ UNCHANGED <<settlementVars, contractVars>>
    \/ Proposal
    \/ SettlementStep /\ UNCHANGED <<vars, contractVars>>
    \/ ConstitutionStep /\ UNCHANGED <<vars, settlementVars>>

Block ==
    /\ \E votes \in SUBSET MayHaveVoted(height + 1), rejected \in Rejections :
         EndBlock(votes, rejected)
    /\ UNCHANGED <<settlementVars, contractVars>>

GovernanceNext == Message \/ Restart \/ Block

GovernanceSpec == GovernanceInit /\ [][GovernanceNext]_govVars

-----------------------------------------------------------------------------
(* While the constitution is paused nothing that proposals write changes,
   although ExecuteProposal lets a proposal pass when the contract fails with
   "paused": its query answers instead of failing (keeper.go:197). *)
PauseFreezesProposals ==
    [][paused => UNCHANGED <<maxValidators, registry>>]_govVars
=============================================================================
