---------------------------- MODULE ValidatorSet ----------------------------
(***************************************************************************)
(* x/validator: a fixed number of slots over the validators that x/staking *)
(* bonds (chain/x/validator).  A block hands the slots out in the order of *)
(* the validators' addresses and ejects whoever holds a slot beyond them;  *)
(* messages fill and eject slots between blocks.  x/staking and            *)
(* x/slashing are modelled as far as these modules use them: who has       *)
(* stake, who is jailed, and who is in the set a block ended with.         *)
(***************************************************************************)
EXTENDS Naturals, FiniteSets

CONSTANTS Validators,
          Rank,         \* the order of the validators' addresses
          Sizes         \* the values governance gives MaxValidators

ASSUME ValidatorParams ==
    /\ IsFiniteSet(Validators)
    /\ Rank \in [Validators -> Nat]
    /\ \A v, w \in Validators : Rank[v] = Rank[w] => v = w
    /\ Sizes \subseteq Nat \ {0}

VARIABLES
    staked,         \* x/staking: validators with enough stake to be bonded
    jailed,         \* x/staking: validators that are jailed
    bonded,         \* x/staking: LastValidatorPowers
    active,         \* SlotKeyPrefix: validators marked as holding a slot
    queued,         \* QueuedEjectionKeyPrefix
    maxValidators   \* MaxValidatorsKeyPrefix

stakingVars == <<staked, jailed, bonded>>
slotVars == <<active, queued, maxValidators>>
setVars == <<stakingVars, slotVars>>

ValidatorTypeOK ==
    /\ staked \subseteq Validators
    /\ jailed \subseteq Validators
    /\ bonded \subseteq Validators
    /\ active \subseteq Validators
    /\ queued \subseteq Validators
    /\ maxValidators \in Sizes

(* Genesis: the module holds no slots yet, x/staking has bonded its stakers. *)
SetInit ==
    /\ staked \in SUBSET Validators \ {{}}
    /\ bonded = staked
    /\ jailed = {}
    /\ active = {}
    /\ queued = {}
    /\ maxValidators \in Sizes

-----------------------------------------------------------------------------
(* x/staking and x/slashing between blocks. *)
Stake(v) ==
    /\ v \notin staked
    /\ staked' = staked \cup {v}
    /\ UNCHANGED <<jailed, bonded, slotVars>>

Unstake(v) ==
    /\ v \in staked
    /\ staked' = staked \ {v}
    /\ UNCHANGED <<jailed, bonded, slotVars>>

Unjail(v) ==
    /\ v \in jailed
    /\ jailed' = jailed \ {v}
    /\ UNCHANGED <<staked, bonded, slotVars>>

(* x/staking's EndBlock, the first of the block. *)
Elected == staked \ jailed

-----------------------------------------------------------------------------
(* MsgFillValidatorSlot: anyone may send it, for any address. *)
FillValidatorSlot(v) ==
    /\ v \notin active
    /\ active' = active \cup {v}
    /\ UNCHANGED <<stakingVars, queued, maxValidators>>

(* MsgEjectValidator: anyone may send it; Jail fails without effect on a
   validator that is jailed already. *)
EjectValidator(v) ==
    /\ v \in active
    /\ queued' = queued \cup {v}
    /\ active' = active \ {v}
    /\ jailed' = jailed \cup {v}
    /\ UNCHANGED <<staked, bonded, maxValidators>>

(* x/governance-ext writes the number of slots. *)
SetMaxValidators(n) ==
    /\ maxValidators' = n
    /\ UNCHANGED <<stakingVars, active, queued>>

-----------------------------------------------------------------------------
(* The EndBlocker's pass over the set S, in the order of addresses. *)
Ahead(v, S) == {w \in S : Rank[w] < Rank[v]}

InSlots(S) == {v \in S : Cardinality(Ahead(v, S)) < maxValidators}

Ejected(S) == (S \ InSlots(S)) \cap active

\* Mutant of SlotsAfter: who is ejected keeps the mark.
KeepsMarks(S) == active \cup InSlots(S)

(* The marks the pass leaves; who stands beyond the slots without a mark is
   not touched. *)
SlotsAfter(S) == (active \cup InSlots(S)) \ Ejected(S)

ValidatorEndBlocker(S) ==
    /\ active' = SlotsAfter(S)
    /\ queued' = queued \cup Ejected(S)
    /\ UNCHANGED maxValidators
=============================================================================
