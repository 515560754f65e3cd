-------------------------- MODULE MC_GovernanceExt --------------------------
(* The governed chain over two validators and one witness, with few changes
   of the set, of the registries and of the contract. *)
EXTENDS GovernanceExt

CONSTANTS v1, v2,
          MaxChanges,   \* bound on messages and restarts
          Distress      \* heights whose proposal may be rejected

MCRank == [v \in {v1, v2} |-> IF v = v1 THEN 1 ELSE 2]

VARIABLE changes

MCInit == GovernanceInit /\ changes = 0

(* The witness's steps are bounded by the payloads and the escrow. *)
Witnessing == SettlementStep /\ UNCHANGED <<vars, contractVars>>

MCNext ==
    \/ /\ changes < MaxChanges
       /\ changes' = changes + 1
       /\ Message \/ Restart
    \/ /\ UNCHANGED changes
       /\ \/ Witnessing
          \/ Block /\ (rejections' > 0 => height' \in Distress)

MCSpec == MCInit /\ [][MCNext]_<<govVars, changes>>
=============================================================================
