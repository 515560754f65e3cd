---------------------------- MODULE MC_Milestone -----------------------------
(***************************************************************************)
(* x/milestone on two feeds of one operator: two milestones on the first,  *)
(* one on the second, a budget of two a block and funds for two of the     *)
(* three payouts.                                                          *)
(***************************************************************************)
EXTENDS Milestone

CONSTANTS op, f1, f2, m1, m2, m3

MCPlan(feed, target, duration) == [feed |-> feed, target |-> target, duration |-> duration, payout |-> 1]

MCPlans == [id \in {m1, m2, m3} |->
               IF id = m1 THEN MCPlan(f1, 2, 2) ELSE IF id = m2 THEN MCPlan(f1, 1, 1) ELSE MCPlan(f2, 1, 2)]

MCFeedOrder == <<f1, f2>>
MCIdOrder   == <<m1, m2, m3>>

(***************************************************************************)
(* What the run of Oracle covers is left out: operators come and go, and   *)
(* slashes (no reporter is a validator here).  Milestones are created in   *)
(* the first two blocks, and their targets edited in the first.            *)
(***************************************************************************)
MCVestingSpec ==
    /\ VestingInit
    /\ [][/\ VestingNext
          /\ operators' = operators
          /\ height > 2 => DOMAIN milestones' = DOMAIN milestones
          /\ height > 1 => \A id \in DOMAIN milestones : milestones'[id].target = milestones[id].target]_vestingVars
==============================================================================
