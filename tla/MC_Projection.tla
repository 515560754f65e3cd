---------------------------- MODULE MC_Projection ----------------------------
(* Two blocks: one whose commit lacks a validator, and one with a validator
   that voted nil and a withdrawal. *)
EXTENDS Projection

CONSTANTS v1, v2

MCChain ==
    <<[commit |-> <<[validator |-> v2, flag |-> "absent"]>>,
       txs |-> <<[type |-> "transfer"]>>],
      [commit |-> <<[validator |-> v1, flag |-> "nil"]>>,
       txs |-> <<[type |-> "MsgBridgeOut"]>>]>>
==============================================================================
