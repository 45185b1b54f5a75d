-------------------------- MODULE MCOrderExecution --------------------------
(***************************************************************************)
(* OrderExecution for TLC: a bid that can trade with both ask levels, an   *)
(* ask whose limit reaches only one of the bid levels, and a bid without   *)
(* instrument, which a modify may carry.                                   *)
(***************************************************************************)
EXTENDS OrderExecution

MCMaxRequests == [e \in Engines |-> 3]
MCTwoRequests == [e \in Engines |-> 2]

MCFields == {[instrument |-> 1, side |-> "Bid", price |-> 2, size |-> 2],
             [instrument |-> 1, side |-> "Ask", price |-> 2, size |-> 1],
             [instrument |-> 0, side |-> "Bid", price |-> 1, size |-> 1]}

Symmetry == Permutations(OrderIds)
=============================================================================
