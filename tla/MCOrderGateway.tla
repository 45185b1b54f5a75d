--------------------------- MODULE MCOrderGateway ---------------------------
(***************************************************************************)
(* OrderGateway for TLC: one engine that creates an order and then         *)
(* modifies or cancels it, one that uses the same order id once.  Fields   *)
(* are valid, or have neither instrument nor price.                        *)
(***************************************************************************)
EXTENDS OrderGateway

MCMaxRequests == [e \in Engines |-> IF e = "e1" THEN 2 ELSE 1]

MCFields == {[instrument |-> 1, side |-> "Bid", price |-> 1, size |-> 2],
             [instrument |-> 0, side |-> "Bid", price |-> UndefinedPrice, size |-> 1]}
=============================================================================
