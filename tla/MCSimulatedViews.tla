-------------------------- MODULE MCSimulatedViews --------------------------
(***************************************************************************)
(* SimulatedViews for TLC: two engines, two prices; the writer adds,       *)
(* cancels and re-adds an ask and adds a bid.                              *)
(***************************************************************************)
EXTENDS SimulatedViews

MCFeed ==
    LET event(action, o, s, p, size) == [action |-> action, instrument |-> 1, order |-> o,
                                         side |-> s, price |-> p, size |-> size]
    IN  {event("Add", 1, "Ask", 2, 2), event("Cancel", 1, "None", Missing, 0),
         event("Add", 2, "Bid", 1, 1)}

MCRequests == {[instrument |-> 1, side |-> "Bid", price |-> 2, size |-> 3],
               [instrument |-> 1, side |-> "Ask", price |-> 1, size |-> 1],
               [instrument |-> Missing, side |-> "Bid", price |-> 1, size |-> 1]}

MCMaxOrders == [e \in Engines |-> IF e = 1 THEN 2 ELSE 1]
MCMaxReads == [e \in Engines |-> IF e = 1 THEN 1 ELSE 0]
=============================================================================
