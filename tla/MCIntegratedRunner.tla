------------------------- MODULE MCIntegratedRunner -------------------------
(***************************************************************************)
(* Two strategies and a short feed of one instrument, with an event of     *)
(* another the filter drops and a clear of every book.                     *)
(***************************************************************************)
EXTENDS IntegratedRunner

CONSTANTS e1, e2

MCRuntimes == <<e1, e2>>
MCSubscriptions == <<1>>
MCMaxRequests == [e \in Engines |-> IF e = e1 THEN 3 ELSE 1]

FeedEvent(t, action, i, o, s, p, size) ==
    [time |-> t, action |-> action, instrument |-> i, order |-> o, side |-> s, price |-> p,
     size |-> size]

MCFeedEvents == {FeedEvent(1, "Add", 1, 1, "Ask", 1, 2),
                 FeedEvent(2, "Modify", 1, 1, "Ask", 2, 1),
                 FeedEvent(2, "Cancel", 1, 1, "Ask", 1, 1),
                 FeedEvent(1, "Clear", 1, 0, "None", 0, 0),
                 FeedEvent(2, "Clear", 0, 0, "None", 0, 0),
                 FeedEvent(2, "Trade", 2, 0, "Ask", 1, 1)}

OrderFields(s, p, size) == [instrument |-> 1, side |-> s, price |-> p, size |-> size]

MCFields == {OrderFields("Bid", 2, 2)}
MCLimitFields == MCFields \cup {OrderFields("Bid", 1, 1)}
==============================================================================
