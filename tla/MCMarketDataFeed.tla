-------------------------- MODULE MCMarketDataFeed --------------------------
(***************************************************************************)
(* MarketDataFeed for TLC: one engine whose detector meets faults and one  *)
(* that shares the feed undisturbed; an instrument with enough messages    *)
(* for a gap in the middle, and a second one beside it.                    *)
(***************************************************************************)
EXTENDS MarketDataFeed

MCMaxSeqNo == [i \in Instruments |-> IF i = 1 THEN 3 ELSE 1]
MCMaxFaults == [e \in Engines |-> IF e = "e1" THEN 2 ELSE 0]
=============================================================================
