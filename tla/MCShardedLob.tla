---------------------------- MODULE MCShardedLob ----------------------------
(***************************************************************************)
(* ShardedLob for TLC: two instruments on different workers, one order     *)
(* that moves between them and one that does not; events with and without  *)
(* instrument, partial and full cancels, and a cancel for the wrong        *)
(* instrument.                                                             *)
(***************************************************************************)
EXTENDS ShardedLob

Ev(action, i, o, side, price, size) ==
    [action |-> action, instrument |-> i, order |-> o, side |-> side, price |-> price,
     size |-> size]

MCEvents == {Ev("Add", 1, 1, "Bid", 1, 2), Ev("Add", 2, 1, "Ask", 2, 1),
             Ev("Add", 1, 2, "Bid", 1, 1), Ev("Modify", Missing, 1, "Bid", 2, 1),
             Ev("Modify", 2, 1, "None", 1, 1),
             Ev("Cancel", Missing, 1, "None", Missing, 1), Ev("Cancel", 1, 1, "None", Missing, 0),
             Ev("Clear", 1, Missing, "None", Missing, 0), Ev("Trade", 2, Missing, "None", 1, 1)}
=============================================================================
