--------------------------- MODULE HistoricalStore ---------------------------
(***************************************************************************)
(* lob/HistoricalLOB and lob/HistoricalLobStore as functions of their      *)
(* state, and the arithmetic on price levels that lob/SimulatedLOB and     *)
(* lob/FillSimulator share with them.  A level of volume 0 is not in the   *)
(* map, an order of size 0 is not in the book, and a book no event has     *)
(* touched is not in the store.                                            *)
(***************************************************************************)
EXTENDS LimitOrderBooks

LOCAL S == INSTANCE SequencesExt

\* Price levels of both sides: bids_ and asks_.
Levels == [ActiveSides -> [Prices -> Nat]]
NoLevels == [s \in ActiveSides |-> [p \in Prices |-> 0]]

AddVolume(levels, s, p, size) == [levels EXCEPT ![s][p] = @ + size]

\* Erases the level when it holds no more than the size to remove.
TakeVolume(levels, s, p, size) == [levels EXCEPT ![s][p] = IF @ <= size THEN 0 ELSE @ - size]

PricesOf(side_levels) == {p \in Prices : side_levels[p] > 0}
Better(s, p, q) == IF s = "Bid" THEN p > q ELSE p < q

\* bids and asks: the best levels of a side, best first, no more than depth.
TopLevels(side_levels, s, depth) ==
    LET sorted == S!SetToSortSeq(PricesOf(side_levels), LAMBDA p, q : Better(s, p, q))
    IN  [n \in 1..Min({depth, Cardinality(PricesOf(side_levels))}) |->
            [price |-> sorted[n], size |-> side_levels[sorted[n]]]]

------------------------------------------------------------------------------
(* HistoricalLOB. *)

NotHeld == [instrument |-> Missing, side |-> "None", price |-> Missing, size |-> 0]

EmptyLOB == [instrument |-> Missing, orders |-> [o \in Orders |-> NotHeld], levels |-> NoLevels]

Holds(lob, o) == o # Missing /\ lob.orders[o].size > 0

DropOrder(lob, o) ==
    LET order == lob.orders[o]
    IN  IF ~Holds(lob, o) THEN lob
        ELSE [lob EXCEPT !.levels = TakeVolume(@, order.side, order.price, order.size),
                         !.orders[o] = NotHeld]

LobAdd(lob, event) ==
    LET dropped == DropOrder(lob, event.order)
        order == [instrument |-> event.instrument, side |-> event.side, price |-> event.price,
                  size |-> event.size]
    IN  IF ~HasValidRestingState(event) THEN lob
        ELSE [dropped EXCEPT !.levels = AddVolume(@, order.side, order.price, order.size),
                             !.orders[event.order] = order]

\* Unlike LimitOrderBook, a modify of an order it does not hold changes nothing.
LobModify(lob, event) == IF Holds(lob, event.order) THEN LobAdd(lob, event) ELSE lob

\* Size 0 cancels the whole order.
LobCancel(lob, event) ==
    IF ~Holds(lob, event.order) THEN lob
    ELSE LET order == lob.orders[event.order]
             size == IF event.size = 0 THEN order.size ELSE Min({event.size, order.size})
         IN  [lob EXCEPT !.levels = TakeVolume(@, order.side, order.price, size),
                         !.orders[event.order] =
                             IF order.size = size THEN NotHeld ELSE [order EXCEPT !.size = @ - size]]

\* Drops the orders of the event's instrument, or empties the book without one.
LobClear(lob, event) ==
    IF event.instrument = Missing
    THEN [lob EXCEPT !.orders = EmptyLOB.orders, !.levels = NoLevels]
    ELSE FoldSet(LAMBDA o, l : DropOrder(l, o), lob,
                 {o \in Orders : Holds(lob, o) /\ lob.orders[o].instrument = event.instrument})

LobApply(lob, event) ==
    LET named == [lob EXCEPT !.instrument = IF event.instrument # Missing THEN event.instrument ELSE @]
    IN  CASE event.action = "Add" -> LobAdd(named, event)
          [] event.action = "Modify" -> LobModify(named, event)
          [] event.action = "Cancel" -> LobCancel(named, event)
          [] event.action = "Clear" -> LobClear(named, event)
          [] OTHER -> named

------------------------------------------------------------------------------
(* HistoricalLobStore: each call holds the store's lock. *)

EmptyStore == [i \in Instruments |-> EmptyLOB]

StoreApply(store, event) ==
    IF event.action = "Clear" /\ event.instrument = Missing THEN EmptyStore
    ELSE IF event.instrument = Missing THEN store
    ELSE [store EXCEPT ![event.instrument] = LobApply(@, event)]

StoreSnapshot(store, i, depth) ==
    [bids |-> TopLevels(store[i].levels["Bid"], "Bid", depth),
     asks |-> TopLevels(store[i].levels["Ask"], "Ask", depth)]
==============================================================================
