--------------------------- MODULE LimitOrderBooks ---------------------------
(***************************************************************************)
(* book/LimitOrderBook and book/BookManager as functions of their state:   *)
(* apply(event) of one book, and of a manager of one book per instrument.  *)
(* Trade and fill counters and the diagnostic samples are left out.        *)
(***************************************************************************)
EXTENDS Naturals, FiniteSetsExt

CONSTANTS Instruments,  \* instrument ids an event may name
          Orders,       \* order ids an event may name
          Prices        \* valid prices of an event

ASSUME BooksAssumption == Instruments \cup Orders \cup Prices \subseteq Nat \ {0}

Missing == 0            \* an instrument, an order or a price the event does not have
ActiveSides == {"Bid", "Ask"}

MarketEvent == [action: {"Add", "Cancel", "Modify", "Clear", "Trade"},
                instrument: Instruments \cup {Missing}, order: Orders \cup {Missing},
                side: ActiveSides \cup {"None"}, price: Prices \cup {Missing}, size: Nat]

HasValidRestingState(event) ==
    /\ event.order # Missing
    /\ event.side \in ActiveSides
    /\ event.price # Missing
    /\ event.size > 0

------------------------------------------------------------------------------
(* LimitOrderBook.  An order of size 0 is not in the book. *)

NotResting == [side |-> "None", price |-> Missing, size |-> 0]

EmptyBook == [exists |-> FALSE,
              orders |-> [o \in Orders |-> NotResting],
              levels |-> [s \in ActiveSides |-> [p \in Prices |-> 0]],
              recovered |-> 0, modify_skipped |-> 0, cancel_skipped |-> 0]

Contains(book, o) == o # Missing /\ book.orders[o].size > 0

AddLevelVolume(book, order) ==
    [book EXCEPT !.levels[order.side][order.price] = @ + order.size]

\* Erases the level when it holds no more than the size to remove.
RemoveLevelVolume(book, order, size) ==
    [book EXCEPT !.levels[order.side][order.price] = IF @ <= size THEN 0 ELSE @ - size]

RemoveOrder(book, o) ==
    IF ~Contains(book, o) THEN book
    ELSE [RemoveLevelVolume(book, book.orders[o], book.orders[o].size)
             EXCEPT !.orders[o] = NotResting]

ApplyAdd(book, event) ==
    LET order == [side |-> event.side, price |-> event.price, size |-> event.size]
    IN  IF ~HasValidRestingState(event) THEN book
        ELSE AddLevelVolume([RemoveOrder(book, event.order) EXCEPT !.orders[event.order] = order],
                            order)

\* Size 0 cancels the whole order.
ApplyCancel(book, event) ==
    IF ~Contains(book, event.order) THEN [book EXCEPT !.cancel_skipped = @ + 1]
    ELSE LET order == book.orders[event.order]
             size == IF event.size = 0 THEN order.size ELSE Min({event.size, order.size})
         IN  [RemoveLevelVolume(book, order, size) EXCEPT !.orders[event.order] =
                 IF order.size = size THEN NotResting ELSE [order EXCEPT !.size = @ - size]]

ApplyModify(book, event) ==
    IF Contains(book, event.order) THEN ApplyAdd(book, event)
    ELSE IF HasValidRestingState(event)
         THEN ApplyAdd([book EXCEPT !.recovered = @ + 1], event)
         ELSE [book EXCEPT !.modify_skipped = @ + 1]

ApplyClear(book) == [book EXCEPT !.orders = EmptyBook.orders, !.levels = EmptyBook.levels]

ApplyToBook(book, event) ==
    CASE event.action = "Add" -> ApplyAdd(book, event)
      [] event.action = "Modify" -> ApplyModify(book, event)
      [] event.action = "Cancel" -> ApplyCancel(book, event)
      [] event.action = "Clear" -> ApplyClear(book)
      [] OTHER -> book

------------------------------------------------------------------------------
(* BookManager. *)

EmptyManager == [books |-> [i \in Instruments |-> EmptyBook],
                 order_to_instrument |-> [o \in Orders |-> Missing],
                 unresolved |-> 0]

\* The instrument an event belongs to: its own, or that of the order it names.
ResolveInstrument(event, instrument_of) ==
    IF event.instrument # Missing THEN event.instrument
    ELSE IF event.order = Missing THEN Missing
    ELSE instrument_of[event.order]

\* Faulty: the order stays in its old book too.
KeepPreviousMapping(manager, event) == manager

\* An add or modify for another instrument takes the order out of its old book.
RemovePreviousMapping(manager, event) ==
    IF event.action \notin {"Add", "Modify"} \/ ~HasValidRestingState(event) THEN manager
    ELSE LET previous == manager.order_to_instrument[event.order]
         IN  IF previous \in {Missing, event.instrument} THEN manager
             ELSE [manager EXCEPT
                      !.books[previous] =
                          ApplyCancel(@, [event EXCEPT !.instrument = previous, !.size = 0]),
                      !.order_to_instrument[event.order] = Missing]

UpdateOrderMapping(manager, event) ==
    LET i == event.instrument
        o == event.order
        resting == Contains(manager.books[i], o)
        mapping == manager.order_to_instrument
    IN  [manager EXCEPT !.order_to_instrument =
            CASE event.action \in {"Add", "Modify", "Cancel"} /\ resting ->
                   [mapping EXCEPT ![o] = i]
              [] event.action = "Cancel" /\ ~resting /\ o # Missing ->
                   [mapping EXCEPT ![o] = IF @ = i THEN Missing ELSE @]
              [] event.action = "Clear" ->
                   [k \in Orders |-> IF mapping[k] = i THEN Missing ELSE mapping[k]]
              [] OTHER -> mapping]

ApplyToManager(manager, event) ==
    LET i == ResolveInstrument(event, manager.order_to_instrument)
        routed == [event EXCEPT !.instrument = i]
        removed == RemovePreviousMapping(manager, routed)
        applied == [removed EXCEPT !.books[i] = [ApplyToBook(@, routed) EXCEPT !.exists = TRUE]]
    IN  IF i = Missing THEN [manager EXCEPT !.unresolved = @ + 1]
        ELSE UpdateOrderMapping(applied, routed)

------------------------------------------------------------------------------
\* The volume of each level is the sum of the orders resting there.
LevelsSumOrders(book) ==
    \A s \in ActiveSides, p \in Prices :
        book.levels[s][p] =
            MapThenSumSet(LAMBDA o : book.orders[o].size,
                          {o \in Orders : book.orders[o].side = s /\ book.orders[o].price = p})
==============================================================================
