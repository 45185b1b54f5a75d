--------------------------- MODULE OrderExecution ---------------------------
(***************************************************************************)
(* backtest/OrderExecutionBridge on top of the gateway: one call of        *)
(* drainAndProcessRequests drains the gateway's requests and then executes *)
(* the accepted ones, in order, with lob/FillSimulator against the         *)
(* historical book and the lob/EngineView of the engine.                   *)
(*                                                                         *)
(* The call runs on the backtest thread, so the historical book moves only *)
(* between calls; clients run at any time.                                 *)
(***************************************************************************)
EXTENDS OrderGateway, FiniteSetsExt

CONSTANTS Instruments,   \* valid instrument ids
          Prices,        \* prices of orders and levels
          LevelSizes,    \* sizes a historical level may move to
          MaxMoves       \* bound on the moves of the historical book

ASSUME ExecutionAssumption ==
    /\ Instruments \subseteq Nat \ {0} /\ Prices \subseteq Nat \ {UndefinedPrice}
    /\ LevelSizes \subseteq Nat /\ MaxMoves \in Nat
    /\ \A f \in Fields : /\ f.instrument \in Instruments \cup {0}
                         /\ f.price \in Prices \cup {UndefinedPrice}

VARIABLES bridge,        \* where drainAndProcessRequests is
          transitions,   \* the drain's transitions that are still to be executed
          fills,         \* simulated fills still to be emitted
          resting,       \* id and remaining size of the order being simulated
          mappings,      \* mappings_; synthetic id 0 where there is none
          next_order_id, \* next_order_id_ of each EngineView
          own_orders,    \* own_orders_ of each EngineView, as a set
          levels,        \* synthetic_books_: volume by instrument, side and price
          consumed,      \* consumed_historical_liquidity_, likewise
          historical,    \* HistoricalLobStore: volume by instrument, side and price
          move_count,    \* history: moves of the historical book
          overlapped     \* history: orders whose requests overlapped (see below)

viewVars == <<mappings, next_order_id, own_orders, levels, consumed>>
executionVars == <<bridge, transitions, fills, resting, viewVars, historical, move_count,
                   overlapped>>
vars == <<gatewayVars, executionVars>>

Books == [Instruments -> [ActiveSides -> [Prices -> Nat]]]
EmptyBook == [i \in Instruments |-> [s \in ActiveSides |-> [p \in Prices |-> 0]]]
SyntheticOrder == [id: Nat \ {0}, instrument: Instruments, side: ActiveSides, price: Prices,
                   size: Nat \ {0}]
Mapping == [id: Nat, instrument: Nat, side: Sides, price: Nat, size: Nat]
NoMapping == [id |-> 0, instrument |-> 0, side |-> "None", price |-> 0, size |-> 0]
Transition == [type: AcceptedTypes \cup {"Rejected"}, engine: Engines, id: OrderIds,
               instrument: Nat, side: Sides, price: Nat, size: Nat]
Idle == [id |-> 0, remaining |-> 0]

ExecutionTypeOK ==
    /\ TypeOK
    /\ bridge \in {"idle", "drain", "next", "match", "emit", "store"}
    /\ transitions \in Seq(Transition)
    /\ fills \in Seq([price: Prices, size: Nat \ {0}])
    /\ resting \in [id: Nat, remaining: Nat]
    /\ mappings \in [Engines -> [OrderIds -> Mapping]]
    /\ next_order_id \in [Engines -> Nat \ {0}]
    /\ \A e \in Engines : own_orders[e] \subseteq SyntheticOrder
    /\ levels \in [Engines -> Books]
    /\ consumed \in [Engines -> Books]
    /\ historical \in Books

ExecutionInit ==
    /\ Init
    /\ bridge = "idle" /\ transitions = <<>> /\ fills = <<>> /\ resting = Idle
    /\ mappings = [e \in Engines |-> [o \in OrderIds |-> NoMapping]]
    /\ next_order_id = [e \in Engines |-> 1]
    /\ own_orders = [e \in Engines |-> {}]
    /\ levels = [e \in Engines |-> EmptyBook]
    /\ consumed = [e \in Engines |-> EmptyBook]
    /\ historical = EmptyBook
    /\ move_count = 0 /\ overlapped = {}

------------------------------------------------------------------------------
(* The historical book. *)

\* Between two calls the market-data adapter applies an event to the store.
MarketMove(i, s, p, size) ==
    /\ bridge = "idle"
    /\ move_count < MaxMoves
    /\ size # historical[i][s][p]
    /\ historical' = [historical EXCEPT ![i][s][p] = size]
    /\ move_count' = move_count + 1
    /\ UNCHANGED <<gatewayVars, bridge, transitions, fills, resting, viewVars, overlapped>>

\* Faulty: what the engine has consumed is shown again.
VisibleIgnoresConsumed(e, i, s, p) == historical[i][s][p]

\* visibleHistoricalBids/Asks: a level less what this engine has consumed of it.
Visible(e, i, s, p) ==
    IF historical[i][s][p] <= consumed[e][i][s][p] THEN 0
    ELSE historical[i][s][p] - consumed[e][i][s][p]

VisiblePrices(e, i, s) == {p \in Prices : Visible(e, i, s, p) > 0}

BestPrice(s, prices) == IF s = "Bid" THEN Max(prices) ELSE Min(prices)
Opposite(s) == IF s = "Bid" THEN "Ask" ELSE "Bid"
Crosses(s, limit, price) == IF s = "Bid" THEN limit >= price ELSE limit <= price

------------------------------------------------------------------------------
(* EngineView and the mappings of the bridge. *)

AddVolume(e, order) ==
    levels' = [levels EXCEPT ![e][order.instrument][order.side][order.price] = @ + order.size]

\* Faulty: the level is erased with the order.
RemoveVolumeWholeLevel(e, order) ==
    levels' = [levels EXCEPT ![e][order.instrument][order.side][order.price] = 0]

RemoveVolume(e, order) ==
    levels' = [levels EXCEPT ![e][order.instrument][order.side][order.price] =
                   IF @ <= order.size THEN 0 ELSE @ - order.size]

CancelSyntheticOrder(e, id) ==
    \/ \E order \in own_orders[e] :
           /\ order.id = id
           /\ own_orders' = [own_orders EXCEPT ![e] = @ \ {order}]
           /\ RemoveVolume(e, order)
    \/ /\ \A order \in own_orders[e] : order.id # id
       /\ UNCHANGED <<own_orders, levels>>

\* Faulty: the mapping is erased and its synthetic order left resting.
EraseMappingOnly(e, o) ==
    /\ mappings' = [mappings EXCEPT ![e][o] = NoMapping]
    /\ UNCHANGED <<own_orders, levels>>

EraseMapping(e, o) ==
    \/ /\ mappings[e][o].id # 0
       /\ CancelSyntheticOrder(e, mappings[e][o].id)
       /\ mappings' = [mappings EXCEPT ![e][o] = NoMapping]
    \/ /\ mappings[e][o].id = 0
       /\ UNCHANGED <<mappings, own_orders, levels>>

------------------------------------------------------------------------------
(* drainAndProcessRequests: the drain. *)

BridgeBegin ==
    /\ bridge = "idle"
    /\ DrainBegin
    /\ bridge' = "drain"
    /\ UNCHANGED <<transitions, fills, resting, viewVars, historical, move_count, overlapped>>

IsAccepted(t) == t.type \in AcceptedTypes

\* A request overlaps when an earlier request on its order was accepted in the
\* same drain, so both are accepted before either is executed, or when it moves
\* the order to another instrument, which the gateway lets a modify do.
Overlaps(t) ==
    /\ IsAccepted(t)
    /\ \/ \E i \in 1..Len(transitions) : /\ IsAccepted(transitions[i])
                                         /\ transitions[i].engine = t.engine
                                         /\ transitions[i].id = t.id
       \/ t.type = "ModifyAccepted" /\ t.instrument # orders[t.engine][t.id].instrument

BridgeRequest ==
    /\ bridge = "drain"
    /\ ProcessRequest
    /\ LET e == engine_order[drain_pos]
           r == Head(requests[e].visible)
           t == [type |-> IF RequestError(e, r) = NoError THEN AcceptedType(r) ELSE "Rejected",
                 engine |-> e, id |-> r.id, instrument |-> r.instrument, side |-> r.side,
                 price |-> r.price, size |-> r.size]
       IN  /\ transitions' = Append(transitions, t)
           /\ overlapped' = IF Overlaps(t) THEN overlapped \cup {<<e, r.id>>} ELSE overlapped
    /\ UNCHANGED <<bridge, fills, resting, viewVars, historical, move_count>>

BridgeDrainNext ==
    /\ bridge = "drain"
    /\ DrainNext
    /\ bridge' = IF drain_pos' = 0 THEN "next" ELSE "drain"
    /\ UNCHANGED <<transitions, fills, resting, viewVars, historical, move_count, overlapped>>

------------------------------------------------------------------------------
(* drainAndProcessRequests: one transition after the other. *)

Current == Head(transitions)

\* processTransition, for the transitions that submit no order.
ProcessOther ==
    /\ bridge = "next" /\ transitions # <<>>
    /\ \/ /\ Current.type = "CancelAccepted"
          /\ EraseMapping(Current.engine, Current.id)
       \/ /\ Current.type = "Rejected"
          /\ UNCHANGED <<mappings, own_orders, levels>>
    /\ transitions' = Tail(transitions)
    /\ UNCHANGED <<gatewayVars, bridge, fills, resting, next_order_id, consumed, historical,
                   move_count, overlapped>>

HasValidRequest(t) == t.instrument # 0 /\ FieldsError(t) = NoError

\* processNewAccepted and processModifyAccepted up to the matching loop: an
\* invalid request is simulated with id 0, no fills and nothing remaining.
Submit ==
    /\ bridge = "next" /\ transitions # <<>>
    /\ \/ /\ Current.type = "NewAccepted"
          /\ UNCHANGED <<mappings, own_orders, levels>>
       \/ /\ Current.type = "ModifyAccepted"
          /\ EraseMapping(Current.engine, Current.id)
    /\ \/ /\ HasValidRequest(Current)
          /\ resting' = [id |-> next_order_id[Current.engine], remaining |-> Current.size]
          /\ next_order_id' = [next_order_id EXCEPT ![Current.engine] = @ + 1]
          /\ bridge' = "match"
       \/ /\ ~HasValidRequest(Current)
          /\ resting' = Idle
          /\ next_order_id' = next_order_id
          /\ bridge' = "store"
    /\ UNCHANGED <<gatewayVars, transitions, fills, consumed, historical, move_count, overlapped>>

\* Faulty: the limit price is not compared.
TradePricesAnyLimit ==
    LET s == Opposite(Current.side)
        prices == VisiblePrices(Current.engine, Current.instrument, s)
    IN  IF prices = {} THEN {} ELSE {BestPrice(s, prices)}

\* The price submitLimitOrderResult trades at next, if any: the best visible
\* price of the other side, when the limit reaches it.
TradePrices ==
    LET s == Opposite(Current.side)
        prices == VisiblePrices(Current.engine, Current.instrument, s)
    IN  IF prices = {} THEN {}
        ELSE {p \in {BestPrice(s, prices)} : Crosses(Current.side, Current.price, p)}

\* One iteration of the matching loop.
Match ==
    /\ bridge = "match" /\ resting.remaining > 0
    /\ \E p \in TradePrices :
           LET e == Current.engine
               i == Current.instrument
               s == Opposite(Current.side)
               size == Min({resting.remaining, Visible(e, i, s, p)})
           IN  /\ consumed' = [consumed EXCEPT ![e][i][s][p] = @ + size]
               /\ fills' = Append(fills, [price |-> p, size |-> size])
               /\ resting' = [resting EXCEPT !.remaining = @ - size]
    /\ UNCHANGED <<gatewayVars, bridge, transitions, mappings, next_order_id, own_orders, levels,
                   historical, move_count, overlapped>>

\* The loop ends; what remains rests as a synthetic order.
EndMatch ==
    /\ bridge = "match"
    /\ \/ /\ resting.remaining = 0
          /\ UNCHANGED <<own_orders, levels>>
       \/ /\ resting.remaining > 0 /\ TradePrices = {}
          /\ LET order == [id |-> resting.id, instrument |-> Current.instrument,
                           side |-> Current.side, price |-> Current.price,
                           size |-> resting.remaining]
             IN  /\ own_orders' = [own_orders EXCEPT ![Current.engine] = @ \cup {order}]
                 /\ AddVolume(Current.engine, order)
    /\ bridge' = "emit"
    /\ UNCHANGED <<gatewayVars, transitions, fills, resting, mappings, next_order_id, consumed,
                   historical, move_count, overlapped>>

\* emitFill for the next simulated fill; false when the order is terminal.
Emit ==
    /\ bridge = "emit" /\ fills # <<>>
    /\ \/ EmitFill(Current.engine, Current.id, Head(fills).size)
       \/ /\ ~Fillable(Current.engine, Current.id, Head(fills).size)
          /\ UNCHANGED gatewayVars
    /\ fills' = Tail(fills)
    /\ UNCHANGED <<bridge, transitions, resting, viewVars, historical, move_count, overlapped>>

EndEmit ==
    /\ bridge = "emit" /\ fills = <<>>
    /\ bridge' = "store"
    /\ UNCHANGED <<gatewayVars, transitions, fills, resting, viewVars, historical, move_count,
                   overlapped>>

StoreOrEraseMapping ==
    /\ bridge = "store"
    /\ \/ /\ resting.id = 0 \/ resting.remaining = 0
          /\ EraseMapping(Current.engine, Current.id)
       \/ /\ resting.id # 0 /\ resting.remaining # 0
          /\ mappings' = [mappings EXCEPT ![Current.engine][Current.id] =
                 [id |-> resting.id, instrument |-> Current.instrument, side |-> Current.side,
                  price |-> Current.price, size |-> resting.remaining]]
          /\ UNCHANGED <<own_orders, levels>>
    /\ transitions' = Tail(transitions)
    /\ resting' = Idle
    /\ bridge' = "next"
    /\ UNCHANGED <<gatewayVars, fills, next_order_id, consumed, historical, move_count,
                   overlapped>>

BridgeReturn ==
    /\ bridge = "next" /\ transitions = <<>>
    /\ bridge' = "idle"
    /\ UNCHANGED <<gatewayVars, transitions, fills, resting, viewVars, historical, move_count,
                   overlapped>>

------------------------------------------------------------------------------
Bridge == \/ BridgeBegin \/ BridgeRequest \/ BridgeDrainNext
          \/ ProcessOther \/ Submit \/ Match \/ EndMatch \/ Emit \/ EndEmit
          \/ StoreOrEraseMapping \/ BridgeReturn

\* The bridge reads nothing of the event queues: their delivery is OrderGateway's
\* subject, and they only fill here.
Environment ==
    \/ (\E e \in Engines : ClientRequest(e)) /\ UNCHANGED executionVars
    \/ bridge = "idle" /\ (\E e \in Engines : RegisterEngine(e)) /\ UNCHANGED executionVars
    \/ \E i \in Instruments, s \in ActiveSides, p \in Prices, size \in LevelSizes :
           MarketMove(i, s, p, size)

ExecutionNext == Bridge \/ Environment

ExecutionSpec == ExecutionInit /\ [][ExecutionNext]_vars

------------------------------------------------------------------------------
(* Properties. *)

\* Between two transitions the mappings and the resting synthetic orders are one
\* to one: every synthetic order can be found, and so cancelled, through exactly
\* one gateway order, and every mapping names an order that is still there.
MappingsMirrorOrders ==
    bridge \in {"idle", "drain", "next"} =>
        \A e \in Engines :
            LET mapped == {o \in OrderIds : mappings[e][o].id # 0}
            IN  /\ own_orders[e] = {mappings[e][o] : o \in mapped}
                /\ \A o1, o2 \in mapped : mappings[e][o1].id = mappings[e][o2].id => o1 = o2

\* The volume of a level of a synthetic book is the sum of the engine's resting
\* orders there, although cancelling an order erases a level that is too small.
LevelsSumOrders ==
    \A e \in Engines, i \in Instruments, s \in ActiveSides, p \in Prices :
        levels[e][i][s][p] =
            MapThenSumSet(LAMBDA order : order.size,
                          {order \in own_orders[e] : order.instrument = i /\ order.side = s
                                                         /\ order.price = p})

\* Between two calls an order rests exactly when the gateway has it open, on its
\* side, at its price and with its remaining size, unless its requests overlapped.
RestingMatchesGateway ==
    bridge = "idle" =>
        \A e \in Engines, o \in OrderIds :
            LET m == mappings[e][o]
                order == orders[e][o]
            IN  <<e, o>> \notin overlapped =>
                    \/ m.id = 0 /\ ~IsOpen(order)
                    \/ /\ m.id # 0 /\ IsOpen(order)
                       /\ m.instrument = order.instrument /\ m.side = order.side
                       /\ m.price = order.price /\ m.size = order.remaining

\* Every simulated fill reaches its order: the gateway reduces the order by the
\* size the simulator consumed, at a price within the order's limit, unless the
\* order's requests overlapped.
FillsReachOrder ==
    [][Emit /\ <<Current.engine, Current.id>> \notin overlapped =>
           LET before == orders[Current.engine][Current.id]
               after == orders'[Current.engine][Current.id]
           IN  /\ before.remaining - after.remaining = Head(fills).size
               /\ Crosses(before.side, before.price, Head(fills).price)]_vars

\* A simulated fill never takes more of a level than the historical book shows,
\* counting what the engine took before.
ConsumesOnlyVisible ==
    [][\A e \in Engines, i \in Instruments, s \in ActiveSides, p \in Prices :
           consumed'[e][i][s][p] # consumed[e][i][s][p] =>
               /\ consumed[e][i][s][p] < consumed'[e][i][s][p]
               /\ consumed'[e][i][s][p] <= historical[i][s][p]]_vars

\* "Erase mapping after full fill": between two calls no filled order has a mapping.
FilledHasNoMapping ==
    bridge = "idle" =>
        \A e \in Engines, o \in OrderIds : orders[e][o].status = "Filled" => mappings[e][o].id = 0
==============================================================================
