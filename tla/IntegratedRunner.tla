-------------------------- MODULE IntegratedRunner --------------------------
(***************************************************************************)
(* IntegratedBacktestRunner.run_many (python/backtester): it replays the   *)
(* feed through the IntegratedBacktestEngine, gives every message to the   *)
(* market view of each strategy and then to its callback, drains the order *)
(* gateway after each event until nothing moves any more, and fills the    *)
(* orders that cross the view of their own engine.                         *)
(*                                                                         *)
(* One thread runs everything.  What is open is what the strategies do: a  *)
(* callback may send, modify or cancel any number of orders, within        *)
(* MaxRequests, stamped with the current time, and return or raise.  There *)
(* are no risk limits, and logs, traces and the portfolio are left out.    *)
(***************************************************************************)
EXTENDS OrderGateway

CONSTANTS Instruments, Orders, Prices,      \* of the feed
          Filter, PublishBookUpdates, PublishTrades, SnapshotDepth, SnapshotInterval,
          MaxAccepted, Subscriptions, SubscriberBatchSize,
          FeedEvents,    \* the events the feed may hold, each with its time
          MaxInputs,     \* bound on the length of the feed
          Runtimes,      \* the trading engines, in the order of the strategies
          Latency,       \* latency_ns; 0 for the immediate model
          MaxRounds      \* rounds of an order flow before the run gives up

VARIABLES store, accepted_count, stats, last_input, last_seq_no, queues, snapshot_of,
          best,          \* best_bids and best_asks of each market view
          consumed,      \* consumed_bids and consumed_asks of each market view
          next_id,       \* the id the next order of each client gets
          activation,    \* activation_time_ns of the submitted orders
          waiting,       \* accepted_new_orders of each runtime
          kept,          \* remaining_orders of the fill round in progress
          emitted,       \* fills the round in progress has emitted for the runtime
          worked,        \* the round in progress moved a request, an event or a fill
          rounds,        \* the rounds of the order flow so far
          now,           \* current_timestamp_ns
          pc,            \* what the runner is doing
          turn,          \* the position in Runtimes it is doing it for
          calling,       \* the strategy of that runtime is in a callback
          filled,        \* history: the orders that had a fill
          journal        \* history: what each strategy sent and was told, in order

ASSUME RunnerAssumption ==
    /\ \A e \in Engines : \E k \in DOMAIN Runtimes : Runtimes[k] = e
    /\ \A event \in FeedEvents : event.time \in Nat \ {0}
    /\ Latency \in Nat /\ MaxRounds \in Nat \ {0}

E == INSTANCE IntegratedBacktest

engineVars == <<store, accepted_count, stats, last_input, last_seq_no, queues, snapshot_of>>
viewVars == <<best, consumed>>
orderVars == <<next_id, activation, journal>>
flowVars == <<waiting, kept, emitted, worked, rounds, filled>>
controlVars == <<now, pc, turn, calling>>
vars == <<gatewayVars, engineVars, viewVars, orderVars, flowVars, controlVars>>

NoTime == 0              \* before the first event and after the last
NoLevel == [price |-> UndefinedPrice, size |-> 0]
Current == Runtimes[turn]
IsLast == turn = Len(Runtimes)

RunnerInit ==
    /\ engine_order = Runtimes
    /\ requests = [e \in Engines |-> EmptyQueue]
    /\ events = [e \in Engines |-> EmptyQueue]
    /\ orders = [e \in Engines |-> [o \in OrderIds |-> AbsentOrder]]
    /\ drain_pos = 0
    /\ request_count = [e \in Engines |-> 0]
    /\ fill_count = 0
    /\ known = [e \in Engines |-> [o \in OrderIds |-> AbsentOrder]]
    /\ E!EngineInit
    /\ best = [e \in Engines |-> [i \in Instruments |-> [s \in ActiveSides |-> NoLevel]]]
    /\ consumed = [e \in Engines |-> [i \in Instruments |-> E!NoLevels]]
    /\ next_id = [e \in Engines |-> 1]
    /\ activation = [e \in Engines |-> [o \in OrderIds |-> NoTime]]
    /\ waiting = [e \in Engines |-> <<>>]
    /\ kept = <<>> /\ emitted = 0 /\ worked = FALSE /\ rounds = 0 /\ filled = {}
    /\ now = NoTime /\ pc = "start" /\ turn = 1 /\ calling = TRUE
    /\ journal = [e \in Engines |-> <<>>]

\* An entry of a strategy's journal: a new order it sent, or an event it was told
\* of, with its contents, the time and the number of the event being processed.
Entry(what, o, contents) ==
    [what |-> what, id |-> o, contents |-> contents, time |-> now, input |-> stats.input]
Note(entry) == journal' = [journal EXCEPT ![Current] = Append(@, entry)]

------------------------------------------------------------------------------
(* _MarketView. *)

\* _set_snapshot_side.
SnapshotLevel(levels) ==
    IF levels = <<>> THEN NoLevel ELSE [price |-> levels[1].price, size |-> levels[1].size]

\* _set_update_side: the changed level becomes the best one, whatever its price.
UpdateLevel(level, message) ==
    IF message.size > 0 THEN [price |-> message.price, size |-> message.size]
    ELSE IF level.price = message.price THEN NoLevel
    ELSE level

\* update: a message of a side other than the bid counts as one of the ask.
ViewUpdated(view, message) ==
    LET i == message.instrument
        s == IF message.side = "Bid" THEN "Bid" ELSE "Ask"
    IN  CASE message.type = "BookSnapshot" ->
               [view EXCEPT ![i] = [Bid |-> SnapshotLevel(message.bids),
                                    Ask |-> SnapshotLevel(message.asks)]]
          [] message.type = "BookUpdate" -> [view EXCEPT ![i][s] = UpdateLevel(@, message)]
          [] OTHER -> view

OppositeSide(s) == IF s = "Bid" THEN "Ask" ELSE "Bid"

\* visible_level: what the engine has not consumed of the best level.
VisibleLevel(e, i, s) ==
    LET level == best[e][i][s]
    IN  IF level = NoLevel \/ level.size <= consumed[e][i][s][level.price] THEN NoLevel
        ELSE [level EXCEPT !.size = @ - consumed[e][i][s][level.price]]

\* crossing_fill: the fill at the touch, or NoLevel.
CrossingFill(e, entry) ==
    LET level == VisibleLevel(e, entry.instrument, OppositeSide(entry.side))
        crosses == IF entry.side = "Bid" THEN entry.price >= level.price
                   ELSE entry.price <= level.price
    IN  IF level # NoLevel /\ crosses THEN [level EXCEPT !.size = Min({@, entry.size})]
        ELSE NoLevel

------------------------------------------------------------------------------
(* Strategy callbacks. *)

\* A request of the strategy: the binding pushes it and flushes the client.
PushAndFlush(r) ==
    /\ request_count[Current] < MaxRequests[Current]
    /\ request_count' = [request_count EXCEPT ![Current] = @ + 1]
    /\ requests' = [requests EXCEPT ![Current] = QueueFlush(QueuePush(@, r, BatchSize))]
    /\ UNCHANGED <<engine_order, events, orders, drain_pos, fill_count, known>>
    /\ UNCHANGED <<engineVars, viewVars, flowVars, controlVars>>

SendNew(f) ==
    LET o == next_id[Current]
    IN  /\ calling /\ o \in OrderIds
        /\ PushAndFlush(RequestOf("New", o, f))
        /\ next_id' = [next_id EXCEPT ![Current] = @ + 1]
        /\ activation' = [activation EXCEPT ![Current][o] = now + Latency]
        /\ Note(Entry("sent", o, f))

SendModify(o, f) ==
    /\ calling /\ o < next_id[Current]
    /\ PushAndFlush(RequestOf("Modify", o, f))
    /\ UNCHANGED orderVars

SendCancel(o) ==
    /\ calling /\ o < next_id[Current]
    /\ PushAndFlush(RequestOf("Cancel", o, [instrument |-> 0, side |-> "None",
                                        price |-> UndefinedPrice, size |-> 0]))
    /\ UNCHANGED orderVars

CallbackReturns ==
    /\ calling
    /\ calling' = FALSE
    /\ UNCHANGED <<gatewayVars, engineVars, viewVars, orderVars, flowVars, now, pc, turn>>

\* _invoke: the exception of a callback ends the run.
CallbackRaises ==
    /\ calling
    /\ calling' = FALSE /\ pc' = "raised"
    /\ UNCHANGED <<gatewayVars, engineVars, viewVars, orderVars, flowVars, now, turn>>

\* The loops over the runtimes that call one callback of each: on_start, and the
\* callback of a market-data message.
NextRuntimeCallback(loop, after) ==
    /\ pc = loop /\ ~calling
    /\ \/ ~IsLast /\ turn' = turn + 1 /\ calling' = TRUE /\ pc' = pc
       \/ IsLast /\ turn' = 1 /\ pc' = after /\ UNCHANGED calling
    /\ UNCHANGED <<gatewayVars, engineVars, viewVars, orderVars, flowVars, now>>

------------------------------------------------------------------------------
(* The replay. *)

ReplayEvent(event) ==
    /\ pc = "replay" /\ stats.capped = 0 /\ stats.input < MaxInputs
    /\ E!ProcessEvent(event)
    /\ now' = event.time /\ pc' = "deliver"
    /\ UNCHANGED <<gatewayVars, viewVars, orderVars, flowVars, turn, calling>>

\* The feed is over, or max_events was reached: finish, and a last drain without
\* a timestamp.
FinishReplay ==
    /\ pc = "replay"
    /\ E!Finish
    /\ now' = NoTime /\ pc' = "deliver"
    /\ UNCHANGED <<gatewayVars, viewVars, orderVars, flowVars, turn, calling>>

\* _dispatch_market_message_many: every view changes before any callback.
DeliverMessage ==
    /\ pc = "deliver"
    /\ E!Deliver
    /\ best' = [e \in Engines |-> ViewUpdated(best[e], E!NextMessage)]
    /\ pc' = "notify" /\ turn' = 1 /\ calling' = TRUE
    /\ UNCHANGED <<gatewayVars, consumed, orderVars, flowVars, now>>

\* processEvent or finish returns, and _drain_order_flow_many begins its first round.
StartFlow ==
    /\ pc = "deliver" /\ E!Undelivered = {}
    /\ DrainBegin
    /\ pc' = "drain" /\ turn' = 1 /\ worked' = FALSE /\ rounds' = 1
    /\ UNCHANGED <<engineVars, viewVars, orderVars, waiting, kept, emitted, filled, now, calling>>

------------------------------------------------------------------------------
(* _drain_order_flow_many: rounds of draining requests, dispatching events and
   emitting fills, until a round moves nothing. *)

\* drain_requests, one request at a time; then flush_events.
DrainRequest ==
    /\ pc = "drain"
    /\ ProcessRequest
    /\ worked' = TRUE
    /\ UNCHANGED <<engineVars, viewVars, orderVars, waiting, kept, emitted, rounds, filled, controlVars>>

DrainEngineDone ==
    /\ pc = "drain"
    /\ DrainNext
    /\ pc' = IF drain_pos' = 0 THEN "flush" ELSE pc
    /\ UNCHANGED <<engineVars, viewVars, orderVars, flowVars, now, turn, calling>>

\* server.flush_events, before the runtime named next dispatches its events.
FlushThen(next_pc, next_turn) ==
    /\ events' = [e \in Engines |-> QueueFlush(events[e])]
    /\ UNCHANGED <<engine_order, requests, orders, drain_pos, request_count, fill_count, known>>
    /\ pc' = next_pc /\ turn' = next_turn

FlushAcks ==
    /\ pc = "flush"
    /\ FlushThen("dispatch", 1)
    /\ UNCHANGED <<engineVars, viewVars, orderVars, flowVars, now, calling>>

\* _handle_ack: the order of an accepted new request waits for fills with the
\* fields of that ack.
Waiting(e, event) ==
    IF event.kind # "NewAccepted" THEN waiting[e]
    ELSE Append(waiting[e], [id |-> event.id, instrument |-> orders[e][event.id].instrument,
                             side |-> event.side, price |-> event.price, size |-> event.size])

\* drain_events: one event, up to the callback of the strategy.  The drain after
\* a fill does not count towards the events of the round.
Dispatch ==
    /\ pc \in {"dispatch", "settle"} /\ ~calling
    /\ DispatchEvent(Current)
    /\ waiting' = [waiting EXCEPT ![Current] = Waiting(Current, Head(events[Current].visible))]
    /\ worked' = (worked \/ pc = "dispatch")
    /\ calling' = TRUE
    /\ LET event == Head(events[Current].visible)
       IN  Note(Entry(event.kind, event.id, event))
    /\ UNCHANGED <<engineVars, viewVars, next_id, activation, kept, emitted, rounds, filled, now,
                   pc, turn>>

\* The next runtime dispatches its events; behind the last one the fills begin,
\* unless there is no timestamp to fill at.
DispatchDone ==
    /\ pc = "dispatch" /\ ~calling /\ events[Current].visible = <<>>
    /\ turn' = IF IsLast THEN 1 ELSE turn + 1
    /\ pc' = CASE ~IsLast -> pc
               [] IsLast /\ now # NoTime -> "emit"
               [] IsLast /\ now = NoTime -> "round"
    /\ UNCHANGED <<gatewayVars, engineVars, viewVars, orderVars, flowVars, now, calling>>

\* Faulty: an accepted order can be filled at once, whatever its activation time.
DueAtOnce(e, entry) == TRUE

Due(e, entry) == now >= activation[e][entry.id]

\* Faulty: an order that cannot be filled yet is not looked at again.
KeepOnlyDue(entry) == IF Due(Current, entry) THEN Append(kept, entry) ELSE kept

\* Faulty: the order goes in front of the orders that came before it.
KeepInFront(entry) == <<entry>> \o kept

Keep(entry) == Append(kept, entry)

\* _emit_crossing_fills, one waiting order of the current runtime at a time.
\* An order that is not active, or does not cross, is kept for the next round;
\* any other leaves the list, whether emit_fill filled all of it, some or none.
TryFill ==
    LET e == Current
        entry == Head(waiting[e])
        fill == CrossingFill(e, entry)
        crosses == Due(e, entry) /\ fill # NoLevel
    IN  /\ pc = "emit" /\ waiting[e] # <<>>
        /\ waiting' = [waiting EXCEPT ![e] = Tail(@)]
        /\ \/ /\ ~crosses
              /\ kept' = Keep(entry)
              /\ UNCHANGED <<gatewayVars, consumed, emitted, filled>>
           \/ /\ crosses /\ EmitFill(e, entry.id, fill.size)
              /\ consumed' = [consumed EXCEPT
                    ![e][entry.instrument][OppositeSide(entry.side)][fill.price] = @ + fill.size]
              /\ emitted' = emitted + 1
              /\ filled' = filled \cup {<<e, entry.id>>}
              /\ UNCHANGED kept
           \/ /\ crosses /\ ~Fillable(e, entry.id, fill.size)
              /\ UNCHANGED <<gatewayVars, consumed, kept, emitted, filled>>
        /\ UNCHANGED <<engineVars, best, orderVars, worked, rounds, controlVars>>

NextFillTurn ==
    /\ turn' = IF IsLast THEN 1 ELSE turn + 1
    /\ pc' = IF IsLast THEN "round" ELSE "emit"

\* The loop is over: with fills, they are flushed and dispatched at once.
TryFillDone ==
    /\ pc = "emit" /\ waiting[Current] = <<>>
    /\ waiting' = [waiting EXCEPT ![Current] = kept]
    /\ kept' = <<>> /\ emitted' = 0
    /\ worked' = (worked \/ emitted > 0)
    /\ \/ emitted > 0 /\ FlushThen("settle", turn)
       \/ emitted = 0 /\ NextFillTurn /\ UNCHANGED gatewayVars
    /\ UNCHANGED <<engineVars, viewVars, orderVars, rounds, filled, now, calling>>

SettleDone ==
    /\ pc = "settle" /\ ~calling /\ events[Current].visible = <<>>
    /\ NextFillTurn
    /\ UNCHANGED <<gatewayVars, engineVars, viewVars, orderVars, flowVars, now, calling>>

\* Faulty: the counts of the rounds before are not forgotten.
NextRoundKeepsWorked ==
    /\ pc = "round" /\ worked /\ rounds < MaxRounds
    /\ DrainBegin
    /\ pc' = "drain" /\ rounds' = rounds + 1
    /\ UNCHANGED <<engineVars, viewVars, orderVars, waiting, kept, emitted, worked, filled, now,
                   turn, calling>>

NextRound ==
    /\ pc = "round" /\ worked /\ rounds < MaxRounds
    /\ DrainBegin
    /\ pc' = "drain" /\ worked' = FALSE /\ rounds' = rounds + 1
    /\ UNCHANGED <<engineVars, viewVars, orderVars, waiting, kept, emitted, filled, now, turn,
                   calling>>

\* "integrated multi-engine order flow did not quiesce" ends the run.
GiveUp ==
    /\ pc = "round" /\ worked /\ rounds = MaxRounds
    /\ pc' = "failed"
    /\ UNCHANGED <<gatewayVars, engineVars, viewVars, orderVars, flowVars, now, turn, calling>>

\* Nothing moved: on to the next event, or the run is over.
FlowDone ==
    /\ pc = "round" /\ ~worked
    /\ pc' = IF now = NoTime THEN "done" ELSE "replay"
    /\ UNCHANGED <<gatewayVars, engineVars, viewVars, orderVars, flowVars, now, turn, calling>>

------------------------------------------------------------------------------
Callback ==
    \/ \E f \in Fields : SendNew(f)
    \/ \E o \in OrderIds, f \in Fields : SendModify(o, f)
    \/ \E o \in OrderIds : SendCancel(o)
    \/ CallbackReturns \/ CallbackRaises

Replay ==
    \/ NextRuntimeCallback("start", "replay") \/ NextRuntimeCallback("notify", "deliver")
    \/ \E event \in FeedEvents : ReplayEvent(event)
    \/ FinishReplay \/ DeliverMessage

Flow ==
    \/ StartFlow \/ DrainRequest \/ DrainEngineDone \/ FlushAcks \/ Dispatch \/ DispatchDone
    \/ TryFill \/ TryFillDone \/ SettleDone \/ NextRound \/ GiveUp \/ FlowDone

\* The run is over; nothing else stops it.
Over == pc \in {"done", "failed", "raised"} /\ UNCHANGED vars

RunnerNext == Callback \/ Replay \/ Flow \/ Over

RunnerSpec == RunnerInit /\ [][RunnerNext]_vars

------------------------------------------------------------------------------
(* Properties. *)

\* Once the messages of an event with a snapshot are delivered, the market view
\* of every strategy shows the best levels of the book after the event: the
\* snapshot is taken after the event is applied and delivered after its update.
SnapshotShowsBook ==
    snapshot_of # E!Missing /\ E!Undelivered = {} =>
        LET top == E!StoreSnapshot(store, snapshot_of, 1)
        IN  \A e \in Engines : best[e][snapshot_of] = [Bid |-> SnapshotLevel(top.bids),
                                                       Ask |-> SnapshotLevel(top.asks)]

\* "No order can produce a fill before an ack; in latency mode, no order can
\* produce a fill before activation_time_ns", as a strategy sees it: whenever its
\* callback is told of a fill, it sent the order and was told of its acceptance
\* before, in this order; the latency has passed since it sent it; and the fill
\* is not of the event it sent the order in.  The requests, acks and fills go
\* through two batched queues and the list of waiting orders in between.
FillsAreDue ==
    \A e \in Engines : \A n \in DOMAIN journal[e] :
        journal[e][n].what = "Fill" =>
            \E m \in 1..n - 1 :
                LET sent == journal[e][m]
                    fill == journal[e][n]
                IN  /\ sent.what = "sent" /\ sent.id = fill.id
                    /\ \E k \in m + 1..n - 1 :
                           journal[e][k].what = "NewAccepted" /\ journal[e][k].id = fill.id
                    /\ fill.time >= sent.time + Latency
                    /\ Latency > 0 => fill.input > sent.input

\* The entry of the journal of e for the order it sent as o.
SentAs(e, o) ==
    LET n == CHOOSE n \in DOMAIN journal[e] :
                 journal[e][n].what = "sent" /\ journal[e][n].id = o
    IN  journal[e][n]

\* The limit of a, as it was sent, is on the side of b's and reaches as far.
AsGood(a, b) ==
    /\ a.instrument = b.instrument /\ a.side = b.side
    /\ IF a.side = "Bid" THEN a.price >= b.price ELSE a.price <= b.price

\* A later order never takes the liquidity an earlier one waits for: when an order
\* gets its first fill, every open order its strategy sent before it, at no later
\* time and with as good a limit, has had one.  The waiting orders go through the
\* list of remaining orders in every round, and acks of new orders join them.
EarlierOrdersFirst ==
    [][\A e \in Engines, o \in OrderIds : <<e, o>> \in filled' \ filled =>
           \A p \in OrderIds :
               /\ p < o /\ IsOpen(orders[e][p])
               /\ SentAs(e, p).time <= SentAs(e, o).time
               /\ AsGood(SentAs(e, p).contents, SentAs(e, o).contents)
               => <<e, p>> \in filled]_vars

\* Between two events, and at the end, every open order without a fill waits for
\* the next market state exactly once: no list surgery of the rounds loses it or
\* makes it eligible twice.
UnfilledOrdersWait ==
    pc \in {"replay", "done"} =>
        \A e \in Engines, o \in OrderIds :
            IsOpen(orders[e][o]) /\ <<e, o>> \notin filled =>
                Cardinality({n \in DOMAIN waiting[e] : waiting[e][n].id = o}) = 1

\* The order flow gives up only on a strategy that keeps sending: every round
\* that moves something has a request of its own, or the order of an earlier one
\* to fill, so no feed and no mix of fills can use up the rounds.
FlowQuiesces ==
    pc = "failed" => MapThenSumSet(LAMBDA e : request_count[e], Engines) >= MaxRounds

\* "buy limit >= best ask fills at best ask; sell limit <= best bid fills at best
\* bid; non-crossing orders remain resting for later market states": the price
\* _emit_crossing_fills fills an order at is within the limit the order has.
FillsWithinLimit ==
    [][fill_count' > fill_count =>
           LET entry == Head(waiting[Current])
               price == CrossingFill(Current, entry).price
               order == orders[Current][entry.id]
           IN  IF order.side = "Bid" THEN price <= order.price ELSE price >= order.price]_vars
==============================================================================
