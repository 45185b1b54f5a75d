---------------------------- MODULE OrderGateway ----------------------------
(***************************************************************************)
(* gateway/: trading-engine clients, the OrderChannel of two batched       *)
(* queues between each client and the server, and the OrderGatewayServer   *)
(* that validates requests and owns the order state.                       *)
(*                                                                         *)
(* Clients and the server are different threads: a client can push, flush  *)
(* or drain its events between any two requests the server processes.      *)
(* Timestamps and reject texts are left out.                               *)
(***************************************************************************)
EXTENDS Integers, Sequences, BatchedQueueOps, SequencesExt

CONSTANTS Engines,       \* TradingEngineIds
          OrderIds,      \* OrderIds, scoped by engine
          Fields,        \* the instrument, side, price and size a request may carry
          FillSizes,     \* sizes emitFill may be called with
          BatchSize,     \* batch size of both queues of a channel
          MaxRequests,   \* bound on the requests each engine sends
          MaxFills       \* bound on the emitFill calls that emit

UndefinedPrice == 0
ActiveSides == {"Bid", "Ask"}
Sides == ActiveSides \cup {"None"}

ASSUME FieldsAssumption ==
    Fields \subseteq [instrument: Nat, side: Sides, price: Nat, size: Nat]
ASSUME BatchAssumption == BatchSize \in Nat \ {0}
ASSUME BoundsAssumption == MaxRequests \in [Engines -> Nat] /\ MaxFills \in Nat /\ FillSizes \subseteq Nat

VARIABLES engine_order,  \* engine_order_: the registered engines, in order
          requests,      \* requests_ of each engine's channel
          events,        \* events_ of each engine's channel
          orders,        \* orders_by_key_; an order never accepted has status "Absent"
          drain_pos,     \* position in engine_order of a drain in progress, 0 if none
          request_count, \* history: requests sent by each engine
          fill_count,    \* history: fills emitted
          known          \* history: what each client can conclude from its events

gatewayVars == <<engine_order, requests, events, orders, drain_pos,
                 request_count, fill_count, known>>

Statuses == {"Absent", "Accepted", "PartiallyFilled", "Filled", "Cancelled"}
AcceptedTypes == {"NewAccepted", "ModifyAccepted", "CancelAccepted"}
RejectReasons == {"DuplicateOrderId", "UnknownOrderId", "InvalidInstrument", "InvalidSide",
                  "InvalidPrice", "InvalidQuantity", "AlreadyTerminal"}

Request == [type: {"New", "Cancel", "Modify"}, id: OrderIds,
            instrument: Nat, side: Sides, price: Nat, size: Nat]
OrderSnapshot == [instrument: Nat, side: Sides, price: Nat,
                  original: Nat, remaining: Nat, status: Statuses]
AbsentOrder == [instrument |-> 0, side |-> "None", price |-> UndefinedPrice,
                original |-> 0, remaining |-> 0, status |-> "Absent"]

\* OrderAck, OrderReject and OrderFill in one shape; size is the size of the
\* order, filled that of the fill.
Event == [kind: AcceptedTypes \cup RejectReasons \cup {"Fill"}, id: OrderIds,
          side: Sides, price: Nat, size: Nat, filled: Nat, status: Statuses \cup {"Rejected"}]

IsTerminal(status) == status \in {"Filled", "Cancelled"}
IsOpen(order) == order.status \in {"Accepted", "PartiallyFilled"}

TypeOK ==
    /\ engine_order \in Seq(Engines)
    /\ requests \in [Engines -> Queues(Request)]
    /\ events \in [Engines -> Queues(Event)]
    /\ orders \in [Engines -> [OrderIds -> OrderSnapshot]]
    /\ drain_pos \in 0..Len(engine_order)
    /\ request_count \in [Engines -> Nat]
    /\ fill_count \in Nat

Init ==
    /\ engine_order = <<>>
    /\ requests = [e \in Engines |-> EmptyQueue]
    /\ events = [e \in Engines |-> EmptyQueue]
    /\ orders = [e \in Engines |-> [o \in OrderIds |-> AbsentOrder]]
    /\ drain_pos = 0
    /\ request_count = [e \in Engines |-> 0]
    /\ fill_count = 0
    /\ known = [e \in Engines |-> [o \in OrderIds |-> AbsentOrder]]

------------------------------------------------------------------------------
(* OrderGatewayClient. *)

PushRequest(e, r) ==
    /\ request_count[e] < MaxRequests[e]
    /\ request_count' = [request_count EXCEPT ![e] = @ + 1]
    /\ requests' = [requests EXCEPT ![e] = QueuePush(@, r, BatchSize)]
    /\ UNCHANGED <<engine_order, events, orders, drain_pos, fill_count, known>>

RequestOf(type, o, f) == [type |-> type, id |-> o, instrument |-> f.instrument,
                          side |-> f.side, price |-> f.price, size |-> f.size]

\* sendOrder(NewOrder) keeps the id it is given, so an id may be sent twice.
SendOrder(e, o, f) == PushRequest(e, RequestOf("New", o, f))

CancelOrder(e, o, i) ==
    PushRequest(e, RequestOf("Cancel", o, [instrument |-> i, side |-> "None",
                                           price |-> UndefinedPrice, size |-> 0]))

ModifyOrder(e, o, f) == PushRequest(e, RequestOf("Modify", o, f))

FlushRequests(e) ==
    /\ requests[e].pending # <<>>
    /\ requests' = [requests EXCEPT ![e] = QueueFlush(@)]
    /\ UNCHANGED <<engine_order, events, orders, drain_pos, request_count,
                   fill_count, known>>

\* What one event tells a client about the order it names.
Learn(order, event) ==
    CASE event.kind \in {"NewAccepted", "ModifyAccepted"} ->
           [order EXCEPT !.side = event.side, !.price = event.price, !.original = event.size,
                         !.remaining = event.size, !.status = event.status]
      [] event.kind = "CancelAccepted" -> [order EXCEPT !.status = event.status]
      [] event.kind = "Fill" -> [order EXCEPT !.remaining = @ - event.filled,
                                              !.status = event.status]
      [] OTHER -> order

LearnOf(known_orders, event) == [known_orders EXCEPT ![event.id] = Learn(@, event)]

\* One iteration of drainEvents: pop an event and dispatch it.
DispatchEvent(e) ==
    /\ events[e].visible # <<>>
    /\ events' = [events EXCEPT ![e] = QueuePop(@)]
    /\ known' = [known EXCEPT ![e] = LearnOf(@, Head(events[e].visible))]
    /\ UNCHANGED <<engine_order, requests, orders, drain_pos, request_count,
                   fill_count>>

------------------------------------------------------------------------------
(* OrderGatewayServer. *)

\* registerEngine for an engine not registered before.
RegisterEngine(e) ==
    /\ drain_pos = 0
    /\ \A i \in 1..Len(engine_order) : engine_order[i] # e
    /\ engine_order' = Append(engine_order, e)
    /\ UNCHANGED <<requests, events, orders, drain_pos, request_count, fill_count,
                   known>>

\* The checks of processNewOrder, processCancelOrder and processModifyOrder, in
\* the order the code makes them.
NoError == "None"

FieldsError(r) ==
    IF r.side \notin ActiveSides THEN "InvalidSide"
    ELSE IF r.price = UndefinedPrice THEN "InvalidPrice"
    ELSE IF r.size = 0 THEN "InvalidQuantity"
    ELSE NoError

NewError(e, r) ==
    IF orders[e][r.id].status # "Absent" THEN "DuplicateOrderId"
    ELSE IF r.instrument = 0 THEN "InvalidInstrument"
    ELSE FieldsError(r)

\* Faulty: terminal orders are not rejected.
CancelErrorUnknownOnly(e, r) ==
    IF orders[e][r.id].status = "Absent" THEN "UnknownOrderId" ELSE NoError

CancelError(e, r) ==
    IF orders[e][r.id].status = "Absent" THEN "UnknownOrderId"
    ELSE IF IsTerminal(orders[e][r.id].status) THEN "AlreadyTerminal"
    ELSE NoError

ModifyError(e, r) ==
    IF CancelError(e, r) # NoError THEN CancelError(e, r) ELSE FieldsError(r)

RequestError(e, r) ==
    CASE r.type = "New" -> NewError(e, r)
      [] r.type = "Cancel" -> CancelError(e, r)
      [] r.type = "Modify" -> ModifyError(e, r)

\* The order a valid request leaves behind.
AcceptedOrder(order, r) ==
    CASE r.type = "New" ->
           [instrument |-> r.instrument, side |-> r.side, price |-> r.price,
            original |-> r.size, remaining |-> r.size, status |-> "Accepted"]
      [] r.type = "Cancel" -> [order EXCEPT !.status = "Cancelled"]
      [] r.type = "Modify" ->
           [order EXCEPT !.side = r.side, !.price = r.price, !.original = r.size,
                         !.remaining = r.size, !.status = "Accepted"]

AcceptedType(r) == CASE r.type = "New" -> "NewAccepted"
                     [] r.type = "Cancel" -> "CancelAccepted"
                     [] r.type = "Modify" -> "ModifyAccepted"

Ack(r, status) == [kind |-> AcceptedType(r), id |-> r.id, side |-> r.side, price |-> r.price,
                   size |-> r.size, filled |-> 0, status |-> status]
Reject(r, reason) == [kind |-> reason, id |-> r.id, side |-> r.side, price |-> r.price,
                      size |-> r.size, filled |-> 0, status |-> "Rejected"]
PushEvent(e, event) == events' = [events EXCEPT ![e] = QueuePush(@, event, BatchSize)]

DrainBegin ==
    /\ drain_pos = 0
    /\ engine_order # <<>>
    /\ drain_pos' = 1
    /\ UNCHANGED <<engine_order, requests, events, orders, request_count, fill_count, known>>

\* One iteration of the loop of drainRequests: tryPop finds a request of the
\* current engine and processRequest validates it, applies it, answers it.
ProcessRequest ==
    /\ drain_pos # 0
    /\ LET e == engine_order[drain_pos]
           r == Head(requests[e].visible)
           error == RequestError(e, r)
       IN  /\ requests[e].visible # <<>>
           /\ requests' = [requests EXCEPT ![e] = QueuePop(@)]
           /\ \/ /\ error = NoError
                 /\ orders' = [orders EXCEPT ![e][r.id] = AcceptedOrder(@, r)]
                 /\ PushEvent(e, Ack(r, orders'[e][r.id].status))
              \/ /\ error # NoError
                 /\ orders' = orders
                 /\ PushEvent(e, Reject(r, error))
    /\ UNCHANGED <<engine_order, drain_pos, request_count, fill_count, known>>

\* tryPop finds nothing: on to the next engine, or the drain is over.
DrainNext ==
    /\ drain_pos # 0
    /\ requests[engine_order[drain_pos]].visible = <<>>
    /\ drain_pos' = IF drain_pos < Len(engine_order) THEN drain_pos + 1 ELSE 0
    /\ UNCHANGED <<engine_order, requests, events, orders, request_count,
                   fill_count, known>>

\* Faulty: only the first engine's events are flushed.
FlushEventsOfFirst ==
    /\ drain_pos = 0
    /\ engine_order # <<>>
    /\ events[engine_order[1]].pending # <<>>
    /\ events' = [events EXCEPT ![engine_order[1]] = QueueFlush(@)]
    /\ UNCHANGED <<engine_order, requests, orders, drain_pos, request_count,
                   fill_count, known>>

FlushEvents ==
    /\ drain_pos = 0
    /\ \E i \in 1..Len(engine_order) : events[engine_order[i]].pending # <<>>
    /\ events' = [e \in Engines |-> IF \E i \in 1..Len(engine_order) : engine_order[i] = e
                                    THEN QueueFlush(events[e]) ELSE events[e]]
    /\ UNCHANGED <<engine_order, requests, orders, drain_pos, request_count,
                   fill_count, known>>

\* Faulty: only an order without fills can be filled.
FillableOnce(e, o, size) ==
    /\ size > 0
    /\ \E i \in 1..Len(engine_order) : engine_order[i] = e
    /\ orders[e][o].status = "Accepted"

\* emitFill finds an engine and an open order to fill.
Fillable(e, o, size) ==
    /\ size > 0
    /\ \E i \in 1..Len(engine_order) : engine_order[i] = e
    /\ IsOpen(orders[e][o])

\* Faulty: the status is chosen by the size asked for, not the size filled.
FilledOrderByRequest(order, size) ==
    LET actual == IF size < order.remaining THEN size ELSE order.remaining
    IN  [order EXCEPT !.remaining = @ - actual,
                      !.status = IF order.remaining = size THEN "Filled" ELSE "PartiallyFilled"]

FilledOrder(order, size) ==
    LET actual == IF size < order.remaining THEN size ELSE order.remaining
    IN  [order EXCEPT !.remaining = @ - actual,
                      !.status = IF order.remaining = actual THEN "Filled" ELSE "PartiallyFilled"]

\* Faulty: the event reports the size asked for.
EmitFillUncapped(e, o, size) ==
    /\ drain_pos = 0
    /\ Fillable(e, o, size)
    /\ LET after == FilledOrder(orders[e][o], size)
       IN  /\ orders' = [orders EXCEPT ![e][o] = after]
           /\ PushEvent(e, [kind |-> "Fill", id |-> o, side |-> after.side,
                            price |-> after.price, size |-> after.original,
                            filled |-> size, status |-> after.status])
    /\ fill_count' = fill_count + 1
    /\ UNCHANGED <<engine_order, requests, drain_pos, request_count, known>>

\* emitFill returns true; it changes nothing when it returns false.
EmitFill(e, o, size) ==
    /\ drain_pos = 0
    /\ Fillable(e, o, size)
    /\ LET before == orders[e][o]
           after == FilledOrder(before, size)
       IN  /\ orders' = [orders EXCEPT ![e][o] = after]
           /\ PushEvent(e, [kind |-> "Fill", id |-> o, side |-> after.side,
                            price |-> after.price, size |-> after.original,
                            filled |-> before.remaining - after.remaining,
                            status |-> after.status])
    /\ fill_count' = fill_count + 1
    /\ UNCHANGED <<engine_order, requests, drain_pos, request_count, known>>

------------------------------------------------------------------------------
ClientRequest(e) ==
    \/ \E o \in OrderIds, f \in Fields : SendOrder(e, o, f) \/ ModifyOrder(e, o, f)
    \/ \E o \in OrderIds : CancelOrder(e, o, 0)
    \/ FlushRequests(e)

Client(e) == ClientRequest(e) \/ DispatchEvent(e)

Server ==
    \/ \E e \in Engines : RegisterEngine(e)
    \/ DrainBegin \/ ProcessRequest \/ DrainNext
    \/ FlushEvents
    \/ fill_count < MaxFills /\ \E e \in Engines, o \in OrderIds, size \in FillSizes :
                                    EmitFill(e, o, size)

Next == (\E e \in Engines : Client(e)) \/ Server

Spec == Init /\ [][Next]_gatewayVars

\* The thread that owns the server makes every call of its loop: it registers
\* each engine, and drains and flushes again and again.  The calls are enabled
\* only between drains, hence strong fairness.  A client keeps draining its
\* events.
Fairness == /\ \A e \in Engines : SF_gatewayVars(RegisterEngine(e))
            /\ WF_gatewayVars(DrainBegin) /\ WF_gatewayVars(ProcessRequest \/ DrainNext)
            /\ SF_gatewayVars(FlushEvents)
            /\ \A e \in Engines : WF_gatewayVars(DispatchEvent(e))

FairSpec == Spec /\ Fairness

------------------------------------------------------------------------------
(* Properties. *)

\* An order's status and sizes agree through every mix of accept, modify, fill
\* and cancel: open orders have something left, a filled order nothing, and
\* only a partial fill makes the remaining size smaller than the original.
OrderSizesAgree ==
    \A e \in Engines, o \in OrderIds :
        LET order == orders[e][o]
        IN  /\ order.status = "Accepted" => order.remaining = order.original
            /\ order.status = "PartiallyFilled" => order.remaining < order.original
            /\ order.status = "Filled" <=> order.remaining = 0 /\ order.original > 0
            /\ order.status # "Absent" => /\ order.side \in ActiveSides
                                          /\ order.price # UndefinedPrice
                                          /\ order.original > 0

\* "A terminal order cannot be cancelled, modified, or filled again."
TerminalIsFinal ==
    [][\A e \in Engines, o \in OrderIds :
           IsTerminal(orders[e][o].status) => orders'[e][o] = orders[e][o]]_gatewayVars

\* A client that applies the events still in its queue to what it knows of an
\* order arrives at the server's order: acks, fills and rejects reach the client
\* complete, in order and with the sizes the server used.
EventsDescribeOrders ==
    \A e \in Engines :
        LET final == FoldLeft(LearnOf, known[e], QueueContents(events[e]))
        IN  \A o \in OrderIds :
                [final[o] EXCEPT !.instrument = 0] = [orders[e][o] EXCEPT !.instrument = 0]

\* A request whose batch was flushed is answered, and the answer dispatched.
RequestsAnswered ==
    \A e \in Engines :
        requests[e].visible # <<>>
            ~> requests[e].visible = <<>> /\ QueueContents(events[e]) = <<>>
==============================================================================
