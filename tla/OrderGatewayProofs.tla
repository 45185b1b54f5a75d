-------------------------- MODULE OrderGatewayProofs --------------------------
(***************************************************************************)
(* Proofs about OrderGateway for every set of engines and orders, every    *)
(* batch size and any number of requests and fills: the types, that an     *)
(* order's status and sizes agree, and that a terminal order never         *)
(* changes again.                                                          *)
(***************************************************************************)
EXTENDS OrderGateway, BatchedQueueLemmas, SequenceTheorems, TLAPS

\* OrderSizesAgree, for one order.
SizesAgree(order) ==
    /\ order.status = "Accepted" => order.remaining = order.original
    /\ order.status = "PartiallyFilled" => order.remaining < order.original
    /\ order.status = "Filled" <=> order.remaining = 0 /\ order.original > 0
    /\ order.status # "Absent" => /\ order.side \in ActiveSides
                                  /\ order.price # UndefinedPrice
                                  /\ order.original > 0

IInv == TypeOK /\ OrderSizesAgree

------------------------------------------------------------------------------
(* Orders. *)

\* A request without error names an order that is absent or open, and its fields
\* are good where they are used.
LEMMA NoErrorMeans ==
    ASSUME NEW e, NEW r \in Request, RequestError(e, r) = NoError
    PROVE  /\ r.type = "New" => orders[e][r.id].status = "Absent"
           /\ r.type # "New" => /\ orders[e][r.id].status # "Absent"
                                /\ ~IsTerminal(orders[e][r.id].status)
           /\ r.type # "Cancel" => /\ r.side \in ActiveSides
                                   /\ r.price # UndefinedPrice
                                   /\ r.size # 0
<1>0. r.type \in {"New", "Cancel", "Modify"}
  BY DEF Request
<1>1. FieldsError(r) = NoError
          => r.side \in ActiveSides /\ r.price # UndefinedPrice /\ r.size # 0
  BY DEF FieldsError, NoError
<1>2. CancelError(e, r) = NoError
          => orders[e][r.id].status # "Absent" /\ ~IsTerminal(orders[e][r.id].status)
  BY DEF CancelError, NoError
<1>3. CASE r.type = "New"
  <2>1. NewError(e, r) = NoError
    BY <1>3 DEF RequestError
  <2>2. orders[e][r.id].status = "Absent" /\ FieldsError(r) = NoError
    BY <2>1 DEF NewError, NoError
  <2> QED  BY <1>1, <1>3, <2>2
<1>4. CASE r.type = "Cancel"
  <2>1. CancelError(e, r) = NoError
    BY <1>4 DEF RequestError
  <2> QED  BY <1>2, <1>4, <2>1
<1>5. CASE r.type = "Modify"
  <2>1. ModifyError(e, r) = NoError
    BY <1>5 DEF RequestError
  <2>2. CancelError(e, r) = NoError /\ FieldsError(r) = NoError
    BY <2>1 DEF ModifyError
  <2> QED  BY <1>1, <1>2, <1>5, <2>2
<1> QED  BY <1>0, <1>3, <1>4, <1>5

\* What a valid request makes of its order.
LEMMA AcceptedOrderSound ==
    ASSUME NEW e, NEW r \in Request, RequestError(e, r) = NoError,
           orders[e][r.id] \in OrderSnapshot, SizesAgree(orders[e][r.id])
    PROVE  /\ AcceptedOrder(orders[e][r.id], r) \in OrderSnapshot
           /\ SizesAgree(AcceptedOrder(orders[e][r.id], r))
<1> DEFINE order == orders[e][r.id]
           after == AcceptedOrder(order, r)
<1>0. /\ r.type \in {"New", "Cancel", "Modify"}
      /\ r.instrument \in Nat /\ r.side \in Sides /\ r.price \in Nat /\ r.size \in Nat
  BY DEF Request
<1>1. /\ order \in [instrument: Nat, side: Sides, price: Nat, original: Nat, remaining: Nat,
                    status: Statuses]
      /\ order.instrument \in Nat /\ order.side \in Sides /\ order.price \in Nat
      /\ order.original \in Nat /\ order.remaining \in Nat /\ order.status \in Statuses
  BY DEF OrderSnapshot
<1>2. CASE r.type = "New"
  <2>1. after = [instrument |-> r.instrument, side |-> r.side, price |-> r.price,
                 original |-> r.size, remaining |-> r.size, status |-> "Accepted"]
    BY <1>2 DEF AcceptedOrder
  <2>2. r.side \in ActiveSides /\ r.price # UndefinedPrice /\ r.size # 0
    BY <1>2, NoErrorMeans
  <2> HIDE DEF order, after
  <2>3. after \in OrderSnapshot
    BY <1>0, <2>1 DEF OrderSnapshot, Statuses
  <2>4. SizesAgree(after)
    BY <1>0, <2>1, <2>2 DEF SizesAgree
  <2> QED  BY <2>3, <2>4 DEF order, after
<1>3. CASE r.type = "Cancel"
  <2>1. after = [order EXCEPT !.status = "Cancelled"]
    BY <1>3 DEF AcceptedOrder
  <2>2. order.status # "Absent" /\ ~IsTerminal(order.status)
    BY <1>3, NoErrorMeans
  <2> HIDE DEF order, after
  <2>3. after = [instrument |-> order.instrument, side |-> order.side, price |-> order.price,
                 original |-> order.original, remaining |-> order.remaining,
                 status |-> "Cancelled"]
    BY <1>1, <2>1
  <2>4. SizesAgree(order)
    BY DEF order
  <2>5. after \in OrderSnapshot
    BY <1>1, <2>3 DEF OrderSnapshot, Statuses
  <2>6. SizesAgree(after)
    BY <1>1, <2>2, <2>3, <2>4 DEF SizesAgree, IsTerminal
  <2> QED  BY <2>5, <2>6 DEF order, after
<1>4. CASE r.type = "Modify"
  <2>1. after = [order EXCEPT !.side = r.side, !.price = r.price, !.original = r.size,
                              !.remaining = r.size, !.status = "Accepted"]
    BY <1>4 DEF AcceptedOrder
  <2>2. r.side \in ActiveSides /\ r.price # UndefinedPrice /\ r.size # 0
    BY <1>4, NoErrorMeans
  <2> HIDE DEF order, after
  <2>3. after = [instrument |-> order.instrument, side |-> r.side, price |-> r.price,
                 original |-> r.size, remaining |-> r.size, status |-> "Accepted"]
    BY <1>0, <1>1, <2>1
  <2>4. after \in OrderSnapshot
    BY <1>0, <1>1, <2>3 DEF OrderSnapshot, Statuses
  <2>5. SizesAgree(after)
    BY <1>0, <2>2, <2>3 DEF SizesAgree
  <2> QED  BY <2>4, <2>5 DEF order, after
<1> QED  BY <1>0, <1>2, <1>3, <1>4

\* What a fill makes of an open order.
LEMMA FilledOrderSound ==
    ASSUME NEW order \in OrderSnapshot, SizesAgree(order), IsOpen(order),
           NEW size \in Nat, size > 0
    PROVE  /\ FilledOrder(order, size) \in OrderSnapshot
           /\ SizesAgree(FilledOrder(order, size))
           /\ order.remaining - FilledOrder(order, size).remaining \in Nat
<1> DEFINE actual == IF size < order.remaining THEN size ELSE order.remaining
           after == FilledOrder(order, size)
<1>1. /\ order \in [instrument: Nat, side: Sides, price: Nat, original: Nat, remaining: Nat,
                    status: Statuses]
      /\ order.instrument \in Nat /\ order.side \in Sides /\ order.price \in Nat
      /\ order.original \in Nat /\ order.remaining \in Nat
  BY DEF OrderSnapshot
<1>2. /\ order.status \in {"Accepted", "PartiallyFilled"}
      /\ order.side \in ActiveSides /\ order.price # UndefinedPrice /\ order.original > 0
      /\ order.remaining # 0
      /\ order.remaining <= order.original
  BY <1>1 DEF SizesAgree, IsOpen
<1>3. actual \in Nat /\ 0 < actual /\ actual <= order.remaining
  BY <1>1, <1>2
<1>4. after = [order EXCEPT !.remaining = @ - actual,
                   !.status = IF order.remaining = actual THEN "Filled" ELSE "PartiallyFilled"]
  BY DEF FilledOrder
<1> HIDE DEF actual, after
<1>5. after = [instrument |-> order.instrument, side |-> order.side, price |-> order.price,
               original |-> order.original, remaining |-> order.remaining - actual,
               status |-> IF order.remaining = actual THEN "Filled" ELSE "PartiallyFilled"]
  BY <1>1, <1>4
<1>6. order.remaining - actual \in Nat /\ order.remaining - (order.remaining - actual) \in Nat
  BY <1>1, <1>3
<1>7. after \in OrderSnapshot
  BY <1>1, <1>5, <1>6 DEF OrderSnapshot, Statuses
<1>8. SizesAgree(after)
  BY <1>1, <1>2, <1>3, <1>5 DEF SizesAgree
<1>9. order.remaining - after.remaining \in Nat
  BY <1>5, <1>6
<1> QED  BY <1>7, <1>8, <1>9 DEF after

\* Assigning one order leaves the others.
LEMMA AssignOrder ==
    ASSUME orders \in [Engines -> [OrderIds -> OrderSnapshot]],
           \A e \in Engines, o \in OrderIds : SizesAgree(orders[e][o]),
           NEW e \in Engines, NEW o \in OrderIds,
           NEW order \in OrderSnapshot, SizesAgree(order),
           orders' = [orders EXCEPT ![e][o] = order]
    PROVE  /\ orders' \in [Engines -> [OrderIds -> OrderSnapshot]]
           /\ \A f \in Engines, k \in OrderIds : SizesAgree(orders'[f][k])
           /\ \A f \in Engines, k \in OrderIds : f # e \/ k # o => orders'[f][k] = orders[f][k]
<1>1. orders' \in [Engines -> [OrderIds -> OrderSnapshot]]
  OBVIOUS
<1>2. /\ orders'[e][o] = order
      /\ \A f \in Engines, k \in OrderIds : f # e \/ k # o => orders'[f][k] = orders[f][k]
  OBVIOUS
<1>3. ASSUME NEW f \in Engines, NEW k \in OrderIds PROVE SizesAgree(orders'[f][k])
  <2>1. CASE f = e /\ k = o
    BY <1>2, <2>1
  <2>2. CASE f # e \/ k # o
    BY <1>2, <2>2
  <2> QED  BY <2>1, <2>2
<1> QED  BY <1>1, <1>2, <1>3

------------------------------------------------------------------------------
(* The invariant. *)

\* The invariant with one order at a time.
LEMMA InvByOrder ==
    IInv <=> TypeOK /\ \A e \in Engines, o \in OrderIds : SizesAgree(orders[e][o])
BY DEF IInv, OrderSizesAgree, SizesAgree

\* Nothing is registered, queued or ordered at first.
LEMMA InitInv == ASSUME Init PROVE IInv
<1>1. AbsentOrder \in OrderSnapshot /\ SizesAgree(AbsentOrder)
  BY DEF AbsentOrder, OrderSnapshot, SizesAgree, Sides, Statuses, UndefinedPrice
<1>2. \A S : EmptyQueue \in Queues(S)
  BY EmptySeq DEF EmptyQueue, Queues
<1>3. engine_order \in Seq(Engines) /\ drain_pos \in 0..Len(engine_order)
  BY EmptySeq DEF Init
<1>4. requests \in [Engines -> Queues(Request)] /\ events \in [Engines -> Queues(Event)]
  BY <1>2 DEF Init
<1>5. /\ orders \in [Engines -> [OrderIds -> OrderSnapshot]]
      /\ \A e \in Engines, o \in OrderIds : SizesAgree(orders[e][o])
  BY <1>1 DEF Init
<1>6. request_count \in [Engines -> Nat] /\ fill_count \in Nat
  BY DEF Init
<1> QED  BY <1>3, <1>4, <1>5, <1>6, InvByOrder DEF TypeOK

\* What IInv says, conjunct by conjunct.
LEMMA InvFacts ==
    ASSUME IInv
    PROVE  /\ engine_order \in Seq(Engines)
           /\ requests \in [Engines -> Queues(Request)]
           /\ events \in [Engines -> Queues(Event)]
           /\ orders \in [Engines -> [OrderIds -> OrderSnapshot]]
           /\ \A e \in Engines, o \in OrderIds : SizesAgree(orders[e][o])
           /\ drain_pos \in 0..Len(engine_order)
           /\ request_count \in [Engines -> Nat]
           /\ fill_count \in Nat
           /\ BatchSize \in Nat
BY InvByOrder, BatchAssumption DEF TypeOK

\* push of any request by a client.
LEMMA PushRequestInv ==
    ASSUME IInv, NEW e \in Engines, NEW r \in Request, PushRequest(e, r)
    PROVE  IInv'
<1>1. QueuePush(requests[e], r, BatchSize) \in Queues(Request)
  BY InvFacts, QueueTypes
<1>2. requests' \in [Engines -> Queues(Request)] /\ request_count' \in [Engines -> Nat]
  BY <1>1, InvFacts DEF PushRequest
<1>3. UNCHANGED <<engine_order, events, orders, drain_pos, fill_count>>
  BY DEF PushRequest
<1>4. TypeOK' /\ \A f \in Engines, o \in OrderIds : SizesAgree(orders'[f][o])
  BY <1>2, <1>3, InvFacts DEF TypeOK
<1> QED  BY <1>4, InvByOrder DEF IInv, OrderSizesAgree, SizesAgree

\* The steps of a client.
LEMMA ClientInv == ASSUME IInv, NEW e \in Engines, Client(e) PROVE IInv'
<1>1. ASSUME NEW type \in {"New", "Modify"}, NEW o \in OrderIds, NEW f \in Fields
      PROVE  RequestOf(type, o, f) \in Request
  BY <1>1, FieldsAssumption DEF RequestOf, Request
<1>2. ASSUME NEW o \in OrderIds, NEW f \in Fields, SendOrder(e, o, f) \/ ModifyOrder(e, o, f)
      PROVE  IInv'
  BY <1>1, <1>2, PushRequestInv DEF SendOrder, ModifyOrder
<1>3. ASSUME NEW o \in OrderIds, CancelOrder(e, o, 0) PROVE IInv'
  <2> DEFINE r == [type |-> "Cancel", id |-> o, instrument |-> 0, side |-> "None",
                   price |-> UndefinedPrice, size |-> 0]
  <2>1. PushRequest(e, r)
    BY <1>3 DEF CancelOrder, RequestOf
  <2>2. r \in Request
    BY DEF Request, Sides, UndefinedPrice
  <2> QED  BY <2>1, <2>2, PushRequestInv
<1>4. CASE FlushRequests(e)
  <2>1. QueueFlush(requests[e]) \in Queues(Request)
    BY InvFacts, QueueTypes
  <2>2. requests' \in [Engines -> Queues(Request)]
    BY <1>4, <2>1, InvFacts DEF FlushRequests
  <2>3. UNCHANGED <<engine_order, events, orders, drain_pos, request_count, fill_count>>
    BY <1>4 DEF FlushRequests
  <2>4. TypeOK' /\ \A f \in Engines, o \in OrderIds : SizesAgree(orders'[f][o])
    BY <2>2, <2>3, InvFacts DEF TypeOK
  <2> QED  BY <2>4 DEF IInv, OrderSizesAgree, SizesAgree
<1>5. CASE DispatchEvent(e)
  <2>1. QueuePop(events[e]) \in Queues(Event)
    BY <1>5, InvFacts, QueueTypes DEF DispatchEvent
  <2>2. events' \in [Engines -> Queues(Event)]
    BY <1>5, <2>1, InvFacts DEF DispatchEvent
  <2>3. UNCHANGED <<engine_order, requests, orders, drain_pos, request_count, fill_count>>
    BY <1>5 DEF DispatchEvent
  <2>4. TypeOK' /\ \A f \in Engines, o \in OrderIds : SizesAgree(orders'[f][o])
    BY <2>2, <2>3, InvFacts DEF TypeOK
  <2> QED  BY <2>4 DEF IInv, OrderSizesAgree, SizesAgree
<1> QED  BY <1>2, <1>3, <1>4, <1>5 DEF Client, ClientRequest

\* The events the server pushes.
LEMMA EventTypes ==
    ASSUME NEW e, NEW r \in Request
    PROVE  /\ \A status \in Statuses : Ack(r, status) \in Event
           /\ RequestError(e, r) # NoError => Reject(r, RequestError(e, r)) \in Event
<1>0. /\ r.type \in {"New", "Cancel", "Modify"} /\ r.id \in OrderIds
      /\ r.side \in Sides /\ r.price \in Nat /\ r.size \in Nat
  BY DEF Request
<1>1. AcceptedType(r) \in AcceptedTypes
  <2>1. CASE r.type = "New"
    BY <2>1 DEF AcceptedType, AcceptedTypes
  <2>2. CASE r.type = "Cancel"
    BY <2>2 DEF AcceptedType, AcceptedTypes
  <2>3. CASE r.type = "Modify"
    BY <2>3 DEF AcceptedType, AcceptedTypes
  <2> QED  BY <1>0, <2>1, <2>2, <2>3
<1>2. FieldsError(r) \in RejectReasons \cup {NoError}
  BY DEF FieldsError, RejectReasons
<1>3. CancelError(e, r) \in RejectReasons \cup {NoError}
  BY DEF CancelError, RejectReasons
<1>4. NewError(e, r) \in RejectReasons \cup {NoError}
  BY <1>2 DEF NewError, RejectReasons
<1>5. ModifyError(e, r) \in RejectReasons \cup {NoError}
  BY <1>2, <1>3 DEF ModifyError
<1>6. RequestError(e, r) \in RejectReasons \cup {NoError}
  <2>1. CASE r.type = "New"
    BY <1>4, <2>1 DEF RequestError
  <2>2. CASE r.type = "Cancel"
    BY <1>3, <2>2 DEF RequestError
  <2>3. CASE r.type = "Modify"
    BY <1>5, <2>3 DEF RequestError
  <2> QED  BY <1>0, <2>1, <2>2, <2>3
<1>7. \A status \in Statuses : Ack(r, status) \in Event
  BY <1>0, <1>1 DEF Ack, Event
<1>8. \A reason \in RejectReasons : Reject(r, reason) \in Event
  BY <1>0 DEF Reject, Event
<1> QED  BY <1>6, <1>7, <1>8

\* The engine of a drain in progress, and the request it is at.
LEMMA DrainFacts ==
    ASSUME IInv, drain_pos # 0
    PROVE  LET e == engine_order[drain_pos]
           IN  /\ e \in Engines
               /\ requests[e].visible # <<>> =>
                      /\ Head(requests[e].visible) \in Request
                      /\ QueuePop(requests[e]) \in Queues(Request)
<1>1. drain_pos \in 1..Len(engine_order)
  BY InvFacts, LenProperties
<1>2. engine_order[drain_pos] \in Engines
  BY <1>1, InvFacts, ElementOfSeq
<1>3. requests[engine_order[drain_pos]] \in Queues(Request)
  BY <1>2, InvFacts
<1> QED  BY <1>2, <1>3, QueueTypes, InvFacts

\* A processed request leaves sound orders.
LEMMA ProcessRequestInv == ASSUME IInv, ProcessRequest PROVE IInv'
<1> DEFINE e == engine_order[drain_pos]
           r == Head(requests[e].visible)
           error == RequestError(e, r)
<1>1. /\ e \in Engines /\ r \in Request /\ r.id \in OrderIds
      /\ QueuePop(requests[e]) \in Queues(Request)
  <2>1. drain_pos # 0 /\ requests[e].visible # <<>>
    BY DEF ProcessRequest
  <2>2. e \in Engines /\ r \in Request /\ QueuePop(requests[e]) \in Queues(Request)
    BY <2>1, DrainFacts
  <2> QED  BY <2>2 DEF Request
<1>2. /\ requests' = [requests EXCEPT ![e] = QueuePop(requests[e])]
      /\ UNCHANGED <<engine_order, drain_pos, request_count, fill_count>>
  BY DEF ProcessRequest
<1>3. \/ /\ error = NoError
         /\ orders' = [orders EXCEPT ![e][r.id] = AcceptedOrder(orders[e][r.id], r)]
         /\ PushEvent(e, Ack(r, orders'[e][r.id].status))
      \/ /\ error # NoError
         /\ orders' = orders
         /\ PushEvent(e, Reject(r, error))
  BY DEF ProcessRequest
<1> HIDE DEF e, r
<1>4. requests' \in [Engines -> Queues(Request)]
  BY <1>1, <1>2, InvFacts
<1>5. ASSUME NEW event \in Event, PushEvent(e, event)
      PROVE  events' \in [Engines -> Queues(Event)]
  <2>1. QueuePush(events[e], event, BatchSize) \in Queues(Event)
    BY <1>1, InvFacts, QueueTypes
  <2> QED  BY <1>1, <1>5, <2>1, InvFacts DEF PushEvent
<1>6. CASE error = NoError
  <2> DEFINE after == AcceptedOrder(orders[e][r.id], r)
  <2>1. orders[e][r.id] \in OrderSnapshot /\ SizesAgree(orders[e][r.id])
    BY <1>1, InvFacts
  <2>2. after \in OrderSnapshot /\ SizesAgree(after)
    BY <1>1, <1>6, <2>1, AcceptedOrderSound
  <2>3. orders' = [orders EXCEPT ![e][r.id] = after]
    BY <1>3, <1>6
  <2> HIDE DEF after
  <2>4. /\ orders' \in [Engines -> [OrderIds -> OrderSnapshot]]
        /\ \A f \in Engines, k \in OrderIds : SizesAgree(orders'[f][k])
    BY <1>1, <2>2, <2>3, InvFacts, AssignOrder
  <2>5. orders'[e][r.id].status \in Statuses
    BY <1>1, <2>4 DEF OrderSnapshot
  <2>6. events' \in [Engines -> Queues(Event)]
    BY <1>1, <1>3, <1>5, <1>6, <2>5, EventTypes
  <2>7. TypeOK'
    BY <1>2, <1>4, <2>4, <2>6, InvFacts DEF TypeOK
  <2> QED  BY <2>4, <2>7 DEF IInv, OrderSizesAgree, SizesAgree
<1>7. CASE error # NoError
  <2>1. orders' = orders /\ PushEvent(e, Reject(r, error))
    BY <1>3, <1>7
  <2>2. events' \in [Engines -> Queues(Event)]
    BY <1>1, <1>5, <1>7, <2>1, EventTypes
  <2>3. TypeOK' /\ \A f \in Engines, o \in OrderIds : SizesAgree(orders'[f][o])
    BY <1>2, <1>4, <2>1, <2>2, InvFacts DEF TypeOK
  <2> QED  BY <2>3 DEF IInv, OrderSizesAgree, SizesAgree
<1> QED  BY <1>6, <1>7

\* A fill leaves a sound order.
LEMMA EmitFillInv ==
    ASSUME IInv, NEW e \in Engines, NEW o \in OrderIds, NEW size \in Nat, EmitFill(e, o, size)
    PROVE  IInv'
<1> DEFINE before == orders[e][o]
           after == FilledOrder(before, size)
           fill == [kind |-> "Fill", id |-> o, side |-> after.side, price |-> after.price,
                    size |-> after.original, filled |-> before.remaining - after.remaining,
                    status |-> after.status]
<1>1. /\ IsOpen(before) /\ size > 0
      /\ orders' = [orders EXCEPT ![e][o] = after]
      /\ PushEvent(e, fill)
      /\ fill_count' = fill_count + 1
      /\ UNCHANGED <<engine_order, requests, drain_pos, request_count>>
  BY DEF EmitFill, Fillable
<1>2. before \in OrderSnapshot /\ SizesAgree(before)
  BY InvFacts
<1>3. /\ after \in OrderSnapshot /\ SizesAgree(after)
      /\ before.remaining - after.remaining \in Nat
  <2> HIDE DEF before
  <2> QED  BY <1>1, <1>2, FilledOrderSound
<1> HIDE DEF before, after
<1>4. /\ orders' \in [Engines -> [OrderIds -> OrderSnapshot]]
      /\ \A f \in Engines, k \in OrderIds : SizesAgree(orders'[f][k])
  BY <1>1, <1>3, InvFacts, AssignOrder
<1>5. fill \in Event
  BY <1>3 DEF Event, OrderSnapshot
<1> HIDE DEF fill
<1>6. events' \in [Engines -> Queues(Event)]
  <2>1. QueuePush(events[e], fill, BatchSize) \in Queues(Event)
    BY <1>5, InvFacts, QueueTypes
  <2> QED  BY <1>1, <2>1, InvFacts DEF PushEvent
<1>7. TypeOK'
  BY <1>1, <1>4, <1>6, InvFacts DEF TypeOK
<1> QED  BY <1>4, <1>7 DEF IInv, OrderSizesAgree, SizesAgree

\* The steps of the server.
LEMMA ServerInv == ASSUME IInv, Server PROVE IInv'
<1>0. Len(engine_order) \in Nat
  BY InvFacts, LenProperties
<1>1. ASSUME NEW e \in Engines, RegisterEngine(e) PROVE IInv'
  <2>1. /\ engine_order' \in Seq(Engines) /\ Len(engine_order') = Len(engine_order) + 1
    BY <1>1, InvFacts, AppendProperties DEF RegisterEngine
  <2>2. drain_pos' \in 0..Len(engine_order')
    BY <1>0, <1>1, <2>1 DEF RegisterEngine
  <2>3. UNCHANGED <<requests, events, orders, request_count, fill_count>>
    BY <1>1 DEF RegisterEngine
  <2>4. TypeOK' /\ \A f \in Engines, o \in OrderIds : SizesAgree(orders'[f][o])
    BY <2>1, <2>2, <2>3, InvFacts DEF TypeOK
  <2> QED  BY <2>4 DEF IInv, OrderSizesAgree, SizesAgree
<1>2. CASE DrainBegin \/ DrainNext
  <2>1. drain_pos' \in 0..Len(engine_order)
    <3>1. CASE DrainBegin
      <4>1. Len(engine_order) # 0
        BY <3>1, InvFacts, EmptySeq DEF DrainBegin
      <4> QED  BY <1>0, <3>1, <4>1 DEF DrainBegin
    <3>2. CASE DrainNext
      BY <1>0, <3>2, InvFacts DEF DrainNext
    <3> QED  BY <1>2, <3>1, <3>2
  <2>2. UNCHANGED <<engine_order, requests, events, orders, request_count, fill_count>>
    BY <1>2 DEF DrainBegin, DrainNext
  <2>3. TypeOK' /\ \A f \in Engines, o \in OrderIds : SizesAgree(orders'[f][o])
    BY <2>1, <2>2, InvFacts DEF TypeOK
  <2> QED  BY <2>3 DEF IInv, OrderSizesAgree, SizesAgree
<1>3. CASE ProcessRequest
  BY <1>3, ProcessRequestInv
<1>4. CASE FlushEvents
  <2>1. \A e \in Engines : QueueFlush(events[e]) \in Queues(Event) /\ events[e] \in Queues(Event)
    BY InvFacts, QueueTypes
  <2>2. events' \in [Engines -> Queues(Event)]
    BY <1>4, <2>1 DEF FlushEvents
  <2>3. UNCHANGED <<engine_order, requests, orders, drain_pos, request_count, fill_count>>
    BY <1>4 DEF FlushEvents
  <2>4. TypeOK' /\ \A f \in Engines, o \in OrderIds : SizesAgree(orders'[f][o])
    BY <2>2, <2>3, InvFacts DEF TypeOK
  <2> QED  BY <2>4 DEF IInv, OrderSizesAgree, SizesAgree
<1>5. ASSUME NEW e \in Engines, NEW o \in OrderIds, NEW size \in FillSizes, EmitFill(e, o, size)
      PROVE  IInv'
  <2>1. size \in Nat
    BY BoundsAssumption
  <2> QED  BY <1>5, <2>1, EmitFillInv
<1> QED  BY <1>1, <1>2, <1>3, <1>4, <1>5 DEF Server

\* Every step keeps the invariant.
LEMMA NextInv == ASSUME IInv, [Next]_gatewayVars PROVE IInv'
<1>1. CASE \E e \in Engines : Client(e)
  BY <1>1, ClientInv
<1>2. CASE Server
  BY <1>2, ServerInv
<1>3. CASE UNCHANGED gatewayVars
  BY <1>3 DEF gatewayVars, IInv, TypeOK, OrderSizesAgree
<1> QED  BY <1>1, <1>2, <1>3 DEF Next

\* Only open or absent orders change.
LEMMA TerminalStep ==
    ASSUME IInv, [Next]_gatewayVars, NEW e \in Engines, NEW o \in OrderIds,
           IsTerminal(orders[e][o].status)
    PROVE  orders'[e][o] = orders[e][o]
<1>1. CASE ProcessRequest
  <2> DEFINE f == engine_order[drain_pos]
             r == Head(requests[f].visible)
  <2>1. f \in Engines /\ r \in Request /\ r.id \in OrderIds
    <3>1. drain_pos # 0 /\ requests[f].visible # <<>>
      BY <1>1 DEF ProcessRequest
    <3>2. f \in Engines /\ r \in Request
      BY <3>1, DrainFacts
    <3> QED  BY <3>2 DEF Request
  <2>2. \/ /\ RequestError(f, r) = NoError
           /\ orders' = [orders EXCEPT ![f][r.id] = AcceptedOrder(orders[f][r.id], r)]
        \/ orders' = orders
    BY <1>1 DEF ProcessRequest
  <2> HIDE DEF f, r
  <2>3. CASE orders' = orders
    BY <2>3
  <2>4. CASE /\ RequestError(f, r) = NoError
             /\ orders' = [orders EXCEPT ![f][r.id] = AcceptedOrder(orders[f][r.id], r)]
    <3>1. ~IsTerminal(orders[f][r.id].status)
      <4>1. \/ orders[f][r.id].status = "Absent" \/ ~IsTerminal(orders[f][r.id].status)
        BY <2>1, <2>4, NoErrorMeans
      <4> QED  BY <4>1 DEF IsTerminal
    <3>2. f # e \/ r.id # o
      BY <3>1
    <3>3. orders'[e][o] = orders[e][o]
      BY <2>1, <2>4, <3>2, InvFacts
    <3> QED  BY <3>3
  <2> QED  BY <2>2, <2>3, <2>4
<1>2. ASSUME NEW f \in Engines, NEW k \in OrderIds, NEW size \in FillSizes, EmitFill(f, k, size)
      PROVE  orders'[e][o] = orders[e][o]
  <2>1. IsOpen(orders[f][k])
    BY <1>2 DEF EmitFill, Fillable
  <2>2. f # e \/ k # o
    BY <2>1 DEF IsOpen, IsTerminal
  <2>3. orders' = [orders EXCEPT ![f][k] = FilledOrder(orders[f][k], size)]
    BY <1>2 DEF EmitFill
  <2> QED  BY <2>2, <2>3, InvFacts
<1>3. CASE UNCHANGED orders
  BY <1>3
<1>4. \/ UNCHANGED orders \/ ProcessRequest
      \/ \E f \in Engines, k \in OrderIds, size \in FillSizes : EmitFill(f, k, size)
  BY DEF Next, Client, ClientRequest, SendOrder, ModifyOrder, CancelOrder, PushRequest,
         FlushRequests, DispatchEvent, Server, RegisterEngine, DrainBegin, DrainNext,
         FlushEvents, gatewayVars
<1> QED  BY <1>1, <1>2, <1>3, <1>4

------------------------------------------------------------------------------
(* Theorems. *)

\* The invariant is inductive.
THEOREM GatewayInvariant == Spec => []IInv
<1>1. Init => IInv
  BY InitInv
<1>2. IInv /\ [Next]_gatewayVars => IInv'
  BY NextInv
<1> QED  BY <1>1, <1>2, PTL DEF Spec

\* The types, for any engines, orders and bounds.
THEOREM GatewayTypeOK == Spec => []TypeOK
<1>1. IInv => TypeOK
  BY DEF IInv
<1> QED  BY <1>1, GatewayInvariant, PTL

\* Status and sizes of every order agree after any mix of accepts, modifies,
\* fills and cancels.
THEOREM GatewayOrderSizesAgree == Spec => []OrderSizesAgree
<1>1. IInv => OrderSizesAgree
  BY DEF IInv
<1> QED  BY <1>1, GatewayInvariant, PTL

\* A filled or cancelled order never changes again.
THEOREM GatewayTerminalIsFinal == Spec => TerminalIsFinal
<1>1. IInv /\ [Next]_gatewayVars =>
          [\A e \in Engines, o \in OrderIds :
              IsTerminal(orders[e][o].status) => orders'[e][o] = orders[e][o]]_gatewayVars
  BY TerminalStep
<1> QED  BY <1>1, GatewayInvariant, PTL DEF Spec, TerminalIsFinal
==============================================================================
