------------------------------ MODULE ShardedLob ------------------------------
(***************************************************************************)
(* processing/ShardedLobMarketDataEventProcessor: the dispatcher routes    *)
(* each event to the worker of its instrument; every worker applies its    *)
(* queue to books of its own; a snapshot waits for all workers to catch up *)
(* before it reads their books.                                            *)
(*                                                                         *)
(* `sequential` is the state of the processor with one dispatcher-owned    *)
(* BookManager (LobMarketDataEventProcessor) on the same events.           *)
(***************************************************************************)
EXTENDS LimitOrderBooks, BatchedQueueOps

CONSTANTS Events,            \* the events the dispatcher may be given
          WorkerCount,       \* --lob-workers
          BatchSize,         \* batch size of a worker's queue
          SnapshotInterval,  \* snapshot_interval_events; 0 for no snapshots
          MaxSnapshots,      \* max_snapshots
          MaxEvents          \* bound on the events processed

ASSUME ShardedAssumption ==
    /\ Events \subseteq MarketEvent
    /\ WorkerCount \in Nat \ {0} /\ BatchSize \in Nat \ {0}
    /\ SnapshotInterval \in Nat /\ MaxSnapshots \in Nat /\ MaxEvents \in Nat

Workers == 0..(WorkerCount - 1)

VARIABLES dispatcher,      \* what the dispatcher does, and on which worker
          processed_count, \* processed_count_
          snapshot_count,  \* snapshot_count_
          router_orders,   \* router_orders_; size 0 where there is no entry
          unresolved,      \* router_unresolved_events_
          queues,          \* queue_ of each worker
          managers,        \* books_ of each worker
          applying,        \* a worker has applied an item and not yet counted it
          enqueued,        \* enqueued_count_ of each worker
          processed,       \* processed_count_ of each worker
          exited,          \* a worker's loop has returned
          sequential,      \* history: the sequential processor's books
          misdirected      \* history: a cancel named another instrument than its order's

workerVars == <<queues, managers, applying, enqueued, processed, exited>>
vars == <<dispatcher, processed_count, snapshot_count, router_orders, unresolved, workerVars,
          sequential, misdirected>>

At(step, w) == [step |-> step, worker |-> w]
Idle == At("idle", 0)
NotRouted == [instrument |-> Missing, size |-> 0]
EndItem == [action |-> "End", instrument |-> Missing, order |-> Missing, side |-> "None",
            price |-> Missing, size |-> 0]

Init ==
    /\ dispatcher = Idle
    /\ processed_count = 0 /\ snapshot_count = 0 /\ unresolved = 0
    /\ router_orders = [o \in Orders |-> NotRouted]
    /\ queues = [w \in Workers |-> EmptyQueue]
    /\ managers = [w \in Workers |-> EmptyManager]
    /\ applying = [w \in Workers |-> FALSE]
    /\ enqueued = [w \in Workers |-> 0] /\ processed = [w \in Workers |-> 0]
    /\ exited = [w \in Workers |-> FALSE]
    /\ sequential = EmptyManager
    /\ misdirected = FALSE

------------------------------------------------------------------------------
(* The dispatcher. *)

WorkerIndex(i) == i % WorkerCount

RoutedInstrument(event) ==
    ResolveInstrument(event, [o \in Orders |-> router_orders[o].instrument])

\* Faulty: an entry cancelled to exactly zero is kept.
CancelledEntryOffByOne(entry, size) ==
    IF size = 0 \/ size > entry.size THEN NotRouted ELSE [entry EXCEPT !.size = @ - size]

\* The entry of order o after a cancel: size 0 cancels all of it.
CancelledEntry(entry, size) ==
    IF size = 0 \/ size >= entry.size THEN NotRouted ELSE [entry EXCEPT !.size = @ - size]

\* updateRouterAndDispatch, the router's part.
UpdatedRouter(event) ==
    CASE event.action \in {"Add", "Modify"} /\ HasValidRestingState(event) ->
           [router_orders EXCEPT ![event.order] =
               [instrument |-> event.instrument, size |-> event.size]]
      [] event.action = "Cancel" /\ event.order # Missing ->
           [router_orders EXCEPT ![event.order] = CancelledEntry(@, event.size)]
      [] event.action = "Clear" ->
           [o \in Orders |-> IF router_orders[o].instrument = event.instrument THEN NotRouted
                             ELSE router_orders[o]]
      [] OTHER -> router_orders

\* updateRouterAndDispatch, the workers' part: an order that moves to another
\* instrument is first cancelled where it was.
Dispatched(event) ==
    LET moves == /\ event.action \in {"Add", "Modify"} /\ HasValidRestingState(event)
                 /\ router_orders[event.order].instrument \notin {Missing, event.instrument}
        full_cancel == [event EXCEPT !.action = "Cancel", !.size = 0,
                                     !.instrument = router_orders[event.order].instrument]
    IN  IF moves THEN <<full_cancel, event>> ELSE <<event>>

Enqueue(items) ==
    LET for(w) == SelectSeq(items, LAMBDA item : WorkerIndex(item.instrument) = w)
        push(q, its) == IF Len(its) = 0 THEN q
                        ELSE IF Len(its) = 1 THEN QueuePush(q, its[1], BatchSize)
                        ELSE QueuePush(QueuePush(q, its[1], BatchSize), its[2], BatchSize)
    IN  /\ enqueued' = [w \in Workers |-> enqueued[w] + Len(for(w))]
        /\ queues' = [w \in Workers |-> push(queues[w], for(w))]

IsMisdirected(event) ==
    /\ event.action = "Cancel" /\ event.order # Missing
    /\ router_orders[event.order].instrument \notin {Missing, event.instrument}

\* maybePrintSnapshot begins when the count is a multiple of the interval.
SnapshotDue(count) ==
    SnapshotInterval # 0 /\ snapshot_count < MaxSnapshots /\ count % SnapshotInterval = 0

ProcessMarketDataEvent(event) ==
    /\ dispatcher = Idle
    /\ processed_count < MaxEvents
    /\ processed_count' = processed_count + 1
    /\ LET routed == [event EXCEPT !.instrument = RoutedInstrument(event)]
       IN  \/ /\ routed.instrument = Missing
              /\ unresolved' = unresolved + 1
              /\ UNCHANGED <<router_orders, queues, enqueued, misdirected>>
           \/ /\ routed.instrument # Missing
              /\ router_orders' = UpdatedRouter(routed)
              /\ Enqueue(Dispatched(routed))
              /\ misdirected' = (misdirected \/ IsMisdirected(routed))
              /\ unresolved' = unresolved
    /\ sequential' = ApplyToManager(sequential, event)
    /\ dispatcher' = IF SnapshotDue(processed_count') THEN At("flush", 0) ELSE Idle
    /\ UNCHANGED <<snapshot_count, managers, applying, processed, exited>>

\* Faulty: waits for a batch that was never published.
DrainWithoutFlush ==
    /\ dispatcher.step = "flush"
    /\ dispatcher' = [dispatcher EXCEPT !.step = "wait"]
    /\ UNCHANGED <<processed_count, snapshot_count, router_orders, unresolved, workerVars,
                   sequential, misdirected>>

\* drain of one worker: flush its queue, then wait until it has counted all of it.
DrainFlush ==
    /\ dispatcher.step = "flush"
    /\ queues' = [queues EXCEPT ![dispatcher.worker] = QueueFlush(@)]
    /\ dispatcher' = [dispatcher EXCEPT !.step = "wait"]
    /\ UNCHANGED <<processed_count, snapshot_count, router_orders, unresolved, managers, applying,
                   enqueued, processed, exited, sequential, misdirected>>

\* Faulty: does not wait for the last item.
DrainWaitMissesLast ==
    /\ dispatcher.step = "wait"
    /\ processed[dispatcher.worker] + 1 >= enqueued[dispatcher.worker]
    /\ dispatcher' = IF dispatcher.worker + 1 < WorkerCount
                     THEN At("flush", dispatcher.worker + 1) ELSE At("snapshot", 0)
    /\ UNCHANGED <<processed_count, snapshot_count, router_orders, unresolved, workerVars,
                   sequential, misdirected>>

DrainWait ==
    /\ dispatcher.step = "wait"
    /\ processed[dispatcher.worker] >= enqueued[dispatcher.worker]
    /\ dispatcher' = IF dispatcher.worker + 1 < WorkerCount
                     THEN At("flush", dispatcher.worker + 1) ELSE At("snapshot", 0)
    /\ UNCHANGED <<processed_count, snapshot_count, router_orders, unresolved, workerVars,
                   sequential, misdirected>>

\* The merged snapshot is handed to the snapshot writer.
WriteSnapshot ==
    /\ dispatcher.step = "snapshot"
    /\ snapshot_count' = snapshot_count + 1
    /\ dispatcher' = Idle
    /\ UNCHANGED <<processed_count, router_orders, unresolved, workerVars, sequential,
                   misdirected>>

\* finish: end marker, flush and join, one worker after the other.
Finish ==
    /\ dispatcher = Idle
    /\ dispatcher' = At("end", 0)
    /\ UNCHANGED <<processed_count, snapshot_count, router_orders, unresolved, workerVars,
                   sequential, misdirected>>

FinishWorker ==
    /\ dispatcher.step = "end"
    /\ queues' = [queues EXCEPT ![dispatcher.worker] =
                     QueueFlush(QueuePush(@, EndItem, BatchSize))]
    /\ dispatcher' = [dispatcher EXCEPT !.step = "join"]
    /\ UNCHANGED <<processed_count, snapshot_count, router_orders, unresolved, managers, applying,
                   enqueued, processed, exited, sequential, misdirected>>

JoinWorker ==
    /\ dispatcher.step = "join"
    /\ exited[dispatcher.worker]
    /\ dispatcher' = IF dispatcher.worker + 1 < WorkerCount
                     THEN At("end", dispatcher.worker + 1) ELSE At("finished", 0)
    /\ UNCHANGED <<processed_count, snapshot_count, router_orders, unresolved, workerVars,
                   sequential, misdirected>>

------------------------------------------------------------------------------
(* workerLoop. *)

ApplyItem(w) ==
    /\ ~applying[w] /\ queues[w].visible # <<>>
    /\ LET item == Head(queues[w].visible)
       IN  /\ item # EndItem
           /\ managers' = [managers EXCEPT ![w] = ApplyToManager(@, item)]
    /\ queues' = [queues EXCEPT ![w] = QueuePop(@)]
    /\ applying' = [applying EXCEPT ![w] = TRUE]
    /\ UNCHANGED <<dispatcher, processed_count, snapshot_count, router_orders, unresolved,
                   enqueued, processed, exited, sequential, misdirected>>

CountItem(w) ==
    /\ applying[w]
    /\ applying' = [applying EXCEPT ![w] = FALSE]
    /\ processed' = [processed EXCEPT ![w] = @ + 1]
    /\ UNCHANGED <<dispatcher, processed_count, snapshot_count, router_orders, unresolved,
                   queues, managers, enqueued, exited, sequential, misdirected>>

Exit(w) ==
    /\ ~applying[w] /\ queues[w].visible # <<>> /\ Head(queues[w].visible) = EndItem
    /\ queues' = [queues EXCEPT ![w] = QueuePop(@)]
    /\ exited' = [exited EXCEPT ![w] = TRUE]
    /\ UNCHANGED <<dispatcher, processed_count, snapshot_count, router_orders, unresolved,
                   managers, applying, enqueued, processed, sequential, misdirected>>

------------------------------------------------------------------------------
Dispatcher == \/ \E event \in Events : ProcessMarketDataEvent(event)
              \/ DrainFlush \/ DrainWait \/ WriteSnapshot
              \/ Finish \/ FinishWorker \/ JoinWorker
Worker(w) == ApplyItem(w) \/ CountItem(w) \/ Exit(w)

Next == Dispatcher \/ \E w \in Workers : Worker(w)

Spec == Init /\ [][Next]_vars

\* Threads keep running, and a run ends with finish.
FairSpec == Spec /\ WF_vars(Dispatcher) /\ \A w \in Workers : WF_vars(Worker(w))

------------------------------------------------------------------------------
(* Properties. *)

\* mergedSnapshot: every worker's books, and all unresolved events.
Merged == [books |-> [i \in Instruments |-> managers[WorkerIndex(i)].books[i]],
           unresolved |-> unresolved + MapThenSumSet(LAMBDA w : managers[w].unresolved, Workers)]
Sequential == [books |-> sequential.books, unresolved |-> sequential.unresolved]

\* stableStateDigest: the instruments seen, their order counts and their levels.
Digest(merged) ==
    [unresolved |-> merged.unresolved,
     books |-> [i \in {i \in Instruments : merged.books[i].exists} |->
                   [orders |-> Cardinality({o \in Orders : Contains(merged.books[i], o)}),
                    levels |-> merged.books[i].levels]]]

\* When the dispatcher reads the workers' books, for a snapshot or after finish,
\* it finds the books and counts of the sequential processor: no event is missing,
\* half applied or applied in another order, unless a cancel was misdirected.
ShardsMatchSequential ==
    dispatcher.step \in {"snapshot", "finished"} /\ ~misdirected => Merged = Sequential

\* The router's index is the sequential processor's view of where each order rests
\* and how much of it is left, before the workers have applied anything.
RouterKnowsOrders ==
    ~misdirected =>
        \A o \in Orders :
            LET i == sequential.order_to_instrument[o]
            IN  /\ router_orders[o].instrument = i
                /\ i # Missing => router_orders[o].size = sequential.books[i].orders[o].size

\* In every BookManager an order rests in at most one book, the one its mapping
\* names, and every level's volume is the sum of its orders.
BooksConsistent ==
    \A manager \in {sequential} \cup {managers[w] : w \in Workers} :
        /\ \A i \in Instruments : LevelsSumOrders(manager.books[i])
        /\ \A i \in Instruments, o \in Orders :
               Contains(manager.books[i], o) <=> manager.order_to_instrument[o] = i

\* A snapshot in progress is written, and finish returns.
DrainsAndFinishes ==
    /\ dispatcher.step = "flush" ~> dispatcher.step = "idle"
    /\ dispatcher.step = "end" ~> dispatcher.step = "finished"

\* "two-worker sharded digest matches sequential", for every sequence of events.
DigestMatchesSequential ==
    dispatcher.step = "finished" => Digest(Merged) = Digest(Sequential)
==============================================================================
