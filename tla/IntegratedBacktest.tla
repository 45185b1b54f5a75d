------------------------- MODULE IntegratedBacktest -------------------------
(***************************************************************************)
(* backtest/IntegratedBacktestEngine with its MarketDataEventAdapter: an   *)
(* input event is filtered, applied to the HistoricalLobStore, turned into *)
(* market-data messages, numbered, queued for the subscriptions, flushed,  *)
(* and delivered to their callbacks before processEvent returns.           *)
(*                                                                         *)
(* The engine runs on one thread.  A delivery is a step of its own because *)
(* a callback can send orders.  The time of an event stands for its        *)
(* ordering key (timestamp, source file, source sequence).                 *)
(***************************************************************************)
EXTENDS HistoricalStore, Sequences, BatchedQueueOps

LOCAL S == INSTANCE SequencesExt

CONSTANTS Filter,              \* instruments of the config; empty accepts all
          PublishBookUpdates, PublishTrades, SnapshotDepth, SnapshotInterval,
          MaxAccepted,         \* max_events of the config; 0 for no limit
          Subscriptions,       \* the instruments subscribed to, in order
          SubscriberBatchSize  \* subscriber_queue_batch_size

VARIABLES store,               \* books_ of the HistoricalLobStore
          accepted_count,      \* accepted_event_count_ of the adapter
          stats,               \* stats_ of the engine
          last_input,          \* time of last_input_event_
          last_seq_no,         \* last_seq_no_by_instrument_ of the publisher
          queues,              \* queue_ of each subscription
          snapshot_of          \* history: instrument of the last event's snapshot

engineVars == <<store, accepted_count, stats, last_input, last_seq_no, queues, snapshot_of>>

EngineInit ==
    /\ store = EmptyStore
    /\ accepted_count = 0
    /\ stats = [input |-> 0, accepted |-> 0, filtered |-> 0, capped |-> 0, violations |-> 0,
                published |-> 0, delivered |-> 0]
    /\ last_input = 0
    /\ last_seq_no = [i \in Instruments |-> 0]
    /\ queues = [k \in DOMAIN Subscriptions |-> EmptyQueue]
    /\ snapshot_of = Missing

------------------------------------------------------------------------------
(* MarketDataEventAdapter. *)

Accepts(event) ==
    \/ Filter = {}
    \/ event.action = "Clear" /\ event.instrument = Missing
    \/ event.instrument \in Filter

IsLobMutatingAction(action) == action \in {"Add", "Modify", "Cancel", "Clear"}
IsTradeLikeAction(action) == action \in {"Trade", "Fill"}

MakeBookUpdate(event) ==
    [type |-> "BookUpdate", instrument |-> event.instrument, seq_no |-> 0,
     side |-> event.side, price |-> event.price, size |-> event.size]

MakeTrade(event) ==
    [type |-> "Trade", instrument |-> event.instrument, seq_no |-> 0,
     side |-> event.side, price |-> event.price, size |-> event.size]

MakeSnapshot(event, book) ==
    LET top == StoreSnapshot(book, event.instrument, SnapshotDepth)
    IN  [type |-> "BookSnapshot", instrument |-> event.instrument, seq_no |-> 0,
         bids |-> top.bids, asks |-> top.asks]

ShouldPublishSnapshot(event, count) ==
    /\ SnapshotInterval > 0 /\ count % SnapshotInterval = 0
    /\ event.instrument # Missing /\ event.action # "None"

\* The update or the trade of an accepted event, if there is one.
ChangeOf(event) ==
    CASE event.instrument # Missing /\ PublishBookUpdates /\ IsLobMutatingAction(event.action) ->
           <<MakeBookUpdate(event)>>
      [] event.instrument # Missing /\ PublishTrades /\ IsTradeLikeAction(event.action) ->
           <<MakeTrade(event)>>
      [] OTHER -> <<>>

SnapshotOf(event, book, count) ==
    IF ShouldPublishSnapshot(event, count) THEN <<MakeSnapshot(event, book)>> ELSE <<>>

\* Faulty: the snapshot goes out ahead of the update of the same event.
MessagesSnapshotFirst(event, book, count) == SnapshotOf(event, book, count) \o ChangeOf(event)

Messages(event, book, count) == ChangeOf(event) \o SnapshotOf(event, book, count)

------------------------------------------------------------------------------
(* IntegratedBacktestEngine. *)

MaxEventsReached == MaxAccepted > 0 /\ stats.accepted >= MaxAccepted

\* publishMessage for each message, then flush: the messages are numbered per
\* instrument, pushed to the subscriptions of their instrument and made visible.
Publish(messages) ==
    LET i == messages[1].instrument
        numbered == [n \in DOMAIN messages |->
                        [messages[n] EXCEPT !.seq_no = last_seq_no[i] + n]]
        push(q, message) == QueuePush(q, message, SubscriberBatchSize)
    IN  IF messages = <<>> THEN UNCHANGED <<last_seq_no, queues>>
        ELSE /\ last_seq_no' = [last_seq_no EXCEPT ![i] = @ + Len(messages)]
             /\ queues' = [k \in DOMAIN queues |->
                              QueueFlush(IF Subscriptions[k] = i
                                         THEN S!FoldLeft(push, queues[k], numbered)
                                         ELSE queues[k])]

\* processEvent up to the delivery of the messages.
ProcessEvent(event) ==
    LET counted == [stats EXCEPT !.input = @ + 1,
                                 !.violations = IF event.time < last_input THEN @ + 1 ELSE @]
        applied == IF IsLobMutatingAction(event.action) THEN StoreApply(store, event) ELSE store
        messages == Messages(event, applied, accepted_count + 1)
    IN  /\ last_input' = event.time
        /\ \/ /\ MaxEventsReached
              /\ stats' = [counted EXCEPT !.capped = @ + 1]
              /\ UNCHANGED <<store, accepted_count, last_seq_no, queues, snapshot_of>>
           \/ /\ ~MaxEventsReached /\ ~Accepts(event)
              /\ stats' = [counted EXCEPT !.filtered = @ + 1]
              /\ UNCHANGED <<store, accepted_count, last_seq_no, queues, snapshot_of>>
           \/ /\ ~MaxEventsReached /\ Accepts(event)
              /\ accepted_count' = accepted_count + 1
              /\ store' = applied
              /\ stats' = [counted EXCEPT !.accepted = @ + 1, !.published = @ + Len(messages)]
              /\ Publish(messages)
              /\ snapshot_of' = IF ShouldPublishSnapshot(event, accepted_count')
                                THEN event.instrument ELSE Missing

\* The subscription drainSubscribers reads next: the first with a message.
Undelivered == {k \in DOMAIN queues : queues[k].visible # <<>>}
NextMessage == Head(queues[Min(Undelivered)].visible)

\* One iteration of drainAvailable, up to the callback.
Deliver ==
    /\ Undelivered # {}
    /\ queues' = [queues EXCEPT ![Min(Undelivered)] = QueuePop(@)]
    /\ stats' = [stats EXCEPT !.delivered = @ + 1]
    /\ UNCHANGED <<store, accepted_count, last_input, last_seq_no, snapshot_of>>

\* finish up to the delivery of what the flush finds.
Finish ==
    /\ queues' = [k \in DOMAIN queues |-> QueueFlush(queues[k])]
    /\ UNCHANGED <<store, accepted_count, stats, last_input, last_seq_no, snapshot_of>>

==============================================================================
