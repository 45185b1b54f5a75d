# Verification of backtester-lab

TLA+ models of the parts of backtester-lab where order, concurrency or
bookkeeping is hard to test; TLC runs that check them on small instances; TLAPS
proofs of the properties that matter most for every value of the constants.

Paths below are relative to the repository's `src/` unless they name a document.

## The system

A backtest reads market-data files, merges them by time, applies every event to
order books, and lets trading engines send orders that are matched against the
historical book.

| Part | Code | State | Operations | Talks to |
|------|------|-------|------------|----------|
| Batched queue | `concurrency/NonBlockingQueue.hpp` | linked batch nodes, producer and consumer batch, counters | push, flush, pop, tryPop, size | every thread pair below |
| Merge pipeline | `runners/HardRunnerSupport`, `Flat-` and `HierarchicalMergeRunner` | one queue per file and merger, heaps, summary | read line, fill heap, merge, dispatch, join | processors |
| Order books | `book/LimitOrderBook`, `book/BookManager` | orders, levels, order-to-instrument index | apply Add, Modify, Cancel, Clear | processors |
| Sharded processor | `processing/ShardedLobMarketDataEventProcessor` | router index, worker queues, counters | route, enqueue, drain, snapshot, finish | books, snapshot writer |
| Snapshot writer | `processing/AsyncSnapshotWriter` | queue under a mutex, condition variable | write, finish, worker loop | processors |
| Order gateway | `gateway/` | requests and events per engine, orders by key | new, cancel, modify, drain, fill, flush | clients, bridge |
| Execution bridge | `backtest/OrderExecutionBridge` | gateway order to synthetic order mappings | drain and process requests | gateway, simulator |
| Fill simulator, engine view | `lob/FillSimulator`, `lob/EngineView` | synthetic orders and levels, consumed liquidity | submit, consume, rest, cancel | historical store |
| Historical store | `lob/HistoricalLOB`, `lob/HistoricalLobStore` | books under a readers-writer lock | apply, snapshot | simulator, adapter |
| Messaging | `messaging/` | sequence numbers, subscriber queues, gap detector | publish, flush, drain, observe | adapter, strategies |
| Integrated engine | `backtest/IntegratedBacktestEngine`, `MarketDataEventAdapter` | statistics, last event, filters | process event, finish | store, messaging |
| Python layer | `python/backtester/` | portfolio, risk limits, open orders, results | runner loops, callbacks | all of the above |

Behaviours that make these parts hard:

- a consumer that goes to sleep while the producer publishes, and nodes freed by
  one thread while the other still holds a pointer;
- items that stay invisible until a batch is flushed;
- equal timestamps in several files, and files that end at different times;
- a dispatcher that reads worker-owned books after a counting barrier;
- a router that predicts where orders rest before workers have applied anything;
- requests accepted in one drain and executed only after the whole drain;
- fills, modifies and cancels that meet on one order;
- finish and join while other threads still have work;
- a snapshot of the market taken under one lock and used under another;
- messages lost, repeated or late on the way to a gap detector;
- strategy callbacks that send orders while the runner is handing out fills.

`PROJECT.json` lists every hazard with its line and the properties that cover it.

## Modules

| Module | Models |
|--------|--------|
| `BatchedFifo` | what the queue promises: a private batch, published items, received items |
| `NonBlockingQueue` | the queue itself, one step per access to shared memory |
| `BatchedQueueOps` | the promise as operators on a value, used by the modules above the queue |
| `OrderGateway` | clients, channels and server |
| `OrderExecution` | bridge, fill simulator and engine view, on top of `OrderGateway` |
| `MergePipeline` | producers, mergers and dispatcher of both runners |
| `LimitOrderBooks` | `LimitOrderBook::apply` and `BookManager::apply` as functions of their state |
| `ShardedLob` | dispatcher and workers of the sharded processor, next to the sequential one |
| `AsyncSnapshotWriter` | the processor's thread and the writer thread |
| `MarketDataFeed` | publisher, subscriptions and gap detectors |
| `HistoricalStore` | `HistoricalLOB` and `HistoricalLobStore` as functions of their state |
| `SimulatedViews` | store, engine views, fill simulator and `SimulatedLOB`, with all threads that share them |
| `IntegratedBacktest` | adapter and integrated engine, on top of `HistoricalStore` |
| `IntegratedRunner` | the Python loop `run_many`, composed of `IntegratedBacktest` and `OrderGateway` |
| `BatchedQueueLemmas` | what the proofs need to know of `BatchedQueueOps` |
| `*Proofs` | theorems and proofs about the module they extend |
| `MC*` | constants for TLC |

The modules that use a queue rest on the refinement: because `NonBlockingQueue`
implements `BatchedFifo`, a queue call can be one atomic step on two sequences.
An empty `tryPop` is exact about flushed items (`EmptyMeansDrained`), which
`DrainNext` of the gateway needs.

### NonBlockingQueue

Nodes are numbered in allocation order; a node below `head` has been deleted.
`flush` is three steps (`Link`, `Notify`, `Advance`) and the consumer may run
between any two. `pop` loads `next`, and before sleeping looks again, as
`atomic::wait` does. `size` loads its two counters in either order, because the
loads are relaxed. The field `upto` of a node and the variables `sent` and
`received` are history. Memory order appears only where the code relies on it:
the release store of `next` is the step that publishes a batch.

### OrderGateway

Requests and events are the two queues of an `OrderChannel`. A drain is a loop of
steps (`DrainBegin`, `ProcessRequest`, `DrainNext`), so clients may push, flush
and drain between any two requests. `NewError`, `CancelError` and `ModifyError`
make the server's checks in its order. `known` is history: the order a client can
derive from the events it has dispatched. Timestamps, reject texts and replacing
the channel of a registered engine are left out.

### OrderExecution

One call of `drainAndProcessRequests` is the drain followed by one execution per
transition: `Submit`, one `Match` per iteration of the matching loop, `EndMatch`,
one `Emit` per fill, `StoreOrEraseMapping`. The historical book moves only between
calls, as on the backtest thread. `overlapped` is history: the orders for which
one drain accepted two requests, or a modify named another instrument.

### MergePipeline

A file is the sequence of its timestamps. `Topology` is what the flat runner or
`buildMergeTree` connects; the fan-in, 4 in the code, is a constant. A heap is a
set whose top is chosen by `EventComesBefore`. `GreedyMerge` is the reference.

### LimitOrderBooks and ShardedLob

An order of size 0 is absent. `ShardedLob` routes each event as
`updateRouterAndDispatch` does, applies it in a worker in two steps (apply, then
count), and applies it to `sequential` at once. `misdirected` is history: a cancel
has named an instrument other than its order's. Trade events stand for Trade, Fill
and None, which change no order. Values wrap nowhere within the bounds; the
64-bit level sums of the code are taken as natural numbers.

### AsyncSnapshotWriter

A critical section is one step. `notify_one` is a step of its own, after the
unlock. Spurious wake-ups can always happen. `finish` may be called again, as the
destructor does, and `write` may come after it.

### MarketDataFeed

`Publish` stands for the three publish calls; the content of a message is left
out. `Pop` is one message leaving a subscription, on its way to `Observe`. `Lose`
and `Repeat` are faults on that way: the program has sequence numbers so that an
engine can tell. They are marked external. A detector without an entry is one
whose last number is 0, because the code then expects 1. `taken`, `heard`,
`alarms`, `gaps`, `causes` and `faults` are history.

### HistoricalStore and SimulatedViews

The store and each `EngineView` hold their lock for one call; such a call is one
step. `submitLimitOrderResult` takes several: reserve an id, then per round a
snapshot, the best visible price and the consumption, and finally resting what is
left. A read with `SimulatedLOB` copies the store and then asks the view for
consumed and own orders, side by side. `peak` (the largest volume a level had),
`rested` and the field `atomic` of a finished read are history.

### IntegratedBacktest

`ProcessEvent` is `processEvent` up to the delivery of its messages: limit, filter,
`StoreApply`, the adapter's messages, numbering, queues and flush. Each `Deliver`
is one message reaching its callback. `snapshot_of` is history: the instrument of
the snapshot that the last event published.

### IntegratedRunner

One thread runs everything; what is open is the feed and what callbacks send. `pc`
and `turn` say where `run_many` is, `calling` that a strategy is in a callback and
may send. A callback returns or raises; `_invoke` turns any exception into the end
of the run. A request is pushed and flushed at once, as the binding does. A round of
`_drain_order_flow_many` is `DrainRequest`..., `FlushAcks`, `Dispatch`...,
`TryFill`..., with `waiting` and `kept` for `accepted_new_orders` and
`remaining_orders`. The 1000 rounds of the code are the constant `MaxRounds`.

`filled` and `journal` are history. `journal` is the diary each strategy could keep:
the orders it sent and the events it was told of, each with the time and the number
of the feed event in progress. `FillsAreDue` and `EarlierOrdersFirst` are stated over
it, so they do not depend on `activation`, on `known` or on the order of `waiting`,
which the code uses to decide. The limits `EarlierOrdersFirst` compares are those
the orders were sent with: a modify does not reach the waiting list (see
`runner_limit`).

## Runs

| Run | Bounds | Shows |
|-----|--------|-------|
| `queue` | 2 values, batches of 2, 3 pushes | `NonBlockingQueue` implements `BatchedFifo`; no lost wake-up; the store of `next` hits a live node; `size` does not wrap; an empty `tryPop` means drained; flushed items are delivered |
| `gateway` | 2 engines sharing an order id, 2 and 1 requests, 2 fills, batches of 2 | order sizes and status agree; terminal orders never change; events describe the orders; flushed requests are answered |
| `execution` | 1 engine, 2 orders, 3 requests, 2 price levels, 2 market moves | mappings and synthetic orders are one to one; levels are sums; resting orders match the gateway; fills reach their order within its limit; no liquidity is consumed twice |
| `filled_mapping` | as `execution`, 2 requests | violation, see Findings |
| `merge` | every folder of up to 3 files of up to 2 lines, and one of 5 files; fan-in 2; both strategies | the processed events are the reference merge; sorted files show no chronological violation; the end marker is last; the run returns |
| `sharded` | 2 workers, 2 instruments, 2 orders, 9 kinds of event, 5 events, a snapshot after 4 | shards equal the sequential processor; the router knows where orders rest; books are consistent; drains and finish return |
| `sharded_digest` | as `sharded`, 3 events | violation, see Findings |
| `snapshot_writer` | both modes, 5 snapshots | every submitted snapshot is written once, in order, before finish returns |
| `feed` | 2 engines, 2 instruments with 3 and 1 messages, batches of 2, 2 faults at one engine | each subscription holds what was published and not taken; no gap goes unreported; no alarm without a cause on that instrument; what is published is delivered |
| `views` | 2 engines, 2 prices, 2 and 1 orders, 2 store events, 1 read | fills at a level stay within what it once showed; a read of the own view is one moment; a view shows the private orders of its own engine only; calls return |
| `runner` | 2 strategies, 3 and 1 requests, 3 events of which 2 are accepted, latency 1, 3 rounds | a snapshot leaves every view equal to the book; no open order drops out of the waiting list; only requests use up the rounds; a strategy hears of a fill after the ack and the latency; no order overtakes an earlier one; no deadlock |
| `runner_limit` | as `runner`, with a second price | violation, see Findings |

Why the bounds are enough: a batch of 2 with 3 items has a full, a partial and an
empty batch; three requests can create, modify and cancel one order or overlap on
it; two levels of size 1 fill an order of size 2 in two steps; five files with a
fan-in of 2 make a tree of three levels with a queue passed up unmerged; five
events fill, flush and refill a worker's batch around a snapshot. Three
messages have a gap in the middle and one at the start; two store events remove or
shrink a level between any two steps of a submitted order; three requests send,
modify and cancel one order, or send two, from any callback. Counters are
bounded by `MaxPush`, `MaxRequests`, `MaxFills`, `MaxMoves`, `MaxEvents`,
`MaxSnapshots`, `MaxSeqNo`, `MaxFaults`, `MaxOrders`, `MaxReads` and `MaxInputs`. Deadlock checking is off where the program may stop: after the
last push, run, event, message, call or snapshot. The run of `runner` checks for
deadlock: a backtest ends as done, failed or raised and never hangs.

The strategies of `runner` only buy; a sell order takes the same steps with the
sides swapped in `CrossingFill`, which is not exercised there. Their orders have one
price and size; with `Fields <- MCLimitFields`, a second price, the same properties
hold, in 12 minutes instead of one and a half. Two accepted events are enough to
send two orders in one and fill both in the next, or to send them in both.

`RestingMatchesGateway` and `FillsReachOrder` except overlapped orders, and
`ShardsMatchSequential` and `RouterKnowsOrders` except misdirected cancels: there
the code behaves otherwise, as the two violation runs show.

### Fairness

Threads of the program are not stopped for ever by the scheduler, so a step that
stays enabled is taken: weak fairness of the code inside a call or a loop.

- `queue`: `flush` and `pop` proceed, and the consumer calls `pop` again, as the
  mergers, the dispatcher and the book workers do in their loops. Nothing forces a
  push, or a flush by the caller.
- `gateway`: the owner of the server registers each engine and keeps draining and
  flushing; `registerEngine` and `flushEvents` run between drains only, hence
  strong fairness. Clients keep draining events. Nothing forces a request, a fill,
  or a client's flush.
- `merge` and `sharded`: every thread runs; the merge only needs that some enabled
  step is taken, because every behaviour is finite.
- `feed`: whoever publishes flushes afterwards, and engines keep draining; nothing
  forces a message or a fault.
- `views`: a thread inside a call proceeds; no call and no store event is forced.
- `snapshot_writer`: both threads proceed inside their calls; no call and no
  spurious wake-up is forced.

## Findings

1. **A filled order may keep a mapping.** `docs/integrated_backtest_contracts.md:308`
   says "Erase mapping after full fill.". The bridge accepts a whole drain before it
   executes it. A new order of size 2 and its modify to size 1 in one drain: the
   new order's fill of 1 fills the modified order; the modify then rests a
   synthetic order and maps it to the filled order (`filled_mapping`).
2. **Sharded and sequential digests may differ.** A test requires "two-worker sharded
   digest matches sequential" (`tests/runners/HardLobIntegrationTest.cpp:515`). A cancel
   that names another instrument than its order's erases the router's entry and
   changes no book; a later cancel without instrument is unresolved in the sharded
   processor and applied in the sequential one (`sharded_digest`).

3. **A modified order is filled at its old limit.** The integrated runner decides
   fills from the ack of the new order and ignores the ack of a modify. A buy order
   lowered from limit 2 to limit 1 is filled at an ask of 2 (`runner_limit`), while
   `docs/explainability.md:125` says "buy limit `>= best ask` fills at best ask" and
   line 127 "non-crossing orders remain resting for later market states".

Two more things were read in the code and are not the subject of a run.
`docs/integrated_backtest_contracts.md:65` says "The strategy always sees the
post-event book state"; the runner's view takes the level of any update for the
best one, and learns of a clear of all books only from the next snapshot. And the
remainder of a partially filled order is not tried again by the runner.

## Proofs

All theorems hold for every value of the constants that satisfies the named
assumptions of the modules (batch sizes are positive, bounds are natural numbers,
request fields have their types).

- **`NonBlockingQueueProofs`**: `QueueInvariant` proves the inductive invariant
  `IInv`; from it follow `QueueTypeOK`, `QueueNoLostWakeup`,
  `QueueLinkTargetAlive`, `QueueSizeNeverWraps`, `QueueEmptyMeansDrained` and
  `QueueImplementsFifo`. None of these is inductive alone. The strengthening says
  that nodes form the chain 1, 2, ... with the tail at its end or one before
  (`ChainInv`); the producer's batch is what was pushed since the last link
  (`BatchInv`); every node ahead of the consumer holds its stretch of what was sent
  (`ContentInv`); so does what is left of the consumer's batch (`ConsumerInv`); and
  the counters count the history (`CountInv`). The refinement maps `Push`,
  `Link` and `Take` to the steps of `BatchedFifo` and everything else to stuttering.
- **`AsyncSnapshotWriterProofs`**: `WriterInvariant`, then `WriterNoLostWakeup`,
  `WriterSubmittedInOrder` and `WriterFinishWritesAll`. The strengthening adds which
  phases of the two threads go together (`PhaseInv`) and that the processor's count
  is the number of submitted snapshots until finish (`CountInv`).
- **`OrderGatewayProofs`**: `GatewayInvariant` (types and `OrderSizesAgree`, inductive
  together), then `GatewayTypeOK`, `GatewayOrderSizesAgree` and the action property
  `GatewayTerminalIsFinal`.
- **`MarketDataFeedProofs`**: `FeedInvariant`, then `FeedDeliversAll`,
  `FeedNoMissedGap` and `FeedNoFalseAlarm`, for any number of engines, instruments,
  messages and faults. The strengthening is `Detector`: the last number seen is at
  most the last one taken, and a detector that lags behind its subscription has a
  cause left for the gap it is going to report. `FeedComplete` is needed with it,
  since it says that the next message popped is the one after `taken`.

Only model-checked: all liveness properties (temporal reasoning under fairness is
beyond the prover's backends), the client's view of the events, order execution,
the merge, the sharded processor, the views and the runner. Their states are built
with folds over sets and sequences (level sums, cleared books, numbered messages),
and what a fold returns can be proved only by induction over the data, which is
out of the prover's reach as well.

Types are part of the inductive invariants and proved for the queue, the gateway,
the writer and the feed. No run checks a type invariant.

## Not modelled

- Parsing (JSON, Feather), file discovery, command line, benchmarks, printing and
  charts: conversions and input or output without state of interest.
- The Python strategy runner (`python/backtester/runner.py`): a sequential loop whose
  gateway answers each call at once.
- Portfolio and risk limits: arithmetic on one fill or order at a time.
- Of the integrated runner: `on_finish`, risk limits, logs,
  traces and the loading of files. `run` is `run_many` with one engine.
- Of the bindings: everything but the flush after a client call.
- Digests, counts and listings of books, which change nothing.
- A producer thread that cannot open its file throws, which ends the process.
- The queue's `notify_one` on a node that the consumer may already have deleted is
  taken by its effect on a sleeping thread.
