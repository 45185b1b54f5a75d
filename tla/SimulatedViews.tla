--------------------------- MODULE SimulatedViews ---------------------------
(***************************************************************************)
(* One HistoricalLobStore, one EngineView per engine, and the threads      *)
(* that share them: a writer applies market events to the store, and the   *)
(* thread of each engine submits orders with FillSimulator, cancels them,  *)
(* and reads its own and other engines' books with SimulatedLOB.           *)
(*                                                                         *)
(* The store and each view have a lock of their own, held for one call: a  *)
(* step of the model is one such call.  A submitted order and a read take  *)
(* several, and other threads move between them.  What a call copies out   *)
(* (the snapshot, the thread_local books) is private to its thread.        *)
(***************************************************************************)
EXTENDS HistoricalStore

CONSTANTS Engines,       \* engines, one view and one thread each
          Feed,          \* market events the writer may apply
          Requests,      \* orders an engine may submit
          MaxEvents,     \* bound on the events applied
          MaxOrders,     \* bound on the orders of each engine
          MaxReads       \* bound on the reads of each engine

ASSUME ViewsAssumption ==
    /\ Engines \subseteq Nat \ {Missing}
    /\ Feed \subseteq MarketEvent
    /\ Requests \subseteq [instrument: Instruments \cup {Missing}, side: ActiveSides \cup {"None"},
                           price: Prices \cup {Missing}, size: Nat]
    /\ MaxEvents \in Nat /\ MaxOrders \in [Engines -> Nat] /\ MaxReads \in [Engines -> Nat]

VARIABLES store,         \* books_ of the HistoricalLobStore
          next_order_id, \* next_order_id_ of each view
          own_orders,    \* own_orders_ of each view, as a set
          synthetic,     \* synthetic_books_ of each view
          consumed,      \* consumed_historical_liquidity_ of each view
          thread,        \* what each engine's thread is doing
          seen,          \* the book each engine has read, until its next call
          event_count,   \* history: events applied
          read_count,    \* history: reads begun
          peak,          \* history: the largest volume the store had at each level
          rested         \* history: levels at which each engine ever had an order

viewVars == <<next_order_id, own_orders, synthetic, consumed, rested>>
readVars == <<seen, read_count>>
feedVars == <<store, event_count, peak>>
vars == <<feedVars, viewVars, thread, readVars>>

AllLevels == [i \in Instruments |-> NoLevels]

\* A thread between calls, inside submitLimitOrderResult ("snapshot", "best",
\* "consume", "rest") or inside a read ("subtract", "add").
IdleThread == [at |-> "idle", request |-> [instrument |-> Missing, side |-> "None",
                                           price |-> Missing, size |-> 0],
               id |-> 0, snapshot |-> NoLevels, best |-> Missing,
               view |-> Missing, sides |-> {}, now |-> NoLevels]

\* A finished read: of which view, what it showed, the snapshot it began with,
\* and what the view would have shown had the read been a single step.
NothingSeen == [view |-> Missing, sides |-> {}, instrument |-> Missing, levels |-> NoLevels,
                snapshot |-> NoLevels, atomic |-> NoLevels]

Init ==
    /\ store = EmptyStore /\ event_count = 0 /\ peak = AllLevels
    /\ next_order_id = [e \in Engines |-> 1] /\ own_orders = [e \in Engines |-> {}]
    /\ synthetic = [e \in Engines |-> AllLevels] /\ consumed = [e \in Engines |-> AllLevels]
    /\ rested = [e \in Engines |-> {}]
    /\ thread = [e \in Engines |-> IdleThread]
    /\ seen = [e \in Engines |-> NothingSeen] /\ read_count = [e \in Engines |-> 0]

Idle(e) == thread[e].at = "idle"
Forget(e) == seen' = [seen EXCEPT ![e] = NothingSeen] /\ UNCHANGED read_count
Goto(e, at) == thread' = [thread EXCEPT ![e].at = at]

------------------------------------------------------------------------------
(* The writer. *)

Highest(m, n) == IF m < n THEN n ELSE m

ApplyEvent(event) ==
    /\ event_count < MaxEvents
    /\ event_count' = event_count + 1
    /\ store' = StoreApply(store, event)
    /\ peak' = [i \in Instruments |-> [s \in ActiveSides |-> [p \in Prices |->
                   Highest(peak[i][s][p], store'[i].levels[s][p])]]]
    /\ UNCHANGED <<viewVars, thread, readVars>>

------------------------------------------------------------------------------
(* EngineView: each operation holds the view's lock. *)

HasValidRequest(r) ==
    r.instrument # Missing /\ r.side \in ActiveSides /\ r.price # Missing /\ r.size > 0

Reserve(e) == next_order_id' = [next_order_id EXCEPT ![e] = @ + 1]

\* addSyntheticOrderWithId, and the second half of addSyntheticOrder.
AddOwnOrder(e, id, r) ==
    /\ own_orders' = [own_orders EXCEPT ![e] = @ \cup {[id |-> id, order |-> r]}]
    /\ synthetic' = [synthetic EXCEPT ![e][r.instrument] = AddVolume(@, r.side, r.price, r.size)]
    /\ rested' = [rested EXCEPT ![e] = @ \cup {<<r.instrument, r.side, r.price>>}]

AddSyntheticOrder(e, r) ==
    /\ Idle(e) /\ HasValidRequest(r) /\ next_order_id[e] <= MaxOrders[e]
    /\ Reserve(e)
    /\ AddOwnOrder(e, next_order_id[e], r)
    /\ Forget(e)
    /\ UNCHANGED <<feedVars, consumed, thread>>

CancelSyntheticOrder(e, own) ==
    /\ Idle(e)
    /\ own \in own_orders[e]
    /\ own_orders' = [own_orders EXCEPT ![e] = @ \ {own}]
    /\ synthetic' = [synthetic EXCEPT ![e][own.order.instrument] =
                        TakeVolume(@, own.order.side, own.order.price, own.order.size)]
    /\ Forget(e)
    /\ UNCHANGED <<feedVars, next_order_id, consumed, rested, thread>>

------------------------------------------------------------------------------
(* FillSimulator::submitLimitOrderResult. *)

Opposite(s) == IF s = "Bid" THEN "Ask" ELSE "Bid"

Submit(e, r) ==
    /\ Idle(e) /\ HasValidRequest(r) /\ next_order_id[e] <= MaxOrders[e]
    /\ Reserve(e)
    /\ thread' = [thread EXCEPT ![e].at = "snapshot", ![e].request = r, ![e].id = next_order_id[e]]
    /\ Forget(e)
    /\ UNCHANGED <<feedVars, own_orders, synthetic, consumed, rested>>

TakeSnapshot(e) ==
    /\ thread[e].at = "snapshot"
    /\ thread' = [thread EXCEPT ![e].at = "best",
                                ![e].snapshot = store[thread[e].request.instrument].levels]
    /\ UNCHANGED <<feedVars, viewVars, readVars>>

\* Subtracting one book of levels from another, level by level.
Less(levels, taken) ==
    [s \in ActiveSides |-> [p \in Prices |-> TakeVolume(levels, s, p, taken[s][p])[s][p]]]

\* Faulty: what the engine has consumed is offered to it again.
VisibleHistoricalAll(e, i, snapshot) == snapshot

VisibleHistorical(e, i, snapshot) == Less(snapshot, consumed[e][i])

\* Faulty: a level that is used up is still a level.
CrossingPricesWithEmpty(r, visible) ==
    {p \in Prices : ~Better(r.side, p, r.price)}

CrossingPrices(r, visible) ==
    {p \in PricesOf(visible[Opposite(r.side)]) : ~Better(r.side, p, r.price)}

\* The best visible level: it crosses the limit, or the order is done matching.
FindBest(e) ==
    /\ thread[e].at = "best"
    /\ LET r == thread[e].request
           visible == VisibleHistorical(e, r.instrument, thread[e].snapshot)
           crossing == CrossingPrices(r, visible)
       IN  \/ /\ crossing = {}
              /\ Goto(e, "rest")
           \/ /\ crossing # {}
              /\ thread' = [thread EXCEPT ![e].at = "consume", ![e].snapshot = visible,
                               ![e].best = CHOOSE p \in crossing :
                                   \A q \in crossing \ {p} : Better(Opposite(r.side), p, q)]
    /\ UNCHANGED <<feedVars, viewVars, readVars>>

\* consumeHistoricalLiquidity, and the end of one round of the loop.
Consume(e) ==
    /\ thread[e].at = "consume"
    /\ LET r == thread[e].request
           s == Opposite(r.side)
           size == Min({r.size, thread[e].snapshot[s][thread[e].best]})
       IN  /\ consumed' = [consumed EXCEPT ![e][r.instrument] = AddVolume(@, s, thread[e].best, size)]
           /\ thread' = [thread EXCEPT ![e] =
                 IF r.size = size THEN IdleThread
                 ELSE [@ EXCEPT !.at = "snapshot", !.request.size = @ - size,
                                !.snapshot = NoLevels, !.best = Missing]]
    /\ UNCHANGED <<feedVars, next_order_id, own_orders, synthetic, rested, readVars>>

Rest(e) ==
    /\ thread[e].at = "rest"
    /\ AddOwnOrder(e, thread[e].id, thread[e].request)
    /\ thread' = [thread EXCEPT ![e] = IdleThread]
    /\ UNCHANGED <<feedVars, next_order_id, consumed, readVars>>

------------------------------------------------------------------------------
(* SimulatedLOB: snapshot reads both sides, bestBid and bestAsk one.  The      *)
(* store is read once; then for each side what the view has consumed is taken  *)
(* off, and the view's own orders are added.                                   *)

Plus(levels, added) == [s \in ActiveSides |-> [p \in Prices |-> levels[s][p] + added[s][p]]]

\* What the view of f shows of instrument i, all at once.
VisibleBook(f, i) == Plus(Less(store[i].levels, consumed[f][i]), synthetic[f][i])

BeginRead(e, f, i, sides) ==
    /\ Idle(e) /\ read_count[e] < MaxReads[e]
    /\ read_count' = [read_count EXCEPT ![e] = @ + 1]
    /\ thread' = [thread EXCEPT ![e].at = "subtract", ![e].view = f, ![e].sides = sides,
                                ![e].now = VisibleBook(f, i)]
    /\ seen' = [seen EXCEPT ![e] = [NothingSeen EXCEPT !.snapshot = store[i].levels,
                                                       !.instrument = i]]
    /\ UNCHANGED <<feedVars, viewVars>>

\* The side a read works on: bids before asks.
SideOf(sides) == IF "Bid" \in sides THEN "Bid" ELSE "Ask"

\* Faulty: each side is taken from the store when its turn comes.
SideSnapshotLate(e, s) == store[seen[e].instrument].levels[s]

SideSnapshot(e, s) == seen[e].snapshot[s]

SubtractConsumed(e) ==
    /\ thread[e].at = "subtract"
    /\ LET s == SideOf(thread[e].sides)
           i == seen[e].instrument
           whole == [NoLevels EXCEPT ![s] = SideSnapshot(e, s)]
       IN  seen' = [seen EXCEPT ![e].levels[s] = Less(whole, consumed[thread[e].view][i])[s]]
    /\ Goto(e, "add")
    /\ UNCHANGED <<feedVars, viewVars, read_count>>

\* Faulty: the reader's own orders are added to whatever view it reads.
SyntheticOfReader(e, f) == synthetic[e]

SyntheticOf(e, f) == synthetic[f]

AddSynthetic(e) ==
    /\ thread[e].at = "add"
    /\ LET f == thread[e].view
           s == SideOf(thread[e].sides)
           left == thread[e].sides \ {s}
           levels == [seen[e].levels EXCEPT ![s] = [p \in Prices |->
                         @[p] + SyntheticOf(e, f)[seen[e].instrument][s][p]]]
       IN  IF left # {}
           THEN /\ seen' = [seen EXCEPT ![e].levels = levels, ![e].sides = @ \cup {s}]
                /\ thread' = [thread EXCEPT ![e].at = "subtract", ![e].sides = left]
           ELSE /\ seen' = [seen EXCEPT ![e] = [@ EXCEPT !.levels = levels, !.sides = @ \cup {s},
                                                         !.view = f, !.atomic = thread[e].now]]
                /\ thread' = [thread EXCEPT ![e] = IdleThread]
    /\ UNCHANGED <<feedVars, viewVars, read_count>>

------------------------------------------------------------------------------
Step(e) == TakeSnapshot(e) \/ FindBest(e) \/ Consume(e) \/ Rest(e)
           \/ SubtractConsumed(e) \/ AddSynthetic(e)

Call(e) ==
    \/ \E r \in Requests : Submit(e, r) \/ AddSyntheticOrder(e, r)
    \/ \E own \in own_orders[e] : CancelSyntheticOrder(e, own)
    \/ \E f \in Engines, i \in Instruments, sides \in SUBSET ActiveSides \ {{}} :
           BeginRead(e, f, i, sides)

Next == (\E event \in Feed : ApplyEvent(event)) \/ \E e \in Engines : Call(e) \/ Step(e)

Spec == Init /\ [][Next]_vars

\* A thread inside a call is scheduled again, whatever the other threads do.
FairSpec == Spec /\ \A e \in Engines : WF_vars(Step(e))

------------------------------------------------------------------------------
(* Properties. *)

\* With the writer changing levels between the snapshot of a round and the
\* consumption, an engine's fills at a level never add up to more than the
\* store once showed there.
FillsWereShown ==
    \A e \in Engines, i \in Instruments, s \in ActiveSides, p \in Prices :
        consumed[e][i][s][p] <= peak[i][s][p]

\* A read of one's own view is a single moment of the book: bids and asks both
\* belong to the instant the store was read, although the store moves on and
\* the two sides are put together in four more calls.
OwnReadIsAtomic ==
    \A e \in Engines : seen[e].view = e =>
        \A s \in seen[e].sides : seen[e].levels[s] = seen[e].atomic[s]

\* "other engine does not see this engine's private bid": beyond the store's
\* volume, a read of a view shows only levels at which that view's engine had
\* an order, while all engines submit and cancel.
NeighbourIsolation ==
    \A e \in Engines, s \in ActiveSides, p \in Prices :
        seen[e].view # Missing /\ seen[e].levels[s][p] > seen[e].snapshot[s][p]
            => <<seen[e].instrument, s, p>> \in rested[seen[e].view]

\* Every submitted order and every read comes to an end: each round of the
\* matching loop fills something, even while the writer refills the levels.
CallsReturn == \A e \in Engines : thread[e].at # "idle" ~> thread[e].at = "idle"
==============================================================================
