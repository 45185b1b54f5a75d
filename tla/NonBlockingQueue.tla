-------------------------- MODULE NonBlockingQueue --------------------------
(***************************************************************************)
(* concurrency/NonBlockingQueue.hpp: the unbounded batched queue between   *)
(* one producer thread and one consumer thread.  Nodes are numbered in the *)
(* order they are allocated; node 1 is the sentinel the constructor        *)
(* allocates.  A node numbered below head has been deleted.                *)
(*                                                                         *)
(* Each action is one access to memory the two threads share, together     *)
(* with the thread-private work around it.  The producer's flush is three  *)
(* such accesses (the release store of next, notify_one, the move of the   *)
(* tail) and the consumer can run between any two of them.                 *)
(***************************************************************************)
EXTENDS Integers, Sequences

CONSTANTS Items,       \* the values pushed
          BatchSize,   \* batch_size_
          MaxPush      \* bound on the number of pushes

ASSUME BatchSizeAssumption == BatchSize \in Nat \ {0}
ASSUME MaxPushAssumption == MaxPush \in Nat

NullPtr == 0
NotLoaded == -1

VARIABLES nodes,           \* the linked list of BatchNodes, in allocation order
          head,            \* head_
          tail,            \* tail_
          producer_batch,  \* producer_batch_
          consumer_batch,  \* consumer_batch_
          consumer_index,  \* consumer_index_: how many of the batch are popped
          enqueued_count,  \* enqueued_count_
          dequeued_count,  \* dequeued_count_
          ppc,             \* the producer: idle, or inside flush()
          cpc,             \* the consumer: idle, or inside pop() or tryPop()
          blocking,        \* the consumer's current call is pop(), not tryPop()
          loads,           \* what a size() call in progress has loaded
          sent,            \* history: every value pushed
          received         \* history: every value returned to the consumer

producerVars == <<tail, producer_batch, enqueued_count, ppc, sent>>
consumerVars == <<head, consumer_batch, consumer_index, dequeued_count, blocking, received>>
vars == <<nodes, producerVars, consumerVars, cpc, loads>>

\* upto is a history field: how many values had been pushed when the node's
\* batch was taken, so node n carries sent[nodes[n-1].upto + 1 .. nodes[n].upto].
BatchNode(items, upto) == [items |-> items, next |-> NullPtr, upto |-> upto]

TypeOK ==
    /\ nodes \in Seq([items: Seq(Items), next: Nat, upto: Nat])
    /\ head \in 1..Len(nodes) /\ tail \in 1..Len(nodes)
    /\ producer_batch \in Seq(Items) /\ consumer_batch \in Seq(Items)
    /\ consumer_index \in 0..Len(consumer_batch)
    /\ enqueued_count \in Nat /\ dequeued_count \in Nat
    /\ ppc \in {"idle", "link", "notify", "advance"}
    /\ cpc \in {"idle", "load", "wait", "asleep", "acquire", "take"}
    /\ blocking \in BOOLEAN
    /\ loads \in [enqueued: Nat \cup {NotLoaded}, dequeued: Nat \cup {NotLoaded}]
    /\ sent \in Seq(Items) /\ received \in Seq(Items)

Init ==
    /\ nodes = <<BatchNode(<<>>, 0)>>
    /\ head = 1 /\ tail = 1
    /\ producer_batch = <<>> /\ consumer_batch = <<>> /\ consumer_index = 0
    /\ enqueued_count = 0 /\ dequeued_count = 0
    /\ ppc = "idle" /\ cpc = "idle" /\ blocking = FALSE
    /\ loads = [enqueued |-> NotLoaded, dequeued |-> NotLoaded]
    /\ sent = <<>> /\ received = <<>>

------------------------------------------------------------------------------
(* The producer thread. *)

Push(v) ==
    /\ ppc = "idle"
    /\ Len(sent) < MaxPush
    /\ producer_batch' = Append(producer_batch, v)
    /\ enqueued_count' = enqueued_count + 1
    /\ ppc' = IF Len(producer_batch') >= BatchSize THEN "link" ELSE "idle"
    /\ sent' = Append(sent, v)
    /\ UNCHANGED <<nodes, tail, consumerVars, cpc, loads>>

\* An explicit flush(); with an empty batch it returns at once.
FlushCall ==
    /\ ppc = "idle"
    /\ producer_batch # <<>>
    /\ ppc' = "link"
    /\ UNCHANGED <<nodes, tail, producer_batch, enqueued_count, sent, consumerVars, cpc, loads>>

\* Faulty: the batch is copied into the node and not cleared.
LinkCopiesBatch ==
    /\ ppc = "link"
    /\ nodes' = Append([nodes EXCEPT ![tail].next = Len(nodes) + 1],
                       BatchNode(producer_batch, Len(sent)))
    /\ ppc' = "notify"
    /\ UNCHANGED <<tail, producer_batch, enqueued_count, sent, consumerVars, cpc, loads>>

\* A new node takes the batch and is published by the release store into the
\* old tail's next.
Link ==
    /\ ppc = "link"
    /\ nodes' = Append([nodes EXCEPT ![tail].next = Len(nodes) + 1],
                       BatchNode(producer_batch, Len(sent)))
    /\ producer_batch' = <<>>
    /\ ppc' = "notify"
    /\ UNCHANGED <<tail, enqueued_count, sent, consumerVars, cpc, loads>>

\* Faulty: no notify_one.
NotifyNobody ==
    /\ ppc = "notify"
    /\ ppc' = "advance"
    /\ UNCHANGED <<nodes, tail, producer_batch, enqueued_count, sent, consumerVars, cpc, loads>>

\* tail_->next.notify_one(): wakes the consumer if it sleeps on that node.
Notify ==
    /\ ppc = "notify"
    /\ cpc' = IF cpc = "asleep" /\ head = tail THEN "load" ELSE cpc
    /\ ppc' = "advance"
    /\ UNCHANGED <<nodes, tail, producer_batch, enqueued_count, sent, consumerVars, loads>>

\* Faulty: tail_ is not moved to the new node.
AdvanceForgotten ==
    /\ ppc = "advance"
    /\ ppc' = "idle"
    /\ UNCHANGED <<nodes, tail, producer_batch, enqueued_count, sent, consumerVars, cpc, loads>>

Advance ==
    /\ ppc = "advance"
    /\ tail' = Len(nodes)
    /\ ppc' = "idle"
    /\ UNCHANGED <<nodes, producer_batch, enqueued_count, sent, consumerVars, cpc, loads>>

------------------------------------------------------------------------------
(* The consumer thread. *)

\* Faulty: off by one, the last item of a batch is thrown away with the batch.
PopCallDropsLast(b) ==
    /\ cpc = "idle"
    /\ blocking' = b
    /\ \/ /\ consumer_index + 1 < Len(consumer_batch)
          /\ cpc' = "take"
          /\ UNCHANGED <<consumer_batch, consumer_index>>
       \/ /\ consumer_index + 1 >= Len(consumer_batch)
          /\ cpc' = "load"
          /\ consumer_batch' = <<>>
          /\ consumer_index' = 0
    /\ UNCHANGED <<nodes, head, dequeued_count, received, producerVars, loads>>

\* pop() (b) and tryPop() (~b): an exhausted batch is cleared before the next
\* one is looked for.
PopCall(b) ==
    /\ cpc = "idle"
    /\ blocking' = b
    /\ \/ /\ consumer_index < Len(consumer_batch)
          /\ cpc' = "take"
          /\ UNCHANGED <<consumer_batch, consumer_index>>
       \/ /\ consumer_index >= Len(consumer_batch)
          /\ cpc' = "load"
          /\ consumer_batch' = <<>>
          /\ consumer_index' = 0
    /\ UNCHANGED <<nodes, head, dequeued_count, received, producerVars, loads>>

\* The acquire load of head_->next found a node.
LoadFound ==
    /\ cpc = "load"
    /\ nodes[head].next # NullPtr
    /\ cpc' = "acquire"
    /\ UNCHANGED <<nodes, producerVars, consumerVars, loads>>

\* pop() found none and is about to wait.
LoadNone ==
    /\ cpc = "load"
    /\ nodes[head].next = NullPtr
    /\ blocking
    /\ cpc' = "wait"
    /\ UNCHANGED <<nodes, producerVars, consumerVars, loads>>

\* tryPop() found none and returns nullopt.
TryPopEmpty ==
    /\ cpc = "load"
    /\ nodes[head].next = NullPtr
    /\ ~blocking
    /\ cpc' = "idle"
    /\ UNCHANGED <<nodes, producerVars, consumerVars, loads>>

\* Faulty: sleeps without looking at the value again.
WaitUnchecked ==
    /\ cpc = "wait"
    /\ cpc' = "asleep"
    /\ UNCHANGED <<nodes, producerVars, consumerVars, loads>>

\* head_->next.wait(nullptr) sleeps only if the value is still null.
Wait ==
    /\ cpc = "wait"
    /\ cpc' = IF nodes[head].next = NullPtr THEN "asleep" ELSE "load"
    /\ UNCHANGED <<nodes, producerVars, consumerVars, loads>>

\* The batch is swapped out of the next node and the old head is deleted.
Acquire ==
    /\ cpc = "acquire"
    /\ LET next == nodes[head].next
       IN  /\ consumer_batch' = nodes[next].items
           /\ nodes' = [nodes EXCEPT ![next].items = <<>>]
           /\ head' = next
    /\ cpc' = "take"
    /\ UNCHANGED <<consumer_index, dequeued_count, blocking, received, producerVars, loads>>

Take ==
    /\ cpc = "take"
    /\ dequeued_count' = dequeued_count + 1
    /\ consumer_index' = consumer_index + 1
    /\ received' = Append(received, consumer_batch[consumer_index + 1])
    /\ cpc' = "idle"
    /\ UNCHANGED <<nodes, head, consumer_batch, blocking, producerVars, loads>>

------------------------------------------------------------------------------
(* size(), called by any thread: two relaxed loads, so in either order. *)

LoadCount(c, value) ==
    /\ loads[c] = NotLoaded
    /\ loads' = [loads EXCEPT ![c] = value]
    /\ UNCHANGED <<nodes, producerVars, consumerVars, cpc>>

SizeReturn ==
    /\ loads.enqueued # NotLoaded /\ loads.dequeued # NotLoaded
    /\ loads' = [enqueued |-> NotLoaded, dequeued |-> NotLoaded]
    /\ UNCHANGED <<nodes, producerVars, consumerVars, cpc>>

\* Faulty: no check that the loads are in order, so the difference wraps.
SizeUnchecked(enqueued, dequeued) == (enqueued - dequeued) % 2^16

\* The value size() returns for the counts it has loaded.
Size(enqueued, dequeued) == IF enqueued >= dequeued THEN enqueued - dequeued ELSE 0

------------------------------------------------------------------------------
Flushing == Link \/ Notify \/ Advance
Popping == LoadFound \/ LoadNone \/ Wait \/ Acquire \/ Take

Next == \/ \E v \in Items : Push(v)
        \/ FlushCall \/ Link \/ Notify \/ Advance
        \/ \E b \in BOOLEAN : PopCall(b)
        \/ LoadFound \/ LoadNone \/ TryPopEmpty \/ Wait \/ Acquire \/ Take
        \/ LoadCount("enqueued", enqueued_count)
        \/ LoadCount("dequeued", dequeued_count)
        \/ SizeReturn

Spec == Init /\ [][Next]_vars

\* A thread inside flush() or pop() runs on, and the consumer loops on pop(),
\* as the merger, dispatcher and book-worker threads do.
FairSpec == /\ Spec
            /\ WF_vars(Flushing)
            /\ WF_vars(Popping)
            /\ WF_vars(PopCall(TRUE))

------------------------------------------------------------------------------
(* Properties. *)

Flushed == nodes[Len(nodes)].upto

\* A consumer asleep in pop() although a batch is linked behind its node is
\* about to be woken: the producer is between the store of next and its
\* notify_one, and will notify the very node the consumer sleeps on.
NoLostWakeup ==
    cpc = "asleep" /\ nodes[head].next # NullPtr => ppc = "notify" /\ tail = head

\* The store of next in flush() goes to a node the consumer has not deleted.
LinkTargetAlive == ppc = "link" => tail >= head

\* The queue is a batched FIFO: nothing lost, duplicated or reordered, nothing
\* delivered before its batch is linked, batches never above batch_size_.
Fifo == INSTANCE BatchedFifo
            WITH pending <- producer_batch,
                 visible <- SubSeq(sent, Len(received) + 1, Flushed)
FifoSpec == Fifo!Spec

\* tryPop() returns nullopt only when every flushed item has been popped.
EmptyMeansDrained ==
    [][cpc = "load" /\ cpc' = "idle" => Len(received) = Flushed]_vars

\* size() never wraps below zero, however pushes and pops fall between its two
\* loads: it reports no more than was ever pushed.
SizeNeverWraps ==
    loads.enqueued # NotLoaded /\ loads.dequeued # NotLoaded
        => Size(loads.enqueued, loads.dequeued) <= enqueued_count

\* Every flushed item reaches a consumer that keeps calling pop().
FlushedDelivered == \A i \in 1..MaxPush : Flushed >= i ~> Len(received) >= i
==============================================================================
