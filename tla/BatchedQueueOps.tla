--------------------------- MODULE BatchedQueueOps ---------------------------
(***************************************************************************)
(* NonBlockingQueue as the modules above it use it: the two sequences of   *)
(* BatchedFifo, held as a value, with one operator per call.  A call takes *)
(* effect at one point (NonBlockingQueue implements BatchedFifo), so a     *)
(* module may use it inside an atomic step.                                *)
(***************************************************************************)
EXTENDS Naturals, Sequences

EmptyQueue == [pending |-> <<>>, visible |-> <<>>]

Queues(S) == [pending: Seq(S), visible: Seq(S)]

QueueFlush(q) == [pending |-> <<>>, visible |-> q.visible \o q.pending]

\* push: a batch that reaches its size is flushed by the push itself.
QueuePush(q, v, batch_size) ==
    LET pushed == [pending |-> Append(q.pending, v), visible |-> q.visible]
    IN  IF Len(pushed.pending) >= batch_size THEN QueueFlush(pushed) ELSE pushed

QueuePop(q) == [pending |-> q.pending, visible |-> Tail(q.visible)]

\* Everything in the queue, in the order it will be popped.
QueueContents(q) == q.visible \o q.pending
==============================================================================
