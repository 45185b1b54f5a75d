----------------------------- MODULE BatchedFifo -----------------------------
(***************************************************************************)
(* What a batched single-producer single-consumer queue promises, with no  *)
(* nodes, pointers or wake-ups: a producer-private batch, the items that   *)
(* have been flushed and not yet popped, and what has been popped.         *)
(* NonBlockingQueue implements this specification; BatchedQueueOps holds   *)
(* the same two sequences as a value for the modules that use a queue.     *)
(***************************************************************************)
EXTENDS Naturals, Sequences

CONSTANTS Items,       \* the values pushed
          BatchSize    \* batch_size_: a full batch is flushed by push itself

VARIABLES pending,     \* pushed and not flushed: invisible to the consumer
          visible,     \* flushed and not popped
          received     \* history: what pop and tryPop have returned

vars == <<pending, visible, received>>

TypeOK == /\ pending \in Seq(Items)
          /\ visible \in Seq(Items)
          /\ received \in Seq(Items)

Init == /\ pending = <<>>
        /\ visible = <<>>
        /\ received = <<>>

\* A full batch is flushed before the producer pushes again.
Push(v) == /\ Len(pending) < BatchSize
           /\ pending' = Append(pending, v)
           /\ UNCHANGED <<visible, received>>

Flush == /\ pending # <<>>
         /\ visible' = visible \o pending
         /\ pending' = <<>>
         /\ UNCHANGED received

Pop == /\ visible # <<>>
       /\ received' = Append(received, Head(visible))
       /\ visible' = Tail(visible)
       /\ UNCHANGED pending

Next == (\E v \in Items : Push(v)) \/ Flush \/ Pop

Spec == Init /\ [][Next]_vars
==============================================================================
