----------------------- MODULE NonBlockingQueueProofs -----------------------
(***************************************************************************)
(* Proofs about NonBlockingQueue for every batch size and every number of  *)
(* pushes: the inductive invariant, the wake-up and lifetime invariants,   *)
(* and that the queue implements BatchedFifo.                              *)
(***************************************************************************)
EXTENDS NonBlockingQueue, SequenceTheorems, TLAPS

\* The list is the chain 1, 2, ..., Len(nodes), and the tail is its last node
\* except between the store of next and the move of the tail.
ChainInv ==
    /\ \A n \in 1..Len(nodes) : nodes[n].next = IF n < Len(nodes) THEN n + 1 ELSE NullPtr
    /\ ppc \in {"idle", "link"} => tail = Len(nodes)
    /\ ppc \in {"notify", "advance"} => tail = Len(nodes) - 1

\* The producer's batch is what has been pushed since the last Link.
BatchInv ==
    /\ Flushed + Len(producer_batch) = Len(sent)
    /\ \A i \in 1..Len(producer_batch) : producer_batch[i] = sent[Flushed + i]
    /\ ppc = "idle" => Len(producer_batch) < BatchSize
    /\ ppc = "link" => Len(producer_batch) > 0
    /\ ppc \in {"notify", "advance"} => producer_batch = <<>>

\* Every node the consumer has not reached holds the stretch of sent between
\* its predecessor's upto and its own.
ContentInv ==
    /\ \A m, n \in 1..Len(nodes) : m < n => nodes[m].upto < nodes[n].upto
    /\ \A n \in (head + 1)..Len(nodes) :
           /\ Len(nodes[n].items) = nodes[n].upto - nodes[n - 1].upto
           /\ \A i \in 1..Len(nodes[n].items) :
                  nodes[n].items[i] = sent[nodes[n - 1].upto + i]

\* What is left of the consumer's batch is the stretch of sent after received
\* and up to its node's upto.
ConsumerInv ==
    /\ Len(received) + Len(consumer_batch) - consumer_index = nodes[head].upto
    /\ \A i \in (consumer_index + 1)..Len(consumer_batch) :
           consumer_batch[i] = sent[Len(received) - consumer_index + i]
    /\ cpc \in {"load", "wait", "asleep", "acquire"}
           => consumer_batch = <<>> /\ consumer_index = 0
    /\ cpc = "acquire" => nodes[head].next # NullPtr
    /\ cpc = "take" => consumer_index < Len(consumer_batch)

CountInv == /\ enqueued_count = Len(sent)
            /\ loads.enqueued <= enqueued_count

IInv == /\ TypeOK /\ ChainInv /\ BatchInv /\ ContentInv /\ ConsumerInv /\ CountInv
        /\ NoLostWakeup

BatchNodes == [items: Seq(Items), next: Nat, upto: Nat]

------------------------------------------------------------------------------
(* The types of everything the invariant measures. *)

\* What TypeOK says of lengths, indices and the fields of each node.
LEMMA TypeFacts ==
    ASSUME TypeOK
    PROVE  /\ Len(nodes) \in Nat /\ Len(sent) \in Nat /\ Len(received) \in Nat
           /\ Len(producer_batch) \in Nat /\ Len(consumer_batch) \in Nat
           /\ head \in 1..Len(nodes) /\ tail \in 1..Len(nodes)
           /\ consumer_index \in 0..Len(consumer_batch)
           /\ \A n \in 1..Len(nodes) :
                 /\ nodes[n] \in BatchNodes
                 /\ nodes[n].upto \in Nat /\ nodes[n].next \in Nat
                 /\ nodes[n].items \in Seq(Items) /\ Len(nodes[n].items) \in Nat
<1>1. nodes \in Seq(BatchNodes) /\ Len(nodes) \in Nat
  BY DEF TypeOK, BatchNodes
<1>2. \A n \in 1..Len(nodes) : nodes[n] \in BatchNodes
  BY <1>1, ElementOfSeq
<1>3. \A r \in BatchNodes : /\ r.upto \in Nat /\ r.next \in Nat
                            /\ r.items \in Seq(Items) /\ Len(r.items) \in Nat
  BY DEF BatchNodes
<1>4. /\ Len(sent) \in Nat /\ Len(received) \in Nat
      /\ Len(producer_batch) \in Nat /\ Len(consumer_batch) \in Nat
      /\ head \in 1..Len(nodes) /\ tail \in 1..Len(nodes)
      /\ consumer_index \in 0..Len(consumer_batch)
  BY DEF TypeOK
<1> QED
  BY <1>1, <1>2, <1>3, <1>4

\* The i-th position of the stretch after a and up to b lies below c.
LEMMA StretchBound ==
    ASSUME NEW a \in Nat, NEW b \in Nat, NEW c \in Nat, b <= c, NEW i \in 1..(b - a)
    PROVE  a + i \in 1..c
OBVIOUS

\* No node reaches beyond what was flushed, nor the flushed beyond what was sent.
LEMMA FlushedBound ==
    ASSUME TypeOK, BatchInv, ContentInv
    PROVE  /\ Flushed \in Nat /\ Flushed <= Len(sent)
           /\ \A n \in 1..Len(nodes) : nodes[n].upto <= Flushed
<1>1. Len(nodes) \in 1..Len(nodes) /\ Flushed \in Nat
  BY TypeFacts DEF Flushed
<1>2. Flushed <= Len(sent)
  BY <1>1, TypeFacts DEF BatchInv
<1>3. ASSUME NEW n \in 1..Len(nodes) PROVE nodes[n].upto <= Flushed
  <2>1. CASE n = Len(nodes)
    BY <1>1, <2>1 DEF Flushed
  <2>2. CASE n < Len(nodes)
    <3>1. nodes[n].upto < nodes[Len(nodes)].upto
      BY <1>1, <2>2 DEF ContentInv
    <3>2. nodes[n].upto \in Nat
      BY TypeFacts
    <3> QED
      BY <1>1, <3>1, <3>2 DEF Flushed
  <2> QED
    BY <2>1, <2>2, TypeFacts
<1> QED
  BY <1>1, <1>2, <1>3

------------------------------------------------------------------------------
(* What the two steps that change the list do to it, field by field. *)

\* Link appends a node that holds the producer's batch and changes only the
\* next of the old tail.
LEMMA LinkNodes ==
    ASSUME TypeOK, Link
    PROVE  /\ nodes' \in Seq(BatchNodes)
           /\ Len(nodes') = Len(nodes) + 1
           /\ \A n \in 1..Len(nodes) :
                 /\ nodes'[n].items = nodes[n].items
                 /\ nodes'[n].upto = nodes[n].upto
                 /\ nodes'[n].next = IF n = tail THEN Len(nodes) + 1 ELSE nodes[n].next
           /\ nodes'[Len(nodes) + 1] = BatchNode(producer_batch, Len(sent))
<1> DEFINE linked == [nodes EXCEPT ![tail].next = Len(nodes) + 1]
           new == BatchNode(producer_batch, Len(sent))
<1>1. nodes \in Seq(BatchNodes) /\ tail \in 1..Len(nodes) /\ Len(nodes) \in Nat
  BY DEF TypeOK, BatchNodes
<1>2. new \in BatchNodes
  BY DEF TypeOK, BatchNodes, BatchNode, NullPtr
<1>3. /\ linked \in Seq(BatchNodes)
      /\ Len(linked) = Len(nodes)
      /\ \A n \in 1..Len(nodes) :
            /\ linked[n].items = nodes[n].items
            /\ linked[n].upto = nodes[n].upto
            /\ linked[n].next = IF n = tail THEN Len(nodes) + 1 ELSE nodes[n].next
  <2> DEFINE node == [nodes[tail] EXCEPT !.next = Len(nodes) + 1]
  <2>1. nodes[tail] \in BatchNodes
    BY <1>1, ElementOfSeq
  <2>2. node = [items |-> nodes[tail].items, next |-> Len(nodes) + 1,
                upto |-> nodes[tail].upto]
    BY <2>1 DEF BatchNodes
  <2>3. linked = [nodes EXCEPT ![tail] = node]
    OBVIOUS
  <2>4. node \in BatchNodes
    BY <1>1, <2>1, <2>2 DEF BatchNodes
  <2> HIDE DEF node, linked
  <2> QED
    BY <1>1, <2>2, <2>3, <2>4, ExceptSeq
<1>4. nodes' = Append(linked, new)
  BY DEF Link
<1> HIDE DEF linked, new
<1>5. /\ Len(Append(linked, new)) = Len(linked) + 1
      /\ Append(linked, new) \in Seq(BatchNodes)
      /\ \A n \in 1..Len(linked) : Append(linked, new)[n] = linked[n]
      /\ Append(linked, new)[Len(linked) + 1] = new
  BY <1>2, <1>3, AppendProperties
<1> QED
  BY <1>1, <1>3, <1>4, <1>5 DEF new

\* Acquire empties the node it moves to and changes nothing else of the list.
LEMMA AcquireNodes ==
    ASSUME IInv, Acquire
    PROVE  /\ nodes' \in Seq(BatchNodes)
           /\ Len(nodes') = Len(nodes)
           /\ head < Len(nodes) /\ head' = head + 1
           /\ consumer_batch' = nodes[head + 1].items
           /\ \A n \in 1..Len(nodes) :
                 /\ nodes'[n].items = IF n = head + 1 THEN <<>> ELSE nodes[n].items
                 /\ nodes'[n].upto = nodes[n].upto
                 /\ nodes'[n].next = nodes[n].next
<1>1. /\ nodes \in Seq(BatchNodes) /\ Len(nodes) \in Nat
      /\ head \in 1..Len(nodes) /\ cpc = "acquire"
  BY DEF IInv, TypeOK, BatchNodes, Acquire
<1>2. nodes[head].next # NullPtr
  BY <1>1 DEF IInv, ConsumerInv
<1>3. head < Len(nodes) /\ nodes[head].next = head + 1
  BY <1>1, <1>2 DEF IInv, ChainInv
<1> DEFINE node == [nodes[head + 1] EXCEPT !.items = <<>>]
<1>4. /\ nodes' = [nodes EXCEPT ![head + 1] = node]
      /\ head' = head + 1
      /\ consumer_batch' = nodes[head + 1].items
  BY <1>3 DEF Acquire
<1>5. nodes[head + 1] \in BatchNodes
  BY <1>1, <1>3, ElementOfSeq
<1>6. node = [items |-> <<>>, next |-> nodes[head + 1].next, upto |-> nodes[head + 1].upto]
  BY <1>5 DEF BatchNodes
<1>7. node \in BatchNodes
  <2>1. <<>> \in Seq(Items)
    BY EmptySeq
  <2> QED
    BY <1>5, <1>6, <2>1 DEF BatchNodes
<1> HIDE DEF node
<1> QED
  BY <1>1, <1>3, <1>4, <1>6, <1>7, ExceptSeq

------------------------------------------------------------------------------
(* The inductive invariant. *)

\* The constructor establishes the invariant.
LEMMA InitIInv == Init => IInv
<1> SUFFICES ASSUME Init PROVE IInv
  OBVIOUS
<1> DEFINE sentinel == BatchNode(<<>>, 0)
<1>1. /\ <<>> \in Seq(Items)
      /\ sentinel \in BatchNodes
      /\ sentinel.next = NullPtr /\ sentinel.upto = 0
  BY EmptySeq DEF BatchNode, BatchNodes, NullPtr
<1>2. nodes = <<sentinel>>
  BY DEF Init
<1> HIDE DEF sentinel
<1>3. nodes \in Seq(BatchNodes) /\ Len(nodes) = 1 /\ nodes[1] = sentinel
  BY <1>1, <1>2
<1>4. TypeOK
  <2>1. loads \in [enqueued: Nat \cup {NotLoaded}, dequeued: Nat \cup {NotLoaded}]
    BY DEF Init
  <2>2. nodes \in Seq([items: Seq(Items), next: Nat, upto: Nat])
    BY <1>3 DEF BatchNodes
  <2>3. head \in 1..Len(nodes) /\ tail \in 1..Len(nodes) /\ consumer_index \in 0..Len(consumer_batch)
    BY <1>3 DEF Init
  <2> QED
    BY <1>1, <2>1, <2>2, <2>3 DEF Init, TypeOK
<1>5. ChainInv
  BY <1>1, <1>3 DEF Init, ChainInv
<1>6. BatchInv
  BY <1>1, <1>3, BatchSizeAssumption DEF Init, BatchInv, Flushed
<1>7. ContentInv
  BY <1>3 DEF Init, ContentInv
<1>8. ConsumerInv
  BY <1>1, <1>3 DEF Init, ConsumerInv
<1>9. CountInv
  BY DEF Init, CountInv, NotLoaded
<1>10. NoLostWakeup
  BY DEF Init, NoLostWakeup
<1> QED
  BY <1>4, <1>5, <1>6, <1>7, <1>8, <1>9, <1>10 DEF IInv

\* A push extends sent and the producer's batch by the same value.
LEMMA PushIInv ==
    ASSUME IInv, NEW v \in Items, Push(v)
    PROVE  IInv'
<1>0. TypeOK /\ ChainInv /\ BatchInv /\ ContentInv /\ ConsumerInv /\ CountInv /\ NoLostWakeup
  BY DEF IInv
<1>1. /\ Len(sent') = Len(sent) + 1 /\ sent' \in Seq(Items)
      /\ \A i \in 1..Len(sent) : sent'[i] = sent[i]
      /\ sent'[Len(sent) + 1] = v
  BY <1>0, AppendProperties DEF Push, TypeOK
<1>2. /\ Len(producer_batch') = Len(producer_batch) + 1 /\ producer_batch' \in Seq(Items)
      /\ \A i \in 1..Len(producer_batch) : producer_batch'[i] = producer_batch[i]
      /\ producer_batch'[Len(producer_batch) + 1] = v
  BY <1>0, AppendProperties DEF Push, TypeOK
<1>3. /\ UNCHANGED <<nodes, tail, head, consumer_batch, consumer_index, dequeued_count,
                     blocking, received, cpc, loads>>
      /\ ppc = "idle"
      /\ ppc' = IF Len(producer_batch') >= BatchSize THEN "link" ELSE "idle"
      /\ enqueued_count' = enqueued_count + 1
  BY DEF Push, consumerVars
<1>4. /\ Len(nodes) \in Nat /\ Len(sent) \in Nat /\ Len(producer_batch) \in Nat
      /\ Len(received) \in Nat /\ Len(consumer_batch) \in Nat
      /\ consumer_index \in 0..Len(consumer_batch) /\ head \in 1..Len(nodes)
      /\ \A n \in 1..Len(nodes) : nodes[n].upto \in Nat /\ Len(nodes[n].items) \in Nat
  BY <1>0, TypeFacts
<1>5. TypeOK'
  BY <1>0, <1>1, <1>2, <1>3 DEF TypeOK
<1>6. ChainInv'
  BY <1>0, <1>3 DEF ChainInv
<1>7. BatchInv'
  <2>1. Flushed' = Flushed /\ Flushed \in Nat
    BY <1>3, <1>4 DEF Flushed
  <2>2. Flushed + Len(producer_batch) = Len(sent)
    BY <1>0 DEF BatchInv
  <2>3. ASSUME NEW i \in 1..Len(producer_batch')
        PROVE  producer_batch'[i] = sent'[Flushed + i]
    <3>1. CASE i = Len(producer_batch) + 1
      BY <1>1, <1>2, <1>4, <2>1, <2>2, <3>1
    <3>2. CASE i \in 1..Len(producer_batch)
      <4>1. producer_batch[i] = sent[Flushed + i]
        BY <1>0, <3>2 DEF BatchInv
      <4>2. Flushed + i \in 1..Len(sent)
        BY <1>4, <2>1, <2>2, <3>2
      <4> QED
        BY <1>1, <1>2, <3>2, <4>1, <4>2
    <3> QED
      BY <1>2, <1>4, <3>1, <3>2
  <2>4. /\ Flushed' + Len(producer_batch') = Len(sent')
        /\ \A i \in 1..Len(producer_batch)' : producer_batch'[i] = sent'[Flushed' + i]
    BY <1>1, <1>2, <1>4, <2>1, <2>2, <2>3
  <2>5. /\ ppc' = "idle" => Len(producer_batch') < BatchSize
        /\ ppc' = "link" => Len(producer_batch') > 0
        /\ ppc' \notin {"notify", "advance"}
    BY <1>2, <1>3, <1>4, BatchSizeAssumption
  <2> QED
    BY <2>4, <2>5 DEF BatchInv
<1>8. \A n \in 1..Len(nodes) : nodes[n].upto <= Len(sent)
  <2>1. Flushed \in Nat /\ Flushed <= Len(sent) /\ \A n \in 1..Len(nodes) : nodes[n].upto <= Flushed
    BY <1>0, FlushedBound
  <2> QED
    BY <1>4, <2>1
<1>9. ContentInv'
  <2>1. ASSUME NEW n \in (head + 1)..Len(nodes), NEW i \in 1..Len(nodes[n].items)
        PROVE  nodes[n].items[i] = sent'[nodes[n - 1].upto + i]
    <3>1. /\ nodes[n].items[i] = sent[nodes[n - 1].upto + i]
          /\ Len(nodes[n].items) = nodes[n].upto - nodes[n - 1].upto
      BY <1>0 DEF ContentInv
    <3>2. n \in 1..Len(nodes) /\ n - 1 \in 1..Len(nodes)
      BY <1>4
    <3>3. /\ nodes[n].upto <= Len(sent) /\ nodes[n].upto \in Nat
          /\ nodes[n - 1].upto \in Nat /\ Len(sent) \in Nat
      BY <1>4, <1>8, <3>2
    <3>4. nodes[n - 1].upto + i \in 1..Len(sent)
      BY <3>1, <3>3, StretchBound
    <3> QED
      BY <1>1, <3>1, <3>4
  <2> QED
    BY <1>0, <1>3, <2>1 DEF ContentInv
<1>10. ConsumerInv'
  <2>1. ASSUME NEW i \in (consumer_index + 1)..Len(consumer_batch)
        PROVE  consumer_batch[i] = sent'[Len(received) - consumer_index + i]
    <3>1. /\ consumer_batch[i] = sent[Len(received) - consumer_index + i]
          /\ Len(received) + Len(consumer_batch) - consumer_index = nodes[head].upto
      BY <1>0 DEF ConsumerInv
    <3>2. Len(received) - consumer_index + i \in 1..Len(sent)
      BY <1>4, <1>8, <3>1
    <3> QED
      BY <1>1, <3>1, <3>2
  <2> QED
    BY <1>0, <1>3, <2>1 DEF ConsumerInv
<1>11. CountInv'
  <2>1. enqueued_count \in Nat /\ loads.enqueued \in Nat \cup {-1}
    BY <1>0 DEF TypeOK, NotLoaded
  <2>2. enqueued_count = Len(sent) /\ loads.enqueued <= enqueued_count
    BY <1>0 DEF CountInv
  <2>3. loads'.enqueued = loads.enqueued
    BY <1>3
  <2>4. enqueued_count' = Len(sent') /\ loads.enqueued <= enqueued_count'
    BY <1>1, <1>3, <2>1, <2>2
  <2> QED
    BY <2>3, <2>4 DEF CountInv
<1>12. NoLostWakeup'
  BY <1>0, <1>3 DEF NoLostWakeup
<1> QED
  BY <1>5, <1>6, <1>7, <1>9, <1>10, <1>11, <1>12 DEF IInv

\* Linking moves the producer's batch into a new last node.
LEMMA LinkIInv ==
    ASSUME IInv, Link
    PROVE  IInv'
<1>0. TypeOK /\ ChainInv /\ BatchInv /\ ContentInv /\ ConsumerInv /\ CountInv /\ NoLostWakeup
  BY DEF IInv
<1>1. /\ nodes' \in Seq(BatchNodes)
      /\ Len(nodes') = Len(nodes) + 1
      /\ \A n \in 1..Len(nodes) :
            /\ nodes'[n].items = nodes[n].items
            /\ nodes'[n].upto = nodes[n].upto
            /\ nodes'[n].next = IF n = tail THEN Len(nodes) + 1 ELSE nodes[n].next
      /\ nodes'[Len(nodes) + 1].items = producer_batch
      /\ nodes'[Len(nodes) + 1].upto = Len(sent)
      /\ nodes'[Len(nodes) + 1].next = NullPtr
  BY <1>0, LinkNodes DEF BatchNode
<1>2. /\ ppc = "link" /\ ppc' = "notify" /\ producer_batch' = <<>>
      /\ UNCHANGED <<tail, head, consumer_batch, consumer_index, dequeued_count, blocking,
                     received, enqueued_count, sent, cpc, loads>>
  BY DEF Link, consumerVars
<1>3. /\ Len(nodes) \in Nat /\ Len(sent) \in Nat /\ Len(producer_batch) \in Nat
      /\ head \in 1..Len(nodes) /\ tail \in 1..Len(nodes)
      /\ \A n \in 1..Len(nodes) : nodes[n].upto \in Nat
  BY <1>0, TypeFacts
<1>4. tail = Len(nodes) /\ Len(producer_batch) > 0
  BY <1>0, <1>2 DEF ChainInv, BatchInv
<1>5. Flushed + Len(producer_batch) = Len(sent) /\ Flushed \in Nat
  BY <1>0, FlushedBound DEF BatchInv
<1>len. /\ Len(nodes') = Len(nodes) + 1 /\ Len(nodes) \in Nat
      /\ head \in 1..Len(nodes) /\ tail \in 1..Len(nodes)
  BY <1>1, <1>3
<1>6. TypeOK'
  <2>1. <<>> \in Seq(Items)
    BY EmptySeq
  <2>2. head \in 1..Len(nodes') /\ tail \in 1..Len(nodes')
    BY <1>1, <1>3
  <2> QED
    BY <1>0, <1>1, <1>2, <2>1, <2>2 DEF TypeOK, BatchNodes
<1>7. ChainInv'
  <2>1. ASSUME NEW n \in 1..Len(nodes')
        PROVE  nodes'[n].next = IF n < Len(nodes') THEN n + 1 ELSE NullPtr
    <3>1. CASE n = Len(nodes) + 1
      BY <1>1, <1>3, <3>1
    <3>2. CASE n = Len(nodes)
      BY <1>1, <1>3, <1>4, <3>2
    <3>3. CASE n \in 1..(Len(nodes) - 1)
      <4>1. nodes[n].next = n + 1
        BY <1>0, <1>3, <3>3 DEF ChainInv
      <4>2. nodes'[n].next = nodes[n].next
        BY <1>1, <1>3, <1>4, <3>3
      <4>3. n < Len(nodes')
        BY <1>len, <3>3
      <4>4. nodes'[n].next = n + 1
        BY <4>1, <4>2
      <4> QED
        BY <4>3, <4>4
    <3> QED
      BY <1>len, <3>1, <3>2, <3>3
  <2> QED
    BY <1>1, <1>2, <1>3, <1>4, <2>1 DEF ChainInv
<1>8. BatchInv'
  <2>1. Flushed' = Len(sent)
    BY <1>1 DEF Flushed
  <2>2. Len(producer_batch') = 0
    BY <1>2
  <2> QED
    BY <1>2, <1>3, <2>1, <2>2 DEF BatchInv
<1>9. ContentInv'
  <2>1. ASSUME NEW m \in 1..Len(nodes'), NEW n \in 1..Len(nodes'), m < n
        PROVE  nodes'[m].upto < nodes'[n].upto
    <3>1. m \in 1..Len(nodes) /\ nodes'[m].upto = nodes[m].upto
      BY <1>1, <1>3, <2>1
    <3>2. CASE n = Len(nodes) + 1
      <4>1. nodes[m].upto <= Flushed /\ nodes[m].upto \in Nat
        BY <1>0, <1>3, <3>1, FlushedBound
      <4> QED
        BY <1>1, <1>3, <1>4, <1>5, <3>1, <3>2, <4>1
    <3>3. CASE n \in 1..Len(nodes)
      BY <1>0, <1>1, <2>1, <3>1, <3>3 DEF ContentInv
    <3> QED
      BY <1>len, <3>2, <3>3
  <2>2. ASSUME NEW n \in (head + 1)..Len(nodes')
        PROVE  /\ Len(nodes'[n].items) = nodes'[n].upto - nodes'[n - 1].upto
               /\ \A i \in 1..Len(nodes'[n].items) :
                      nodes'[n].items[i] = sent[nodes'[n - 1].upto + i]
    <3>1. n - 1 \in 1..Len(nodes) /\ nodes'[n - 1].upto = nodes[n - 1].upto
      BY <1>1, <1>3
    <3>2. CASE n = Len(nodes) + 1
      <4>1. nodes'[n - 1].upto = Flushed
        BY <1>3, <3>1, <3>2 DEF Flushed
      <4>2. nodes'[n].items = producer_batch /\ nodes'[n].upto = Len(sent)
        BY <1>1, <3>2
      <4>3. Len(producer_batch) = Len(sent) - Flushed
        BY <1>3, <1>5
      <4> QED
        BY <1>0, <4>1, <4>2, <4>3 DEF BatchInv
    <3>3. CASE n \in (head + 1)..Len(nodes)
      <4>1. n \in 1..Len(nodes)
        BY <1>3, <3>3
      <4> QED
        BY <1>0, <1>1, <3>1, <3>3, <4>1 DEF ContentInv
    <3> QED
      BY <1>len, <3>2, <3>3
  <2> QED
    BY <1>2, <2>1, <2>2 DEF ContentInv
<1>10. ConsumerInv'
  <2>1. nodes'[head].upto = nodes[head].upto
    BY <1>1, <1>3
  <2>2. cpc = "acquire" => nodes'[head].next # NullPtr
    BY <1>0, <1>1, <1>3 DEF ConsumerInv, NullPtr
  <2> QED
    BY <1>0, <1>2, <2>1, <2>2 DEF ConsumerInv
<1>11. CountInv'
  BY <1>0, <1>2 DEF CountInv
<1>12. NoLostWakeup'
  <2>1. ASSUME cpc = "asleep" PROVE tail = head
    <3>1. nodes[head].next = NullPtr
      BY <1>0, <1>2, <2>1 DEF NoLostWakeup
    <3>2. ~(head < Len(nodes))
      BY <1>0, <1>3, <3>1 DEF ChainInv, NullPtr
    <3> QED
      BY <1>3, <1>4, <3>2
  <2> QED
    BY <1>2, <2>1 DEF NoLostWakeup
<1> QED
  BY <1>6, <1>7, <1>8, <1>9, <1>10, <1>11, <1>12 DEF IInv

\* Acquiring moves the next node's batch, and with it its stretch of sent, to
\* the consumer.
LEMMA AcquireIInv ==
    ASSUME IInv, Acquire
    PROVE  IInv'
<1>0. TypeOK /\ ChainInv /\ BatchInv /\ ContentInv /\ ConsumerInv /\ CountInv /\ NoLostWakeup
  BY DEF IInv
<1>1. /\ nodes' \in Seq(BatchNodes) /\ Len(nodes') = Len(nodes)
      /\ head < Len(nodes) /\ head' = head + 1
      /\ consumer_batch' = nodes[head + 1].items
      /\ \A n \in 1..Len(nodes) :
            /\ nodes'[n].items = IF n = head + 1 THEN <<>> ELSE nodes[n].items
            /\ nodes'[n].upto = nodes[n].upto
            /\ nodes'[n].next = nodes[n].next
  BY AcquireNodes
<1>2. /\ cpc = "acquire" /\ cpc' = "take"
      /\ UNCHANGED <<tail, producer_batch, enqueued_count, ppc, sent, consumer_index,
                     dequeued_count, blocking, received, loads>>
  BY DEF Acquire, producerVars
<1>3. /\ Len(nodes) \in Nat /\ Len(received) \in Nat /\ head \in 1..Len(nodes)
      /\ \A n \in 1..Len(nodes) : /\ nodes[n].upto \in Nat
                                 /\ nodes[n].items \in Seq(Items)
                                 /\ Len(nodes[n].items) \in Nat
  BY <1>0, TypeFacts
<1>4. /\ consumer_index = 0 /\ consumer_batch = <<>>
      /\ Len(received) + Len(consumer_batch) - consumer_index = nodes[head].upto
  BY <1>0, <1>2 DEF ConsumerInv
<1>5. Len(received) = nodes[head].upto
  BY <1>3, <1>4
<1>6. head + 1 \in 1..Len(nodes) /\ head + 1 \in (head + 1)..Len(nodes)
  BY <1>1, <1>3
<1>7. /\ Len(nodes[head + 1].items) = nodes[head + 1].upto - nodes[head].upto
      /\ \A i \in 1..Len(nodes[head + 1].items) :
            nodes[head + 1].items[i] = sent[nodes[head].upto + i]
      /\ nodes[head].upto < nodes[head + 1].upto
  <2>1. (head + 1) - 1 = head /\ head < head + 1
    BY <1>3
  <2> QED
    BY <1>0, <1>3, <1>6, <2>1 DEF ContentInv
<1>8. TypeOK'
  <2>1. consumer_batch' \in Seq(Items)
    BY <1>1, <1>3, <1>6
  <2>2. consumer_index' \in 0..Len(consumer_batch')
    BY <1>1, <1>2, <1>3, <1>4, <1>6
  <2>3. head' \in 1..Len(nodes') /\ tail' \in 1..Len(nodes')
    BY <1>0, <1>1, <1>2, <1>6 DEF TypeOK
  <2> QED
    BY <1>0, <1>1, <1>2, <2>1, <2>2, <2>3 DEF TypeOK, BatchNodes
<1>9. ChainInv'
  BY <1>0, <1>1, <1>2 DEF ChainInv
<1>10. BatchInv'
  <2>1. Flushed' = Flushed
    BY <1>1, <1>3 DEF Flushed
  <2> QED
    BY <1>0, <1>2, <2>1 DEF BatchInv
<1>11. ContentInv'
  <2>1. ASSUME NEW m \in 1..Len(nodes), NEW n \in 1..Len(nodes), m < n
        PROVE  nodes'[m].upto < nodes'[n].upto
    BY <1>0, <1>1, <2>1 DEF ContentInv
  <2>2. ASSUME NEW n \in (head + 2)..Len(nodes)
        PROVE  /\ Len(nodes'[n].items) = nodes'[n].upto - nodes'[n - 1].upto
               /\ \A i \in 1..Len(nodes'[n].items) :
                      nodes'[n].items[i] = sent[nodes'[n - 1].upto + i]
    <3>1. /\ n \in (head + 1)..Len(nodes) /\ n \in 1..Len(nodes) /\ n - 1 \in 1..Len(nodes)
          /\ n # head + 1
      BY <1>3
    <3>2. /\ nodes'[n].items = nodes[n].items /\ nodes'[n].upto = nodes[n].upto
          /\ nodes'[n - 1].upto = nodes[n - 1].upto
      BY <1>1, <3>1, Zenon
    <3>3. /\ Len(nodes[n].items) = nodes[n].upto - nodes[n - 1].upto
          /\ \A i \in 1..Len(nodes[n].items) :
                nodes[n].items[i] = sent[nodes[n - 1].upto + i]
      BY <1>0, <3>1 DEF ContentInv
    <3> QED
      BY <3>2, <3>3
  <2>3. (head' + 1)..Len(nodes') = (head + 2)..Len(nodes)
    BY <1>1, <1>3
  <2> QED
    BY <1>1, <1>2, <2>1, <2>2, <2>3 DEF ContentInv
<1>12. ConsumerInv'
  <2>1. nodes'[head'].upto = nodes[head + 1].upto
    BY <1>1, <1>6
  <2>2. /\ nodes[head].upto \in Nat /\ nodes[head + 1].upto \in Nat
        /\ Len(nodes[head + 1].items) \in Nat
    BY <1>3, <1>6
  <2>3. Len(received') + Len(consumer_batch') - consumer_index' = nodes'[head'].upto
    BY <1>1, <1>2, <1>4, <1>5, <1>7, <2>1, <2>2
  <2>4. Len(received') - consumer_index' = nodes[head].upto
        /\ (consumer_index' + 1)..Len(consumer_batch') = 1..Len(nodes[head + 1].items)
    BY <1>1, <1>2, <1>4, <1>5, <2>2
  <2>5. \A i \in (consumer_index' + 1)..Len(consumer_batch') :
            consumer_batch'[i] = sent'[Len(received') - consumer_index' + i]
    BY <1>1, <1>2, <1>7, <2>4
  <2>6. consumer_index' < Len(consumer_batch')
    BY <1>1, <1>2, <1>4, <1>7, <2>2
  <2> QED
    BY <1>2, <2>3, <2>5, <2>6 DEF ConsumerInv
<1>13. CountInv'
  BY <1>0, <1>2 DEF CountInv
<1>14. NoLostWakeup'
  BY <1>2 DEF NoLostWakeup
<1> QED
  BY <1>8, <1>9, <1>10, <1>11, <1>12, <1>13, <1>14 DEF IInv

\* Taking an item moves the boundary between received and the batch by one.
LEMMA TakeIInv ==
    ASSUME IInv, Take
    PROVE  IInv'
<1>0. TypeOK /\ ChainInv /\ BatchInv /\ ContentInv /\ ConsumerInv /\ CountInv /\ NoLostWakeup
  BY DEF IInv
<1>1. /\ cpc = "take" /\ cpc' = "idle" /\ consumer_index' = consumer_index + 1
      /\ dequeued_count' = dequeued_count + 1
      /\ received' = Append(received, consumer_batch[consumer_index + 1])
      /\ UNCHANGED <<nodes, head, tail, producer_batch, enqueued_count, ppc, sent,
                     consumer_batch, blocking, loads>>
  BY DEF Take, producerVars
<1>2. /\ Len(received) \in Nat /\ Len(consumer_batch) \in Nat
      /\ consumer_index \in 0..Len(consumer_batch)
      /\ nodes[head].upto \in Nat
  BY <1>0, TypeFacts
<1>3. /\ consumer_index < Len(consumer_batch)
      /\ Len(received) + Len(consumer_batch) - consumer_index = nodes[head].upto
  BY <1>0, <1>1 DEF ConsumerInv
<1>4. consumer_batch[consumer_index + 1] \in Items
  BY <1>0, <1>2, <1>3, ElementOfSeq DEF TypeOK
<1>5. received' \in Seq(Items) /\ Len(received') = Len(received) + 1
  BY <1>0, <1>1, <1>4, AppendProperties DEF TypeOK
<1>6. TypeOK'
  <2>1. consumer_index' \in 0..Len(consumer_batch')
    BY <1>1, <1>2, <1>3
  <2>2. dequeued_count' \in Nat
    BY <1>0, <1>1 DEF TypeOK
  <2> QED
    BY <1>0, <1>1, <1>5, <2>1, <2>2 DEF TypeOK
<1>7. ChainInv' /\ BatchInv' /\ ContentInv' /\ CountInv'
  BY <1>0, <1>1 DEF ChainInv, BatchInv, ContentInv, CountInv, Flushed
<1>8. ConsumerInv'
  <2>1. Len(received') - consumer_index' = Len(received) - consumer_index
    BY <1>1, <1>2, <1>5
  <2>2. Len(received') + Len(consumer_batch') - consumer_index' = nodes'[head'].upto
    BY <1>1, <1>2, <1>3, <1>5
  <2>3. \A i \in (consumer_index' + 1)..Len(consumer_batch') :
            i \in (consumer_index + 1)..Len(consumer_batch)
    BY <1>1, <1>2
  <2>4. \A i \in (consumer_index' + 1)..Len(consumer_batch') :
            consumer_batch'[i] = sent'[Len(received') - consumer_index' + i]
    BY <1>0, <1>1, <2>1, <2>3 DEF ConsumerInv
  <2> QED
    BY <1>1, <2>2, <2>4 DEF ConsumerInv
<1>9. NoLostWakeup'
  BY <1>1 DEF NoLostWakeup
<1> QED
  BY <1>6, <1>7, <1>8, <1>9 DEF IInv

\* An exhausted batch can be cleared: its boundary is already received.
LEMMA PopCallIInv ==
    ASSUME IInv, NEW b \in BOOLEAN, PopCall(b)
    PROVE  IInv'
<1>0. TypeOK /\ ChainInv /\ BatchInv /\ ContentInv /\ ConsumerInv /\ CountInv /\ NoLostWakeup
  BY DEF IInv
<1>1. /\ cpc = "idle" /\ blocking' \in BOOLEAN
      /\ UNCHANGED <<nodes, head, tail, producer_batch, enqueued_count, ppc, sent,
                     dequeued_count, received, loads>>
  BY DEF PopCall, producerVars
<1>2. /\ Len(received) \in Nat /\ Len(consumer_batch) \in Nat
      /\ consumer_index \in 0..Len(consumer_batch)
  BY <1>0, TypeFacts
<1>3. ChainInv' /\ BatchInv' /\ ContentInv' /\ CountInv'
  BY <1>0, <1>1 DEF ChainInv, BatchInv, ContentInv, CountInv, Flushed
<1>4. CASE /\ consumer_index < Len(consumer_batch) /\ cpc' = "take"
           /\ UNCHANGED <<consumer_batch, consumer_index>>
  BY <1>0, <1>1, <1>3, <1>4 DEF IInv, TypeOK, ConsumerInv, NoLostWakeup
<1>5. CASE /\ consumer_index >= Len(consumer_batch) /\ cpc' = "load"
           /\ consumer_batch' = <<>> /\ consumer_index' = 0
  <2>1. consumer_batch' \in Seq(Items) /\ Len(consumer_batch') = 0
    BY <1>5, EmptySeq
  <2>2. Len(received') + Len(consumer_batch') - consumer_index' = nodes'[head'].upto
    BY <1>0, <1>1, <1>2, <1>5, <2>1 DEF ConsumerInv
  <2>3. ConsumerInv'
    BY <1>5, <2>1, <2>2 DEF ConsumerInv
  <2>4. TypeOK'
    BY <1>0, <1>1, <1>5, <2>1 DEF TypeOK
  <2> QED
    BY <1>3, <1>5, <2>3, <2>4 DEF IInv, NoLostWakeup
<1> QED
  BY <1>4, <1>5 DEF PopCall

\* The remaining producer steps move only the producer's program counter, the
\* tail and, in Notify, a sleeping consumer.
LEMMA ProducerIInv ==
    ASSUME IInv, FlushCall \/ Notify \/ Advance
    PROVE  IInv'
<1>0. TypeOK /\ ChainInv /\ BatchInv /\ ContentInv /\ ConsumerInv /\ CountInv /\ NoLostWakeup
  BY DEF IInv
<1>1. UNCHANGED <<nodes, head, producer_batch, enqueued_count, sent, consumer_batch,
                  consumer_index, dequeued_count, blocking, received, loads>>
  BY DEF FlushCall, Notify, Advance, consumerVars
<1>2. ContentInv' /\ CountInv' /\ Flushed' = Flushed
  BY <1>0, <1>1 DEF ContentInv, CountInv, Flushed
<1>3. /\ Len(nodes) \in Nat /\ tail \in 1..Len(nodes) /\ head \in 1..Len(nodes)
      /\ Len(producer_batch) \in Nat
  BY <1>0, TypeFacts
<1>4. CASE FlushCall
  <2>1. /\ ppc = "idle" /\ ppc' = "link" /\ producer_batch # <<>>
        /\ UNCHANGED <<tail, cpc>>
    BY <1>4 DEF FlushCall
  <2>2. Len(producer_batch) > 0
    BY <1>0, <2>1, EmptySeq DEF TypeOK
  <2>3. TypeOK' /\ ChainInv' /\ ConsumerInv' /\ NoLostWakeup'
    BY <1>0, <1>1, <2>1 DEF TypeOK, ChainInv, ConsumerInv, NoLostWakeup
  <2>4. BatchInv'
    BY <1>0, <1>1, <1>2, <2>1, <2>2 DEF BatchInv
  <2> QED
    BY <1>2, <2>3, <2>4 DEF IInv
<1>5. CASE Notify
  <2>1. /\ ppc = "notify" /\ ppc' = "advance" /\ UNCHANGED tail
        /\ cpc' = IF cpc = "asleep" /\ head = tail THEN "load" ELSE cpc
    BY <1>5 DEF Notify
  <2>2. TypeOK' /\ ChainInv'
    BY <1>0, <1>1, <2>1 DEF TypeOK, ChainInv
  <2>3. BatchInv'
    BY <1>0, <1>1, <1>2, <2>1 DEF BatchInv
  <2>4. ConsumerInv'
    BY <1>0, <1>1, <2>1 DEF ConsumerInv
  <2>5. NoLostWakeup'
    BY <1>0, <1>1, <2>1 DEF NoLostWakeup
  <2> QED
    BY <1>2, <2>2, <2>3, <2>4, <2>5 DEF IInv
<1>6. CASE Advance
  <2>1. ppc = "advance" /\ ppc' = "idle" /\ tail' = Len(nodes) /\ UNCHANGED cpc
    BY <1>6 DEF Advance
  <2>2. tail' \in 1..Len(nodes')
    BY <1>1, <1>3, <2>1
  <2>3. TypeOK' /\ ChainInv' /\ ConsumerInv' /\ NoLostWakeup'
    BY <1>0, <1>1, <2>1, <2>2 DEF TypeOK, ChainInv, ConsumerInv, NoLostWakeup
  <2>4. producer_batch' = <<>> /\ Len(producer_batch') = 0
    BY <1>0, <1>1, <2>1 DEF BatchInv
  <2>5. BatchInv'
    BY <1>0, <1>1, <1>2, <2>1, <2>4, BatchSizeAssumption DEF BatchInv
  <2> QED
    BY <1>2, <2>3, <2>5 DEF IInv
<1> QED
  BY <1>4, <1>5, <1>6

\* The remaining consumer steps move only its program counter.
LEMMA ConsumerIInv ==
    ASSUME IInv, LoadFound \/ LoadNone \/ TryPopEmpty \/ Wait
    PROVE  IInv'
<1>0. TypeOK /\ ChainInv /\ BatchInv /\ ContentInv /\ ConsumerInv /\ CountInv /\ NoLostWakeup
  BY DEF IInv
<1>1. UNCHANGED <<nodes, head, tail, producer_batch, enqueued_count, ppc, sent,
                  consumer_batch, consumer_index, dequeued_count, blocking, received, loads>>
  BY DEF LoadFound, LoadNone, TryPopEmpty, Wait, producerVars, consumerVars
<1>2. /\ cpc \in {"load", "wait"}
      /\ cpc' \in {"acquire", "wait", "idle", "asleep", "load"}
      /\ cpc' = "acquire" => nodes[head].next # NullPtr
      /\ cpc' = "asleep" => nodes[head].next = NullPtr
  BY DEF LoadFound, LoadNone, TryPopEmpty, Wait
<1>3. ChainInv' /\ BatchInv' /\ ContentInv' /\ CountInv'
  BY <1>0, <1>1 DEF ChainInv, BatchInv, ContentInv, CountInv, Flushed
<1>4. TypeOK' /\ ConsumerInv' /\ NoLostWakeup'
  BY <1>0, <1>1, <1>2 DEF TypeOK, ConsumerInv, NoLostWakeup
<1> QED
  BY <1>3, <1>4 DEF IInv

\* A size() call reads the counters and writes nothing the queue reads.
LEMMA SizeIInv ==
    ASSUME IInv, \/ LoadCount("enqueued", enqueued_count)
                 \/ LoadCount("dequeued", dequeued_count)
                 \/ SizeReturn
    PROVE  IInv'
<1>0. TypeOK /\ ChainInv /\ BatchInv /\ ContentInv /\ ConsumerInv /\ CountInv /\ NoLostWakeup
  BY DEF IInv
<1>1. UNCHANGED <<nodes, head, tail, producer_batch, enqueued_count, ppc, sent,
                  consumer_batch, consumer_index, dequeued_count, blocking, received, cpc>>
  BY DEF LoadCount, SizeReturn, producerVars, consumerVars
<1>2. /\ loads' \in [enqueued: Nat \cup {NotLoaded}, dequeued: Nat \cup {NotLoaded}]
      /\ loads'.enqueued <= enqueued_count
  <2>1. /\ enqueued_count \in Nat /\ dequeued_count \in Nat
        /\ loads \in [enqueued: Nat \cup {NotLoaded}, dequeued: Nat \cup {NotLoaded}]
        /\ loads.enqueued <= enqueued_count
    BY <1>0 DEF TypeOK, CountInv
  <2>2. CASE LoadCount("enqueued", enqueued_count)
    BY <2>1, <2>2 DEF LoadCount
  <2>3. CASE LoadCount("dequeued", dequeued_count)
    BY <2>1, <2>3 DEF LoadCount
  <2>4. CASE SizeReturn
    BY <2>1, <2>4 DEF SizeReturn, NotLoaded
  <2> QED
    BY <2>2, <2>3, <2>4
<1>3. ChainInv' /\ BatchInv' /\ ContentInv' /\ ConsumerInv' /\ NoLostWakeup'
  BY <1>0, <1>1 DEF ChainInv, BatchInv, ContentInv, ConsumerInv, NoLostWakeup, Flushed
<1>4. TypeOK' /\ CountInv'
  BY <1>0, <1>1, <1>2 DEF TypeOK, CountInv
<1> QED
  BY <1>3, <1>4 DEF IInv

\* IInv is an invariant of the queue.
THEOREM QueueInvariant == Spec => []IInv
<1>1. IInv /\ [Next]_vars => IInv'
  <2> SUFFICES ASSUME IInv, [Next]_vars PROVE IInv'
    OBVIOUS
  <2>1. CASE UNCHANGED vars
    <3>1. UNCHANGED <<nodes, head, tail, producer_batch, enqueued_count, ppc, sent, cpc, loads,
                      consumer_batch, consumer_index, dequeued_count, blocking, received>>
      BY <2>1 DEF vars, producerVars, consumerVars
    <3>2. TypeOK'
      BY <3>1 DEF IInv, TypeOK
    <3>3. ChainInv' /\ BatchInv' /\ CountInv' /\ NoLostWakeup'
      BY <3>1 DEF IInv, ChainInv, BatchInv, CountInv, NoLostWakeup, Flushed
    <3>4. ContentInv' /\ ConsumerInv'
      BY <3>1 DEF IInv, ContentInv, ConsumerInv
    <3> QED
      BY <3>2, <3>3, <3>4 DEF IInv
  <2>2. CASE \E v \in Items : Push(v)
    BY <2>2, PushIInv
  <2>3. CASE Link
    BY <2>3, LinkIInv
  <2>4. CASE FlushCall \/ Notify \/ Advance
    BY <2>4, ProducerIInv
  <2>5. CASE \E b \in BOOLEAN : PopCall(b)
    BY <2>5, PopCallIInv
  <2>6. CASE LoadFound \/ LoadNone \/ TryPopEmpty \/ Wait
    BY <2>6, ConsumerIInv
  <2>7. CASE Acquire
    BY <2>7, AcquireIInv
  <2>8. CASE Take
    BY <2>8, TakeIInv
  <2>9. CASE \/ LoadCount("enqueued", enqueued_count)
             \/ LoadCount("dequeued", dequeued_count)
             \/ SizeReturn
    BY <2>9, SizeIInv
  <2> QED
    BY <2>1, <2>2, <2>3, <2>4, <2>5, <2>6, <2>7, <2>8, <2>9 DEF Next
<1> QED
  BY <1>1, InitIInv, PTL DEF Spec

------------------------------------------------------------------------------
(* What follows from the invariant. *)

\* The queue keeps its types.
THEOREM QueueTypeOK == Spec => []TypeOK
  BY QueueInvariant, PTL DEF IInv

\* No wake-up is lost between pop()'s wait and flush()'s notify_one.
THEOREM QueueNoLostWakeup == Spec => []NoLostWakeup
  BY QueueInvariant, PTL DEF IInv

\* flush() stores next into a node that is still allocated.
THEOREM QueueLinkTargetAlive == Spec => []LinkTargetAlive
<1>1. IInv => LinkTargetAlive
  <2> SUFFICES ASSUME IInv, ppc = "link" PROVE tail >= head
    BY DEF LinkTargetAlive
  <2>1. tail = Len(nodes) /\ head \in 1..Len(nodes) /\ Len(nodes) \in Nat
    BY TypeFacts DEF IInv, ChainInv
  <2> QED
    BY <2>1
<1> QED
  BY <1>1, QueueInvariant, PTL

\* size() reports no more than was ever pushed.
THEOREM QueueSizeNeverWraps == Spec => []SizeNeverWraps
<1>1. IInv => SizeNeverWraps
  <2> SUFFICES ASSUME IInv, loads.enqueued # NotLoaded, loads.dequeued # NotLoaded
               PROVE  Size(loads.enqueued, loads.dequeued) <= enqueued_count
    BY DEF SizeNeverWraps
  <2>1. /\ loads.enqueued \in Nat /\ loads.dequeued \in Nat /\ enqueued_count \in Nat
        /\ loads.enqueued <= enqueued_count
    BY DEF IInv, TypeOK, CountInv
  <2> QED
    BY <2>1 DEF Size
<1> QED
  BY <1>1, QueueInvariant, PTL

\* tryPop() reports an empty queue only when everything flushed was popped.
THEOREM QueueEmptyMeansDrained == Spec => EmptyMeansDrained
<1>1. IInv /\ [Next]_vars => [cpc = "load" /\ cpc' = "idle" => Len(received) = Flushed]_vars
  <2> SUFFICES ASSUME IInv, Next, cpc = "load", cpc' = "idle"
               PROVE  Len(received) = Flushed
    OBVIOUS
  <2>1. TryPopEmpty
    BY DEF Next, Push, FlushCall, Link, Notify, Advance, PopCall, LoadFound, LoadNone, Wait,
           Acquire, Take, LoadCount, SizeReturn, consumerVars, producerVars
  <2>2. nodes[head].next = NullPtr
    BY <2>1 DEF TryPopEmpty
  <2>3. /\ head \in 1..Len(nodes) /\ Len(nodes) \in Nat /\ Len(received) \in Nat
        /\ nodes[head].upto \in Nat
    BY TypeFacts DEF IInv
  <2>4. head = Len(nodes)
    BY <2>2, <2>3 DEF IInv, ChainInv, NullPtr
  <2>5. consumer_batch = <<>> /\ consumer_index = 0
    BY DEF IInv, ConsumerInv
  <2>6. Len(received) + Len(consumer_batch) - consumer_index = nodes[head].upto
    BY DEF IInv, ConsumerInv
  <2> QED
    BY <2>3, <2>4, <2>5, <2>6 DEF Flushed
<1> QED
  BY <1>1, QueueInvariant, PTL DEF Spec, EmptyMeansDrained

------------------------------------------------------------------------------
(* The queue implements BatchedFifo. *)

\* The visible items are a stretch of sent that lies within it.
LEMMA VisibleFacts ==
    ASSUME IInv
    PROVE  /\ sent \in Seq(Items) /\ Len(sent) \in Nat /\ Len(received) \in Nat
           /\ Flushed \in Nat /\ Len(received) <= Flushed /\ Flushed <= Len(sent)
<1>1. /\ sent \in Seq(Items) /\ Len(sent) \in Nat /\ Len(received) \in Nat
      /\ Len(consumer_batch) \in Nat /\ consumer_index \in 0..Len(consumer_batch)
      /\ nodes[head].upto \in Nat /\ head \in 1..Len(nodes)
  BY TypeFacts DEF IInv, TypeOK
<1>2. Flushed \in Nat /\ Flushed <= Len(sent) /\ nodes[head].upto <= Flushed
  BY <1>1, FlushedBound DEF IInv
<1>3. Len(received) + Len(consumer_batch) - consumer_index = nodes[head].upto
  BY DEF IInv, ConsumerInv
<1> QED
  BY <1>1, <1>2, <1>3

\* A push leaves the visible items alone.
LEMMA PushRefines ==
    ASSUME IInv, NEW v \in Items, Push(v)
    PROVE  Fifo!Push(v)
<1>1. Len(producer_batch) < BatchSize
  BY DEF IInv, BatchInv, Push
<1>2. /\ producer_batch' = Append(producer_batch, v) /\ received' = received
      /\ Flushed' = Flushed /\ sent' = Append(sent, v)
  BY DEF Push, consumerVars, Flushed
<1>3. SubSeq(sent', Len(received) + 1, Flushed) = SubSeq(sent, Len(received) + 1, Flushed)
  <2> DEFINE lo == Len(received) + 1
  <2>1. /\ sent \in Seq(Items) /\ lo \in Int /\ Flushed \in Int /\ 1 <= lo
        /\ Flushed <= Len(sent) /\ Len(sent) \in Nat
    BY VisibleFacts
  <2>2. \A i \in lo..Flushed : sent'[i] = sent[i] /\ sent[i] \in Items
    BY <1>2, <2>1, AppendProperties, ElementOfSeq
  <2> HIDE DEF lo
  <2>3. /\ SubSeq(sent', lo, Flushed) \in Seq(Items)
        /\ Len(SubSeq(sent', lo, Flushed)) = IF lo <= Flushed THEN Flushed - lo + 1 ELSE 0
        /\ \A i \in 1..(Flushed - lo + 1) : SubSeq(sent', lo, Flushed)[i] = sent'[lo + i - 1]
    BY <2>1, <2>2, SubSeqProperties
  <2>4. /\ SubSeq(sent, lo, Flushed) \in Seq(Items)
        /\ Len(SubSeq(sent, lo, Flushed)) = IF lo <= Flushed THEN Flushed - lo + 1 ELSE 0
        /\ \A i \in 1..(Flushed - lo + 1) : SubSeq(sent, lo, Flushed)[i] = sent[lo + i - 1]
    BY <2>1, <2>2, SubSeqProperties
  <2>5. ASSUME NEW i \in 1..Len(SubSeq(sent', lo, Flushed))
        PROVE  SubSeq(sent', lo, Flushed)[i] = SubSeq(sent, lo, Flushed)[i]
    <3>1. i \in 1..(Flushed - lo + 1) /\ lo + i - 1 \in lo..Flushed
      BY <2>1, <2>3
    <3> QED
      BY <2>2, <2>3, <2>4, <3>1
  <2>6. SubSeq(sent', lo, Flushed) = SubSeq(sent, lo, Flushed)
    BY <2>3, <2>4, <2>5, SeqEqual
  <2> QED
    BY <2>6 DEF lo
<1> QED
  BY <1>1, <1>2, <1>3 DEF Fifo!Push

\* Linking appends the producer's batch to the visible items.
LEMMA LinkRefines ==
    ASSUME IInv, Link
    PROVE  Fifo!Flush
<1>0. TypeOK /\ BatchInv
  BY DEF IInv
<1>1. /\ ppc = "link" /\ producer_batch' = <<>> /\ received' = received /\ sent' = sent
  BY DEF Link, consumerVars
<1>2. producer_batch \in Seq(Items) /\ Len(producer_batch) > 0 /\ producer_batch # <<>>
  BY <1>0, <1>1 DEF TypeOK, BatchInv
<1>3. Flushed' = Len(sent)
  BY <1>0, LinkNodes DEF Flushed, BatchNode
<1> DEFINE lo == Len(received) + 1
           visible == SubSeq(sent, lo, Flushed)
<1>4. /\ sent \in Seq(Items) /\ Len(sent) \in Nat /\ lo \in 1..(Len(sent) + 1)
      /\ Flushed \in Nat /\ Flushed \in (lo - 1)..Len(sent)
  BY VisibleFacts
<1>5. SubSeq(sent, Flushed + 1, Len(sent)) = producer_batch
  <2>1. /\ Flushed + 1 \in Int /\ Len(sent) \in Int
        /\ \A i \in (Flushed + 1)..Len(sent) : sent[i] \in Items
    BY <1>4, ElementOfSeq
  <2>2. /\ SubSeq(sent, Flushed + 1, Len(sent)) \in Seq(Items)
        /\ Len(SubSeq(sent, Flushed + 1, Len(sent)))
             = IF Flushed + 1 <= Len(sent) THEN Len(sent) - (Flushed + 1) + 1 ELSE 0
        /\ \A i \in 1..(Len(sent) - (Flushed + 1) + 1) :
              SubSeq(sent, Flushed + 1, Len(sent))[i] = sent[Flushed + 1 + i - 1]
    BY <2>1, SubSeqProperties
  <2>3. Len(producer_batch) \in Nat /\ Flushed + Len(producer_batch) = Len(sent)
    BY <1>0, <1>2 DEF BatchInv
  <2>4. Len(SubSeq(sent, Flushed + 1, Len(sent))) = Len(producer_batch)
    BY <1>2, <1>4, <2>2, <2>3
  <2>5. ASSUME NEW i \in 1..Len(producer_batch)
        PROVE  SubSeq(sent, Flushed + 1, Len(sent))[i] = producer_batch[i]
    <3>1. i \in 1..(Len(sent) - (Flushed + 1) + 1) /\ Flushed + 1 + i - 1 = Flushed + i
      BY <1>4, <2>3
    <3> QED
      BY <1>0, <2>2, <3>1 DEF BatchInv
  <2> QED
    BY <1>2, <2>2, <2>4, <2>5, SeqEqual
<1>6. SubSeq(sent, lo, Len(sent)) = visible \o producer_batch
  <2>1. SubSeq(sent, lo, Flushed) \o SubSeq(sent, Flushed + 1, Len(sent))
          = SubSeq(sent, lo, Len(sent))
    <3>1. Len(sent) \in Flushed..Len(sent)
      BY <1>4
    <3> HIDE DEF lo
    <3> QED
      BY <1>4, <3>1, ConcatAdjacentSubSeq
  <2> QED
    BY <1>5, <2>1
<1> QED
  BY <1>1, <1>2, <1>3, <1>6 DEF Fifo!Flush

\* Taking an item pops the first visible one.
LEMMA TakeRefines ==
    ASSUME IInv, Take
    PROVE  Fifo!Pop
<1>0. TypeOK /\ ConsumerInv
  BY DEF IInv
<1>1. /\ cpc = "take" /\ UNCHANGED <<nodes, sent, producer_batch>>
      /\ received' = Append(received, consumer_batch[consumer_index + 1])
  BY DEF Take, producerVars
<1>2. /\ Len(received) \in Nat /\ Len(consumer_batch) \in Nat
      /\ consumer_index \in 0..Len(consumer_batch)
      /\ head \in 1..Len(nodes) /\ nodes[head].upto \in Nat
  BY <1>0, TypeFacts
<1>3. /\ consumer_index < Len(consumer_batch)
      /\ Len(received) + Len(consumer_batch) - consumer_index = nodes[head].upto
  BY <1>0, <1>1 DEF ConsumerInv
<1>4. consumer_batch[consumer_index + 1] = sent[Len(received) + 1]
  <2>1. /\ consumer_index + 1 \in (consumer_index + 1)..Len(consumer_batch)
        /\ Len(received) - consumer_index + (consumer_index + 1) = Len(received) + 1
    BY <1>2, <1>3
  <2> QED
    BY <1>0, <2>1 DEF ConsumerInv
<1>5. nodes[head].upto <= Flushed /\ Flushed \in Nat /\ Flushed <= Len(sent)
  BY <1>2, FlushedBound DEF IInv
<1>6. /\ sent \in Seq(Items) /\ Len(sent) \in Nat
      /\ Len(received) + 1 \in 1..Len(sent)
      /\ Flushed \in (Len(received) + 1)..Len(sent)
  <2>1. sent \in Seq(Items) /\ Len(sent) \in Nat
    BY <1>0 DEF TypeOK
  <2> QED
    BY <1>2, <1>3, <1>5, <2>1
<1> DEFINE lo == Len(received) + 1
           visible == SubSeq(sent, lo, Flushed)
<1>7. Head(visible) = sent[lo] /\ Tail(visible) = SubSeq(sent, lo + 1, Flushed)
  BY <1>6, HeadTailOfSubSeq
<1>8. visible # <<>>
  <2>1. \A i \in lo..Flushed : sent[i] \in Items
    BY <1>2, <1>6, ElementOfSeq
  <2>2. Len(visible) = IF lo <= Flushed THEN Flushed - lo + 1 ELSE 0
    BY <1>6, <2>1, SubSeqProperties
  <2>3. Len(visible) > 0
    BY <1>6, <2>2
  <2> HIDE DEF visible
  <2> QED
    BY <2>3, EmptySeq
<1>9. Len(received') = lo /\ Flushed' = Flushed
  <2>1. consumer_batch[consumer_index + 1] \in Items
    BY <1>4, <1>6, ElementOfSeq
  <2> QED
    BY <1>0, <1>1, <2>1, AppendProperties DEF TypeOK, Flushed
<1> QED
  BY <1>1, <1>4, <1>7, <1>8, <1>9 DEF Fifo!Pop

\* Every behaviour of the queue is one of a batched FIFO.
THEOREM QueueImplementsFifo == Spec => FifoSpec
<1>1. Init => Fifo!Init
  <2> SUFFICES ASSUME Init PROVE Fifo!Init
    OBVIOUS
  <2>1. Flushed = 0 /\ sent = <<>> /\ received = <<>> /\ producer_batch = <<>>
    BY DEF Init, Flushed, BatchNode
  <2>2. SubSeq(sent, Len(received) + 1, Flushed) = <<>>
    BY <2>1, SubSeqEmpty
  <2> QED
    BY <2>1, <2>2 DEF Fifo!Init
<1>2. IInv /\ [Next]_vars => [Fifo!Next]_(Fifo!vars)
  <2> SUFFICES ASSUME IInv, [Next]_vars PROVE [Fifo!Next]_(Fifo!vars)
    OBVIOUS
  <2>1. CASE \E v \in Items : Push(v)
    BY <2>1, PushRefines DEF Fifo!Next
  <2>2. CASE Link
    BY <2>2, LinkRefines DEF Fifo!Next
  <2>3. CASE Take
    BY <2>3, TakeRefines DEF Fifo!Next
  <2>4. CASE Acquire
    <3>1. Flushed' = Flushed
      <4>1. Len(nodes) \in 1..Len(nodes)
        BY TypeFacts DEF IInv
      <4> QED
        BY <2>4, <4>1, AcquireNodes DEF Flushed
    <3> QED
      BY <2>4, <3>1 DEF Acquire, producerVars, Fifo!vars
  <2>5. CASE UNCHANGED <<nodes, sent, received, producer_batch>>
    BY <2>5 DEF Fifo!vars, Flushed
  <2>6. CASE \/ FlushCall \/ Notify \/ Advance \/ (\E b \in BOOLEAN : PopCall(b))
             \/ LoadFound \/ LoadNone \/ TryPopEmpty \/ Wait
             \/ LoadCount("enqueued", enqueued_count)
             \/ LoadCount("dequeued", dequeued_count) \/ SizeReturn
    BY <2>5, <2>6 DEF FlushCall, Notify, Advance, PopCall, LoadFound, LoadNone, TryPopEmpty,
                      Wait, LoadCount, SizeReturn, producerVars, consumerVars
  <2>7. CASE UNCHANGED vars
    BY <2>5, <2>7 DEF vars, producerVars, consumerVars
  <2> QED
    BY <2>1, <2>2, <2>3, <2>4, <2>6, <2>7 DEF Next
<1> QED
  BY <1>1, <1>2, QueueInvariant, PTL DEF Spec, FifoSpec, Fifo!Spec
==============================================================================
