-------------------------- MODULE BatchedQueueLemmas --------------------------
(***************************************************************************)
(* What push, flush and pop do to a batched queue, for the proofs of the   *)
(* modules that hold such queues as values.                                *)
(***************************************************************************)
EXTENDS BatchedQueueOps, SequenceTheorems, TLAPS

\* push, flush and pop keep a queue a queue.
LEMMA QueueTypes ==
    ASSUME NEW S, NEW q \in Queues(S), NEW batch_size \in Nat
    PROVE  /\ QueueFlush(q) \in Queues(S)
           /\ \A v \in S : QueuePush(q, v, batch_size) \in Queues(S)
           /\ q.visible # <<>> => Head(q.visible) \in S /\ QueuePop(q) \in Queues(S)
<1>1. q.pending \in Seq(S) /\ q.visible \in Seq(S)
  BY DEF Queues
<1>2. <<>> \in Seq(S)
  BY EmptySeq
<1>3. ASSUME NEW pending \in Seq(S)
      PROVE  [pending |-> <<>>, visible |-> q.visible \o pending] \in Queues(S)
  <2>1. q.visible \o pending \in Seq(S)
    BY <1>1, ConcatProperties
  <2> QED  BY <1>2, <2>1 DEF Queues
<1>4. QueueFlush(q) \in Queues(S)
  BY <1>1, <1>3 DEF QueueFlush
<1>5. ASSUME NEW v \in S PROVE QueuePush(q, v, batch_size) \in Queues(S)
  <2>1. Append(q.pending, v) \in Seq(S)
    BY <1>1, AppendProperties
  <2> DEFINE pushed == [pending |-> Append(q.pending, v), visible |-> q.visible]
  <2>2. pushed \in Queues(S) /\ QueueFlush(pushed) \in Queues(S)
    BY <1>1, <1>3, <2>1 DEF Queues, QueueFlush
  <2>3. QueuePush(q, v, batch_size) =
            IF Len(pushed.pending) >= batch_size THEN QueueFlush(pushed) ELSE pushed
    BY DEF QueuePush
  <2> HIDE DEF pushed
  <2> QED  BY <2>2, <2>3
<1>6. ASSUME q.visible # <<>> PROVE Head(q.visible) \in S /\ QueuePop(q) \in Queues(S)
  <2>1. Head(q.visible) \in S /\ Tail(q.visible) \in Seq(S)
    BY <1>1, <1>6, HeadTailProperties
  <2> QED  BY <1>1, <2>1 DEF QueuePop, Queues
<1> QED  BY <1>4, <1>5, <1>6

\* A flush moves elements from one part of the queue to the other.
LEMMA FlushContents ==
    ASSUME NEW S, NEW q \in Queues(S)
    PROVE  QueueContents(QueueFlush(q)) = QueueContents(q)
<1>1. q.pending \in Seq(S) /\ q.visible \in Seq(S)
  BY DEF Queues
<1>2. q.visible \o q.pending \in Seq(S)
  BY <1>1, ConcatProperties
<1>3. (q.visible \o q.pending) \o <<>> = q.visible \o q.pending
  BY <1>2, ConcatEmptySeq
<1> QED  BY <1>3 DEF QueueContents, QueueFlush

\* Appending to the last part appends to the whole.
LEMMA AppendToLast ==
    ASSUME NEW S, NEW r \in Seq(S), NEW s \in Seq(S), NEW v \in S
    PROVE  r \o Append(s, v) = Append(r \o s, v)
<1>1. <<v>> \in Seq(S)
  OBVIOUS
<1>2. Append(s, v) = s \o <<v>>
  BY AppendIsConcat
<1>3. (r \o s) \o <<v>> = r \o (s \o <<v>>)
  BY <1>1, ConcatAssociative
<1>4. r \o s \in Seq(S)
  BY ConcatProperties
<1>5. Append(r \o s, v) = (r \o s) \o <<v>>
  BY <1>4, AppendIsConcat
<1> QED  BY <1>2, <1>3, <1>5

\* A push appends, whether or not it fills the batch.
LEMMA PushContents ==
    ASSUME NEW S, NEW q \in Queues(S), NEW v \in S, NEW batch_size
    PROVE  QueueContents(QueuePush(q, v, batch_size)) = Append(QueueContents(q), v)
<1>1. q.pending \in Seq(S) /\ q.visible \in Seq(S)
  BY DEF Queues
<1>2. Append(q.pending, v) \in Seq(S) /\ <<v>> \in Seq(S)
  BY <1>1, AppendProperties
<1> DEFINE pushed == [pending |-> Append(q.pending, v), visible |-> q.visible]
<1>3. pushed \in Queues(S)
  BY <1>1, <1>2 DEF Queues
<1>4. QueueContents(QueueFlush(pushed)) = QueueContents(pushed)
  BY <1>3, FlushContents
<1>5. QueueContents(pushed) = q.visible \o Append(q.pending, v)
  BY DEF QueueContents
<1>6. q.visible \o Append(q.pending, v) = Append(q.visible \o q.pending, v)
  <2>1. \A r, s \in Seq(S) : r \o Append(s, v) = Append(r \o s, v)
    BY AppendToLast
  <2> QED  BY <1>1, <2>1
<1>7. QueuePush(q, v, batch_size) \in {pushed, QueueFlush(pushed)}
  BY DEF QueuePush
<1> HIDE DEF pushed
<1> QED  BY <1>4, <1>5, <1>6, <1>7 DEF QueueContents

\* A pop takes the oldest element.
LEMMA PopContents ==
    ASSUME NEW S, NEW q \in Queues(S), q.visible # <<>>
    PROVE  /\ QueueContents(q) # <<>>
           /\ Head(q.visible) = Head(QueueContents(q))
           /\ QueueContents(QueuePop(q)) = Tail(QueueContents(q))
<1> DEFINE v == q.visible
           p == q.pending
           whole == v \o p
<1>1. v \in Seq(S) /\ p \in Seq(S)
  BY DEF Queues
<1>2. Len(v) \in Nat \ {0} /\ Len(p) \in Nat
  BY <1>1, EmptySeq, LenProperties
<1>3. /\ Tail(v) \in Seq(S) /\ Len(Tail(v)) = Len(v) - 1
      /\ \A i \in 1..Len(Tail(v)) : Tail(v)[i] = v[i + 1]
  BY <1>1, HeadTailProperties
<1>4. /\ whole \in Seq(S) /\ Len(whole) = Len(v) + Len(p)
      /\ \A i \in 1..(Len(v) + Len(p)) : whole[i] = IF i <= Len(v) THEN v[i] ELSE p[i - Len(v)]
  BY <1>1, ConcatProperties
<1>5. /\ Tail(v) \o p \in Seq(S) /\ Len(Tail(v) \o p) = Len(Tail(v)) + Len(p)
      /\ \A i \in 1..(Len(Tail(v)) + Len(p)) :
             (Tail(v) \o p)[i] = IF i <= Len(Tail(v)) THEN Tail(v)[i] ELSE p[i - Len(Tail(v))]
  BY <1>1, <1>3, ConcatProperties
<1>6. whole # <<>>
  BY <1>2, <1>4, EmptySeq
<1>7. /\ Tail(whole) \in Seq(S) /\ Len(Tail(whole)) = Len(whole) - 1
      /\ \A i \in 1..Len(Tail(whole)) : Tail(whole)[i] = whole[i + 1]
  BY <1>4, <1>6, HeadTailProperties
<1>8. Head(v) = v[1] /\ Head(whole) = whole[1] /\ whole[1] = v[1]
  <2> HIDE DEF v, p, whole
  <2> QED  BY <1>1, <1>2, <1>4
<1>9. Tail(v) \o p = Tail(whole)
  <2> HIDE DEF v, p, whole
  <2>1. Len(Tail(v) \o p) = Len(Tail(whole))
    BY <1>2, <1>3, <1>4, <1>5, <1>7
  <2>2. ASSUME NEW i \in 1..Len(Tail(whole)) PROVE (Tail(v) \o p)[i] = Tail(whole)[i]
    <3>1. Tail(whole)[i] = whole[i + 1]
      BY <1>7
    <3>2. CASE i <= Len(Tail(v))
      BY <1>2, <1>3, <1>4, <1>5, <1>7, <3>1, <3>2
    <3>3. CASE ~(i <= Len(Tail(v)))
      <4>1. (Tail(v) \o p)[i] = p[i - (Len(v) - 1)]
        BY <1>2, <1>3, <1>4, <1>5, <1>7, <3>3
      <4>2. whole[i + 1] = p[(i + 1) - Len(v)]
        BY <1>2, <1>3, <1>4, <1>7, <3>3
      <4>3. i - (Len(v) - 1) = (i + 1) - Len(v)
        BY <1>2, <1>4, <1>7
      <4> QED  BY <3>1, <4>1, <4>2, <4>3
    <3> QED  BY <3>2, <3>3
  <2> QED  BY <1>5, <1>7, <2>1, <2>2, SeqEqual
<1> QED  BY <1>6, <1>8, <1>9 DEF QueueContents, QueuePop
==============================================================================
