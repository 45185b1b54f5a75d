------------------------- MODULE MarketDataFeedProofs -------------------------
(***************************************************************************)
(* Proofs about MarketDataFeed for every set of engines and instruments,   *)
(* every batch size and any number of messages and faults: a subscription  *)
(* holds what was published, and the gap detector is neither deaf nor      *)
(* alarmed without a cause.                                                *)
(***************************************************************************)
EXTENDS MarketDataFeed, BatchedQueueLemmas, SequenceTheorems, TLAPS

\* The messages of instrument i with the n numbers after t.
Stretch(i, t, n) == [k \in 1..n |-> [instrument |-> i, seq_no |-> t + k]]

\* A detector that saw last as the highest number, behind a subscription that
\* took t messages: h are the numbers it took as new, g and a its gaps and its
\* alarms, c their causes.  A detector behind its subscription has a cause left
\* for the gap it will report.
Detector(last, t, h, g, a, c) ==
    /\ last <= t
    /\ h \subseteq 1..last
    /\ g = 0 => h = 1..last
    /\ a + (IF last # t THEN 1 ELSE 0) <= c

SubscriptionInv(e, i) ==
    /\ taken[e][i] <= last_seq_no[i]
    /\ <<e, i>> \notin subscribed => taken[e][i] = 0
    /\ Detector(last_seen[e][i], taken[e][i], heard[e][i], gaps[e][i], alarms[e][i],
                causes[e][i])

IInv == TypeOK /\ FeedComplete /\ \A e \in Engines, i \in Instruments : SubscriptionInv(e, i)

------------------------------------------------------------------------------
(* Sequences of messages. *)

\* One more message, and one less.
LEMMA StretchSteps ==
    ASSUME NEW i \in Instruments, NEW t \in Nat, NEW n \in Nat
    PROVE  /\ Stretch(i, t, n) \in Seq(Message)
           /\ Len(Stretch(i, t, n)) = n
           /\ Append(Stretch(i, t, n), [instrument |-> i, seq_no |-> t + n + 1])
                  = Stretch(i, t, n + 1)
           /\ Stretch(i, t, n) # <<>> =>
                  /\ n > 0
                  /\ Head(Stretch(i, t, n)) = [instrument |-> i, seq_no |-> t + 1]
                  /\ Tail(Stretch(i, t, n)) = Stretch(i, t + 1, n - 1)
<1> DEFINE M(k) == [instrument |-> i, seq_no |-> k]
<1>1. ASSUME NEW k \in Nat PROVE M(k + 1) \in Message
  BY DEF Message
<1>2. ASSUME NEW s \in Nat, NEW m \in Nat
      PROVE  /\ Stretch(i, s, m) \in Seq(Message)
             /\ Len(Stretch(i, s, m)) = m
             /\ \A k \in 1..m : Stretch(i, s, m)[k] = M(s + k)
  <2>1. \A k \in 1..m : M(s + k) \in Message
    BY DEF Message
  <2>2. [k \in 1..m |-> M(s + k)] \in Seq(Message)
    <3> HIDE DEF M
    <3> QED  BY <2>1
  <2> QED  BY <2>2 DEF Stretch
<1> HIDE DEF M
<1>3. Append(Stretch(i, t, n), M(t + n + 1)) = Stretch(i, t, n + 1)
  <2> DEFINE longer == Append(Stretch(i, t, n), M(t + n + 1))
  <2>1. M(t + n + 1) \in Message
    BY <1>1
  <2>2. /\ longer \in Seq(Message) /\ Len(longer) = n + 1
        /\ \A k \in 1..n : longer[k] = Stretch(i, t, n)[k]
        /\ longer[n + 1] = M(t + n + 1)
    <3> DEFINE s == Stretch(i, t, n)
               m == M(t + n + 1)
    <3>1. s \in Seq(Message) /\ Len(s) = n /\ m \in Message
      BY <1>2, <2>1
    <3> HIDE DEF s, m
    <3>2. /\ Append(s, m) \in Seq(Message) /\ Len(Append(s, m)) = n + 1
          /\ \A k \in 1..n : Append(s, m)[k] = s[k]
          /\ Append(s, m)[n + 1] = m
      BY <3>1, AppendProperties
    <3> QED  BY <3>2 DEF s, m
  <2>3. \A k \in 1..(n + 1) : longer[k] = M(t + k)
    <3> HIDE DEF longer
    <3>1. \A k \in 1..n : longer[k] = M(t + k)
      BY <1>2, <2>2
    <3>2. t + (n + 1) = t + n + 1
      OBVIOUS
    <3>3. longer[n + 1] = M(t + (n + 1))
      BY <2>2, <3>2
    <3> QED  BY <3>1, <3>3
  <2>4. /\ Stretch(i, t, n + 1) \in Seq(Message) /\ Len(Stretch(i, t, n + 1)) = n + 1
        /\ \A k \in 1..(n + 1) : Stretch(i, t, n + 1)[k] = M(t + k)
    <3>1. n + 1 \in Nat
      OBVIOUS
    <3> QED  BY <1>2, <3>1
  <2> HIDE DEF longer
  <2>5. longer = Stretch(i, t, n + 1)
    BY <2>2, <2>3, <2>4, SeqEqual
  <2> QED  BY <2>5 DEF longer
<1>4. ASSUME Stretch(i, t, n) # <<>>
      PROVE  /\ n > 0
             /\ Head(Stretch(i, t, n)) = M(t + 1)
             /\ Tail(Stretch(i, t, n)) = Stretch(i, t + 1, n - 1)
  <2> DEFINE s == Stretch(i, t, n)
  <2>1. /\ s \in Seq(Message) /\ Len(s) = n /\ s # <<>> /\ \A k \in 1..n : s[k] = M(t + k)
    BY <1>2, <1>4
  <2> HIDE DEF s
  <2>2. n > 0
    BY <2>1, EmptySeq
  <2>3. Head(s) = M(t + 1)
    BY <2>1, <2>2
  <2>4. /\ Tail(s) \in Seq(Message) /\ Len(Tail(s)) = n - 1
        /\ \A k \in 1..(n - 1) : Tail(s)[k] = s[k + 1]
    BY <2>1, HeadTailProperties
  <2>5. \A k \in 1..(n - 1) : Tail(s)[k] = M(t + 1 + k)
    <3>1. ASSUME NEW k \in 1..(n - 1) PROVE s[k + 1] = M(t + 1 + k)
      <4>1. k + 1 \in 1..n /\ t + (k + 1) = t + 1 + k
        OBVIOUS
      <4> QED  BY <2>1, <4>1
    <3> QED  BY <2>4, <3>1
  <2>6. /\ Stretch(i, t + 1, n - 1) \in Seq(Message) /\ Len(Stretch(i, t + 1, n - 1)) = n - 1
        /\ \A k \in 1..(n - 1) : Stretch(i, t + 1, n - 1)[k] = M(t + 1 + k)
    <3>1. t + 1 \in Nat /\ n - 1 \in Nat
      BY <2>2
    <3> QED  BY <1>2, <3>1
  <2>7. Tail(s) = Stretch(i, t + 1, n - 1)
    BY <2>4, <2>5, <2>6, SeqEqual
  <2> QED  BY <2>2, <2>3, <2>7 DEF s
<1> QED  BY <1>2, <1>3, <1>4 DEF M

------------------------------------------------------------------------------
(* One detector. *)

Last(last, n) == IF Status(last, n) # "DuplicateOrOutOfOrder" THEN n ELSE last
Heard(h, last, n) == IF Status(last, n) # "DuplicateOrOutOfOrder" THEN h \cup {n} ELSE h
Alarms(a, last, n) == IF Status(last, n) # "Ok" THEN a + 1 ELSE a
Gaps(g, last, n) == IF Status(last, n) = "Gap" THEN g + 1 ELSE g

\* The next message from the subscription spends the cause of a gap, if there is
\* one; any earlier message brings a cause of its own.
LEMMA ObserveDetector ==
    ASSUME NEW last \in Nat, NEW t \in Nat, NEW h \in SUBSET (Nat \ {0}), NEW g \in Nat,
           NEW a \in Nat, NEW c \in Nat, NEW n \in Nat \ {0}, Detector(last, t, h, g, a, c)
    PROVE  /\ n = t + 1 => Detector(Last(last, n), t + 1, Heard(h, last, n), Gaps(g, last, n),
                                    Alarms(a, last, n), c)
           /\ n <= t => Detector(Last(last, n), t, Heard(h, last, n), Gaps(g, last, n),
                                 Alarms(a, last, n), c + 1)
<1>0. /\ last <= t /\ h \subseteq 1..last
      /\ g = 0 => h = 1..last
      /\ a + (IF last # t THEN 1 ELSE 0) <= c
  BY DEF Detector
<1>1. CASE n = last + 1
  <2>1. /\ Last(last, n) = n /\ Heard(h, last, n) = h \cup {n}
        /\ Gaps(g, last, n) = g /\ Alarms(a, last, n) = a
    BY <1>1 DEF Last, Heard, Gaps, Alarms, Status
  <2>2. h \cup {n} \subseteq 1..n
    BY <1>0, <1>1
  <2>3. g = 0 => h \cup {n} = 1..n
    <3>1. 1..n = 1..last \cup {n}
      BY <1>1
    <3> QED  BY <1>0, <3>1
  <2>4. n = t + 1 => a + (IF n # t + 1 THEN 1 ELSE 0) <= c
    BY <1>0
  <2>5. n <= t => a + (IF n # t THEN 1 ELSE 0) <= c + 1
    BY <1>0
  <2>6. n = t + 1 => Detector(n, t + 1, h \cup {n}, g, a, c)
    BY <2>2, <2>3, <2>4 DEF Detector
  <2>7. n <= t => Detector(n, t, h \cup {n}, g, a, c + 1)
    BY <2>2, <2>3, <2>5 DEF Detector
  <2> QED  BY <2>1, <2>6, <2>7
<1>2. CASE n > last + 1
  <2>1. /\ Last(last, n) = n /\ Heard(h, last, n) = h \cup {n}
        /\ Gaps(g, last, n) = g + 1 /\ Alarms(a, last, n) = a + 1
    BY <1>2 DEF Last, Heard, Gaps, Alarms, Status
  <2>2. h \cup {n} \subseteq 1..n
    BY <1>0, <1>2
  <2>3. g + 1 # 0
    OBVIOUS
  <2> QED  BY <1>0, <1>2, <2>1, <2>2, <2>3 DEF Detector
<1>3. CASE n <= last
  <2>1. /\ Last(last, n) = last /\ Heard(h, last, n) = h
        /\ Gaps(g, last, n) = g /\ Alarms(a, last, n) = a + 1
    BY <1>3 DEF Last, Heard, Gaps, Alarms, Status
  <2>2. a + 1 + (IF last # t THEN 1 ELSE 0) <= c + 1
    BY <1>0
  <2>3. n # t + 1
    BY <1>0, <1>3
  <2> QED  BY <1>0, <2>1, <2>2, <2>3 DEF Detector
<1> QED  BY <1>1, <1>2, <1>3

\* A message that is lost leaves a cause behind; so does a late start.
LEMMA MissDetector ==
    ASSUME NEW last \in Nat, NEW t \in Nat, NEW h, NEW g \in Nat, NEW a \in Nat, NEW c \in Nat,
           NEW u \in Nat, t <= u, Detector(last, t, h, g, a, c)
    PROVE  /\ Detector(last, u, h, g, a, c + 1)
           /\ u = t => Detector(last, u, h, g, a, c)
BY DEF Detector

\* A reset detector has a cause if messages went by before.
LEMMA ResetDetector ==
    ASSUME NEW t \in Nat
    PROVE  Detector(0, t, {}, 0, 0, IF t > 0 THEN 1 ELSE 0)
BY DEF Detector

------------------------------------------------------------------------------
(* The inductive invariant. *)

\* FeedComplete, for one subscription.
FeedAt(e, i) ==
    QueueContents(queue[e][i]) = IF <<e, i>> \in subscribed
                                 THEN Stretch(i, taken[e][i], last_seq_no[i] - taken[e][i])
                                 ELSE <<>>

LEMMA FeedByEntry == FeedComplete <=> \A e \in Engines, i \in Instruments : FeedAt(e, i)
BY DEF FeedComplete, FeedAt, Stretch

\* The facts of the invariant about one subscription.
LEMMA EntryFacts ==
    ASSUME IInv, NEW e \in Engines, NEW i \in Instruments
    PROVE  /\ last_seq_no \in [Instruments -> Nat] /\ last_seq_no[i] \in Nat
           /\ queue[e][i] \in Queues(Message)
           /\ last_seen[e][i] \in Nat /\ taken[e][i] \in Nat
           /\ heard[e][i] \in SUBSET (Nat \ {0})
           /\ alarms[e][i] \in Nat /\ gaps[e][i] \in Nat /\ causes[e][i] \in Nat
           /\ faults[e][i] \in Nat
           /\ FeedAt(e, i) /\ SubscriptionInv(e, i)
<1>1. FeedAt(e, i) /\ SubscriptionInv(e, i)
  BY FeedByEntry DEF IInv
<1>2. TypeOK
  BY DEF IInv
<1> QED  BY <1>1, <1>2 DEF TypeOK, PerSubscription

\* Nothing is subscribed and nothing is published.
LEMMA InitInv == ASSUME Init PROVE IInv
<1>1. EmptyQueue \in Queues(Message) /\ QueueContents(EmptyQueue) = <<>>
  <2>1. <<>> \in Seq(Message)
    BY EmptySeq
  <2>2. <<>> \o <<>> = <<>>
    BY <2>1, ConcatEmptySeq
  <2> QED  BY <2>1, <2>2 DEF EmptyQueue, Queues, QueueContents
<1>2. TypeOK
  BY <1>1 DEF Init, TypeOK, PerSubscription, Everywhere
<1>3. ASSUME NEW e \in Engines, NEW i \in Instruments
      PROVE  FeedAt(e, i) /\ SubscriptionInv(e, i)
  <2>1. /\ queue[e][i] = EmptyQueue /\ last_seen[e][i] = 0 /\ taken[e][i] = 0
        /\ heard[e][i] = {} /\ alarms[e][i] = 0 /\ gaps[e][i] = 0 /\ causes[e][i] = 0
        /\ last_seq_no[i] = 0 /\ <<e, i>> \notin subscribed
    BY DEF Init, Everywhere
  <2>2. Detector(0, 0, {}, 0, 0, 0)
    BY DEF Detector
  <2> QED  BY <1>1, <2>1, <2>2 DEF FeedAt, SubscriptionInv
<1> QED  BY <1>2, <1>3, FeedByEntry DEF IInv

\* To show the invariant after a step, show the types and every subscription.
LEMMA InvByEntry ==
    ASSUME TypeOK',
           \A e \in Engines, i \in Instruments : FeedAt(e, i)' /\ SubscriptionInv(e, i)'
    PROVE  IInv'
<1>1. FeedComplete'
  BY DEF FeedComplete, FeedAt, Stretch
<1> QED  BY <1>1 DEF IInv

\* A published message goes to the end of the queues of its instrument.
LEMMA PublishInv ==
    ASSUME IInv, NEW i \in Instruments, Publish(i)
    PROVE  IInv'
<1> DEFINE message == [instrument |-> i, seq_no |-> last_seq_no[i] + 1]
<1>1. /\ last_seq_no' \in [Instruments -> Nat]
      /\ \A k \in Instruments :
             last_seq_no'[k] = IF k = i THEN last_seq_no[k] + 1 ELSE last_seq_no[k]
  BY DEF IInv, TypeOK, Publish, NextSeqNo
<1>2. message \in Message
  BY DEF IInv, TypeOK, Message
<1>3. \A e \in Engines, k \in Instruments :
          queue'[e][k] = IF k = i /\ <<e, k>> \in subscribed
                         THEN QueuePush(queue[e][k], message, BatchSize) ELSE queue[e][k]
  BY <1>1 DEF Publish
<1> HIDE DEF message
<1>4. ASSUME NEW e \in Engines, NEW k \in Instruments
      PROVE  queue'[e][k] \in Queues(Message)
  <2>1. queue[e][k] \in Queues(Message)
    BY EntryFacts
  <2>2. QueuePush(queue[e][k], message, BatchSize) \in Queues(Message)
    BY <1>2, <2>1, QueueTypes, FeedAssumption
  <2> QED  BY <1>3, <2>1, <2>2
<1>5. TypeOK'
  <2>1. queue' \in PerSubscription(Queues(Message))
    BY <1>4 DEF Publish, PerSubscription
  <2> QED  BY <1>1, <2>1 DEF IInv, TypeOK, Publish, detectorVars
<1>6. ASSUME NEW e \in Engines, NEW k \in Instruments
      PROVE  FeedAt(e, k)' /\ SubscriptionInv(e, k)'
  <2>1. /\ queue[e][k] \in Queues(Message) /\ FeedAt(e, k) /\ SubscriptionInv(e, k)
        /\ taken[e][k] \in Nat /\ last_seq_no[k] \in Nat
    BY EntryFacts
  <2>2. taken[e][k] <= last_seq_no[k]
    BY <2>1 DEF SubscriptionInv
  <2>3. UNCHANGED <<subscribed, taken, last_seen, heard, alarms, gaps, causes>>
    BY DEF Publish, detectorVars
  <2>4. SubscriptionInv(e, k)'
    <3>1. taken[e][k] <= last_seq_no'[k]
      BY <1>1, <2>1, <2>2
    <3> QED  BY <2>1, <2>3, <3>1 DEF SubscriptionInv
  <2>5. CASE k = i /\ <<e, k>> \in subscribed
    <3> DEFINE n == last_seq_no[k] - taken[e][k]
    <3>1. n \in Nat /\ taken[e][k] + n + 1 = last_seq_no[k] + 1
          /\ last_seq_no'[k] - taken[e][k] = n + 1
      BY <1>1, <2>1, <2>2, <2>5
    <3>2. QueueContents(queue[e][k]) = Stretch(k, taken[e][k], n)
      BY <2>1, <2>5 DEF FeedAt
    <3>3. message = [instrument |-> k, seq_no |-> taken[e][k] + n + 1]
      BY <2>5, <3>1 DEF message
    <3> HIDE DEF n
    <3>4. QueueContents(queue'[e][k]) = Append(QueueContents(queue[e][k]), message)
      BY <1>2, <1>3, <2>1, <2>5, PushContents
    <3>5. Append(Stretch(k, taken[e][k], n), message) = Stretch(k, taken[e][k], n + 1)
      BY <2>1, <3>1, <3>3, StretchSteps
    <3> QED  BY <2>3, <2>4, <2>5, <3>1, <3>2, <3>4, <3>5 DEF FeedAt
  <2>6. CASE ~(k = i /\ <<e, k>> \in subscribed)
    <3>1. queue'[e][k] = queue[e][k]
      BY <1>3, <2>6
    <3>2. <<e, k>> \in subscribed => last_seq_no'[k] = last_seq_no[k]
      BY <1>1, <2>6
    <3> QED  BY <2>1, <2>3, <2>4, <3>1, <3>2 DEF FeedAt
  <2> QED  BY <2>5, <2>6
<1> QED  BY <1>5, <1>6, InvByEntry

\* A flush leaves the contents of every queue alone.
LEMMA FlushInv == ASSUME IInv, Flush PROVE IInv'
<1>1. UNCHANGED <<last_seq_no, subscribed, taken, last_seen, heard, alarms, gaps, causes, faults>>
  BY DEF Flush, publisherVars, detectorVars
<1>2. ASSUME NEW e \in Engines, NEW i \in Instruments
      PROVE  /\ queue'[e][i] \in Queues(Message)
             /\ QueueContents(queue'[e][i]) = QueueContents(queue[e][i])
  <2>1. queue'[e][i] = QueueFlush(queue[e][i])
    BY DEF Flush
  <2>2. queue[e][i] \in Queues(Message)
    BY EntryFacts
  <2>3. QueueFlush(queue[e][i]) \in Queues(Message)
    BY <2>2, QueueTypes, FeedAssumption
  <2> QED  BY <2>1, <2>2, <2>3, FlushContents
<1>3. TypeOK'
  <2>1. queue' \in PerSubscription(Queues(Message))
    BY <1>2 DEF Flush, PerSubscription
  <2> QED  BY <1>1, <2>1 DEF IInv, TypeOK
<1>4. ASSUME NEW e \in Engines, NEW i \in Instruments
      PROVE  FeedAt(e, i)' /\ SubscriptionInv(e, i)'
  <2>1. FeedAt(e, i) /\ SubscriptionInv(e, i)
    BY EntryFacts
  <2> QED  BY <1>1, <1>2, <2>1 DEF FeedAt, SubscriptionInv
<1> QED  BY <1>3, <1>4, InvByEntry

\* A subscription starts empty; what it missed is the cause of one gap.
LEMMA SubscribeInv ==
    ASSUME IInv, NEW e \in Engines, NEW i \in Instruments, Subscribe(e, i)
    PROVE  IInv'
<1>0. /\ last_seq_no[i] \in Nat /\ taken[e][i] = 0 /\ causes[e][i] \in Nat
      /\ QueueContents(queue[e][i]) = <<>>
  BY EntryFacts DEF Subscribe, SubscriptionInv, FeedAt
<1>1. UNCHANGED <<last_seq_no, queue, last_seen, heard, alarms, gaps, faults>>
  BY DEF Subscribe
<1> DEFINE c == IF last_seq_no[i] > 0 THEN causes[e][i] + 1 ELSE causes[e][i]
<1>2. c \in Nat
  BY <1>0
<1>3. taken' = [taken EXCEPT ![e][i] = last_seq_no[i]] /\ causes' = [causes EXCEPT ![e][i] = c]
  BY DEF Subscribe
<1>4. taken \in PerSubscription(Nat) /\ causes \in PerSubscription(Nat)
  BY DEF IInv, TypeOK
<1> HIDE DEF c
<1>5. /\ taken' \in PerSubscription(Nat)
      /\ \A d \in Engines, k \in Instruments :
             taken'[d][k] = IF d = e /\ k = i THEN last_seq_no[i] ELSE taken[d][k]
  BY <1>0, <1>3, <1>4 DEF PerSubscription
<1>6. /\ causes' \in PerSubscription(Nat)
      /\ \A d \in Engines, k \in Instruments :
             causes'[d][k] = IF d = e /\ k = i THEN c ELSE causes[d][k]
  BY <1>2, <1>3, <1>4 DEF PerSubscription
<1>7. /\ subscribed' \subseteq Engines \X Instruments
      /\ \A d \in Engines, k \in Instruments :
             <<d, k>> \in subscribed' <=> (d = e /\ k = i) \/ <<d, k>> \in subscribed
  BY DEF IInv, TypeOK, Subscribe
<1>8. TypeOK'
  BY <1>1, <1>5, <1>6, <1>7 DEF IInv, TypeOK
<1>9. ASSUME NEW d \in Engines, NEW k \in Instruments
      PROVE  FeedAt(d, k)' /\ SubscriptionInv(d, k)'
  <2>0. /\ FeedAt(d, k) /\ SubscriptionInv(d, k)
        /\ last_seen[d][k] \in Nat /\ gaps[d][k] \in Nat /\ alarms[d][k] \in Nat
        /\ causes[d][k] \in Nat /\ taken[d][k] \in Nat /\ last_seq_no[k] \in Nat
    BY EntryFacts
  <2>1. CASE d = e /\ k = i
    <3>1. taken'[d][k] = last_seq_no[k] /\ causes'[d][k] = c /\ <<d, k>> \in subscribed'
      BY <1>5, <1>6, <1>7, <2>1
    <3>2. Stretch(k, last_seq_no[k], 0) = <<>>
      BY DEF Stretch
    <3>3. last_seq_no[k] - last_seq_no[k] = 0
      BY <2>0
    <3>4. QueueContents(queue[d][k]) = <<>>
      BY <1>0, <2>1
    <3>5. FeedAt(d, k)'
      BY <1>1, <3>1, <3>2, <3>3, <3>4 DEF FeedAt
    <3>6. Detector(last_seen[d][k], 0, heard[d][k], gaps[d][k], alarms[d][k], causes[d][k])
      BY <1>0, <2>0, <2>1 DEF SubscriptionInv
    <3>7. Detector(last_seen[d][k], last_seq_no[k], heard[d][k], gaps[d][k], alarms[d][k], c)
      <4>1. CASE last_seq_no[k] > 0
        BY <2>0, <2>1, <3>6, <4>1, MissDetector DEF c
      <4>2. CASE last_seq_no[k] = 0
        BY <2>0, <2>1, <3>6, <4>2 DEF c
      <4> QED  BY <2>0, <4>1, <4>2
    <3> QED  BY <1>1, <2>0, <3>1, <3>5, <3>7 DEF SubscriptionInv
  <2>2. CASE ~(d = e /\ k = i)
    <3>1. /\ taken'[d][k] = taken[d][k] /\ causes'[d][k] = causes[d][k]
          /\ <<d, k>> \in subscribed' <=> <<d, k>> \in subscribed
      BY <1>5, <1>6, <1>7, <2>2
    <3>2. FeedAt(d, k)'
      BY <1>1, <2>0, <3>1 DEF FeedAt
    <3> QED  BY <1>1, <2>0, <3>1, <3>2 DEF SubscriptionInv
  <2> QED  BY <2>1, <2>2
<1> QED  BY <1>8, <1>9, InvByEntry

\* What observe does to the tables of the detectors.
LEMMA ObserveEffect ==
    ASSUME IInv, NEW e \in Engines, NEW i \in Instruments, NEW n \in Nat \ {0}, Observe(e, i, n)
    PROVE  /\ last_seen' \in PerSubscription(Nat) /\ heard' \in PerSubscription(SUBSET (Nat \ {0}))
           /\ alarms' \in PerSubscription(Nat) /\ gaps' \in PerSubscription(Nat)
           /\ last_seen'[e][i] = Last(last_seen[e][i], n)
           /\ heard'[e][i] = Heard(heard[e][i], last_seen[e][i], n)
           /\ alarms'[e][i] = Alarms(alarms[e][i], last_seen[e][i], n)
           /\ gaps'[e][i] = Gaps(gaps[e][i], last_seen[e][i], n)
           /\ \A d \in Engines, k \in Instruments :
                  ~(d = e /\ k = i) => /\ last_seen'[d][k] = last_seen[d][k]
                                       /\ heard'[d][k] = heard[d][k]
                                       /\ alarms'[d][k] = alarms[d][k]
                                       /\ gaps'[d][k] = gaps[d][k]
<1> DEFINE status == Status(last_seen[e][i], n)
<1>0. status \in {"Ok", "Gap", "DuplicateOrOutOfOrder"}
  BY DEF Status
<1>1. /\ last_seen \in PerSubscription(Nat) /\ heard \in PerSubscription(SUBSET (Nat \ {0}))
      /\ alarms \in PerSubscription(Nat) /\ gaps \in PerSubscription(Nat)
  BY DEF IInv, TypeOK
<1>2. /\ last_seen[e][i] \in Nat /\ heard[e][i] \in SUBSET (Nat \ {0})
      /\ alarms[e][i] \in Nat /\ gaps[e][i] \in Nat
  BY EntryFacts
<1>3. /\ last_seen' = [last_seen EXCEPT ![e][i] = Last(last_seen[e][i], n)]
      /\ Last(last_seen[e][i], n) \in Nat
  BY <1>2 DEF Observe, Last
<1>4. /\ heard' = [heard EXCEPT ![e][i] = Heard(heard[e][i], last_seen[e][i], n)]
      /\ Heard(heard[e][i], last_seen[e][i], n) \in SUBSET (Nat \ {0})
  BY <1>2 DEF Observe, Heard
<1>5. ASSUME NEW f \in PerSubscription(Nat) PROVE f = [f EXCEPT ![e][i] = f[e][i]]
  BY DEF PerSubscription
<1>6. /\ alarms' = [alarms EXCEPT ![e][i] = Alarms(alarms[e][i], last_seen[e][i], n)]
      /\ Alarms(alarms[e][i], last_seen[e][i], n) \in Nat
  <2>1. CASE status = "Ok"
    <3>1. alarms' = alarms /\ Alarms(alarms[e][i], last_seen[e][i], n) = alarms[e][i]
      BY <2>1 DEF Observe, Alarms
    <3> QED  BY <1>1, <1>2, <1>5, <3>1
  <2>2. CASE status # "Ok"
    <3>1. status \in {"Gap", "DuplicateOrOutOfOrder"}
      BY <1>0, <2>2
    <3>2. alarms' = [alarms EXCEPT ![e][i] = alarms[e][i] + 1]
      BY <3>1 DEF Observe
    <3>3. Alarms(alarms[e][i], last_seen[e][i], n) = alarms[e][i] + 1
      BY <2>2 DEF Alarms
    <3> QED  BY <1>2, <3>2, <3>3
  <2> QED  BY <2>1, <2>2
<1>7. /\ gaps' = [gaps EXCEPT ![e][i] = Gaps(gaps[e][i], last_seen[e][i], n)]
      /\ Gaps(gaps[e][i], last_seen[e][i], n) \in Nat
  <2>1. CASE status # "Gap"
    <3>1. gaps' = gaps /\ Gaps(gaps[e][i], last_seen[e][i], n) = gaps[e][i]
      BY <2>1 DEF Observe, Gaps
    <3> QED  BY <1>1, <1>2, <1>5, <3>1
  <2>2. CASE status = "Gap"
    BY <1>2, <2>2 DEF Observe, Gaps
  <2> QED  BY <2>1, <2>2
<1>8. /\ last_seen' \in PerSubscription(Nat)
      /\ \A d \in Engines, k \in Instruments :
             last_seen'[d][k] = IF d = e /\ k = i THEN Last(last_seen[e][i], n)
                                ELSE last_seen[d][k]
  BY <1>1, <1>3 DEF PerSubscription
<1>9. /\ heard' \in PerSubscription(SUBSET (Nat \ {0}))
      /\ \A d \in Engines, k \in Instruments :
             heard'[d][k] = IF d = e /\ k = i THEN Heard(heard[e][i], last_seen[e][i], n)
                            ELSE heard[d][k]
  BY <1>1, <1>4 DEF PerSubscription
<1>10. /\ alarms' \in PerSubscription(Nat)
       /\ \A d \in Engines, k \in Instruments :
              alarms'[d][k] = IF d = e /\ k = i THEN Alarms(alarms[e][i], last_seen[e][i], n)
                              ELSE alarms[d][k]
  BY <1>1, <1>6 DEF PerSubscription
<1>11. /\ gaps' \in PerSubscription(Nat)
       /\ \A d \in Engines, k \in Instruments :
              gaps'[d][k] = IF d = e /\ k = i THEN Gaps(gaps[e][i], last_seen[e][i], n)
                            ELSE gaps[d][k]
  BY <1>1, <1>7 DEF PerSubscription
<1> QED  BY <1>8, <1>9, <1>10, <1>11

\* A pop counts its message as taken.
LEMMA PopTaken ==
    ASSUME IInv, NEW e \in Engines, NEW i \in Instruments, Pop(e, i)
    PROVE  \A d \in Engines, k \in Instruments :
               taken'[d][k] = IF d = e /\ k = i THEN taken[d][k] + 1 ELSE taken[d][k]
BY DEF IInv, TypeOK, PerSubscription, Pop

\* A pop takes the message behind the last one taken, and the queue keeps the rest.
LEMMA PopEffect ==
    ASSUME IInv, NEW e \in Engines, NEW i \in Instruments, Pop(e, i)
    PROVE  /\ queue' \in PerSubscription(Queues(Message)) /\ taken' \in PerSubscription(Nat)
           /\ <<e, i>> \in subscribed
           /\ Head(queue[e][i].visible) = [instrument |-> i, seq_no |-> taken[e][i] + 1]
           /\ taken[e][i] + 1 <= last_seq_no[i]
           /\ \A d \in Engines, k \in Instruments : FeedAt(d, k)'
<1> DEFINE q == queue[e][i]
           t == taken[e][i]
           n == last_seq_no[i] - t
<1>0. q \in Queues(Message) /\ q.visible # <<>> /\ t \in Nat /\ last_seq_no[i] \in Nat
  BY EntryFacts DEF Pop
<1>1. FeedAt(e, i) /\ t <= last_seq_no[i] /\ n \in Nat
  <2>1. FeedAt(e, i) /\ SubscriptionInv(e, i)
    BY EntryFacts
  <2>2. t <= last_seq_no[i]
    BY <2>1 DEF SubscriptionInv
  <2> QED  BY <1>0, <2>1, <2>2
<1>2. /\ QueueContents(q) # <<>> /\ Head(q.visible) = Head(QueueContents(q))
      /\ QueueContents(QueuePop(q)) = Tail(QueueContents(q))
  BY <1>0, PopContents
<1>3. <<e, i>> \in subscribed /\ QueueContents(q) = Stretch(i, t, n)
  BY <1>1, <1>2 DEF FeedAt
<1>4. QueuePop(q) \in Queues(Message)
  BY <1>0, QueueTypes, FeedAssumption
<1>5. /\ UNCHANGED <<last_seq_no, subscribed>>
      /\ queue' = [queue EXCEPT ![e][i] = QueuePop(q)]
      /\ taken' = [taken EXCEPT ![e][i] = t + 1]
  BY DEF Pop, publisherVars
<1>6. queue \in PerSubscription(Queues(Message)) /\ taken \in PerSubscription(Nat)
  BY DEF IInv, TypeOK
<1> HIDE DEF q, n
<1>7. /\ n > 0 /\ Head(q.visible) = [instrument |-> i, seq_no |-> t + 1]
      /\ QueueContents(QueuePop(q)) = Stretch(i, t + 1, n - 1)
  <2>1. Stretch(i, t, n) # <<>> =>
            /\ n > 0
            /\ Head(Stretch(i, t, n)) = [instrument |-> i, seq_no |-> t + 1]
            /\ Tail(Stretch(i, t, n)) = Stretch(i, t + 1, n - 1)
    BY <1>0, <1>1, StretchSteps
  <2> QED  BY <1>2, <1>3, <2>1
<1>8. t + 1 <= last_seq_no[i] /\ n - 1 = last_seq_no[i] - (t + 1)
  BY <1>0, <1>7 DEF n
<1>9. /\ queue' \in PerSubscription(Queues(Message))
      /\ \A d \in Engines, k \in Instruments :
             queue'[d][k] = IF d = e /\ k = i THEN QueuePop(q) ELSE queue[d][k]
  BY <1>4, <1>5, <1>6 DEF PerSubscription
<1>10. /\ taken' \in PerSubscription(Nat)
       /\ \A d \in Engines, k \in Instruments :
              taken'[d][k] = IF d = e /\ k = i THEN t + 1 ELSE taken[d][k]
  BY <1>0, <1>5, <1>6 DEF PerSubscription
<1>11. ASSUME NEW d \in Engines, NEW k \in Instruments PROVE FeedAt(d, k)'
  <2>1. CASE d = e /\ k = i
    <3>1. QueueContents(queue'[d][k]) = Stretch(i, t + 1, last_seq_no[i] - (t + 1))
      BY <1>7, <1>8, <1>9, <2>1
    <3>2. taken'[d][k] = t + 1
      BY <1>10, <2>1
    <3> QED  BY <1>3, <1>5, <2>1, <3>1, <3>2 DEF FeedAt
  <2>2. CASE ~(d = e /\ k = i)
    <3>1. queue'[d][k] = queue[d][k] /\ taken'[d][k] = taken[d][k] /\ FeedAt(d, k)
      BY <1>9, <1>10, <2>2, EntryFacts
    <3> QED  BY <1>5, <3>1 DEF FeedAt
  <2> QED  BY <2>1, <2>2
<1> QED  BY <1>3, <1>7, <1>8, <1>9, <1>10, <1>11 DEF q

\* Faults are counted.
LEMMA FaultType ==
    ASSUME IInv, NEW e \in Engines, NEW I, Fault(e, I)
    PROVE  faults' \in PerSubscription(Nat)
<1>1. faults \in PerSubscription(Nat)
  BY DEF IInv, TypeOK
<1>2. faults' = [faults EXCEPT ![e] = [i \in Instruments |->
                    IF i \in I THEN faults[e][i] + 1 ELSE faults[e][i]]]
  BY DEF Fault
<1> QED  BY <1>1, <1>2 DEF PerSubscription

\* A message that reaches the detector in turn.
LEMMA ReceiveInv ==
    ASSUME IInv, NEW e \in Engines, NEW i \in Instruments, Receive(e, i)
    PROVE  IInv'
<1> DEFINE n == taken[e][i] + 1
<1>0. Pop(e, i) /\ UNCHANGED <<last_seq_no, subscribed, causes, faults>>
  BY DEF Receive, Pop, publisherVars
<1>1. n \in Nat \ {0} /\ Observe(e, i, n)
  <2>1. Head(queue[e][i].visible) = [instrument |-> i, seq_no |-> n]
    BY <1>0, PopEffect
  <2>2. taken[e][i] \in Nat
    BY EntryFacts
  <2> QED  BY <2>1, <2>2 DEF Receive
<1> HIDE DEF n
<1>2. TypeOK'
  BY <1>0, <1>1, PopEffect, ObserveEffect DEF IInv, TypeOK
<1>3. \A d \in Engines, k \in Instruments : FeedAt(d, k)'
  BY <1>0, PopEffect
<1>4. \A d \in Engines, k \in Instruments :
          taken'[d][k] = IF d = e /\ k = i THEN taken[d][k] + 1 ELSE taken[d][k]
  BY <1>0, PopTaken
<1>5. ASSUME NEW d \in Engines, NEW k \in Instruments PROVE SubscriptionInv(d, k)'
  <2>0. SubscriptionInv(d, k)
    BY EntryFacts
  <2>1. CASE d = e /\ k = i
    <3>1. /\ taken'[e][i] = taken[e][i] + 1 /\ taken[e][i] + 1 <= last_seq_no[i]
          /\ <<e, i>> \in subscribed
      BY <1>0, <1>4, PopEffect
    <3>2. /\ last_seen'[e][i] = Last(last_seen[e][i], n)
          /\ heard'[e][i] = Heard(heard[e][i], last_seen[e][i], n)
          /\ alarms'[e][i] = Alarms(alarms[e][i], last_seen[e][i], n)
          /\ gaps'[e][i] = Gaps(gaps[e][i], last_seen[e][i], n)
      BY <1>1, ObserveEffect
    <3>3. /\ last_seen[e][i] \in Nat /\ taken[e][i] \in Nat /\ heard[e][i] \in SUBSET (Nat \ {0})
          /\ gaps[e][i] \in Nat /\ alarms[e][i] \in Nat /\ causes[e][i] \in Nat
      BY EntryFacts
    <3>4. Detector(last_seen[e][i], taken[e][i], heard[e][i], gaps[e][i], alarms[e][i],
                   causes[e][i])
      BY <2>0, <2>1 DEF SubscriptionInv
    <3>5. Detector(Last(last_seen[e][i], n), taken[e][i] + 1,
                   Heard(heard[e][i], last_seen[e][i], n), Gaps(gaps[e][i], last_seen[e][i], n),
                   Alarms(alarms[e][i], last_seen[e][i], n), causes[e][i])
      BY <1>1, <3>3, <3>4, ObserveDetector DEF n
    <3> QED  BY <1>0, <2>1, <3>1, <3>2, <3>5 DEF SubscriptionInv
  <2>2. CASE ~(d = e /\ k = i)
    <3>1. taken'[d][k] = taken[d][k]
      BY <1>4, <2>2
    <3>2. /\ last_seen'[d][k] = last_seen[d][k] /\ heard'[d][k] = heard[d][k]
          /\ alarms'[d][k] = alarms[d][k] /\ gaps'[d][k] = gaps[d][k]
      BY <1>1, <2>2, ObserveEffect
    <3> QED  BY <1>0, <2>0, <3>1, <3>2 DEF SubscriptionInv
  <2> QED  BY <2>1, <2>2
<1> QED  BY <1>2, <1>3, <1>5, InvByEntry

\* A fault at one instrument is one more cause there.
LEMMA CauseEffect ==
    ASSUME IInv, NEW e \in Engines, NEW i \in Instruments,
           causes' = [causes EXCEPT ![e][i] = @ + 1]
    PROVE  /\ causes' \in PerSubscription(Nat)
           /\ \A d \in Engines, k \in Instruments :
                  causes'[d][k] = IF d = e /\ k = i THEN causes[d][k] + 1 ELSE causes[d][k]
<1>1. causes \in PerSubscription(Nat)
  BY DEF IInv, TypeOK
<1> QED  BY <1>1 DEF PerSubscription

\* A message that is popped and never reaches the detector.
LEMMA LoseInv ==
    ASSUME IInv, NEW e \in Engines, NEW i \in Instruments, Lose(e, i)
    PROVE  IInv'
<1>0. /\ Pop(e, i) /\ Fault(e, {i}) /\ causes' = [causes EXCEPT ![e][i] = @ + 1]
      /\ UNCHANGED <<last_seq_no, subscribed, last_seen, heard, alarms, gaps>>
  BY DEF Lose, Pop, publisherVars
<1>1. /\ causes' \in PerSubscription(Nat)
      /\ \A d \in Engines, k \in Instruments :
             causes'[d][k] = IF d = e /\ k = i THEN causes[d][k] + 1 ELSE causes[d][k]
  BY <1>0, CauseEffect
<1>2. TypeOK'
  <2>1. faults' \in PerSubscription(Nat)
    BY <1>0, FaultType
  <2> QED  BY <1>0, <1>1, <2>1, PopEffect DEF IInv, TypeOK
<1>3. \A d \in Engines, k \in Instruments : FeedAt(d, k)'
  BY <1>0, PopEffect
<1>4. \A d \in Engines, k \in Instruments :
          taken'[d][k] = IF d = e /\ k = i THEN taken[d][k] + 1 ELSE taken[d][k]
  BY <1>0, PopTaken
<1>5. ASSUME NEW d \in Engines, NEW k \in Instruments PROVE SubscriptionInv(d, k)'
  <2>0. /\ SubscriptionInv(d, k)
        /\ last_seen[d][k] \in Nat /\ taken[d][k] \in Nat
        /\ gaps[d][k] \in Nat /\ alarms[d][k] \in Nat /\ causes[d][k] \in Nat
    BY EntryFacts
  <2>1. CASE d = e /\ k = i
    <3>1. taken[d][k] + 1 <= last_seq_no[k] /\ <<d, k>> \in subscribed
      BY <1>0, <2>1, PopEffect
    <3>2. taken'[d][k] = taken[d][k] + 1 /\ causes'[d][k] = causes[d][k] + 1
      BY <1>1, <1>4, <2>1
    <3>3. Detector(last_seen[d][k], taken[d][k], heard[d][k], gaps[d][k], alarms[d][k],
                   causes[d][k])
      BY <2>0 DEF SubscriptionInv
    <3>4. taken[d][k] + 1 \in Nat /\ taken[d][k] <= taken[d][k] + 1
      BY <2>0
    <3>5. Detector(last_seen[d][k], taken[d][k] + 1, heard[d][k], gaps[d][k], alarms[d][k],
                   causes[d][k] + 1)
      BY <2>0, <3>3, <3>4, MissDetector
    <3> QED  BY <1>0, <3>1, <3>2, <3>5 DEF SubscriptionInv
  <2>2. CASE ~(d = e /\ k = i)
    <3>1. taken'[d][k] = taken[d][k] /\ causes'[d][k] = causes[d][k]
      BY <1>1, <1>4, <2>2
    <3> QED  BY <1>0, <2>0, <3>1 DEF SubscriptionInv
  <2> QED  BY <2>1, <2>2
<1> QED  BY <1>2, <1>3, <1>5, InvByEntry

\* An earlier message that reaches the detector once more, or late.
LEMMA RepeatInv ==
    ASSUME IInv, NEW e \in Engines, NEW i \in Instruments, NEW n \in Nat \ {0}, Repeat(e, i, n)
    PROVE  IInv'
<1>0. /\ n <= taken[e][i] /\ Fault(e, {i}) /\ Observe(e, i, n)
      /\ causes' = [causes EXCEPT ![e][i] = @ + 1]
      /\ UNCHANGED <<last_seq_no, subscribed, queue, taken>>
  BY DEF Repeat, publisherVars
<1>1. /\ causes' \in PerSubscription(Nat)
      /\ \A d \in Engines, k \in Instruments :
             causes'[d][k] = IF d = e /\ k = i THEN causes[d][k] + 1 ELSE causes[d][k]
  BY <1>0, CauseEffect
<1>2. TypeOK'
  <2>1. faults' \in PerSubscription(Nat)
    BY <1>0, FaultType
  <2> QED  BY <1>0, <1>1, <2>1, ObserveEffect DEF IInv, TypeOK
<1>3. ASSUME NEW d \in Engines, NEW k \in Instruments
      PROVE  FeedAt(d, k)' /\ SubscriptionInv(d, k)'
  <2>0. FeedAt(d, k) /\ SubscriptionInv(d, k)
    BY EntryFacts
  <2>1. FeedAt(d, k)'
    BY <1>0, <2>0 DEF FeedAt
  <2>2. CASE d = e /\ k = i
    <3>1. causes'[e][i] = causes[e][i] + 1
      BY <1>1
    <3>2. /\ last_seen'[e][i] = Last(last_seen[e][i], n)
          /\ heard'[e][i] = Heard(heard[e][i], last_seen[e][i], n)
          /\ alarms'[e][i] = Alarms(alarms[e][i], last_seen[e][i], n)
          /\ gaps'[e][i] = Gaps(gaps[e][i], last_seen[e][i], n)
      BY <1>0, ObserveEffect
    <3>3. /\ last_seen[e][i] \in Nat /\ taken[e][i] \in Nat /\ heard[e][i] \in SUBSET (Nat \ {0})
          /\ gaps[e][i] \in Nat /\ alarms[e][i] \in Nat /\ causes[e][i] \in Nat
      BY EntryFacts
    <3>4. Detector(last_seen[e][i], taken[e][i], heard[e][i], gaps[e][i], alarms[e][i],
                   causes[e][i])
      BY <2>0, <2>2 DEF SubscriptionInv
    <3>5. Detector(Last(last_seen[e][i], n), taken[e][i],
                   Heard(heard[e][i], last_seen[e][i], n), Gaps(gaps[e][i], last_seen[e][i], n),
                   Alarms(alarms[e][i], last_seen[e][i], n), causes[e][i] + 1)
      BY <1>0, <3>3, <3>4, ObserveDetector
    <3> QED  BY <1>0, <2>0, <2>1, <2>2, <3>1, <3>2, <3>5 DEF SubscriptionInv
  <2>3. CASE ~(d = e /\ k = i)
    <3>1. causes'[d][k] = causes[d][k]
      BY <1>1, <2>3
    <3>2. /\ last_seen'[d][k] = last_seen[d][k] /\ heard'[d][k] = heard[d][k]
          /\ alarms'[d][k] = alarms[d][k] /\ gaps'[d][k] = gaps[d][k]
      BY <1>0, <2>3, ObserveEffect
    <3> QED  BY <1>0, <2>0, <2>1, <3>1, <3>2 DEF SubscriptionInv
  <2> QED  BY <2>2, <2>3
<1> QED  BY <1>2, <1>3, InvByEntry

\* The detector of an engine starts over for some of its instruments.
LEMMA ForgetInv ==
    ASSUME IInv, NEW e \in Engines, NEW I \in SUBSET Instruments, Fault(e, I), Forget(e, I),
           UNCHANGED <<publisherVars, queue, taken>>
    PROVE  IInv'
<1>0. UNCHANGED <<last_seq_no, subscribed, queue, taken>>
  BY DEF publisherVars
<1>1. faults' \in PerSubscription(Nat)
  BY FaultType
<1>2. /\ last_seen' \in PerSubscription(Nat)
      /\ \A d \in Engines, k \in Instruments :
             last_seen'[d][k] = IF d = e /\ k \in I THEN 0 ELSE last_seen[d][k]
  BY DEF IInv, TypeOK, PerSubscription, Forget
<1>3. /\ heard' \in PerSubscription(SUBSET (Nat \ {0}))
      /\ \A d \in Engines, k \in Instruments :
             heard'[d][k] = IF d = e /\ k \in I THEN {} ELSE heard[d][k]
  BY DEF IInv, TypeOK, PerSubscription, Forget
<1>4. /\ alarms' \in PerSubscription(Nat)
      /\ \A d \in Engines, k \in Instruments :
             alarms'[d][k] = IF d = e /\ k \in I THEN 0 ELSE alarms[d][k]
  BY DEF IInv, TypeOK, PerSubscription, Forget
<1>5. /\ gaps' \in PerSubscription(Nat)
      /\ \A d \in Engines, k \in Instruments :
             gaps'[d][k] = IF d = e /\ k \in I THEN 0 ELSE gaps[d][k]
  BY DEF IInv, TypeOK, PerSubscription, Forget
<1>6. /\ causes' \in PerSubscription(Nat)
      /\ \A d \in Engines, k \in Instruments :
             causes'[d][k] = IF d = e /\ k \in I THEN (IF taken[d][k] > 0 THEN 1 ELSE 0)
                             ELSE causes[d][k]
  BY DEF IInv, TypeOK, PerSubscription, Forget
<1>7. TypeOK'
  BY <1>0, <1>1, <1>2, <1>3, <1>4, <1>5, <1>6 DEF IInv, TypeOK
<1>8. ASSUME NEW d \in Engines, NEW k \in Instruments
      PROVE  FeedAt(d, k)' /\ SubscriptionInv(d, k)'
  <2>0. FeedAt(d, k) /\ SubscriptionInv(d, k) /\ taken[d][k] \in Nat
    BY EntryFacts
  <2>1. FeedAt(d, k)'
    BY <1>0, <2>0 DEF FeedAt
  <2>2. CASE d = e /\ k \in I
    <3>1. /\ last_seen'[d][k] = 0 /\ heard'[d][k] = {} /\ alarms'[d][k] = 0 /\ gaps'[d][k] = 0
          /\ causes'[d][k] = IF taken[d][k] > 0 THEN 1 ELSE 0
      BY <1>2, <1>3, <1>4, <1>5, <1>6, <2>2
    <3>2. Detector(0, taken[d][k], {}, 0, 0, IF taken[d][k] > 0 THEN 1 ELSE 0)
      BY <2>0, ResetDetector
    <3> QED  BY <1>0, <2>0, <2>1, <3>1, <3>2 DEF SubscriptionInv
  <2>3. CASE ~(d = e /\ k \in I)
    <3>1. /\ last_seen'[d][k] = last_seen[d][k] /\ heard'[d][k] = heard[d][k]
          /\ alarms'[d][k] = alarms[d][k] /\ gaps'[d][k] = gaps[d][k]
          /\ causes'[d][k] = causes[d][k]
      BY <1>2, <1>3, <1>4, <1>5, <1>6, <2>3
    <3> QED  BY <1>0, <2>0, <2>1, <3>1 DEF SubscriptionInv
  <2> QED  BY <2>2, <2>3
<1> QED  BY <1>7, <1>8, InvByEntry

\* Every step keeps the invariant.
LEMMA NextInv == ASSUME IInv, [Next]_vars PROVE IInv'
<1>1. ASSUME NEW i \in Instruments, Publish(i) PROVE IInv'
  BY <1>1, PublishInv
<1>2. ASSUME NEW e \in Engines, NEW i \in Instruments, Subscribe(e, i) PROVE IInv'
  BY <1>2, SubscribeInv
<1>3. CASE Flush
  BY <1>3, FlushInv
<1>4. ASSUME NEW e \in Engines, Reset(e) PROVE IInv'
  BY <1>4, ForgetInv DEF Reset
<1>5. ASSUME NEW e \in Engines, NEW i \in Instruments, ResetInstrument(e, i) PROVE IInv'
  BY <1>5, ForgetInv DEF ResetInstrument
<1>6. ASSUME NEW e \in Engines, NEW i \in Instruments, Receive(e, i) PROVE IInv'
  BY <1>6, ReceiveInv
<1>7. ASSUME NEW e \in Engines, NEW i \in Instruments, Lose(e, i) PROVE IInv'
  BY <1>7, LoseInv
<1>8. ASSUME NEW e \in Engines, NEW i \in Instruments, NEW n \in 1..MaxSeqNo[i], Repeat(e, i, n)
      PROVE  IInv'
  <2>1. n \in Nat \ {0}
    BY FeedAssumption
  <2> QED  BY <1>8, <2>1, RepeatInv
<1>9. CASE UNCHANGED vars
  <2>1. UNCHANGED <<last_seq_no, subscribed, queue, taken, last_seen, heard, alarms, gaps, causes,
                    faults>>
    BY <1>9 DEF vars, publisherVars, detectorVars
  <2> QED  BY <2>1 DEF IInv, TypeOK, FeedComplete, SubscriptionInv
<1> QED  BY <1>1, <1>2, <1>3, <1>4, <1>5, <1>6, <1>7, <1>8, <1>9 DEF Next, Publisher, Engine

\* The inductive invariant holds in every reachable state of publisher, queues
\* and detectors.
THEOREM FeedInvariant == Spec => []IInv
<1>1. Init => IInv
  BY InitInv
<1>2. IInv /\ [Next]_vars => IInv'
  BY NextInv
<1> QED  BY <1>1, <1>2, PTL DEF Spec

\* Every subscription's queue holds exactly the messages MarketDataPublisher
\* published since it began and not yet popped, once each and in order.
THEOREM FeedDeliversAll == Spec => []FeedComplete
<1>1. IInv => FeedComplete
  BY DEF IInv
<1> QED  BY <1>1, FeedInvariant, PTL

\* MarketDataGapDetector misses nothing: without a Gap result the detector has
\* seen every number up to the last one.
THEOREM FeedNoMissedGap == Spec => []OkMeansComplete
<1>1. IInv => OkMeansComplete
  BY DEF IInv, SubscriptionInv, Detector, OkMeansComplete
<1> QED  BY <1>1, FeedInvariant, PTL

\* MarketDataGapDetector raises no alarm without a cause on its own instrument.
THEOREM FeedNoFalseAlarm == Spec => []AlarmsExplained
<1>1. ASSUME IInv, NEW e \in Engines, NEW i \in Instruments
      PROVE  alarms[e][i] <= causes[e][i]
  <2>1. SubscriptionInv(e, i) /\ alarms[e][i] \in Nat /\ causes[e][i] \in Nat
    BY <1>1, EntryFacts
  <2> QED  BY <2>1 DEF SubscriptionInv, Detector
<1>2. IInv => AlarmsExplained
  BY <1>1 DEF AlarmsExplained
<1> QED  BY <1>2, FeedInvariant, PTL
==============================================================================
