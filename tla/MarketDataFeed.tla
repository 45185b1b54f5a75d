--------------------------- MODULE MarketDataFeed ---------------------------
(***************************************************************************)
(* messaging/: the MarketDataPublisher that numbers the messages of each   *)
(* instrument, one batched queue per subscription, and the                 *)
(* MarketDataGapDetector a trading engine runs on what it receives.        *)
(*                                                                         *)
(* The publisher and the engines are different threads.  Sequence numbers  *)
(* exist so that an engine can tell that messages were dropped, repeated   *)
(* or reordered on their way to the detector; the model has such faults.   *)
(* What a message says about the market is left out.                       *)
(***************************************************************************)
EXTENDS Integers, Sequences, BatchedQueueOps

CONSTANTS Instruments,   \* instruments messages are published for
          Engines,       \* trading engines: a detector and a queue per subscription each
          BatchSize,     \* batch size of a subscriber's queue
          MaxSeqNo,      \* bound on the messages published for each instrument
          MaxFaults      \* bound on the faults and resets of an instrument at each engine

ASSUME FeedAssumption == /\ BatchSize \in Nat \ {0}
                         /\ MaxSeqNo \in [Instruments -> Nat]
                         /\ MaxFaults \in [Engines -> Nat]

VARIABLES last_seq_no,   \* last_seq_no_by_instrument_ of the publisher
          subscribed,    \* subscribers_by_instrument_, as pairs of engine and instrument
          queue,         \* queue_ of each subscription
          last_seen,     \* last_seq_no_by_instrument_ of each detector; 0 without an entry
          taken,         \* history: number of the last message popped or missed by joining
          heard,         \* history: numbers the detector took as new since its last reset
          alarms,        \* history: Gap and DuplicateOrOutOfOrder results since then
          gaps,          \* history: the Gap results among them
          causes,        \* history: faults, a late start or a reset behind those results
          faults         \* history: all faults and resets

publisherVars == <<last_seq_no, subscribed>>
detectorVars == <<last_seen, heard, alarms, gaps, causes>>
vars == <<publisherVars, queue, taken, detectorVars, faults>>

Message == [instrument: Instruments, seq_no: Nat \ {0}]
PerSubscription(S) == [Engines -> [Instruments -> S]]
Everywhere(v) == [e \in Engines |-> [i \in Instruments |-> v]]

TypeOK ==
    /\ last_seq_no \in [Instruments -> Nat]
    /\ subscribed \subseteq Engines \X Instruments
    /\ queue \in PerSubscription(Queues(Message))
    /\ last_seen \in PerSubscription(Nat)
    /\ taken \in PerSubscription(Nat)
    /\ heard \in PerSubscription(SUBSET (Nat \ {0}))
    /\ alarms \in PerSubscription(Nat)
    /\ gaps \in PerSubscription(Nat)
    /\ causes \in PerSubscription(Nat)
    /\ faults \in PerSubscription(Nat)

Init ==
    /\ last_seq_no = [i \in Instruments |-> 0]
    /\ subscribed = {}
    /\ queue = Everywhere(EmptyQueue)
    /\ last_seen = Everywhere(0) /\ taken = Everywhere(0) /\ heard = Everywhere({})
    /\ alarms = Everywhere(0) /\ gaps = Everywhere(0)
    /\ causes = Everywhere(0) /\ faults = Everywhere(0)

------------------------------------------------------------------------------
(* MarketDataPublisher. *)

\* A subscription starts with the next message: those before it are missed.
Subscribe(e, i) ==
    /\ <<e, i>> \notin subscribed
    /\ subscribed' = subscribed \cup {<<e, i>>}
    /\ taken' = [taken EXCEPT ![e][i] = last_seq_no[i]]
    /\ causes' = [causes EXCEPT ![e][i] = IF last_seq_no[i] > 0 THEN @ + 1 ELSE @]
    /\ UNCHANGED <<last_seq_no, queue, last_seen, heard, alarms, gaps, faults>>

\* Faulty: one counter for all instruments.
NextSeqNoShared(i) == [k \in Instruments |-> last_seq_no[k] + 1]

NextSeqNo(i) == [last_seq_no EXCEPT ![i] = @ + 1]

\* publishUpdate, publishSnapshot, publishTrade: number the message and push a
\* copy to every subscription of its instrument.
Publish(i) ==
    /\ last_seq_no[i] < MaxSeqNo[i]
    /\ last_seq_no' = NextSeqNo(i)
    /\ LET message == [instrument |-> i, seq_no |-> last_seq_no'[i]]
       IN  queue' = [e \in Engines |-> [k \in Instruments |->
                        IF k = i /\ <<e, k>> \in subscribed
                        THEN QueuePush(queue[e][k], message, BatchSize) ELSE queue[e][k]]]
    /\ UNCHANGED <<subscribed, taken, detectorVars, faults>>

HasPending(e, i) == queue[e][i].pending # <<>>

\* Faulty: only one engine's queues are flushed.
FlushOne ==
    LET e == CHOOSE k \in Engines : TRUE
    IN  /\ \E i \in Instruments : HasPending(e, i)
        /\ queue' = [queue EXCEPT ![e] = [i \in Instruments |-> QueueFlush(@[i])]]
        /\ UNCHANGED <<publisherVars, taken, detectorVars, faults>>

Flush ==
    /\ \E e \in Engines, i \in Instruments : HasPending(e, i)
    /\ queue' = [e \in Engines |-> [i \in Instruments |-> QueueFlush(queue[e][i])]]
    /\ UNCHANGED <<publisherVars, taken, detectorVars, faults>>

------------------------------------------------------------------------------
(* MarketDataGapDetector.  Without an entry it expects 1, as after a last       *)
(* number of 0.                                                                 *)

\* Faulty: whatever number comes first is accepted.
StatusFirstAny(last, seq_no) ==
    IF last = 0 \/ seq_no = last + 1 THEN "Ok"
    ELSE IF seq_no > last + 1 THEN "Gap"
    ELSE "DuplicateOrOutOfOrder"

Status(last, seq_no) ==
    IF seq_no = last + 1 THEN "Ok"
    ELSE IF seq_no > last + 1 THEN "Gap"
    ELSE "DuplicateOrOutOfOrder"

\* Faulty: every message becomes the last one, an old one too.
ObserveAlways(e, i, seq_no) ==
    LET status == Status(last_seen[e][i], seq_no)
        count(c, s) == IF status \in s THEN [c EXCEPT ![e][i] = @ + 1] ELSE c
    IN  /\ last_seen' = [last_seen EXCEPT ![e][i] = seq_no]
        /\ heard' = [heard EXCEPT ![e][i] = @ \cup {seq_no}]
        /\ alarms' = count(alarms, {"Gap", "DuplicateOrOutOfOrder"})
        /\ gaps' = count(gaps, {"Gap"})

Observe(e, i, seq_no) ==
    LET status == Status(last_seen[e][i], seq_no)
        new == status # "DuplicateOrOutOfOrder"
        count(c, s) == IF status \in s THEN [c EXCEPT ![e][i] = @ + 1] ELSE c
    IN  /\ last_seen' = [last_seen EXCEPT ![e][i] = IF new THEN seq_no ELSE @]
        /\ heard' = [heard EXCEPT ![e][i] = IF new THEN @ \cup {seq_no} ELSE @]
        /\ alarms' = count(alarms, {"Gap", "DuplicateOrOutOfOrder"})
        /\ gaps' = count(gaps, {"Gap"})

\* The detector forgets instrument i; the messages taken so far are gone.
Forget(e, I) ==
    LET cleared(f, v) == [f EXCEPT ![e] = [i \in Instruments |-> IF i \in I THEN v ELSE @[i]]]
    IN  /\ last_seen' = cleared(last_seen, 0)
        /\ heard' = cleared(heard, {})
        /\ alarms' = cleared(alarms, 0) /\ gaps' = cleared(gaps, 0)
        /\ causes' = [causes EXCEPT ![e] = [i \in Instruments |->
                         IF i \in I THEN (IF taken[e][i] > 0 THEN 1 ELSE 0) ELSE @[i]]]

Fault(e, I) ==
    /\ \A i \in I : faults[e][i] < MaxFaults[e]
    /\ faults' = [faults EXCEPT ![e] = [i \in Instruments |-> IF i \in I THEN @[i] + 1 ELSE @[i]]]

Reset(e) ==
    /\ Fault(e, Instruments)
    /\ Forget(e, Instruments)
    /\ UNCHANGED <<publisherVars, queue, taken>>

ResetInstrument(e, i) ==
    /\ Fault(e, {i})
    /\ Forget(e, {i})
    /\ UNCHANGED <<publisherVars, queue, taken>>

------------------------------------------------------------------------------
(* MarketDataSubscriber, and the way from it to the detector. *)

\* One iteration of drainAvailable, or tryPop or pop with a message to return.
Pop(e, i) ==
    /\ queue[e][i].visible # <<>>
    /\ queue' = [queue EXCEPT ![e][i] = QueuePop(@)]
    /\ taken' = [taken EXCEPT ![e][i] = @ + 1]
    /\ UNCHANGED publisherVars

Receive(e, i) ==
    /\ Pop(e, i)
    /\ LET message == Head(queue[e][i].visible)
       IN  Observe(e, message.instrument, message.seq_no)
    /\ UNCHANGED <<causes, faults>>

\* A message is dropped before the detector sees it.
Lose(e, i) ==
    /\ Pop(e, i)
    /\ Fault(e, {i})
    /\ causes' = [causes EXCEPT ![e][i] = @ + 1]
    /\ UNCHANGED <<last_seen, heard, alarms, gaps>>

\* A message taken before comes again, or comes late after it was dropped.
Repeat(e, i, seq_no) ==
    /\ seq_no <= taken[e][i]
    /\ Fault(e, {i})
    /\ Observe(e, i, seq_no)
    /\ causes' = [causes EXCEPT ![e][i] = @ + 1]
    /\ UNCHANGED <<publisherVars, queue, taken>>

------------------------------------------------------------------------------
Publisher == \/ \E i \in Instruments : Publish(i) \/ \E e \in Engines : Subscribe(e, i)
             \/ Flush

Engine(e) ==
    \/ Reset(e)
    \/ \E i \in Instruments : \/ Receive(e, i) \/ Lose(e, i) \/ ResetInstrument(e, i)
                              \/ \E seq_no \in 1..MaxSeqNo[i] : Repeat(e, i, seq_no)

Next == Publisher \/ \E e \in Engines : Engine(e)

Spec == Init /\ [][Next]_vars

\* Whoever publishes flushes afterwards, and an engine keeps draining its queues.
Fairness == /\ WF_vars(Flush)
            /\ \A e \in Engines, i \in Instruments : WF_vars(Receive(e, i) \/ Lose(e, i))

FairSpec == Spec /\ Fairness

------------------------------------------------------------------------------
(* Properties. *)

\* "Multiple subscribers to the same instrument each receive their own copy of
\* every message": a subscription's queue holds exactly the messages published
\* since it began and not yet popped, once each, in order, none of another
\* instrument, however publishing, flushing and popping interleave.
FeedComplete ==
    \A e \in Engines, i \in Instruments :
        IF <<e, i>> \in subscribed
        THEN QueueContents(queue[e][i]) =
                 [n \in 1..(last_seq_no[i] - taken[e][i]) |->
                     [instrument |-> i, seq_no |-> taken[e][i] + n]]
        ELSE QueueContents(queue[e][i]) = <<>>

\* A detector that has reported no gap since its reset has seen every message up
\* to the last one: no loss, no late message and no late start goes unreported.
OkMeansComplete ==
    \A e \in Engines, i \in Instruments :
        gaps[e][i] = 0 => heard[e][i] = 1..last_seen[e][i]

\* "Publishing another instrument must not create artificial sequence gaps": the
\* detector reports no more gaps and duplicates than there were losses, repeats,
\* resets in mid-stream and late subscriptions on that very instrument.
AlarmsExplained ==
    \A e \in Engines, i \in Instruments : alarms[e][i] <= causes[e][i]

\* A run publishes finitely many messages (MaxSeqNo), and none is left behind:
\* time and again every subscriber has taken all that was published for it.
PublishedDelivered ==
    []<>(\A e \in Engines, i \in Instruments :
             <<e, i>> \in subscribed => taken[e][i] = last_seq_no[i])
==============================================================================
