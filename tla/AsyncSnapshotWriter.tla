------------------------- MODULE AsyncSnapshotWriter -------------------------
(***************************************************************************)
(* processing/AsyncSnapshotWriter: the processor's thread submits          *)
(* snapshots and finally calls finish; a worker thread writes them.  A     *)
(* snapshot is its number.  A critical section of mutex_ is one step, and  *)
(* so is the check and the release of the mutex in cv_.wait.               *)
(***************************************************************************)
EXTENDS Naturals, Sequences

CONSTANTS Modes,         \* "Sync", "Async"
          MaxSnapshots   \* max_snapshots of the processor

ASSUME WriterAssumption == Modes \subseteq {"Sync", "Async"} /\ MaxSnapshots \in Nat

VARIABLES mode,             \* mode_
          queue,            \* queue_
          finish_requested, \* finish_requested_
          submitted_count,  \* submitted_count_
          written,          \* what was written to out_, in order
          snapshot_count,   \* snapshot_count_ of the processor
          caller,           \* the processor's thread: in write or finish, or not
          worker,           \* the worker thread
          writing           \* the snapshot the worker has taken from the queue

vars == <<mode, queue, finish_requested, submitted_count, written, snapshot_count, caller,
          worker, writing>>

TypeOK ==
    /\ mode \in {"Sync", "Async"}
    /\ queue \in Seq(Nat)
    /\ finish_requested \in BOOLEAN
    /\ submitted_count \in Nat
    /\ written \in Seq(Nat)
    /\ snapshot_count \in 0..MaxSnapshots
    /\ caller \in {"running", "notify", "notify_finish", "join", "finished"}
    /\ worker \in {"check", "asleep", "write", "exited"}
    /\ writing \in Nat

Init ==
    /\ mode \in Modes
    /\ queue = <<>> /\ written = <<>>
    /\ finish_requested = FALSE
    /\ submitted_count = 0 /\ snapshot_count = 0
    /\ caller = "running"
    /\ worker = IF mode = "Async" THEN "check" ELSE "exited"
    /\ writing = 0

------------------------------------------------------------------------------
(* The processor's thread. *)

\* maybePrintSnapshot calls write and counts the snapshot.
CallWrite ==
    /\ caller \in {"running", "finished"}
    /\ snapshot_count < MaxSnapshots
    /\ snapshot_count' = snapshot_count + 1

WriteSync ==
    /\ mode = "Sync"
    /\ CallWrite
    /\ submitted_count' = submitted_count + 1
    /\ written' = Append(written, snapshot_count')
    /\ UNCHANGED <<mode, queue, finish_requested, caller, worker, writing>>

\* write, under the lock.
WriteAsync ==
    /\ mode = "Async" /\ ~finish_requested
    /\ CallWrite
    /\ queue' = Append(queue, snapshot_count')
    /\ submitted_count' = submitted_count + 1
    /\ caller' = "notify"
    /\ UNCHANGED <<mode, finish_requested, written, worker, writing>>

\* write after finish: the snapshot is dropped, and still counted by the processor.
WriteDropped ==
    /\ mode = "Async" /\ finish_requested
    /\ CallWrite
    /\ UNCHANGED <<mode, queue, finish_requested, submitted_count, written, caller, worker,
                   writing>>

\* Faulty: nobody is notified.
WokenNever(state) == state

\* notify_one wakes the worker if it sleeps in cv_.wait.
Woken(state) == IF state = "asleep" THEN "check" ELSE state

Notify ==
    /\ caller \in {"notify", "notify_finish"}
    /\ worker' = Woken(worker)
    /\ caller' = IF caller = "notify" THEN "running" ELSE "join"
    /\ UNCHANGED <<mode, queue, finish_requested, submitted_count, written, snapshot_count,
                   writing>>

\* finish, called by finishSnapshots and again by the destructor.
Finish ==
    /\ caller \in {"running", "finished"}
    /\ \/ /\ mode = "Async"
          /\ finish_requested' = TRUE
          /\ caller' = "notify_finish"
       \/ /\ mode = "Sync"
          /\ finish_requested' = finish_requested
          /\ caller' = "finished"
    /\ UNCHANGED <<mode, queue, submitted_count, written, snapshot_count, worker, writing>>

Join ==
    /\ caller = "join" /\ worker = "exited"
    /\ caller' = "finished"
    /\ UNCHANGED <<mode, queue, finish_requested, submitted_count, written, snapshot_count,
                   worker, writing>>

------------------------------------------------------------------------------
(* workerLoop. *)

\* Faulty: the predicate of the wait leaves out finish_requested_.
SleepThroughFinish ==
    /\ worker = "check" /\ queue = <<>>
    /\ worker' = "asleep"
    /\ UNCHANGED <<mode, queue, finish_requested, submitted_count, written, snapshot_count,
                   caller, writing>>

\* cv_.wait finds its predicate false and sleeps.
Sleep ==
    /\ worker = "check" /\ queue = <<>> /\ ~finish_requested
    /\ worker' = "asleep"
    /\ UNCHANGED <<mode, queue, finish_requested, submitted_count, written, snapshot_count,
                   caller, writing>>

SpuriousWakeup ==
    /\ worker = "asleep"
    /\ worker' = "check"
    /\ UNCHANGED <<mode, queue, finish_requested, submitted_count, written, snapshot_count,
                   caller, writing>>

\* Faulty: takes the latest snapshot.
TakeLast ==
    /\ worker = "check" /\ queue # <<>>
    /\ writing' = queue[Len(queue)]
    /\ queue' = SubSeq(queue, 1, Len(queue) - 1)
    /\ worker' = "write"
    /\ UNCHANGED <<mode, finish_requested, submitted_count, written, snapshot_count, caller>>

Take ==
    /\ worker = "check" /\ queue # <<>>
    /\ writing' = Head(queue)
    /\ queue' = Tail(queue)
    /\ worker' = "write"
    /\ UNCHANGED <<mode, finish_requested, submitted_count, written, snapshot_count, caller>>

WriteNow ==
    /\ worker = "write"
    /\ written' = Append(written, writing)
    /\ worker' = "check"
    /\ UNCHANGED <<mode, queue, finish_requested, submitted_count, snapshot_count, caller,
                   writing>>

\* Faulty: exits with snapshots still queued.
ExitWithoutDraining ==
    /\ worker = "check" /\ finish_requested
    /\ worker' = "exited"
    /\ UNCHANGED <<mode, queue, finish_requested, submitted_count, written, snapshot_count,
                   caller, writing>>

Exit ==
    /\ worker = "check" /\ queue = <<>> /\ finish_requested
    /\ worker' = "exited"
    /\ UNCHANGED <<mode, queue, finish_requested, submitted_count, written, snapshot_count,
                   caller, writing>>

------------------------------------------------------------------------------
WorkerStep == Sleep \/ Take \/ WriteNow \/ Exit

Next == \/ WriteSync \/ WriteAsync \/ WriteDropped \/ Notify \/ Finish \/ Join
        \/ WorkerStep \/ SpuriousWakeup

Spec == Init /\ [][Next]_vars

\* Both threads keep running inside their calls; nothing forces a call or a
\* spurious wakeup.
FairSpec == Spec /\ WF_vars(Notify) /\ WF_vars(Join) /\ WF_vars(WorkerStep)

------------------------------------------------------------------------------
(* Properties. *)

\* The worker never sleeps through work: when it is asleep with a snapshot queued
\* or a finish requested, the thread that brought it has yet to notify.
NoLostWakeup ==
    worker = "asleep" /\ (queue # <<>> \/ finish_requested)
        => caller \in {"notify", "notify_finish"}

InHand == IF worker = "write" THEN <<writing>> ELSE <<>>

\* Written, being written and queued snapshots are together the submitted ones, in
\* the order they were submitted: none is lost, doubled or overtaken.
SubmittedInOrder ==
    written \o InHand \o queue = [i \in 1..submitted_count |-> i]

\* Once finish has returned, every submitted snapshot has been written and the
\* worker has exited.
FinishWritesAll ==
    caller = "finished" =>
        Len(written) = submitted_count /\ queue = <<>> /\ worker = "exited"

\* Submitted snapshots are written and a call of finish returns.
WritesAndFinishes ==
    /\ (queue # <<>>) ~> (queue = <<>>)
    /\ finish_requested ~> (caller = "finished")
==============================================================================
