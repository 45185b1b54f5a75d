---------------------------- MODULE MergePipeline ----------------------------
(***************************************************************************)
(* runners/: the producer, merger and dispatcher threads of the flat and   *)
(* the hierarchical runner, connected by event queues.  A file is the      *)
(* sequence of its lines' timestamps; parsing is left out.                 *)
(***************************************************************************)
EXTENDS Naturals, Sequences, FiniteSets, FiniteSetsExt, BatchedQueueOps

CONSTANTS Folders,      \* the folders a run may be started on: sequences of files
          Strategies,   \* "flat", "hierarchy"
          MergeFanIn,   \* merge_fan_in
          BatchSize     \* event_queue_batch_size

ASSUME MergeAssumption ==
    /\ Strategies \subseteq {"flat", "hierarchy"}
    /\ MergeFanIn \in Nat \ {0, 1}
    /\ BatchSize \in Nat \ {0}
    /\ \A folder \in Folders : folder \in Seq(Seq(Nat))

VARIABLES files,     \* the folder of this run
          inputs,    \* the queues each merger reads
          final,     \* final_queue: the queue the dispatcher reads
          queues,    \* one per file, then one per merger
          lines,     \* producers: lines read, and whether the end marker is pushed
          mergers,   \* mergers: the state of mergeInputQueues
          processed, \* events given to the processor, in order
          violations,\* summary.chronological_violations
          running    \* run() has not returned

vars == <<files, inputs, final, queues, lines, mergers, processed, violations, running>>

Event(ts, file, seq) == [timestamp |-> ts, source_file_id |-> file, source_sequence |-> seq]
EndOfStream == Event(0, 0, 0)   \* no event has line number 0

EventComesBefore(a, b) ==
    \/ a.timestamp < b.timestamp
    \/ /\ a.timestamp = b.timestamp
       /\ \/ a.source_file_id < b.source_file_id
          \/ /\ a.source_file_id = b.source_file_id
             /\ a.source_sequence < b.source_sequence

------------------------------------------------------------------------------
(* The threads of a run.  Merger m writes queue FileCount + m. *)

FileCount == Len(files)
Files == 1..FileCount

\* buildMergeTree: one level of the tree replaces each group of up to MergeFanIn
\* queues by the output of a new merger; a group of one is passed up as it is.
Groups(level) ==
    [g \in 1..((Len(level) + MergeFanIn - 1) \div MergeFanIn) |->
        SubSeq(level, (g - 1) * MergeFanIn + 1, Min({g * MergeFanIn, Len(level)}))]

MergeLevel(tree) ==
    LET groups == Groups(tree.level)
        next(g) == IF Len(groups[g]) = 1 THEN groups[g][1]
                   ELSE FileCount + Len(tree.inputs) + g
    IN  IF Len(tree.level) <= 1 THEN tree
        ELSE [level |-> [g \in DOMAIN groups |-> next(g)],
              inputs |-> tree.inputs \o SelectSeq(groups, LAMBDA group : Len(group) > 1)]

Leaves == [level |-> [f \in Files |-> f], inputs |-> <<>>]

MergeTree ==
    LET tree[n \in Nat] == IF n = 0 THEN Leaves ELSE MergeLevel(tree[n - 1])
    IN  tree[FileCount]

Mergers == 1..Len(inputs)

\* What the runner of each strategy connects.
Topology(strategy) ==
    IF strategy = "flat"
    THEN [inputs |-> <<Leaves.level>>, final |-> FileCount + 1]
    ELSE [inputs |-> MergeTree.inputs,
          final |-> IF FileCount = 0 THEN 1 ELSE MergeTree.level[1]]

Push(q, item) == queues' = [queues EXCEPT ![q] = QueuePush(@, item, BatchSize)]
\* Faulty: the end marker stays in an unpublished batch.
PushEndUnflushed(q) == queues' = [queues EXCEPT ![q] = QueuePush(@, EndOfStream, BatchSize)]

PushEnd(q) == queues' = [queues EXCEPT ![q] = QueueFlush(QueuePush(@, EndOfStream, BatchSize))]
Pop(q) == /\ queues[q].visible # <<>>
          /\ queues' = [queues EXCEPT ![q] = QueuePop(@)]

Done == "done"

Init ==
    /\ files \in Folders
    /\ \E strategy \in Strategies :
           LET topology == Topology(strategy)
               filled == IF FileCount = 0 /\ strategy = "hierarchy"
                         THEN QueueFlush(QueuePush(EmptyQueue, EndOfStream, BatchSize))
                         ELSE EmptyQueue
           IN  /\ inputs = topology.inputs
               /\ final = topology.final
               /\ queues = [q \in 1..(FileCount + Len(topology.inputs)) \cup {final} |-> filled]
    /\ lines = [f \in Files |-> [read |-> 0, done |-> FALSE]]
    /\ mergers = [m \in Mergers |->
                     [pc |-> IF FileCount = 0 THEN "merge" ELSE "fill", at |-> 1, heap |-> {}]]
    /\ processed = <<>>
    /\ violations = 0
    /\ running = TRUE

------------------------------------------------------------------------------
(* Producers. *)

ReadLine(f) ==
    /\ lines[f].read < Len(files[f])
    /\ lines' = [lines EXCEPT ![f].read = @ + 1]
    /\ Push(f, Event(files[f][lines'[f].read], f, lines'[f].read))
    /\ UNCHANGED <<files, inputs, final, mergers, processed, violations, running>>

EndOfFile(f) ==
    /\ lines[f].read = Len(files[f]) /\ ~lines[f].done
    /\ lines' = [lines EXCEPT ![f].done = TRUE]
    /\ PushEnd(f)
    /\ UNCHANGED <<files, inputs, final, mergers, processed, violations, running>>

------------------------------------------------------------------------------
(* Mergers: mergeInputQueues.  A heap node is an event and the input it came from. *)

\* pop the input the merger is at; the node it adds to the heap, unless at the end.
Node(m) ==
    LET item == Head(queues[inputs[m][mergers[m].at]].visible)
    IN  IF item = EndOfStream THEN {} ELSE {[event |-> item, input |-> mergers[m].at]}

FillHeap(m) ==
    /\ mergers[m].pc = "fill"
    /\ Pop(inputs[m][mergers[m].at])
    /\ mergers' = [mergers EXCEPT ![m] =
           [pc |-> IF @.at < Len(inputs[m]) THEN "fill" ELSE "merge",
            at |-> @.at + 1, heap |-> @.heap \cup Node(m)]]
    /\ UNCHANGED <<files, inputs, final, lines, processed, violations, running>>

\* Faulty: events of equal timestamps are taken in any order, here the last first.
TopByTimestamp(heap) ==
    CHOOSE n \in heap : \A k \in heap :
        \/ n.event.timestamp < k.event.timestamp
        \/ n.event.timestamp = k.event.timestamp /\ n.input >= k.input

\* Faulty: the comparator is the wrong way round for a priority_queue.
TopReversed(heap) == CHOOSE n \in heap : \A k \in heap : ~EventComesBefore(n.event, k.event)

\* heap.top: no other node comes before it.
Top(heap) == CHOOSE n \in heap : \A k \in heap : ~EventComesBefore(k.event, n.event)

PushTop(m) ==
    /\ mergers[m].pc = "merge" /\ mergers[m].heap # {}
    /\ LET top == Top(mergers[m].heap)
       IN  /\ Push(FileCount + m, top.event)
           /\ mergers' = [mergers EXCEPT ![m] =
                  [pc |-> "refill", at |-> top.input, heap |-> @.heap \ {top}]]
    /\ UNCHANGED <<files, inputs, final, lines, processed, violations, running>>

\* Faulty: tryPop instead of pop, so an input that is late counts as ended.
RefillWithoutWaiting(m) ==
    /\ mergers[m].pc = "refill"
    /\ LET q == inputs[m][mergers[m].at]
       IN  \/ /\ Pop(q)
              /\ mergers' = [mergers EXCEPT ![m].pc = "merge", ![m].heap = @ \cup Node(m)]
           \/ /\ queues[q].visible = <<>>
              /\ mergers' = [mergers EXCEPT ![m].pc = "merge"]
              /\ UNCHANGED queues
    /\ UNCHANGED <<files, inputs, final, lines, processed, violations, running>>

Refill(m) ==
    /\ mergers[m].pc = "refill"
    /\ Pop(inputs[m][mergers[m].at])
    /\ mergers' = [mergers EXCEPT ![m].pc = "merge", ![m].heap = @ \cup Node(m)]
    /\ UNCHANGED <<files, inputs, final, lines, processed, violations, running>>

EndMerge(m) ==
    /\ mergers[m].pc = "merge" /\ mergers[m].heap = {}
    /\ PushEnd(FileCount + m)
    /\ mergers' = [mergers EXCEPT ![m].pc = Done]
    /\ UNCHANGED <<files, inputs, final, lines, processed, violations, running>>

------------------------------------------------------------------------------
(* The dispatcher and the runner's own thread. *)

\* dispatchMergedQueue pops an event, processes it and observes it in the summary.
Dispatch ==
    /\ Pop(final)
    /\ LET item == Head(queues[final].visible)
       IN  /\ item # EndOfStream
           /\ processed' = Append(processed, item)
           /\ violations' = IF processed # <<>> /\ EventComesBefore(item, processed[Len(processed)])
                            THEN violations + 1 ELSE violations
    /\ UNCHANGED <<files, inputs, final, lines, mergers, running>>

\* The dispatcher meets the end of the stream and every thread can be joined.
Return ==
    /\ running
    /\ Pop(final) /\ Head(queues[final].visible) = EndOfStream
    /\ \A f \in Files : lines[f].done
    /\ \A m \in Mergers : mergers[m].pc = Done
    /\ running' = FALSE
    /\ UNCHANGED <<files, inputs, final, lines, mergers, processed, violations>>

Producer(f) == ReadLine(f) \/ EndOfFile(f)
Merger(m) == FillHeap(m) \/ PushTop(m) \/ Refill(m) \/ EndMerge(m)
Dispatcher == Dispatch \/ Return

Next == \/ \E f \in Files : Producer(f)
        \/ \E m \in Mergers : Merger(m)
        \/ Dispatcher

Spec == Init /\ [][Next]_vars

\* Every thread keeps running: a step that stays possible is taken.
FairSpec == Spec /\ WF_vars(Next)

------------------------------------------------------------------------------
(* Properties. *)

\* The reference: always take the earliest of the files' next events.
GreedyMerge(folder) ==
    LET next(f, c) == Event(folder[f][c[f] + 1], f, c[f] + 1)
        rest[c \in [DOMAIN folder -> Nat]] ==
            LET open == {f \in DOMAIN folder : c[f] < Len(folder[f])}
                first == CHOOSE f \in open : \A g \in open \ {f} :
                             EventComesBefore(next(f, c), next(g, c))
            IN  IF open = {} THEN <<>>
                ELSE <<next(first, c)>> \o rest[[c EXCEPT ![first] = @ + 1]]
    IN  rest[[f \in DOMAIN folder |-> 0]]

\* Whatever the threads' interleaving and the strategy, the processor has seen a
\* prefix of the reference merge, and all of it once run() has returned: flat and
\* hierarchical runs process the same events in the same order.
MergeIsDeterministic ==
    LET expected == GreedyMerge(files)
    IN  /\ Len(processed) <= Len(expected)
        /\ processed = SubSeq(expected, 1, Len(processed))
        /\ ~running => processed = expected

\* Files that are sorted by timestamp never show a chronological violation.
SortedFilesMergeInOrder ==
    (\A f \in Files : \A i, j \in 1..Len(files[f]) : i < j => files[f][i] <= files[f][j])
        => violations = 0

\* The end marker overtakes nothing: a merger that is done, and the runner once it
\* has returned, has left no item in any queue it reads.
EndOfStreamIsLast ==
    /\ \A m \in Mergers : mergers[m].pc = Done =>
           \A i \in 1..Len(inputs[m]) : QueueContents(queues[inputs[m][i]]) = <<>>
    /\ ~running => QueueContents(queues[final]) = <<>>

\* Every run returns: no thread waits for a batch that is never flushed.
RunReturns == <>~running
==============================================================================
