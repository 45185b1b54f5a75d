---------------------- MODULE AsyncSnapshotWriterProofs ----------------------
(***************************************************************************)
(* Proofs about AsyncSnapshotWriter for both modes and every number of     *)
(* snapshots: the worker never sleeps through work, snapshots are written  *)
(* in the order they were submitted, and finish returns after the last.    *)
(***************************************************************************)
EXTENDS AsyncSnapshotWriter, SequenceTheorems, TLAPS

\* How the phases of the caller, the worker and the finish request go together.
PhaseInv ==
    /\ mode = "Sync" => /\ worker = "exited" /\ queue = <<>> /\ ~finish_requested
                        /\ caller \in {"running", "finished"}
    /\ mode = "Async" /\ worker = "exited" => finish_requested /\ queue = <<>>
    /\ finish_requested => caller \in {"notify_finish", "join", "finished"}
    /\ caller \in {"notify_finish", "join"} => finish_requested
    /\ caller = "finished" => worker = "exited"

\* Until finish is requested the writer and the processor count alike.
CountInv == ~finish_requested => submitted_count = snapshot_count

IInv == TypeOK /\ NoLostWakeup /\ SubmittedInOrder /\ PhaseInv /\ CountInv

------------------------------------------------------------------------------
(* Sequences. *)

Upto(n) == [i \in 1..n |-> i]

\* Appending the next number to the numbers up to n.
LEMMA UptoNext ==
    ASSUME NEW n \in Nat
    PROVE  /\ Upto(n) \in Seq(Nat)
           /\ Len(Upto(n)) = n
           /\ Append(Upto(n), n + 1) = Upto(n + 1)
<1>1. Upto(n) \in Seq(Nat) /\ Len(Upto(n)) = n
  BY DEF Upto
<1>2. Upto(n + 1) \in Seq(Nat) /\ Len(Upto(n + 1)) = n + 1
  BY DEF Upto
<1>3. /\ Append(Upto(n), n + 1) \in Seq(Nat)
      /\ Len(Append(Upto(n), n + 1)) = n + 1
      /\ \A i \in 1..n : Append(Upto(n), n + 1)[i] = Upto(n)[i]
      /\ Append(Upto(n), n + 1)[n + 1] = n + 1
  <2>1. n + 1 \in Nat
    OBVIOUS
  <2> HIDE DEF Upto
  <2> QED  BY <1>1, <2>1, AppendProperties
<1>4. \A i \in 1..(n + 1) : Append(Upto(n), n + 1)[i] = Upto(n + 1)[i]
  <2>1. \A i \in 1..n : Upto(n)[i] = i
    BY DEF Upto
  <2>2. \A i \in 1..(n + 1) : Upto(n + 1)[i] = i
    BY DEF Upto
  <2> QED  BY <1>3, <2>1, <2>2
<1>5. Append(Upto(n), n + 1) = Upto(n + 1)
  <2> HIDE DEF Upto
  <2> QED  BY <1>2, <1>3, <1>4, SeqEqual
<1> QED  BY <1>1, <1>5

\* Appending to the last of three parts appends to the whole.
LEMMA AppendToLast ==
    ASSUME NEW r \in Seq(Nat), NEW s \in Seq(Nat), NEW n \in Nat
    PROVE  r \o Append(s, n) = Append(r \o s, n)
<1>1. <<n>> \in Seq(Nat)
  OBVIOUS
<1>2. Append(s, n) = s \o <<n>>
  BY AppendIsConcat
<1>3. (r \o s) \o <<n>> = r \o (s \o <<n>>)
  BY <1>1, ConcatAssociative
<1>4. r \o s \in Seq(Nat)
  BY ConcatProperties
<1>5. Append(r \o s, n) = (r \o s) \o <<n>>
  BY <1>4, AppendIsConcat
<1> QED  BY <1>2, <1>3, <1>5

\* A sequence is its head followed by its tail.
LEMMA HeadThenTail ==
    ASSUME NEW s \in Seq(Nat), s # <<>>
    PROVE  <<Head(s)>> \o Tail(s) = s
<1>1. Head(s) \in Nat /\ Tail(s) \in Seq(Nat) /\ Len(Tail(s)) = Len(s) - 1
  BY HeadTailProperties
<1>2. \A i \in 1..Len(Tail(s)) : Tail(s)[i] = s[i + 1]
  BY HeadTailProperties
<1>3. Len(s) \in Nat /\ Len(s) # 0
  BY EmptySeq, LenProperties
<1>4. <<Head(s)>> \in Seq(Nat) /\ Len(<<Head(s)>>) = 1 /\ <<Head(s)>>[1] = s[1]
  BY <1>1, <1>3
<1> DEFINE whole == <<Head(s)>> \o Tail(s)
<1>5. /\ whole \in Seq(Nat)
      /\ Len(whole) = Len(s)
      /\ \A i \in 1..Len(s) : whole[i] = IF i <= 1 THEN s[1] ELSE Tail(s)[i - 1]
  BY <1>1, <1>3, <1>4, ConcatProperties
<1>6. \A i \in 1..Len(s) : whole[i] = s[i]
  BY <1>1, <1>2, <1>3, <1>5
<1> HIDE DEF whole
<1>7. whole = s
  BY <1>5, <1>6, SeqEqual
<1> QED  BY <1>7 DEF whole

------------------------------------------------------------------------------
(* The inductive invariant. *)

\* Both modes start with nothing submitted.
LEMMA InitInv == ASSUME Init PROVE IInv
<1>1. TypeOK
  <2>1. <<>> \in Seq(Nat)
    BY EmptySeq
  <2>2. mode \in {"Sync", "Async"}
    BY WriterAssumption DEF Init
  <2>3. worker \in {"check", "asleep", "write", "exited"}
    BY DEF Init
  <2>4. 0 \in 0..MaxSnapshots
    BY WriterAssumption
  <2> QED  BY <2>1, <2>2, <2>3, <2>4 DEF Init, TypeOK
<1>2. SubmittedInOrder
  <2>1. <<>> \in Seq(Nat)
    BY EmptySeq
  <2>2. (<<>> \o <<>>) \o <<>> = <<>>
    BY <2>1, ConcatEmptySeq
  <2>3. [i \in 1..0 |-> i] = <<>>
    OBVIOUS
  <2>4. InHand = <<>>
    BY DEF Init, InHand
  <2> QED  BY <2>2, <2>3, <2>4 DEF Init, SubmittedInOrder
<1>3. NoLostWakeup /\ PhaseInv /\ CountInv
  BY WriterAssumption DEF Init, NoLostWakeup, PhaseInv, CountInv
<1> QED  BY <1>1, <1>2, <1>3 DEF IInv

\* No step leaves the types.
LEMMA NextType == ASSUME TypeOK, [Next]_vars PROVE TypeOK'
<1>0. /\ mode \in {"Sync", "Async"} /\ queue \in Seq(Nat) /\ finish_requested \in BOOLEAN
      /\ submitted_count \in Nat /\ written \in Seq(Nat) /\ snapshot_count \in 0..MaxSnapshots
      /\ caller \in {"running", "notify", "notify_finish", "join", "finished"}
      /\ worker \in {"check", "asleep", "write", "exited"} /\ writing \in Nat
  BY DEF TypeOK
<1>1. CallWrite => snapshot_count' \in 0..MaxSnapshots /\ snapshot_count' \in Nat
  BY <1>0, WriterAssumption DEF CallWrite
<1>2. CASE WriteSync
  <2>1. written' \in Seq(Nat)
    BY <1>0, <1>1, <1>2, AppendProperties DEF WriteSync
  <2> QED  BY <1>0, <1>1, <1>2, <2>1 DEF WriteSync, TypeOK
<1>3. CASE WriteAsync
  <2>1. queue' \in Seq(Nat)
    BY <1>0, <1>1, <1>3, AppendProperties DEF WriteAsync
  <2> QED  BY <1>0, <1>1, <1>3, <2>1 DEF WriteAsync, TypeOK
<1>4. CASE WriteDropped
  BY <1>0, <1>1, <1>4 DEF WriteDropped, TypeOK
<1>5. CASE Notify
  BY <1>0, <1>5 DEF Notify, Woken, TypeOK
<1>6. CASE Finish
  BY <1>0, <1>6 DEF Finish, TypeOK
<1>7. CASE Join
  BY <1>0, <1>7 DEF Join, TypeOK
<1>8. CASE Sleep \/ SpuriousWakeup \/ Exit
  BY <1>0, <1>8 DEF Sleep, SpuriousWakeup, Exit, TypeOK
<1>9. CASE Take
  <2>1. writing' \in Nat /\ queue' \in Seq(Nat)
    BY <1>0, <1>9, HeadTailProperties DEF Take
  <2> QED  BY <1>0, <1>9, <2>1 DEF Take, TypeOK
<1>10. CASE WriteNow
  <2>1. written' \in Seq(Nat)
    BY <1>0, <1>10, AppendProperties DEF WriteNow
  <2> QED  BY <1>0, <1>10, <2>1 DEF WriteNow, TypeOK
<1>11. CASE UNCHANGED vars
  BY <1>0, <1>11 DEF vars, TypeOK
<1> QED  BY <1>2, <1>3, <1>4, <1>5, <1>6, <1>7, <1>8, <1>9, <1>10, <1>11 DEF Next, WorkerStep

\* The phases and the counts.
LEMMA NextPhase ==
    ASSUME IInv, [Next]_vars
    PROVE  NoLostWakeup' /\ PhaseInv' /\ CountInv'
<1>0. TypeOK /\ NoLostWakeup /\ PhaseInv /\ CountInv
  BY DEF IInv
<1>1. CASE WriteSync
  BY <1>0, <1>1 DEF WriteSync, CallWrite, TypeOK, NoLostWakeup, PhaseInv, CountInv
<1>2. CASE WriteAsync
  BY <1>0, <1>2 DEF WriteAsync, CallWrite, TypeOK, NoLostWakeup, PhaseInv, CountInv
<1>3. CASE WriteDropped
  BY <1>0, <1>3 DEF WriteDropped, CallWrite, TypeOK, NoLostWakeup, PhaseInv, CountInv
<1>4. CASE Notify
  BY <1>0, <1>4 DEF Notify, Woken, TypeOK, NoLostWakeup, PhaseInv, CountInv
<1>5. CASE Finish
  BY <1>0, <1>5 DEF Finish, TypeOK, NoLostWakeup, PhaseInv, CountInv
<1>6. CASE Join
  BY <1>0, <1>6 DEF Join, TypeOK, NoLostWakeup, PhaseInv, CountInv
<1>7. CASE Sleep
  BY <1>0, <1>7 DEF Sleep, TypeOK, NoLostWakeup, PhaseInv, CountInv
<1>8. CASE SpuriousWakeup
  BY <1>0, <1>8 DEF SpuriousWakeup, TypeOK, NoLostWakeup, PhaseInv, CountInv
<1>9. CASE Take
  BY <1>0, <1>9 DEF Take, TypeOK, NoLostWakeup, PhaseInv, CountInv
<1>10. CASE WriteNow
  BY <1>0, <1>10 DEF WriteNow, TypeOK, NoLostWakeup, PhaseInv, CountInv
<1>11. CASE Exit
  BY <1>0, <1>11 DEF Exit, TypeOK, NoLostWakeup, PhaseInv, CountInv
<1>12. CASE UNCHANGED vars
  BY <1>0, <1>12 DEF vars, NoLostWakeup, PhaseInv, CountInv
<1> QED
  BY <1>1, <1>2, <1>3, <1>4, <1>5, <1>6, <1>7, <1>8, <1>9, <1>10, <1>11, <1>12
     DEF Next, WorkerStep

\* What was submitted is written, in hand or queued, in order.
LEMMA NextInOrder == ASSUME IInv, [Next]_vars PROVE SubmittedInOrder'
<1>0. /\ TypeOK /\ PhaseInv /\ CountInv
      /\ (written \o InHand) \o queue = Upto(submitted_count)
  BY DEF IInv, SubmittedInOrder, Upto
<1>1. /\ queue \in Seq(Nat) /\ written \in Seq(Nat) /\ submitted_count \in Nat
      /\ <<>> \in Seq(Nat) /\ <<writing>> \in Seq(Nat) /\ writing \in Nat
  BY <1>0, EmptySeq DEF TypeOK
<1>2. InHand \in Seq(Nat)
  BY <1>1 DEF InHand
<1>3. SUFFICES (written' \o InHand') \o queue' = Upto(submitted_count')
  BY DEF SubmittedInOrder, Upto
<1>4. CASE WriteSync
  <2>1. /\ queue = <<>> /\ queue' = <<>> /\ InHand = <<>> /\ InHand' = <<>>
        /\ written' = Append(written, submitted_count + 1)
        /\ submitted_count' = submitted_count + 1
    BY <1>0, <1>4 DEF WriteSync, CallWrite, PhaseInv, CountInv, InHand
  <2>2. written = Upto(submitted_count)
    BY <1>0, <1>1, <2>1, ConcatEmptySeq
  <2>3. written' = Upto(submitted_count')
    BY <1>1, <2>1, <2>2, UptoNext
  <2>4. written' \in Seq(Nat)
    BY <1>1, <2>1, AppendProperties
  <2> QED  BY <2>1, <2>3, <2>4, ConcatEmptySeq
<1>5. CASE WriteAsync
  <2>1. /\ written' = written /\ InHand' = InHand
        /\ queue' = Append(queue, submitted_count + 1)
        /\ submitted_count' = submitted_count + 1
    BY <1>0, <1>5 DEF WriteAsync, CallWrite, CountInv, InHand
  <2>2. written \o InHand \in Seq(Nat)
    BY <1>1, <1>2, ConcatProperties
  <2>3. (written \o InHand) \o queue' = Append((written \o InHand) \o queue, submitted_count + 1)
    BY <1>1, <2>1, <2>2, AppendToLast
  <2> QED  BY <1>0, <1>1, <2>1, <2>3, UptoNext
<1>6. CASE WriteDropped \/ Finish \/ Join \/ UNCHANGED vars
  BY <1>0, <1>6 DEF WriteDropped, Finish, Join, vars, InHand
<1>7. CASE Notify \/ Sleep \/ SpuriousWakeup \/ Exit
  <2>1. InHand' = InHand
    BY <1>7 DEF Notify, Woken, Sleep, SpuriousWakeup, Exit, InHand
  <2> QED  BY <1>0, <1>7, <2>1 DEF Notify, Sleep, SpuriousWakeup, Exit
<1>8. CASE Take
  <2>1. /\ InHand = <<>> /\ InHand' = <<Head(queue)>> /\ queue' = Tail(queue)
        /\ written' = written /\ submitted_count' = submitted_count /\ queue # <<>>
    BY <1>8 DEF Take, InHand
  <2>2. Tail(queue) \in Seq(Nat) /\ <<Head(queue)>> \in Seq(Nat)
    BY <1>1, <2>1, HeadTailProperties
  <2>3. (written \o <<Head(queue)>>) \o Tail(queue) = written \o (<<Head(queue)>> \o Tail(queue))
    BY <1>1, <2>2, ConcatAssociative
  <2>4. written \o InHand = written
    BY <1>1, <2>1, ConcatEmptySeq
  <2> QED  BY <1>0, <1>1, <2>1, <2>3, <2>4, HeadThenTail
<1>9. CASE WriteNow
  <2>1. /\ InHand = <<writing>> /\ InHand' = <<>> /\ queue' = queue
        /\ written' = Append(written, writing) /\ submitted_count' = submitted_count
    BY <1>9 DEF WriteNow, InHand
  <2>2. written' = written \o InHand
    BY <1>1, <2>1, AppendIsConcat
  <2>3. written' \in Seq(Nat)
    BY <1>1, <2>1, AppendProperties
  <2>4. written' \o InHand' = written'
    BY <2>1, <2>3, ConcatEmptySeq
  <2> QED  BY <1>0, <2>1, <2>2, <2>4
<1> QED  BY <1>4, <1>5, <1>6, <1>7, <1>8, <1>9 DEF Next, WorkerStep

------------------------------------------------------------------------------
(* Theorems. *)

\* The invariant is inductive.
THEOREM WriterInvariant == Spec => []IInv
<1>1. Init => IInv
  BY InitInv
<1>2. IInv /\ [Next]_vars => IInv'
  BY NextType, NextPhase, NextInOrder DEF IInv
<1> QED  BY <1>1, <1>2, PTL DEF Spec

\* The worker never sleeps through a queued snapshot or a finish request that
\* nobody is about to notify it of.
THEOREM WriterNoLostWakeup == Spec => []NoLostWakeup
<1>1. IInv => NoLostWakeup
  BY DEF IInv
<1> QED  BY <1>1, WriterInvariant, PTL

\* Snapshots reach the output complete and in the order they were submitted.
THEOREM WriterSubmittedInOrder == Spec => []SubmittedInOrder
<1>1. IInv => SubmittedInOrder
  BY DEF IInv
<1> QED  BY <1>1, WriterInvariant, PTL

\* When finish has returned, every submitted snapshot is in the output.
THEOREM WriterFinishWritesAll == Spec => []FinishWritesAll
<1>1. ASSUME IInv, caller = "finished"
      PROVE  Len(written) = submitted_count /\ queue = <<>> /\ worker = "exited"
  <2>1. /\ written \in Seq(Nat) /\ submitted_count \in Nat /\ mode \in {"Sync", "Async"}
        /\ worker = "exited"
    BY <1>1 DEF IInv, TypeOK, PhaseInv
  <2>2. queue = <<>>
    BY <1>1, <2>1 DEF IInv, PhaseInv
  <2>3. InHand = <<>>
    BY <2>1 DEF InHand
  <2>4. written = Upto(submitted_count)
    BY <1>1, <2>1, <2>2, <2>3, ConcatEmptySeq DEF IInv, SubmittedInOrder, Upto
  <2> QED  BY <2>1, <2>2, <2>4, UptoNext
<1>2. IInv => FinishWritesAll
  BY <1>1 DEF FinishWritesAll
<1> QED  BY <1>2, WriterInvariant, PTL
==============================================================================
