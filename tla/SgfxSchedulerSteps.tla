------------------------- MODULE SgfxSchedulerSteps -------------------------
(***************************************************************************)
(* The inductive invariant of the dispatcher of a GPU context, the facts   *)
(* about the model's operators it needs, and the steps that keep it: the   *)
(* threads and the worker's loop.                                          *)
(***************************************************************************)
EXTENDS SgfxScheduler, FiniteSetTheorems, WellFoundedInduction, TLAPS

\* The chunks of a job that were handed over.
Sent(j) == 1..(next[j] - 1)

\* What must take effect before p: the earlier chunks of its job, and the chunks of the
\* jobs queued before its job.
Before(p) ==
  {<<p[1], k>> : k \in 1..(p[2] - 1)} \cup
  {q \in Pieces : \E m, n \in DOMAIN jobs : m < n /\ jobs[m] = q[1] /\ jobs[n] = p[1]}

\* TypeOK without the worker's program counter and the pipe.
QueueOK ==
  /\ jobs \in Seq(Jobs) /\ IsInjective(jobs) /\ Len(jobs) <= MaxSubmissions
  /\ bytes = SumLengths(Range(jobs)) /\ bytes <= MaxPending
  /\ next \in [Jobs -> Nat] /\ receipts \in [Jobs -> SUBSET Nat]
  /\ \A j \in Jobs : next[j] \in 1..(Len(Chunks[j]) + 1) /\ receipts[j] \subseteq Sent(j)
  /\ Cardinality(Held(jobs)) <= MaxInFlight
  /\ signal \in [Jobs -> {None, "pending", "ok", "failed", "rejected"}]
  /\ \A j \in Jobs : signal[j] = "pending" <=> j \in Range(jobs)
  /\ \A j \in Jobs : signal[j] = None => next[j] = 1
  /\ failure => jobs = << >>

PcOK ==
  /\ pc \in {"consume", "clear", "advance", "dispatch", "poll", "exited"}
  /\ failure => pc = "exited"

\* What was handed over is with the kernel or retired; the queue of the kernel keeps the
\* order, and a receipt is dropped only for what is retired.
KernelOK ==
  /\ gpuq \in Seq(Pieces) /\ retired \subseteq Pieces
  /\ \A i \in DOMAIN gpuq : Kind(gpuq[i]) = "commands"
  /\ \A j \in Jobs : \A k \in Sent(j) : <<j, k>> \in retired \cup Range(gpuq)
  /\ \A i \in DOMAIN gpuq : \A q \in Before(gpuq[i]) :
        q \in retired \/ \E h \in 1..(i - 1) : gpuq[h] = q
  /\ \A j \in Range(jobs) : \A k \in Sent(j) : k \in receipts[j] \/ <<j, k>> \in retired

\* Until the dispatcher fails, the kernel has nothing that is not accounted for.
TrackedOK ==
  ~failure =>
    /\ Range(gpuq) \subseteq Held(jobs)
    /\ IsInjective(gpuq) /\ Range(gpuq) \cap retired = {}
    /\ \A p \in retired : p[2] \in Sent(p[1])

ArenasOK ==
  /\ arena \in [1..Arenas -> Pieces \cup {None}] /\ fence \in [1..Arenas -> Pieces \cup {None}]
  /\ \A i \in DOMAIN gpuq : arena[ArenaOf(gpuq[i])] = gpuq[i]
  /\ ~failure => \A i \in DOMAIN gpuq : fence[ArenaOf(gpuq[i])] = gpuq[i]

\* The chunks of the jobs js are retired.
AllRetired(js) == \A p \in Pieces : p[1] \in js => p \in retired

\* A waiter whose job is queued waits behind everything that it covers.
WaiterOK ==
  waiter # None =>
    /\ waiter \in Jobs /\ signal[waiter] # None
    /\ signal[waiter] = "ok" => AllRetired(covers)
    /\ \A n \in DOMAIN jobs : jobs[n] = waiter =>
         \A j \in covers : AllRetired({j}) \/ \E m \in 1..n : jobs[m] = j

Threads == Jobs \cup {None}

\* The notifiers: each thread notifies at most once, and what they write fits the pipe.
Notified == {j \in Jobs : signal[j] \notin {None, "rejected"}}
PipeOK ==
  /\ pipe \in Nat /\ notifying \in SUBSET (Threads \X {"swap", "write"})
  /\ pipe + Cardinality(notifying) <= Cardinality(Notified) + (IF closing THEN 1 ELSE 0)

\* The wake: a set flag has its byte under way, and work the worker has not seen has a
\* byte, a notifier or a worker about to look.
WakeOK ==
  ~writeFailed =>
    /\ flag => pipe > 0 \/ pc = "clear" \/ \E t \in Threads : <<t, "write">> \in notifying
    /\ unseen # {} => pipe > 0 \/ notifying # {} \/ pc \in {"clear", "advance", "exited"}

SchedInv == QueueOK /\ PcOK /\ KernelOK /\ TrackedOK /\ ArenasOK /\ WaiterOK /\ PipeOK /\ WakeOK

-----------------------------------------------------------------------------
(* The operators of the model.                                             *)

\* A nonempty set of naturals has a least element, and Min finds it.
LEMMA MinElement ==
  ASSUME NEW T \in SUBSET Nat, T # {}
  PROVE  Min(T) \in T /\ \A k \in T : Min(T) <= k
  <1> DEFINE R == OpToRel(<, Nat)
  <1>1. IsWellFoundedOn(R, Nat)
    BY NatLessThanWellFounded, Zenon
  <1> HIDE DEF R
  <1>2. PICK m \in T : \A y \in T : ~(<<y, m>> \in R)
    BY <1>1, WFMin, Zenon
  <1>3. \A y \in T : ~(y < m)
    BY <1>2, Zenon DEF R, OpToRel
  <1>4. \A y \in T : m <= y
    BY <1>3
  <1> QED
    BY <1>4, Zenon DEF Min

\* The constants.
LEMMA Constants ==
  /\ None \notin Jobs /\ None \notin Pieces
  /\ None \notin {"pending", "ok", "failed", "rejected"}
  /\ MaxSubmissions \in Nat \ {0} /\ MaxPending \in Nat \ {0}
  /\ MaxInFlight \in Nat \ {0} /\ Arenas \in Nat \ {0}
  /\ \A j \in Jobs : Chunks[j] \in Seq({"commands", "cpu"}) /\ Len(Chunks[j]) \in Nat \ {0}
  BY SchedulerAssumption

\* A piece is a job and the number of one of its chunks.
LEMMA PieceDef ==
  /\ \A p \in Pieces : p = <<p[1], p[2]>> /\ p[1] \in Jobs /\ p[2] \in 1..Len(Chunks[p[1]])
  /\ \A j \in Jobs : \A k \in 1..Len(Chunks[j]) : <<j, k>> \in Pieces
  BY DEF Pieces

\* The chunks of one job number Len(Chunks[j]).
LEMMA JobSize ==
  ASSUME NEW j \in Jobs
  PROVE  LET S == {p \in Pieces : p[1] = j} IN IsFiniteSet(S) /\ Cardinality(S) = Len(Chunks[j])
  <1> DEFINE S == {p \in Pieces : p[1] = j}
             n == Len(Chunks[j])
             f == [k \in 1..n |-> <<j, k>>]
  <1>1. n \in Nat
    BY Constants
  <1>2. f \in Bijection(1..n, S)
    BY PieceDef DEF Bijection, Injection, Surjection, IsInjective
  <1>3. ExistsBijection(1..n, S)
    BY <1>2 DEF ExistsBijection
  <1>4. IsFiniteSet(1..n) /\ Cardinality(1..n) = n
    BY <1>1, FS_Interval, SMTT(40)
  <1> HIDE DEF f, S, n
  <1>5. IsFiniteSet(S) /\ Cardinality(S) = n
    BY <1>3, <1>4, FS_Bijection
  <1> QED
    BY <1>5 DEF S, n

\* There are finitely many chunks.
LEMMA PiecesFinite == IsFiniteSet(Pieces)
  <1> DEFINE Row(j) == {p \in Pieces : p[1] = j}
             Rows == {Row(j) : j \in Jobs}
             f == [j \in Jobs |-> Row(j)]
  <1>1. f \in Surjection(Jobs, Rows)
    BY DEF Surjection
  <1>2. IsFiniteSet(Jobs)
    BY SchedulerAssumption
  <1>3. IsFiniteSet(Rows)
    <2> HIDE DEF f, Rows
    <2> QED
      BY <1>1, <1>2, FS_Surjection
  <1>4. \A T \in Rows : IsFiniteSet(T)
    BY JobSize
  <1>5. IsFiniteSet(UNION Rows)
    <2> HIDE DEF Rows
    <2> QED
      BY <1>3, <1>4, FS_UNION
  <1>6. UNION Rows = Pieces
    BY PieceDef
  <1> QED
    BY <1>5, <1>6

\* The bytes of a set of jobs grow by those of a job that joins it, and shrink by those
\* of the jobs that leave it.
LEMMA SumAdds ==
  ASSUME NEW S, NEW j \in Jobs, j \notin S
  PROVE  SumLengths(S \cup {j}) = SumLengths(S) + Len(Chunks[j])
  <1> DEFINE A == {p \in Pieces : p[1] \in S}
             B == {p \in Pieces : p[1] = j}
             C == {p \in Pieces : p[1] \in S \cup {j}}
  <1>1. IsFiniteSet(A) /\ IsFiniteSet(B) /\ Cardinality(B) = Len(Chunks[j])
    BY PiecesFinite, FS_Subset, JobSize
  <1>2. C = A \cup B /\ A \cap B = {}
    OBVIOUS
  <1>3. SumLengths(S) = Cardinality(A) /\ SumLengths(S \cup {j}) = Cardinality(C)
    BY DEF SumLengths
  <1> HIDE DEF A, B, C
  <1>4. Cardinality(A) \in Nat /\ Cardinality(B) \in Nat
    BY <1>1, FS_CardinalityType
  <1>5. Cardinality(A \cap B) = 0
    BY <1>2, FS_EmptySet
  <1>6. Cardinality(C) = Cardinality(A) + Cardinality(B) - Cardinality(A \cap B)
    BY <1>1, <1>2, FS_Union
  <1> QED
    BY <1>1, <1>3, <1>4, <1>5, <1>6

LEMMA SumDrops ==
  ASSUME NEW S, NEW T \in SUBSET S
  PROVE  /\ SumLengths(S) \in Nat
         /\ SumLengths(S \ T) = SumLengths(S) - SumLengths(T)
         /\ SumLengths(S \ T) <= SumLengths(S)
  <1> DEFINE A == {p \in Pieces : p[1] \in S}
             B == {p \in Pieces : p[1] \in T}
             C == {p \in Pieces : p[1] \in S \ T}
  <1>1. IsFiniteSet(A) /\ IsFiniteSet(B)
    BY PiecesFinite, FS_Subset
  <1>2. C = A \ B /\ A \cap B = B
    OBVIOUS
  <1>3. SumLengths(S) = Cardinality(A) /\ SumLengths(T) = Cardinality(B)
        /\ SumLengths(S \ T) = Cardinality(C)
    BY DEF SumLengths
  <1> HIDE DEF A, B, C
  <1>4. Cardinality(A) \in Nat /\ Cardinality(B) \in Nat
    BY <1>1, FS_CardinalityType
  <1>5. Cardinality(C) = Cardinality(A) - Cardinality(B)
    BY <1>1, <1>2, FS_Difference
  <1> QED
    BY <1>3, <1>4, <1>5

LEMMA SumEmpty == SumLengths({}) = 0
  BY FS_EmptySet DEF SumLengths

\* Every chunk has an arena.
LEMMA ArenaType ==
  ASSUME NEW p \in Pieces
  PROVE  ArenaOf(p) \in 1..Arenas
  <1> DEFINE S == {k \in 1..(p[2] - 1) : Chunks[p[1]][k] = "commands"}
  <1>1. IsFiniteSet(S)
    <2>1. p[2] - 1 \in Int
      BY PieceDef
    <2>2. IsFiniteSet(1..(p[2] - 1))
      BY <2>1, FS_Interval
    <2> QED
      BY <2>2, FS_Subset, Zenon
  <1>2. Cardinality(S) \in Nat
    BY <1>1, FS_CardinalityType
  <1>3. ArenaOf(p) = (Cardinality(S) % Arenas) + 1
    BY DEF ArenaOf
  <1> HIDE DEF S
  <1> QED
    BY <1>2, <1>3, Constants

-----------------------------------------------------------------------------
(* What the parts of the invariant depend on.                              *)

LEMMA QueueFrame ==
  ASSUME QueueOK, UNCHANGED <<jobs, next, receipts, bytes, failure, signal>>
  PROVE  QueueOK'
  BY DEF QueueOK, Held, Sent

LEMMA KernelFrame ==
  ASSUME KernelOK, UNCHANGED <<jobs, next, receipts, gpuq, retired>>
  PROVE  KernelOK'
  BY DEF KernelOK, Sent, Before

LEMMA TrackedFrame ==
  ASSUME TrackedOK, UNCHANGED <<jobs, next, receipts, failure, gpuq, retired>>
  PROVE  TrackedOK'
  BY DEF TrackedOK, Sent, Held

LEMMA ArenasFrame ==
  ASSUME ArenasOK, UNCHANGED <<arena, fence, gpuq, failure>>
  PROVE  ArenasOK'
  BY DEF ArenasOK

LEMMA WaiterFrame ==
  ASSUME WaiterOK, UNCHANGED <<waiter, covers, signal, jobs, retired>>
  PROVE  WaiterOK'
  BY DEF WaiterOK, AllRetired

LEMMA PipeFrame ==
  ASSUME PipeOK, UNCHANGED <<pipe, notifying, closing>>, Notified' = Notified
  PROVE  PipeOK'
  BY DEF PipeOK

\* The worker may go on anywhere but from "clear", where it is about to clear the flag,
\* as long as the work it has not seen stays announced.
LEMMA WakeFrame ==
  ASSUME WakeOK, UNCHANGED <<writeFailed, flag, pipe, notifying>>, pc # "clear",
         unseen' = {} \/ (unseen' = unseen /\ (pc' = pc \/ pc' \in {"clear", "advance", "exited"}))
  PROVE  WakeOK'
  BY DEF WakeOK

\* The kernel's part of a step that touches neither the kernel nor the queue.
LEMMA RestFrame ==
  ASSUME SchedInv, UNCHANGED <<jobs, next, receipts, bytes, failure, signal, gpuq, retired>>
  PROVE  QueueOK' /\ KernelOK' /\ TrackedOK' /\ Notified' = Notified
  <1>1. QueueOK' /\ KernelOK' /\ TrackedOK'
    BY QueueFrame, KernelFrame, TrackedFrame DEF SchedInv
  <1> QED
    BY <1>1 DEF Notified

-----------------------------------------------------------------------------
(* The steps of the threads.                                               *)

\* Scheduler::new.
LEMMA InitInv ==
  ASSUME Init
  PROVE  SchedInv
  <1> USE DEF Init
  <1>1. QueueOK
    <2>1. jobs \in Seq(Jobs) /\ Len(jobs) = 0 /\ Range(jobs) = {}
      BY DEF Range
    <2>2. IsInjective(jobs)
      BY DEF IsInjective
    <2>3. Held(jobs) = {}
      BY <2>1 DEF Held
    <2>4. Cardinality(Held(jobs)) = 0
      BY <2>3, FS_EmptySet, SMTT(40)
    <2>5. bytes = SumLengths(Range(jobs))
      BY <2>1, SumEmpty, Zenon
    <2>6. \A j \in Jobs : next[j] \in 1..(Len(Chunks[j]) + 1) /\ receipts[j] \subseteq Sent(j)
      BY Constants
    <2> QED
      BY <2>1, <2>2, <2>4, <2>5, <2>6, Constants DEF QueueOK
  <1>2. PcOK
    BY DEF PcOK
  <1>3. KernelOK /\ TrackedOK
    BY DEF KernelOK, TrackedOK, Sent, Range, IsInjective
  <1>4. ArenasOK
    BY DEF ArenasOK
  <1>5. WaiterOK /\ WakeOK
    BY DEF WaiterOK, WakeOK
  <1>6. PipeOK
    <2>1. Notified = {}
      BY DEF Notified
    <2> QED
      BY <2>1, FS_EmptySet DEF PipeOK
  <1> QED
    BY <1>1, <1>2, <1>3, <1>4, <1>5, <1>6 DEF SchedInv

\* The last owner drops the scheduler.
LEMMA DropStep ==
  ASSUME SchedInv, Drop
  PROVE  SchedInv'
  <1> USE DEF schedVars, workerVars, waitVars, kernelVars, arenaVars
  <1>1. QueueOK' /\ KernelOK' /\ TrackedOK' /\ Notified' = Notified
    BY RestFrame DEF Drop
  <1>2. PcOK' /\ ArenasOK' /\ WaiterOK'
    BY ArenasFrame, WaiterFrame DEF Drop, SchedInv, PcOK
  <1>3. PipeOK'
    <2>1. notifying' = {<<None, "swap">>} /\ Cardinality(notifying') = 1
      BY FS_Singleton, Zenon DEF Drop
    <2>2. Cardinality(notifying) = 0
      BY FS_EmptySet DEF Drop
    <2>3. Cardinality(Notified) \in Nat
      BY SchedulerAssumption, FS_Subset, FS_CardinalityType DEF Notified
    <2> QED
      BY <1>1, <2>1, <2>2, <2>3 DEF SchedInv, PipeOK, Drop, Threads
  <1>4. WakeOK'
    BY DEF SchedInv, WakeOK, Drop, Threads
  <1> QED
    BY <1>1, <1>2, <1>3, <1>4 DEF SchedInv

\* Finitely many threads notify.
LEMMA NotifiersFinite ==
  ASSUME PipeOK
  PROVE  IsFiniteSet(notifying)
  <1>1. IsFiniteSet(Threads)
    BY SchedulerAssumption, FS_AddElement DEF Threads
  <1>2. IsFiniteSet({"swap", "write"})
    <2>1. IsFiniteSet({"swap"})
      BY FS_Singleton
    <2>2. IsFiniteSet({"swap"} \cup {"write"})
      BY <2>1, FS_AddElement
    <2>3. {"swap", "write"} = {"swap"} \cup {"write"}
      OBVIOUS
    <2> QED
      BY <2>2, <2>3
  <1> QED
    BY <1>1, <1>2, FS_Product, FS_Subset, Zenon DEF PipeOK

\* Event::notify.
LEMMA NotifyStep ==
  ASSUME SchedInv, NEW t \in Threads, Notify(t)
  PROVE  SchedInv'
  <1> USE DEF schedVars, workerVars, waitVars, kernelVars, arenaVars
  <1>1. QueueOK' /\ KernelOK' /\ TrackedOK' /\ Notified' = Notified
    BY RestFrame DEF Notify
  <1>2. PcOK' /\ ArenasOK' /\ WaiterOK'
    BY ArenasFrame, WaiterFrame DEF Notify, SchedInv, PcOK
  <1>3. IsFiniteSet(notifying)
    BY NotifiersFinite DEF SchedInv
  <1>4. Cardinality(notifying) \in Nat /\ Cardinality(Notified) \in Nat
    BY <1>3, SchedulerAssumption, FS_Subset, FS_CardinalityType DEF Notified
  <1>5. CASE <<t, "swap">> \in notifying /\ UNCHANGED <<pipe, writeFailed>> /\ flag' = TRUE
             /\ notifying' = (notifying \ {<<t, "swap">>})
                               \cup (IF flag THEN {} ELSE {<<t, "write">>})
    <2> DEFINE N == notifying \ {<<t, "swap">>}
    <2>1. IsFiniteSet(N) /\ Cardinality(N) = Cardinality(notifying) - 1
      BY <1>3, <1>5, FS_RemoveElement
    <2>2. notifying' = N \/ notifying' = N \cup {<<t, "write">>}
      BY <1>5
    <2> HIDE DEF N
    <2>3. Cardinality(notifying') <= Cardinality(notifying) /\ Cardinality(notifying') \in Nat
      <3>1. Cardinality(N \cup {<<t, "write">>}) \in {Cardinality(N), Cardinality(N) + 1}
        BY <2>1, FS_AddElement, Zenon
      <3>2. Cardinality(N) \in Nat
        BY <2>1, FS_CardinalityType
      <3> QED
        BY <1>4, <2>1, <2>2, <3>1, <3>2
    <2>4. PipeOK'
      BY <1>1, <1>4, <1>5, <2>3 DEF SchedInv, PipeOK, Notify, Threads
    <2>5. WakeOK'
      BY <1>5, Zenon DEF SchedInv, WakeOK, Notify, Threads, PipeOK
    <2> QED
      BY <1>1, <1>2, <2>4, <2>5 DEF SchedInv
  <1>6. CASE /\ <<t, "write">> \in notifying /\ notifying' = notifying \ {<<t, "write">>}
             /\ \/ pipe' = pipe + 1 /\ UNCHANGED <<flag, writeFailed>>
                \/ pipe' \in {pipe, pipe + 1} /\ flag' = FALSE /\ writeFailed' = TRUE
    <2>1. Cardinality(notifying') = Cardinality(notifying) - 1
      BY <1>3, <1>6, FS_RemoveElement, Zenon
    <2>2. PipeOK'
      BY <1>1, <1>4, <1>6, <2>1 DEF SchedInv, PipeOK, Notify
    <2>3. WakeOK'
      BY <1>6 DEF SchedInv, WakeOK, Notify, PipeOK
    <2> QED
      BY <1>1, <1>2, <2>2, <2>3 DEF SchedInv
  <1> QED
    BY <1>5, <1>6, Zenon DEF Notify

\* NativeScheduler::enqueue.
LEMMA EnqueueStep ==
  ASSUME SchedInv, NEW j \in Jobs, Enqueue(j)
  PROVE  SchedInv'
  <1> USE DEF waitVars, kernelVars, arenaVars
  <1>0. UNCHANGED <<next, receipts, failure, pc, flag, pipe, writeFailed, closing, waiter, covers,
                    gpuq, retired, arena, fence>> /\ signal[j] = None
    BY DEF Enqueue
  <1>q. QueueOK
    BY DEF SchedInv
  <1>j. j \notin Range(jobs) /\ next[j] = 1 /\ receipts[j] = {} /\ waiter # j
    BY <1>0, <1>q, Constants DEF QueueOK, Sent, SchedInv, WaiterOK
  <1>p. PcOK' /\ ArenasOK'
    BY <1>0, ArenasFrame DEF SchedInv, PcOK
  <1>1. CASE signal' = [signal EXCEPT ![j] = "rejected"] /\ UNCHANGED <<jobs, bytes, notifying, unseen>>
    <2>1. QueueOK'
      <3>1. Held(jobs)' = Held(jobs)
        BY <1>0, <1>1 DEF Held
      <3> QED
        BY <1>0, <1>1, <1>q, <1>j, <3>1 DEF QueueOK, Sent
    <2>2. KernelOK' /\ TrackedOK'
      BY <1>0, <1>1, KernelFrame, TrackedFrame DEF SchedInv
    <2>3. WaiterOK'
      <3>1. \A js : AllRetired(js)' = AllRetired(js)
        BY <1>0 DEF AllRetired
      <3>2. \A i \in Jobs : i # j => signal'[i] = signal[i]
        BY <1>1, <1>q DEF QueueOK
      <3>3. waiter # None => waiter \in Jobs /\ waiter # j
        BY <1>0 DEF SchedInv, WaiterOK
      <3> QED
        BY <1>0, <1>1, <3>1, <3>2, <3>3 DEF SchedInv, WaiterOK
    <2>4. PipeOK'
      <3>1. Notified' = Notified
        BY <1>0, <1>1, <1>q DEF Notified, QueueOK
      <3> QED
        BY <1>0, <1>1, <3>1, PipeFrame DEF SchedInv
    <2>5. WakeOK'
      BY <1>0, <1>1 DEF SchedInv, WakeOK
    <2> QED
      BY <1>p, <2>1, <2>2, <2>3, <2>4, <2>5 DEF SchedInv
  <1>2. CASE /\ ~failure /\ Len(Chunks[j]) <= MaxPending /\ Fits(Len(Chunks[j]))
             /\ jobs' = Append(jobs, j) /\ bytes' = bytes + Len(Chunks[j])
             /\ signal' = [signal EXCEPT ![j] = "pending"]
             /\ notifying' = notifying \cup {<<j, "swap">>} /\ unseen' = unseen \cup {j}
    <2> DEFINE n == Len(jobs)
    <2>1. /\ jobs \in Seq(Jobs) /\ n \in Nat /\ DOMAIN jobs = 1..n
          /\ jobs' \in Seq(Jobs) /\ Len(jobs') = n + 1 /\ DOMAIN jobs' = 1..(n + 1)
          /\ \A i \in 1..n : jobs'[i] = jobs[i]
          /\ jobs'[n + 1] = j
      BY <1>2, <1>q DEF QueueOK
    <2> HIDE DEF n
    <2>2. Range(jobs') = Range(jobs) \cup {j}
      BY <2>1 DEF Range
    <2>3. IsInjective(jobs')
      BY <2>1, <1>j, <1>q, SMTT(40) DEF QueueOK, IsInjective, Range
    <2>4. Held(jobs)' = Held(jobs)
      BY <1>0, <1>j, <2>2 DEF Held
    <2>5. QueueOK'
      <3>1. bytes' = SumLengths(Range(jobs'))
        BY <1>2, <1>j, <1>q, <2>2, SumAdds DEF QueueOK
      <3>2. bytes' <= MaxPending /\ Len(jobs') <= MaxSubmissions
        BY <1>2, <2>1, Constants DEF Fits, n
      <3>3. \A i \in Jobs : signal'[i] = IF i = j THEN "pending" ELSE signal[i]
        BY <1>2, <1>q DEF QueueOK
      <3>4. signal' \in [Jobs -> {None, "pending", "ok", "failed", "rejected"}]
        BY <1>2, <1>q DEF QueueOK
      <3>5. /\ \A i \in Jobs : signal'[i] = "pending" <=> i \in Range(jobs')
            /\ \A i \in Jobs : signal'[i] = None => next'[i] = 1
        BY <1>0, <1>q, <2>2, <3>3 DEF QueueOK
      <3> QED
        BY <1>0, <1>2, <1>q, <2>1, <2>3, <2>4, <3>1, <3>2, <3>4, <3>5 DEF QueueOK, Sent
    <2>6. TrackedOK'
      BY <1>0, <2>4 DEF SchedInv, TrackedOK, Sent
    <2>7. KernelOK'
      <3>1. \A p \in Range(gpuq) : p \in Pieces /\ p[1] # j
        BY <1>2, <1>j DEF SchedInv, TrackedOK, Held
      <3>2. \A i \in DOMAIN gpuq : Before(gpuq[i])' = Before(gpuq[i])
        BY <1>0, <2>1, <3>1 DEF Before, Range
      <3>3. \A i \in Range(jobs') : \A k \in Sent(i)' : k \in receipts[i] \/ <<i, k>> \in retired
        <4>1. Sent(j) = {} /\ \A i : Sent(i)' = Sent(i)
          BY <1>0, <1>j DEF Sent
        <4> QED
          BY <2>2, <4>1, Zenon DEF SchedInv, KernelOK
      <3> QED
        BY <1>0, <3>2, <3>3 DEF SchedInv, KernelOK, Sent
    <2>8. WaiterOK'
      <3>1. \A i \in Jobs : i # j => signal'[i] = signal[i]
        BY <1>2, <1>q DEF QueueOK
      <3>2. ASSUME waiter # None, NEW m \in DOMAIN jobs', jobs'[m] = waiter, NEW i \in covers
            PROVE  AllRetired({i}) \/ \E h \in 1..m : jobs'[h] = i
        <4>1. m \in 1..n
          BY <1>j, <2>1, <3>2
        <4>2. AllRetired({i}) \/ \E h \in 1..m : jobs[h] = i
          BY <2>1, <3>2, <4>1 DEF SchedInv, WaiterOK
        <4> QED
          BY <2>1, <4>1, <4>2
      <3>3. \A js : AllRetired(js)' = AllRetired(js)
        BY <1>0 DEF AllRetired
      <3>4. waiter # None => /\ waiter \in Jobs /\ waiter # j /\ signal[waiter] # None
                             /\ signal[waiter] = "ok" => AllRetired(covers)
        BY <1>j DEF SchedInv, WaiterOK
      <3> QED
        BY <1>0, <3>1, <3>2, <3>3, <3>4 DEF WaiterOK
    <2>9. PipeOK'
      <3>1. j \notin Notified /\ Notified' = Notified \cup {j}
        <4>1. \A i \in Jobs : signal'[i] = IF i = j THEN "pending" ELSE signal[i]
          BY <1>2, <1>q DEF QueueOK
        <4> QED
          BY <1>0, <4>1, Constants DEF Notified
      <3>2. IsFiniteSet(Notified)
        BY SchedulerAssumption, FS_Subset DEF Notified
      <3>3. Cardinality(Notified') = Cardinality(Notified) + 1 /\ Cardinality(Notified) \in Nat
        BY <3>1, <3>2, FS_AddElement, FS_CardinalityType, Zenon
      <3>4. IsFiniteSet(notifying)
        BY NotifiersFinite DEF SchedInv
      <3>5. Cardinality(notifying') \in {Cardinality(notifying), Cardinality(notifying) + 1}
        BY <1>2, <3>4, FS_AddElement, Zenon
      <3>6. Cardinality(notifying) \in Nat
        BY <3>4, FS_CardinalityType
      <3> QED
        BY <1>0, <1>2, <3>3, <3>5, <3>6 DEF SchedInv, PipeOK, Threads
    <2>10. WakeOK'
      BY <1>0, <1>2, Zenon DEF SchedInv, WakeOK
    <2> QED
      BY <1>p, <2>5, <2>6, <2>7, <2>8, <2>9, <2>10 DEF SchedInv
  <1> QED
    BY <1>1, <1>2, Zenon DEF Enqueue

\* wait_idle takes the signal of the newest job, which all queued jobs precede.
LEMMA WaitStep ==
  ASSUME SchedInv, WaitIdle \/ WaitReturns
  PROVE  SchedInv'
  <1> USE DEF schedVars, workerVars, eventVars, kernelVars, arenaVars
  <1>0. UNCHANGED <<schedVars, workerVars, pc, signal, eventVars, closing, kernelVars, arenaVars>>
    BY DEF WaitIdle, WaitReturns
  <1>1. QueueOK' /\ KernelOK' /\ TrackedOK' /\ Notified' = Notified
    BY <1>0, RestFrame
  <1>2. PcOK' /\ ArenasOK' /\ PipeOK' /\ WakeOK'
    BY <1>0, <1>1, ArenasFrame, PipeFrame DEF SchedInv, PcOK, WakeOK
  <1>3. WaiterOK'
    <2>1. CASE WaitIdle
      <3> DEFINE n == Len(jobs)
      <3>1. n \in Nat \ {0} /\ DOMAIN jobs = 1..n /\ jobs \in Seq(Jobs) /\ IsInjective(jobs)
        BY <2>1 DEF SchedInv, QueueOK, WaitIdle
      <3>2. waiter' = jobs[n] /\ covers' = Range(jobs) /\ jobs' = jobs /\ signal' = signal
        BY <1>0, <2>1 DEF WaitIdle, LastSignal
      <3> HIDE DEF n
      <3>3. jobs[n] \in Jobs /\ jobs[n] \in Range(jobs)
        BY <3>1 DEF Range
      <3>4. signal[jobs[n]] = "pending"
        BY <3>3 DEF SchedInv, QueueOK
      <3>5. \A m \in DOMAIN jobs : jobs[m] = jobs[n] => m = n
        BY <3>1 DEF IsInjective
      <3>6. \A j \in Range(jobs) : \E m \in 1..n : jobs[m] = j
        BY <3>1 DEF Range
      <3> QED
        BY <3>2, <3>3, <3>4, <3>5, <3>6, Constants DEF WaiterOK
    <2>2. CASE WaitReturns
      BY <2>2 DEF WaitReturns, WaiterOK
    <2> QED
      BY <2>1, <2>2
  <1> QED
    BY <1>1, <1>2, <1>3 DEF SchedInv

-----------------------------------------------------------------------------
(* The steps of the worker.                                                *)

\* Scheduler::fail: what the queue, the waiters and the wakes are left with, whatever
\* the kernel makes of a submission under way.
LEMMA FailPart ==
  ASSUME SchedInv, Fail, pc # "clear",
         UNCHANGED <<retired, waiter, covers, flag, pipe, notifying, writeFailed, closing>>
  PROVE  QueueOK' /\ PcOK' /\ TrackedOK' /\ WaiterOK' /\ PipeOK' /\ WakeOK'
  <1> USE DEF workerVars
  <1>q. QueueOK
    BY DEF SchedInv
  <1>0. /\ failure' = TRUE /\ jobs' = << >> /\ bytes' = 0 /\ pc' = "exited"
        /\ receipts' = [j \in Jobs |-> {}]
        /\ signal' = [j \in Jobs |-> IF j \in Range(jobs) THEN "failed" ELSE signal[j]]
        /\ UNCHANGED <<next, unseen>>
    BY DEF Fail
  <1>s. /\ signal \in [Jobs -> {None, "pending", "ok", "failed", "rejected"}]
        /\ \A j \in Jobs : signal[j] = "pending" <=> j \in Range(jobs)
    BY <1>q DEF QueueOK
  <1>1. QueueOK'
    <2>0. jobs' = << >>
      BY <1>0, Zenon
    <2>1. jobs' \in Seq(Jobs) /\ Len(jobs') = 0 /\ Range(jobs') = {} /\ IsInjective(jobs')
      BY <2>0 DEF Range, IsInjective
    <2>2. Held(jobs)' = {}
      BY <2>1 DEF Held
    <2>3. Cardinality(Held(jobs)') = 0 /\ bytes' = SumLengths(Range(jobs'))
      BY <1>0, <2>1, <2>2, SumEmpty, FS_EmptySet, Zenon
    <2>4. /\ signal' \in [Jobs -> {None, "pending", "ok", "failed", "rejected"}]
          /\ \A j \in Jobs : signal'[j] # "pending" /\ (signal'[j] = None => signal[j] = None)
      BY <1>0, <1>s, Constants
    <2>5. next \in [Jobs -> Nat] /\ \A j \in Jobs : next[j] \in 1..(Len(Chunks[j]) + 1)
      BY <1>q DEF QueueOK
    <2>6. \A j \in Jobs : signal[j] = None => next[j] = 1
      BY <1>q DEF QueueOK
    <2> QED
      BY <1>0, <2>1, <2>3, <2>4, <2>5, <2>6, Constants DEF QueueOK
  <1>2. PcOK' /\ TrackedOK'
    BY <1>0, Zenon DEF PcOK, TrackedOK
  <1>3. WaiterOK'
    <2>1. \A js : AllRetired(js)' = AllRetired(js)
      BY DEF AllRetired
    <2>2. \A j \in Jobs : (signal'[j] = None => signal[j] = None) /\ (signal'[j] = "ok" => signal[j] = "ok")
      BY <1>0, Constants
    <2>3. DOMAIN jobs' = {}
      BY <1>0
    <2>4. waiter # None => /\ waiter \in Jobs /\ signal[waiter] # None
                           /\ signal[waiter] = "ok" => AllRetired(covers)
      BY DEF SchedInv, WaiterOK
    <2> QED
      BY <2>1, <2>2, <2>3, <2>4, Zenon DEF WaiterOK
  <1>4. Notified' = Notified
    BY <1>0, <1>s, Constants DEF Notified
  <1>5. PipeOK' /\ WakeOK'
    BY <1>0, <1>4, PipeFrame, WakeFrame DEF SchedInv
  <1> QED
    BY <1>1, <1>2, <1>3, <1>5

LEMMA FailKernel ==
  ASSUME SchedInv, Fail, UNCHANGED <<gpuq, retired>>
  PROVE  KernelOK'
  <1> USE DEF workerVars
  <1>0. jobs' = << >> /\ UNCHANGED next
    BY DEF Fail
  <1>1. \A p \in Range(gpuq) : Before(p)' \subseteq Before(p)
    BY <1>0 DEF Before
  <1>2. \A i \in DOMAIN gpuq : gpuq[i] \in Range(gpuq)
    BY DEF Range
  <1>3. Range(jobs') = {} /\ \A j : Sent(j)' = Sent(j)
    BY <1>0 DEF Range, Sent
  <1> QED
    BY <1>0, <1>1, <1>2, <1>3 DEF SchedInv, KernelOK

LEMMA FailStep ==
  ASSUME SchedInv, Fail, pc # "clear",
         UNCHANGED <<gpuq, retired, waiter, covers, flag, pipe, notifying, writeFailed, closing,
                     arena, fence>>
  PROVE  SchedInv'
  <1>1. QueueOK' /\ PcOK' /\ TrackedOK' /\ WaiterOK' /\ PipeOK' /\ WakeOK'
    BY FailPart
  <1>2. KernelOK'
    BY FailKernel
  <1>3. ArenasOK'
    BY DEF SchedInv, ArenasOK, Fail
  <1> QED
    BY <1>1, <1>2, <1>3 DEF SchedInv

\* The worker moves on: the steps of run that change neither the queue nor the kernel.
LEMMA MoveStep ==
  ASSUME SchedInv, ~failure,
         UNCHANGED <<jobs, next, receipts, bytes, failure, signal, gpuq, retired, waiter, covers,
                     arena, fence, closing, notifying, writeFailed>>,
         pc' \in {"consume", "clear", "advance", "dispatch", "poll", "exited"},
         pipe' = pipe, WakeOK'
  PROVE  SchedInv'
  <1>1. QueueOK' /\ KernelOK' /\ TrackedOK' /\ Notified' = Notified
    BY RestFrame
  <1>2. ArenasOK' /\ WaiterOK' /\ PipeOK'
    BY <1>1, ArenasFrame, WaiterFrame, PipeFrame DEF SchedInv
  <1> QED
    BY <1>1, <1>2 DEF SchedInv, PcOK

\* Event::consume and the poll of run.
LEMMA RunStep ==
  ASSUME SchedInv, Consume \/ Clear \/ Poll
  PROVE  SchedInv'
  <1> USE DEF schedVars, workerVars, waitVars, eventVars, kernelVars, arenaVars
  <1>0. ~failure
    BY DEF SchedInv, PcOK, Consume, Clear, Poll
  <1>1. CASE Fail /\ UNCHANGED pipe /\ (Consume \/ Poll)
    <2>1. pc # "clear"
      BY <1>1 DEF Consume, Poll
    <2>2. UNCHANGED <<gpuq, retired, waiter, covers, flag, pipe, notifying, writeFailed, closing,
                      arena, fence>>
      BY <1>1 DEF Consume, Poll
    <2> QED
      BY <1>1, <2>1, <2>2, FailStep
  <1>2. CASE pc = "consume" /\ pipe > 0 /\ pipe' = pipe - 1 /\ Goto("clear") /\ Consume
    <2>1. QueueOK' /\ KernelOK' /\ TrackedOK' /\ Notified' = Notified
      BY <1>2, RestFrame DEF Goto, Consume
    <2>2. ArenasOK' /\ WaiterOK' /\ PcOK'
      BY <1>0, <1>2, ArenasFrame, WaiterFrame DEF SchedInv, Goto, Consume, PcOK
    <2>3. Cardinality(notifying) \in Nat /\ Cardinality(Notified) \in Nat
      BY NotifiersFinite, SchedulerAssumption, FS_Subset, FS_CardinalityType DEF SchedInv, Notified
    <2>4. PipeOK'
      BY <1>2, <2>1, <2>3 DEF SchedInv, PipeOK, Consume
    <2>5. WakeOK'
      BY <1>2 DEF SchedInv, WakeOK, Goto, Consume, PipeOK
    <2> QED
      BY <2>1, <2>2, <2>4, <2>5 DEF SchedInv
  <1>3. CASE pc = "consume" /\ pipe = 0 /\ EnterAdvance /\ UNCHANGED pipe /\ Consume
    <2>1. WakeOK'
      BY <1>3, SMTT(40) DEF SchedInv, WakeOK, EnterAdvance, Consume
    <2> QED
      BY <1>0, <1>3, <2>1, MoveStep DEF EnterAdvance, Consume
  <1>4. CASE Clear
    <2>1. WakeOK'
      BY <1>4 DEF SchedInv, WakeOK, EnterAdvance, Clear
    <2> QED
      BY <1>0, <1>4, <2>1, MoveStep DEF EnterAdvance, Clear
  <1>5. CASE Goto("consume") /\ Poll
    <2>1. WakeOK'
      BY <1>5, SMTT(40) DEF SchedInv, WakeOK, Goto, Poll
    <2> QED
      BY <1>0, <1>5, <2>1, MoveStep DEF Goto, Poll
  <1>6. Poll => UNCHANGED pipe
    BY DEF Poll
  <1> QED
    BY <1>1, <1>2, <1>3, <1>4, <1>5, <1>6, Zenon DEF Consume, Poll

=============================================================================
