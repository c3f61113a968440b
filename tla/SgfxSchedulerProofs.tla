------------------------ MODULE SgfxSchedulerProofs ------------------------
(***************************************************************************)
(* The dispatcher of a GPU context for any jobs, chunks, arenas and        *)
(* bounds: work takes effect and is reported in order, uploads are not     *)
(* overwritten, budgets are kept, and no wake is lost.                     *)
(***************************************************************************)
EXTENDS SgfxSchedulerAdvance

-----------------------------------------------------------------------------
(* advance: dispatching the next chunk.                                    *)

\* The waiter, the notifiers and the wake do not see what a dispatch does.
LEMMA DispatchFrame ==
  ASSUME SchedInv, pc = "dispatch", retired \subseteq retired',
         UNCHANGED <<jobs, signal, failure, unseen, waiter, covers, flag, pipe, notifying, writeFailed,
                     closing, pc>>
  PROVE  PcOK' /\ WaiterOK' /\ PipeOK' /\ WakeOK'
  <1>1. Notified' = Notified
    BY DEF Notified
  <1>2. \A js : AllRetired(js) => AllRetired(js)'
    BY DEF AllRetired
  <1>3. WaiterOK'
    BY <1>2 DEF SchedInv, WaiterOK
  <1> QED
    BY <1>1, <1>3, PipeFrame, WakeFrame DEF SchedInv, PcOK

\* The kernel gets p after everything that must come before it.
LEMMA KernelAppends ==
  ASSUME KernelOK, NEW p \in Pieces, Kind(p) = "commands",
         \A q \in Before(p) : q \in Pieces /\ q[2] \in Sent(q[1]),
         gpuq' = Append(gpuq, p), UNCHANGED retired,
         \A q \in Pieces : Before(q)' \subseteq Before(q),
         \A j \in Jobs : \A k \in Sent(j)' : k \in Sent(j) \/ <<j, k>> = p,
         \A j \in Range(jobs') : \A k \in Sent(j)' : k \in receipts'[j] \/ <<j, k>> \in retired
  PROVE  KernelOK' /\ Range(gpuq') = Range(gpuq) \cup {p}
  <1> DEFINE n == Len(gpuq)
  <1>1. gpuq \in Seq(Pieces) /\ n \in Nat /\ DOMAIN gpuq = 1..n
    BY DEF KernelOK
  <1>2. gpuq' \in Seq(Pieces) /\ DOMAIN gpuq' = 1..(n + 1) /\ gpuq'[n + 1] = p
    BY <1>1
  <1>3. \A i \in 1..n : i \in 1..(n + 1) /\ gpuq'[i] = gpuq[i]
    BY <1>1
  <1> HIDE DEF n
  <1>4. \A i \in 1..(n + 1) : i \in 1..n \/ i = n + 1
    BY <1>1
  <1>5. n + 1 \in 1..(n + 1) /\ (n + 1) - 1 = n
    BY <1>1
  <1>6. Range(gpuq') = Range(gpuq) \cup {p}
    BY <1>1, <1>2, <1>3, <1>4, <1>5 DEF Range
  <1>7. \A i \in DOMAIN gpuq' : Kind(gpuq'[i]) = "commands"
    BY <1>1, <1>2, <1>3, <1>4 DEF KernelOK
  <1>8. \A j \in Jobs : \A k \in Sent(j)' : <<j, k>> \in retired \cup Range(gpuq')
    BY <1>6, Zenon DEF KernelOK
  <1>9. ASSUME NEW i \in DOMAIN gpuq', NEW q \in Before(gpuq'[i])
        PROVE  q \in retired \/ \E h \in 1..(i - 1) : gpuq'[h] = q
    <2>1. CASE i \in 1..n
      <3>1. q \in retired \/ \E h \in 1..(i - 1) : gpuq[h] = q
        BY <1>1, <1>3, <1>9, <2>1 DEF KernelOK
      <3>2. \A h \in 1..(i - 1) : h \in 1..n
        BY <1>1, <2>1
      <3> QED
        BY <1>3, <3>1, <3>2
    <2>2. CASE i = n + 1
      <3>1. q \in Pieces /\ q[2] \in Sent(q[1]) /\ q = <<q[1], q[2]>> /\ q[1] \in Jobs
        BY <1>2, <1>9, <2>2, PieceDef
      <3>2. q \in retired \cup Range(gpuq)
        BY <3>1 DEF KernelOK
      <3>3. q \in Range(gpuq) => \E h \in 1..n : gpuq[h] = q
        BY <1>1 DEF Range
      <3>4. i - 1 = n
        BY <1>5, <2>2
      <3> QED
        BY <1>3, <3>2, <3>3, <3>4
    <2> QED
      BY <1>2, <1>4, <2>1, <2>2, Zenon
  <1>10. \A i \in DOMAIN gpuq' : \A q \in Before(gpuq[i])' :
           q \in retired \/ \E h \in 1..(i - 1) : gpuq'[h] = q
    <2>1. \A i \in 1..n : gpuq[i] \in Pieces
      BY <1>1
    <2>2. \A i \in DOMAIN gpuq' : gpuq'[i] \in Pieces
      BY <1>2, <1>3, <1>4, <2>1, Zenon
    <2> QED
      BY <1>9, <2>2
  <1>11. KernelOK'
    BY <1>2, <1>7, <1>8, <1>10, ZenonT(60) DEF KernelOK
  <1> QED
    BY <1>6, <1>11

\* A chunk the CPU applies: the GPU is idle, and the effect is immediate.
LEMMA DispatchCpuStep ==
  ASSUME SchedInv, DispatchCpu
  PROVE  SchedInv' /\ gpuq = << >>
  <1> USE DEF waitVars, eventVars, arenaVars
  <1> DEFINE p == NextPiece
  <1>0. /\ ~failure /\ pc = "dispatch" /\ Unsent # {} /\ ~Blocked(p) /\ Kind(p) = "cpu" /\ HandOver(p)
    BY DEF SchedInv, PcOK, DispatchCpu, Sendable
  <1>1. /\ retired' = retired \cup {p} /\ UNCHANGED <<gpuq, arena, fence, failure, jobs>>
        /\ UNCHANGED <<signal, unseen, waiter, covers, flag, pipe, notifying, writeFailed, closing, pc>>
    BY DEF DispatchCpu, HandOver
  <1>q. QueueOK
    BY DEF SchedInv
  <1>2. /\ p \in Pieces /\ p[1] \in Range(jobs) /\ p[2] = next[p[1]] /\ p \notin Held(jobs)
        /\ \A q \in Before(p) : q \in Pieces /\ q[2] \in Sent(q[1])
    BY <1>0, <1>q, NextFacts
  <1>3. /\ QueueOK' /\ Held(jobs)' = Held(jobs) \cup {p}
        /\ \A j \in Jobs : \A k :
              /\ k \in Sent(j)' <=> (k \in Sent(j) \/ <<j, k>> = p)
              /\ k \in receipts'[j] <=> (k \in receipts[j] \/ <<j, k>> = p)
    BY <1>0, HandOverStep
  <1> HIDE DEF p
  <1>4. gpuq = << >>
    <2>1. Held(jobs) = {}
      BY <1>0 DEF Blocked
    <2>2. Range(gpuq) = {} /\ gpuq \in Seq(Pieces)
      BY <1>0, <2>1 DEF SchedInv, TrackedOK, KernelOK
    <2>3. Len(gpuq) \in Nat /\ DOMAIN gpuq = 1..Len(gpuq) /\ 1 \notin DOMAIN gpuq
      BY <2>2 DEF Range
    <2>4. Len(gpuq) = 0
      BY <2>3
    <2> QED
      BY <2>2, <2>4
  <1>5. DOMAIN gpuq = {} /\ Range(gpuq) = {} /\ gpuq \in Seq(Pieces) /\ IsInjective(gpuq)
    BY <1>4 DEF Range, IsInjective
  <1>6. KernelOK'
    <2>1. \A j \in Jobs : \A k \in Sent(j)' : <<j, k>> \in retired'
      BY <1>1, <1>3, <1>5, Zenon DEF SchedInv, KernelOK
    <2>2. \A j \in Range(jobs) : j \in Jobs
      BY <1>q DEF QueueOK, Range
    <2> QED
      BY <1>1, <1>2, <1>5, <2>1, <2>2 DEF SchedInv, KernelOK
  <1>7. TrackedOK'
    <2>1. \A q \in Pieces : q = <<q[1], q[2]>> /\ q[1] \in Jobs
      BY PieceDef
    <2>2. retired \subseteq Pieces /\ \A q \in retired : q[2] \in Sent(q[1])
      BY <1>0 DEF SchedInv, KernelOK, TrackedOK
    <2>3. \A q \in retired' : q[2] \in Sent(q[1])'
      BY <1>1, <1>2, <1>3, <2>1, <2>2
    <2> QED
      BY <1>1, <1>5, <2>3 DEF TrackedOK
  <1>8. ArenasOK'
    BY <1>1, ArenasFrame DEF SchedInv
  <1>9. PcOK' /\ WaiterOK' /\ PipeOK' /\ WakeOK'
    BY <1>0, <1>1, DispatchFrame
  <1> QED
    BY <1>3, <1>4, <1>6, <1>7, <1>8, <1>9 DEF SchedInv

\* A chunk of commands goes to the kernel with its uploads in a free arena.
LEMMA DispatchCommandsStep ==
  ASSUME SchedInv, DispatchCommands
  PROVE  SchedInv'
  <1> USE DEF waitVars, eventVars, arenaVars
  <1> DEFINE p == NextPiece
  <1>0. /\ ~failure /\ pc = "dispatch" /\ Unsent # {} /\ ~Blocked(p) /\ Ready(p)
        /\ Kind(p) = "commands" /\ HandOver(p)
    BY DEF SchedInv, PcOK, DispatchCommands, Sendable
  <1>1. /\ arena' = Loaded(p) /\ gpuq' = Append(gpuq, p) /\ fence' = [fence EXCEPT ![ArenaOf(p)] = p]
        /\ UNCHANGED <<retired, failure, jobs>>
        /\ UNCHANGED <<signal, unseen, waiter, covers, flag, pipe, notifying, writeFailed, closing, pc>>
    BY DEF DispatchCommands, HandOver
  <1>q. QueueOK /\ KernelOK
    BY DEF SchedInv
  <1>2. /\ p \in Pieces /\ p[1] \in Range(jobs) /\ p[2] = next[p[1]] /\ p \notin Held(jobs)
        /\ \A q \in Before(p) : q \in Pieces /\ q[2] \in Sent(q[1])
    BY <1>0, <1>q, NextFacts
  <1>3. /\ QueueOK' /\ Held(jobs)' = Held(jobs) \cup {p}
        /\ \A j \in Jobs : \A k :
              /\ k \in Sent(j)' <=> (k \in Sent(j) \/ <<j, k>> = p)
              /\ k \in receipts'[j] <=> (k \in receipts[j] \/ <<j, k>> = p)
    BY <1>0, HandOverStep
  <1> HIDE DEF p
  <1>4. /\ Loaded(p) \in [1..Arenas -> Pieces \cup {None}] /\ Loaded(p)[ArenaOf(p)] = p
        /\ \A i \in DOMAIN gpuq : /\ ArenaOf(gpuq[i]) # ArenaOf(p)
                                  /\ Loaded(p)[ArenaOf(gpuq[i])] = gpuq[i]
    BY <1>0, <1>2, LoadArena
  <1>5. KernelOK' /\ Range(gpuq') = Range(gpuq) \cup {p}
    <2>1. \A q \in Pieces : Before(q)' \subseteq Before(q)
      BY <1>1 DEF Before
    <2>2. \A j \in Range(jobs) : j \in Jobs
      BY <1>q DEF QueueOK, Range
    <2>3. \A j \in Jobs : \A k \in Sent(j)' : k \in Sent(j) \/ <<j, k>> = p
      BY <1>3
    <2>4. \A j \in Range(jobs') : \A k \in Sent(j)' : k \in receipts'[j] \/ <<j, k>> \in retired
      BY <1>1, <1>3, <1>q, <2>2, Zenon DEF KernelOK
    <2> QED
      BY <1>0, <1>1, <1>2, <1>q, <2>1, <2>3, <2>4, KernelAppends
  <1>6. p \notin Range(gpuq) /\ p \notin retired
    <2>1. p[2] \notin Sent(p[1])
      BY <1>2, <1>q, PieceDef DEF Sent, QueueOK
    <2> QED
      BY <1>0, <1>2, <2>1 DEF SchedInv, TrackedOK
  <1>7. TrackedOK'
    <2>1. IsInjective(gpuq')
      BY <1>0, <1>1, <1>2, <1>6, <1>q DEF SchedInv, TrackedOK, KernelOK, IsInjective, Range
    <2>2. \A q \in Pieces : q = <<q[1], q[2]>> /\ q[1] \in Jobs
      BY PieceDef
    <2>3. retired \subseteq Pieces /\ \A q \in retired : q[2] \in Sent(q[1])
      BY <1>0, Zenon DEF SchedInv, KernelOK, TrackedOK
    <2>4. \A q \in retired' : q[2] \in Sent(q[1])'
      BY <1>1, <1>2, <1>3, <2>2, <2>3
    <2>5. Range(gpuq) \subseteq Held(jobs) /\ Range(gpuq) \cap retired = {}
      BY <1>0 DEF SchedInv, TrackedOK
    <2> QED
      BY <1>1, <1>3, <1>5, <1>6, <2>1, <2>4, <2>5 DEF TrackedOK
  <1>8. ArenasOK'
    <2> DEFINE n == Len(gpuq)
    <2>1. gpuq \in Seq(Pieces) /\ n \in Nat /\ DOMAIN gpuq = 1..n
      BY <1>q DEF KernelOK
    <2>2. /\ DOMAIN gpuq' = 1..(n + 1) /\ gpuq'[n + 1] = p
          /\ \A i \in 1..n : gpuq'[i] = gpuq[i]
      BY <1>1, <1>2, <2>1, SMTT(40)
    <2> HIDE DEF n
    <2>3. \A i \in 1..(n + 1) : i \in 1..n \/ i = n + 1
      BY <2>1
    <2>4. ArenaOf(p) \in 1..Arenas /\ \A i \in 1..n : ArenaOf(gpuq[i]) \in 1..Arenas
      BY <1>2, <2>1, ArenaType
    <2>5. /\ fence' \in [1..Arenas -> Pieces \cup {None}] /\ fence'[ArenaOf(p)] = p
          /\ \A i \in 1..n : fence'[ArenaOf(gpuq[i])] = gpuq[i]
      BY <1>0, <1>1, <1>2, <1>4, <2>1, <2>4, Zenon DEF SchedInv, ArenasOK
    <2> QED
      BY <1>1, <1>4, <2>1, <2>2, <2>3, <2>5 DEF ArenasOK
  <1>9. PcOK' /\ WaiterOK' /\ PipeOK' /\ WakeOK'
    BY <1>0, <1>1, DispatchFrame
  <1> QED
    BY <1>3, <1>5, <1>7, <1>8, <1>9 DEF SchedInv

\* A dispatch that fails may have left the chunk with the kernel.
LEMMA DispatchFailsStep ==
  ASSUME SchedInv, DispatchFails
  PROVE  SchedInv'
  <1> USE DEF waitVars, eventVars
  <1> DEFINE p == NextPiece
  <1>0. ~failure /\ pc = "dispatch" /\ Unsent # {} /\ Fail
    BY DEF SchedInv, PcOK, DispatchFails
  <1>1. UNCHANGED <<retired, waiter, covers, flag, pipe, notifying, writeFailed, closing, fence>>
    BY DEF DispatchFails
  <1>q. QueueOK /\ KernelOK
    BY DEF SchedInv
  <1>2. QueueOK' /\ PcOK' /\ TrackedOK' /\ WaiterOK' /\ PipeOK' /\ WakeOK'
    BY <1>0, <1>1, FailPart
  <1>3. p \in Pieces /\ \A q \in Before(p) : q \in Pieces /\ q[2] \in Sent(q[1])
    BY <1>0, <1>q, NextFacts
  <1>4. \/ UNCHANGED <<arena, gpuq>>
        \/ /\ Kind(p) = "commands" /\ Ready(p) /\ arena' = Loaded(p)
           /\ gpuq' = gpuq \/ gpuq' = Append(gpuq, p)
    BY DEF DispatchFails
  <1> HIDE DEF p
  <1>5. fence' \in [1..Arenas -> Pieces \cup {None}] /\ failure'
    BY <1>0, <1>1 DEF SchedInv, ArenasOK, Fail
  <1>6. CASE UNCHANGED <<arena, gpuq>>
    <2>1. KernelOK'
      BY <1>0, <1>1, <1>6, FailKernel
    <2>2. ArenasOK'
      BY <1>5, <1>6 DEF SchedInv, ArenasOK
    <2> QED
      BY <1>2, <2>1, <2>2 DEF SchedInv
  <1>7. CASE /\ Kind(p) = "commands" /\ Ready(p) /\ arena' = Loaded(p)
             /\ gpuq' = gpuq \/ gpuq' = Append(gpuq, p)
    <2>1. /\ Loaded(p) \in [1..Arenas -> Pieces \cup {None}] /\ Loaded(p)[ArenaOf(p)] = p
          /\ \A i \in DOMAIN gpuq : /\ ArenaOf(gpuq[i]) # ArenaOf(p)
                                    /\ Loaded(p)[ArenaOf(gpuq[i])] = gpuq[i]
      BY <1>0, <1>3, <1>7, LoadArena
    <2>2. CASE gpuq' = gpuq
      <3>1. KernelOK'
        BY <1>0, <1>1, <2>2, FailKernel
      <3>2. ArenasOK'
        BY <1>5, <1>7, <2>1, <2>2 DEF SchedInv, ArenasOK
      <3> QED
        BY <1>2, <3>1, <3>2 DEF SchedInv
    <2>3. CASE gpuq' = Append(gpuq, p)
      <3>1. KernelOK'
        <4>1. jobs' = << >> /\ UNCHANGED next
          BY <1>0 DEF Fail
        <4>2. \A q \in Pieces : Before(q)' \subseteq Before(q)
          BY <4>1 DEF Before
        <4>3. \A j \in Jobs : \A k \in Sent(j)' : k \in Sent(j) \/ <<j, k>> = p
          BY <4>1 DEF Sent
        <4>4. \A j \in Range(jobs') : \A k \in Sent(j)' : k \in receipts'[j] \/ <<j, k>> \in retired
          BY <4>1 DEF Range
        <4>5. UNCHANGED retired
          BY <1>1
        <4> QED
          BY <1>3, <1>7, <1>q, <2>3, <4>2, <4>3, <4>4, <4>5, KernelAppends
      <3>2. ArenasOK'
        <4>1. \A i \in DOMAIN gpuq' : arena'[ArenaOf(gpuq'[i])] = gpuq'[i]
          BY <1>3, <1>7, <1>q, <2>1, <2>3 DEF KernelOK
        <4> QED
          BY <1>5, <1>7, <2>1, <4>1 DEF ArenasOK
      <3> QED
        BY <1>2, <3>1, <3>2 DEF SchedInv
    <2> QED
      BY <1>7, <2>2, <2>3
  <1> QED
    BY <1>4, <1>6, <1>7

\* Busy, or nothing to send: at most the uploads of the next chunk were written.
LEMMA DispatchStopsStep ==
  ASSUME SchedInv, DispatchStops
  PROVE  SchedInv'
  <1> USE DEF waitVars, eventVars, kernelVars, schedVars, workerVars
  <1>0. ~failure /\ pc = "dispatch"
    BY DEF SchedInv, PcOK, DispatchStops
  <1>1. /\ UNCHANGED <<jobs, next, receipts, bytes, failure, signal, gpuq, retired>>
        /\ UNCHANGED <<unseen, waiter, covers, flag, pipe, notifying, writeFailed, closing, fence>>
        /\ pc' \in {"exited", "consume", "poll"}
    BY DEF DispatchStops, Goto
  <1>2. QueueOK' /\ KernelOK' /\ TrackedOK' /\ Notified' = Notified
    BY <1>1, RestFrame
  <1>3. ArenasOK'
    <2>1. CASE UNCHANGED arena
      BY <1>1, <2>1, ArenasFrame DEF SchedInv
    <2>2. CASE Sendable /\ Kind(NextPiece) = "commands" /\ arena' = Loaded(NextPiece)
      <3>1. NextPiece \in Pieces /\ Ready(NextPiece)
        BY <2>2, NextFacts DEF Sendable, SchedInv
      <3>2. /\ Loaded(NextPiece) \in [1..Arenas -> Pieces \cup {None}]
            /\ \A i \in DOMAIN gpuq : Loaded(NextPiece)[ArenaOf(gpuq[i])] = gpuq[i]
        BY <1>0, <2>2, <3>1, LoadArena
      <3> QED
        BY <1>1, <2>2, <3>2 DEF SchedInv, ArenasOK
    <2> QED
      BY <2>1, <2>2 DEF DispatchStops
  <1>4. PcOK' /\ WaiterOK' /\ PipeOK'
    BY <1>0, <1>1, <1>2, WaiterFrame, PipeFrame DEF SchedInv, PcOK
  <1>5. WakeOK'
    BY <1>0, <1>1, SMTT(40) DEF SchedInv, WakeOK
  <1> QED
    BY <1>2, <1>3, <1>4, <1>5 DEF SchedInv

-----------------------------------------------------------------------------
(* The steps of the kernel.                                                *)

\* The oldest submission retires: everything before it has.
LEMMA KernelRetireStep ==
  ASSUME SchedInv, KernelRetire
  PROVE  SchedInv'
  <1> USE DEF waitVars, eventVars, schedVars, workerVars, arenaVars
  <1> DEFINE n == Len(gpuq)
             p == Head(gpuq)
  <1>q. QueueOK /\ KernelOK
    BY DEF SchedInv
  <1>0. gpuq \in Seq(Pieces) /\ gpuq # << >>
    BY <1>q DEF KernelOK, KernelRetire
  <1>1. /\ n \in Nat \ {0} /\ DOMAIN gpuq = 1..n /\ p = gpuq[1] /\ p \in Pieces
        /\ \A i \in 1..n : gpuq[i] \in Pieces
    BY <1>0
  <1>2. /\ gpuq' \in Seq(Pieces) /\ DOMAIN gpuq' = 1..(n - 1)
        /\ \A i \in 1..(n - 1) : gpuq'[i] = gpuq[i + 1]
    BY <1>0 DEF KernelRetire
  <1>3. /\ retired' = retired \cup {p}
        /\ UNCHANGED <<jobs, next, receipts, bytes, failure, signal>>
        /\ UNCHANGED <<unseen, pc, waiter, covers, flag, pipe, notifying, writeFailed, closing, arena, fence>>
    BY DEF KernelRetire
  <1> HIDE DEF n, p
  <1>4. \A i \in 1..(n - 1) : i + 1 \in 1..n /\ i + 1 # 1
    BY <1>1
  <1>5. \A i \in 1..n : i = 1 \/ (i - 1 \in 1..(n - 1) /\ (i - 1) + 1 = i)
    BY <1>1
  <1>6. Range(gpuq) = Range(gpuq') \cup {p}
    <2>1. \A i \in 1..n : gpuq[i] = p \/ \E h \in 1..(n - 1) : gpuq'[h] = gpuq[i]
      BY <1>1, <1>2, <1>5, Zenon
    <2>2. \A i \in 1..(n - 1) : \E h \in 1..n : gpuq'[i] = gpuq[h]
      BY <1>2, <1>4
    <2>3. 1 \in 1..n
      BY <1>1
    <2>4. Range(gpuq) = {gpuq[i] : i \in 1..n} /\ Range(gpuq') = {gpuq'[i] : i \in 1..(n - 1)}
      BY <1>1, <1>2 DEF Range
    <2> QED
      BY <1>1, <2>1, <2>2, <2>3, <2>4
  <1>7. \A i \in DOMAIN gpuq' : \E h \in DOMAIN gpuq : gpuq'[i] = gpuq[h]
    BY <1>1, <1>2, <1>4, Zenon
  <1>8. QueueOK'
    BY <1>3, <1>q, QueueFrame
  <1>9. KernelOK'
    <2>1. \A q \in Pieces : Before(q)' = Before(q)
      BY <1>3 DEF Before
    <2>2. \A j : Sent(j)' = Sent(j)
      BY <1>3 DEF Sent
    <2>3. ASSUME NEW i \in 1..(n - 1), NEW q \in Before(gpuq'[i])
          PROVE  q \in retired' \/ \E h \in 1..(i - 1) : gpuq'[h] = q
      <3>1. q \in retired \/ \E h \in 1..((i + 1) - 1) : gpuq[h] = q
        BY <1>1, <1>2, <1>4, <1>q, <2>3, SMTT(40) DEF KernelOK
      <3>2. ASSUME NEW h \in 1..((i + 1) - 1), gpuq[h] = q
            PROVE  q = p \/ \E l \in 1..(i - 1) : gpuq'[l] = q
        <4>1. CASE h = 1
          BY <1>1, <3>2, <4>1
        <4>2. CASE h # 1
          <5>1. h - 1 \in 1..(i - 1) /\ h - 1 \in 1..(n - 1) /\ (h - 1) + 1 = h
            BY <1>1, <4>2
          <5> QED
            BY <1>2, <3>2, <5>1
        <4> QED
          BY <4>1, <4>2
      <3> QED
        BY <1>3, <3>1, <3>2
    <2>4. \A i \in DOMAIN gpuq' : \A q \in Before(gpuq[i])' :
            q \in retired' \/ \E h \in 1..(i - 1) : gpuq'[h] = q
      <3>1. \A i \in DOMAIN gpuq' : gpuq'[i] \in Pieces
        BY <1>1, <1>7
      <3> QED
        BY <1>2, <2>1, <2>3, <3>1
    <2>5. \A i \in DOMAIN gpuq' : Kind(gpuq'[i]) = "commands"
      BY <1>7, <1>q DEF KernelOK
    <2>6. /\ retired' \subseteq Pieces
          /\ \A j \in Jobs : \A k \in Sent(j) : <<j, k>> \in retired' \cup Range(gpuq')
          /\ \A j \in Range(jobs) : \A k \in Sent(j) : k \in receipts[j] \/ <<j, k>> \in retired'
      BY <1>1, <1>3, <1>6, <1>q, Zenon DEF KernelOK
    <2> QED
      BY <1>2, <1>3, <2>2, <2>4, <2>5, <2>6, Zenon DEF KernelOK
  <1>10. TrackedOK'
    <2> SUFFICES ASSUME ~failure
                 PROVE  /\ Range(gpuq') \subseteq Held(jobs)
                        /\ IsInjective(gpuq') /\ Range(gpuq') \cap retired' = {}
                        /\ \A q \in retired' : q[2] \in Sent(q[1])
      BY <1>3 DEF TrackedOK, Held, Sent
    <2>1. /\ Range(gpuq) \subseteq Held(jobs) /\ IsInjective(gpuq) /\ Range(gpuq) \cap retired = {}
          /\ \A q \in retired : q[2] \in Sent(q[1])
      BY DEF SchedInv, TrackedOK
    <2>2. \A i, h \in 1..n : gpuq[i] = gpuq[h] => i = h
      BY <1>1, <2>1 DEF IsInjective
    <2>3. \A i, h \in 1..(n - 1) : i + 1 = h + 1 => i = h
      BY <1>1
    <2>4. IsInjective(gpuq')
      BY <1>2, <1>4, <2>2, <2>3 DEF IsInjective
    <2>5. p \notin Range(gpuq')
      <3>1. 1 \in 1..n
        BY <1>1
      <3> QED
        BY <1>1, <1>2, <1>4, <2>2, <3>1 DEF Range
    <2>6. p[2] \in Sent(p[1])
      BY <1>6, <1>q, <2>1, PieceDef DEF Held, QueueOK
    <2> QED
      BY <1>3, <1>6, <2>1, <2>4, <2>5, <2>6
  <1>11. ArenasOK'
    BY <1>3, <1>7 DEF SchedInv, ArenasOK
  <1>12. WaiterOK'
    <2>1. \A js : AllRetired(js) => AllRetired(js)'
      BY <1>3 DEF AllRetired
    <2> QED
      BY <1>3, <2>1 DEF SchedInv, WaiterOK
  <1>13. Notified' = Notified
    BY <1>3 DEF Notified
  <1>14. PcOK' /\ PipeOK' /\ WakeOK'
    BY <1>3, <1>13, PipeFrame DEF SchedInv, PcOK, WakeOK
  <1> QED
    BY <1>8, <1>9, <1>10, <1>11, <1>12, <1>14 DEF SchedInv

\* A lost device and the submissions of other contexts.
LEMMA KernelRestStep ==
  ASSUME SchedInv, KernelLost \/ KernelForeign \/ UNCHANGED vars
  PROVE  SchedInv'
  <1> USE DEF waitVars, eventVars, schedVars, workerVars, arenaVars, kernelVars, vars
  <1>1. /\ UNCHANGED <<jobs, next, receipts, bytes, failure, signal, gpuq, retired>>
        /\ UNCHANGED <<unseen, pc, waiter, covers, flag, pipe, notifying, writeFailed, closing, arena, fence>>
    BY DEF KernelLost, KernelForeign
  <1>2. QueueOK' /\ KernelOK' /\ TrackedOK' /\ Notified' = Notified
    BY <1>1, RestFrame
  <1>3. PcOK' /\ ArenasOK' /\ WaiterOK' /\ PipeOK' /\ WakeOK'
    BY <1>1, <1>2, ArenasFrame, WaiterFrame, PipeFrame DEF SchedInv, PcOK, WakeOK
  <1> QED
    BY <1>2, <1>3 DEF SchedInv

LEMMA NextInv ==
  ASSUME SchedInv, [Next]_vars
  PROVE  SchedInv'
  <1>1. ASSUME NEW j \in Jobs, Enqueue(j) PROVE SchedInv'
    BY <1>1, EnqueueStep
  <1>2. ASSUME NEW t \in Jobs \cup {None}, Notify(t) PROVE SchedInv'
    BY <1>2, NotifyStep DEF Threads
  <1>3. CASE Drop
    BY <1>3, DropStep
  <1>4. CASE WaitIdle \/ WaitReturns
    BY <1>4, WaitStep
  <1>5. CASE Consume \/ Clear \/ Poll
    BY <1>5, RunStep
  <1>6. CASE Advance
    BY <1>6, AdvanceStep
  <1>7. CASE DispatchCpu
    BY <1>7, DispatchCpuStep
  <1>8. CASE DispatchCommands
    BY <1>8, DispatchCommandsStep
  <1>9. CASE DispatchFails
    BY <1>9, DispatchFailsStep
  <1>10. CASE DispatchStops
    BY <1>10, DispatchStopsStep
  <1>11. CASE KernelRetire
    BY <1>11, KernelRetireStep
  <1>12. CASE KernelLost \/ KernelForeign \/ UNCHANGED vars
    BY <1>12, KernelRestStep
  <1> QED
    BY <1>1, <1>2, <1>3, <1>4, <1>5, <1>6, <1>7, <1>8, <1>9, <1>10, <1>11, <1>12, Zenon
       DEF Next, Worker

-----------------------------------------------------------------------------
(* The results.                                                            *)

\* The accounts of the dispatcher, the kernel's queue, the arenas, the waiter and the
\* notifiers hold whatever the threads, the worker and the kernel do.
THEOREM SchedulerInvariant == Spec => []SchedInv
  <1>1. Init => SchedInv
    BY InitInv
  <1>2. SchedInv /\ [Next]_vars => SchedInv'
    BY NextInv
  <1> QED
    BY <1>1, <1>2, PTL DEF Spec

\* Uploads of what the GPU may still run are never overwritten, and the queue, byte and
\* in-flight budgets of Scheduler::enqueue and advance are kept.
THEOREM ArenaAlwaysIntact == Spec => []ArenaIntact
  <1>1. ASSUME SchedInv
        PROVE  ArenaIntact
    <2>1. pipe \in 0..(Cardinality(Jobs) + 1)
      <3>1. Cardinality(Notified) <= Cardinality(Jobs) /\ IsFiniteSet(Notified)
        BY SchedulerAssumption, FS_Subset DEF Notified
      <3>2. Cardinality(Notified) \in Nat /\ Cardinality(Jobs) \in Nat
        BY <3>1, SchedulerAssumption, FS_CardinalityType
      <3>3. Cardinality(notifying) \in Nat
        BY <1>1, NotifiersFinite, FS_CardinalityType DEF SchedInv
      <3>4. /\ pipe \in Nat
            /\ pipe + Cardinality(notifying) <= Cardinality(Notified) + (IF closing THEN 1 ELSE 0)
        BY <1>1 DEF SchedInv, PipeOK
      <3> QED
        BY <3>1, <3>2, <3>3, <3>4
    <2>2. TypeOK
      BY <1>1, <2>1 DEF SchedInv, QueueOK, PcOK, TypeOK, Sent
    <2> QED
      BY <1>1, <2>2 DEF SchedInv, ArenasOK, ArenaIntact
  <1> QED
    BY <1>1, SchedulerInvariant, PTL

\* A job the worker has not seen always has a byte in the wake pipe or a notifier on its
\* way, however Event::notify and Event::consume interleave.
THEOREM WakeNeverLost == Spec => []NoLostWake
  <1>1. SchedInv => NoLostWake
    BY DEF SchedInv, WakeOK, NoLostWake
  <1> QED
    BY <1>1, SchedulerInvariant, PTL

\* wait_idle answers Ok only when everything it covers has retired.
THEOREM IdleAlwaysIdle == Spec => IdleIsIdle
  <1>1. SchedInv => ((waiter # None /\ waiter' = None /\ signal[waiter] = "ok") =>
                       \A p \in Pieces : p[1] \in covers => p \in retired)
    BY DEF SchedInv, WaiterOK, AllRetired
  <1> QED
    BY <1>1, SchedulerInvariant, PTL DEF IdleIsIdle

\* What may take effect is preceded by everything that goes before it.
LEMMA EffectStep ==
  ASSUME SchedInv, [Next]_vars, NEW p \in retired' \ retired
  PROVE  /\ \A q \in Before(p) : q \in retired
         /\ Kind(p) = "cpu" => gpuq = << >>
  <1> USE DEF waitVars, eventVars, schedVars, workerVars, arenaVars, kernelVars, vars
  <1>1. CASE DispatchCpu
    <2>1. gpuq = << >>
      BY <1>1, DispatchCpuStep
    <2>2. p = NextPiece /\ Unsent # {}
      BY <1>1 DEF DispatchCpu, Sendable
    <2>3. \A q \in Before(p) : q \in Pieces /\ q[2] \in Sent(q[1])
      BY <2>2, NextFacts DEF SchedInv
    <2>4. Range(gpuq) = {}
      BY <2>1 DEF Range
    <2>5. \A q \in Before(p) : q \in retired \cup Range(gpuq)
      BY <2>3, PieceDef DEF SchedInv, KernelOK
    <2> QED
      BY <2>1, <2>4, <2>5
  <1>2. CASE KernelRetire
    <2>1. gpuq \in Seq(Pieces) /\ gpuq # << >> /\ p = Head(gpuq)
      BY <1>2 DEF KernelRetire, SchedInv, KernelOK
    <2>2. 1 \in DOMAIN gpuq /\ p = gpuq[1]
      BY <2>1
    <2>3. \A q \in Before(gpuq[1]) : q \in retired
      BY <2>2 DEF SchedInv, KernelOK
    <2>4. Kind(gpuq[1]) = "commands"
      BY <2>2 DEF SchedInv, KernelOK
    <2> QED
      BY <2>2, <2>3, <2>4
  <1>3. CASE ~DispatchCpu /\ ~KernelRetire
    <2>1. retired' = retired
      BY <1>3, Zenon DEF Next, Enqueue, Notify, Drop, WaitIdle, WaitReturns, Worker, Consume, Clear, Poll,
                  Advance, DispatchCommands, DispatchFails, DispatchStops, KernelLost, KernelForeign
    <2> QED
      BY <2>1
  <1> QED
    BY <1>1, <1>2, <1>3

\* Only advance signals Ok, and only a job of the finished prefix.
LEMMA OkStep ==
  ASSUME SchedInv, [Next]_vars, NEW i \in DOMAIN jobs, signal[jobs[i]] # "ok", signal'[jobs[i]] = "ok",
         NEW h \in 1..i
  PROVE  AllRetired({jobs[h]})
  <1> USE DEF waitVars, eventVars, schedVars, workerVars, arenaVars, kernelVars, vars
  <1>q. QueueOK /\ KernelOK /\ jobs[i] \in Jobs /\ signal \in [Jobs -> {None, "pending", "ok", "failed", "rejected"}]
    BY SMTT(40) DEF SchedInv, QueueOK
  <1>1. CASE Advance /\ ~Fail
    <2>1. PICK seen \in SUBSET (Held(jobs) \cap retired) :
            LET rest == RetirePrefix(Held(jobs) \ seen)
                over == Range(jobs) \ Range(rest)
            IN  signal' = [j \in Jobs |-> IF j \in over THEN "ok" ELSE signal[j]]
      BY <1>1, Zenon DEF Advance
    <2> DEFINE held == Held(jobs) \ seen
               rest == RetirePrefix(held)
    <2>2. PICK m \in Nat : /\ Suffix(jobs, rest, m)
                          /\ \A k \in 1..m : jobs[k] \in Finished(jobs, held)
      BY <1>q, PrefixGoes, Zenon
    <2>3. jobs[i] \in Range(jobs) \ Range(rest)
      BY <1>q, <2>1
    <2> HIDE DEF rest
    <2>4. jobs[i] \in {jobs[k] : k \in 1..m}
      <3>1. jobs \in Seq(Jobs) /\ IsInjective(jobs)
        BY <1>q, Zenon DEF QueueOK
      <3> QED
        BY <2>2, <2>3, <3>1, SuffixFacts
    <2>5. i \in 1..m
      <3>1. \A k \in 1..m : k \in DOMAIN jobs
        BY <1>q, <2>2, SMTT(40) DEF Suffix, QueueOK
      <3> QED
        BY <1>q, <2>4, <3>1, SMTT(40) DEF QueueOK, IsInjective
    <2>6. h \in 1..m
      BY <2>5, SMTT(40)
    <2> QED
      BY <1>q, <2>2, <2>6, FinishedRetired, Zenon
  <1>2. CASE ~Advance \/ Fail
    <2>1. \/ UNCHANGED signal
          \/ Fail
          \/ \E j \in Jobs : signal' \in {[signal EXCEPT ![j] = "rejected"], [signal EXCEPT ![j] = "pending"]}
      BY <1>2, Zenon DEF Next, Enqueue, Notify, Drop, WaitIdle, WaitReturns, Worker, Consume, Clear, Poll, Goto,
                  EnterAdvance, HandOver, DispatchCpu, DispatchCommands, DispatchFails, DispatchStops,
                  KernelRetire, KernelLost, KernelForeign
    <2> QED
      BY <1>q, <2>1 DEF Fail
  <1> QED
    BY <1>1, <1>2

\* Work takes effect, and is reported as done, in the order in which it was queued: Busy
\* never lets a later job pass, and fences observed out of order signal nothing early.
THEOREM WorkInOrder == Spec => InOrder
  <1> DEFINE Effects == \A p \in retired' \ retired :
               /\ \A k \in 1..(p[2] - 1) : <<p[1], k>> \in retired
               /\ \A i \in DOMAIN jobs : jobs[i] = p[1] =>
                    \A q \in Pieces : (\E h \in 1..(i - 1) : jobs[h] = q[1]) => q \in retired
               /\ Kind(p) = "cpu" => gpuq = << >>
             Oks == \A i \in DOMAIN jobs : (signal[jobs[i]] # "ok" /\ signal'[jobs[i]] = "ok") =>
               \A h \in 1..i : \A k \in 1..Len(Chunks[jobs[h]]) : <<jobs[h], k>> \in retired
  <1>1. ASSUME SchedInv, [Next]_vars
        PROVE  Effects
    <2> SUFFICES ASSUME NEW p \in retired' \ retired
                 PROVE  /\ \A k \in 1..(p[2] - 1) : <<p[1], k>> \in retired
                        /\ \A i \in DOMAIN jobs : jobs[i] = p[1] =>
                             \A q \in Pieces : (\E h \in 1..(i - 1) : jobs[h] = q[1]) => q \in retired
                        /\ Kind(p) = "cpu" => gpuq = << >>
      OBVIOUS
    <2>1. (\A q \in Before(p) : q \in retired) /\ (Kind(p) = "cpu" => gpuq = << >>)
      BY <1>1, EffectStep
    <2>2. \A i \in DOMAIN jobs : \A h \in 1..(i - 1) : h \in DOMAIN jobs /\ h < i
      BY <1>1 DEF SchedInv, QueueOK
    <2> QED
      BY <2>1, <2>2 DEF Before
  <1>2. ASSUME SchedInv, [Next]_vars
        PROVE  Oks
    <2> SUFFICES ASSUME NEW i \in DOMAIN jobs, signal[jobs[i]] # "ok", signal'[jobs[i]] = "ok",
                        NEW h \in 1..i, NEW k \in 1..Len(Chunks[jobs[h]])
                 PROVE  <<jobs[h], k>> \in retired
      OBVIOUS
    <2>1. AllRetired({jobs[h]})
      BY <1>2, OkStep
    <2>2. jobs[h] \in Jobs
      BY <1>2 DEF SchedInv, QueueOK
    <2>3. <<jobs[h], k>> \in Pieces
      BY <2>2, PieceDef
    <2> QED
      BY <2>1, <2>3 DEF AllRetired
  <1> QED
    BY <1>1, <1>2, SchedulerInvariant, PTL DEF Spec, InOrder, EffectsInOrder, OkCoversPrefix
=============================================================================
