-------------------------- MODULE A618DeviceProofs --------------------------
(***************************************************************************)
(* Proofs about A618Device for every capacity and every finite set of      *)
(* callers.  None of the safety properties is inductive by itself; IInv    *)
(* adds where the worker's submission and the queued ones are, what the    *)
(* GPU can reach at each step of the worker, and that the owner of a CPU   *)
(* reservation is behind everything that was accepted before it.           *)
(***************************************************************************)
EXTENDS A618Device, FiniteSetTheorems, SequenceTheorems, TLAPS

Holding == {"ready", "submit", "executing", "settle", "record", "notify", "finish"}

\* The worker holds a submission exactly between start_next and finish, and
\* every other accepted submission is in the queue once.
ControlInv ==
  /\ running <=> cur # None
  /\ cur # None <=> pc \in Holding
  /\ pc \in Holding \ {"finish"} => st[cur] = "running"
  /\ pc = "finish" => /\ st[cur] \in {"ok", "failed", "done", "lost", "asleep"}
                      /\ cur \in Forgotten <=> sawQuarantine
  /\ pc = "record" => result # "ok"
  /\ \A w \in Work : st[w] = "running" => w = cur
  /\ \A w \in Work : st[w] = "queued" <=> \E i \in 1..Len(queued) : queued[i] = w
  /\ \A i, j \in 1..Len(queued) : queued[i] = queued[j] => i = j

\* What the GPU can reach, step by step.
GpuInv ==
  /\ GpuMemoryPinned
  /\ pc # "executing" /\ ~quarantine => gpu = {}
  /\ pc \in {"record", "notify", "finish"} /\ ~sawQuarantine => cur \notin gpu
  /\ pc \in {"settle", "notify"} /\ result = "ok" => gpu = {}

\* The owner of the reservation and what may be accepted behind it.
AccessInv ==
  /\ cpuAccess <=> Owners # {}
  /\ \A a, b \in Owners : a = b
  /\ \A a \in Accessors :
       /\ st[a] = "queued" => Len(queued) > 0 /\ queued[Len(queued)] = a
       /\ st[a] \in {"running", "ok"} => queued = << >>
       /\ st[a] = "ok" => gpu = {} /\ pc \notin Holding \ {"finish"}

IInv == TypeOK /\ ControlInv /\ SlotsCounted /\ GpuInv /\ AccessInv

-----------------------------------------------------------------------------
(* Facts about sequences and finite sets.                                  *)

\* What push_back does to a sequence.
LEMMA AppendFacts ==
  ASSUME NEW S, NEW q \in Seq(S), NEW e \in S
  PROVE  /\ Append(q, e) \in Seq(S)
         /\ Len(Append(q, e)) = Len(q) + 1
         /\ Len(q) \in Nat
         /\ \A i \in 1..Len(q) : Append(q, e)[i] = q[i]
         /\ Append(q, e)[Len(q) + 1] = e
  OBVIOUS

\* What pop_front does to a sequence.
LEMMA TailFacts ==
  ASSUME NEW S, NEW q \in Seq(S), q # << >>
  PROVE  /\ Tail(q) \in Seq(S)
         /\ Len(q) \in Nat \ {0}
         /\ Len(Tail(q)) = Len(q) - 1
         /\ \A i \in 1..Len(Tail(q)) : Tail(q)[i] = q[i + 1]
         /\ Head(q) = q[1] /\ Head(q) \in S
  OBVIOUS

\* The forgotten submissions can be counted.
LEMMA ForgottenFinite ==
  /\ IsFiniteSet(Forgotten) /\ Cardinality(Forgotten) \in Nat
  /\ Cardinality(Forgotten \ {cur}) \in Nat
  <1>1. IsFiniteSet(Forgotten)
    BY WorkAssumption, FS_Subset DEF Forgotten
  <1> QED
    BY <1>1, FS_Difference, FS_CardinalityType, Zenon

-----------------------------------------------------------------------------
(* The invariant holds initially and is preserved by every action.         *)

\* A device that was just probed satisfies the invariant.
LEMMA InitIInv == Init => IInv
  <1> SUFFICES ASSUME Init PROVE IInv
    OBVIOUS
  <1>1. Forgotten = {} /\ Owners = {}
    BY DEF Init, Forgotten, Owners, Work
  <1>2. TypeOK
    <2>1. st \in [Work -> States]
      BY DEF Init, States
    <2>2. queued \in Seq(Work) /\ outstanding \in Nat
      BY DEF Init, TryNew
    <2> QED
      BY <2>1, <2>2, Zenon DEF Init, TryNew, TypeOK
  <1>3. ControlInv
    BY <1>1 DEF Init, TryNew, ControlInv, Holding
  <1>4. SlotsCounted
    <2>1. Cardinality(Forgotten \ {cur}) = 0
      BY <1>1, FS_EmptySet
    <2> QED
      BY <2>1, CapacityAssumption DEF Init, TryNew, SlotsCounted
  <1>5. GpuInv
    BY DEF Init, GpuInv, GpuMemoryPinned
  <1>6. AccessInv
    BY <1>1 DEF Init, TryNew, AccessInv, Work
  <1> QED
    BY <1>2, <1>3, <1>4, <1>5, <1>6 DEF IInv

\* A submission enters the queue; the owner of a reservation is the only one
\* that can while there is one.
LEMMA AcceptStep ==
  ASSUME NEW w \in Work, IInv, HasSlot, PushAdmitted(w), Accept(w),
         st[w] \in {"new", "waiting", "reserved"},
         IF w \in Accessors THEN st[w] = "reserved" ELSE ~cpuAccess,
         UNCHANGED <<failure, wakeLatch, workerVars, hardwareVars, policy>>
  PROVE  IInv'
  <1> USE DEF workerVars, hardwareVars
  <1>a. /\ queued \in Seq(Work) /\ queued' = Append(queued, w)
        /\ st \in [Work -> States] /\ st' = [st EXCEPT ![w] = "queued"]
        /\ outstanding \in Nat /\ outstanding' = outstanding + 1
        /\ UNCHANGED <<running, cpuAccess, cur, pc, gpu>>
    BY DEF IInv, TypeOK, Accept, PushAdmitted
  <1>b. /\ queued' \in Seq(Work) /\ Len(queued') = Len(queued) + 1
        /\ Len(queued) \in Nat
        /\ \A i \in 1..Len(queued) : queued'[i] = queued[i]
        /\ queued'[Len(queued) + 1] = w
    BY <1>a, AppendFacts
  <1>c. \A i \in 1..Len(queued) : queued[i] # w
    BY DEF IInv, ControlInv
  <1>d. Forgotten' = Forgotten
    BY <1>a DEF Forgotten, States
  <1>1. TypeOK'
    <2>1. st' \in [Work -> States] /\ outstanding' \in Nat /\ waking' \subseteq Work
      BY <1>a DEF States, Accept, IInv, TypeOK
    <2> QED
      BY <1>a, <1>b, <2>1 DEF IInv, TypeOK
  <1>2. ControlInv'
    <2>1. \A v \in Work : st'[v] = "queued" <=> \E i \in 1..Len(queued') : queued'[i] = v
      <3>1. ASSUME NEW v \in Work, v # w
            PROVE  st'[v] = "queued" <=> \E i \in 1..Len(queued') : queued'[i] = v
        BY <1>a, <1>b, <3>1 DEF IInv, ControlInv
      <3>2. st'[w] = "queued" /\ \E i \in 1..Len(queued') : queued'[i] = w
        BY <1>a, <1>b
      <3> QED
        BY <3>1, <3>2
    <2>2. \A i, j \in 1..Len(queued') : queued'[i] = queued'[j] => i = j
      BY <1>b, <1>c DEF IInv, ControlInv
    <2>3. pc \in Holding => cur # w
      BY DEF IInv, ControlInv, Holding
    <2>4. \A v \in Work : st'[v] = "running" => v = cur
      BY <1>a DEF IInv, ControlInv
    <2> QED
      BY <1>a, <1>d, <2>1, <2>2, <2>3, <2>4
         DEF IInv, TypeOK, ControlInv, Holding
  <1>3. SlotsCounted'
    BY <1>a, <1>b, <1>d, ForgottenFinite, CapacityAssumption, SMTT(40)
       DEF IInv, SlotsCounted, HasSlot
  <1>4. GpuInv'
    BY <1>a, <1>d DEF IInv, GpuInv, GpuMemoryPinned
  <1>5. AccessInv'
    <2>1. Owners' = Owners
      BY <1>a DEF Owners, IInv, AccessInv
    <2>2. w \notin Accessors => Owners = {}
      BY DEF IInv, AccessInv
    <2>3. w \in Accessors => Owners = {w}
      BY DEF IInv, AccessInv, Owners
    <2>4. ASSUME NEW a \in Accessors, st'[a] \in {"queued", "running", "ok"}
          PROVE  a = w
      BY <1>a, <2>2, <2>3, <2>4 DEF Owners, Work
    <2> QED
      BY <1>a, <1>b, <2>1, <2>4 DEF IInv, AccessInv
  <1> QED
    BY <1>1, <1>2, <1>3, <1>4, <1>5 DEF IInv

\* A call is refused, or waits, before it has a slot.
LEMMA RefusedStep ==
  ASSUME NEW w \in Work, NEW s, IInv, Tell(w, s),
         \/ st[w] \in {"new", "waiting"} /\ s \in {"waiting", "rejected"}
         \/ st[w] = "reserved" /\ s = "unwind",
         UNCHANGED <<queueVars, failure, wakeLatch, workerVars, hardwareVars,
                     policy>>
  PROVE  IInv'
  <1> USE DEF queueVars, workerVars, hardwareVars
  <1>a. /\ st \in [Work -> States] /\ st' = [st EXCEPT ![w] = s]
        /\ s \in {"waiting", "rejected", "unwind"}
    BY DEF IInv, TypeOK, Tell
  <1>b. Forgotten' = Forgotten
    BY <1>a DEF Forgotten
  <1>c. Owners' = Owners
    BY <1>a DEF Owners
  <1>1. TypeOK'
    <2>1. st' \in [Work -> States]
      BY <1>a DEF States
    <2> QED
      BY <2>1 DEF IInv, TypeOK, Tell
  <1>2. ControlInv'
    BY <1>a, <1>b DEF IInv, ControlInv, Holding
  <1>3. SlotsCounted'
    BY <1>b DEF IInv, SlotsCounted
  <1>4. GpuInv'
    BY <1>b DEF IInv, GpuInv, GpuMemoryPinned
  <1>5. AccessInv'
    BY <1>a, <1>c DEF IInv, AccessInv, Work
  <1> QED
    BY <1>1, <1>2, <1>3, <1>4, <1>5 DEF IInv

\* enqueue preserves the invariant.
LEMMA EnqueueStep ==
  ASSUME NEW w \in Work, IInv, Enqueue(w)
  PROVE  IInv'
  <1>1. CASE Tell(w, "rejected") /\ UNCHANGED queueVars
    BY <1>1, RefusedStep DEF Enqueue
  <1>2. CASE Push(w) /\ Accept(w)
    BY <1>2, AcceptStep, WorkAssumption DEF Enqueue, Push, HasCapacity
  <1> QED
    BY <1>1, <1>2 DEF Enqueue

\* Queue::submit, up to admission.
LEMMA SubmitStep ==
  ASSUME NEW w \in Work, IInv, Submit(w)
  PROVE  IInv'
  BY RefusedStep DEF Submit

\* One turn of the admission loop of submit_prepared_sync.
LEMMA SubmitPreparedSyncStep ==
  ASSUME NEW w \in Work, IInv, SubmitPreparedSync(w)
  PROVE  IInv'
  <1>1. CASE failure # None
    BY <1>1, RefusedStep, WorkAssumption DEF SubmitPreparedSync
  <1>2. CASE w \in Accessors /\ PushCpuCheckpoint(w) /\ Accept(w)
    BY <1>2, AcceptStep, WorkAssumption
       DEF SubmitPreparedSync, PushCpuCheckpoint
  <1>3. CASE w \in Sync /\ Push(w) /\ Accept(w)
    BY <1>3, AcceptStep, WorkAssumption
       DEF SubmitPreparedSync, Push, HasCapacity
  <1> QED
    BY <1>1, <1>2, <1>3 DEF SubmitPreparedSync

\* begin_cpu_access, up to the reservation.
LEMMA BeginCpuAccessStep ==
  ASSUME NEW w \in Work, IInv, BeginCpuAccess(w)
  PROVE  IInv'
  <1>1. CASE \E s \in {"waiting", "rejected"} : Tell(w, s) /\ UNCHANGED queueVars
    BY <1>1, RefusedStep DEF BeginCpuAccess
  <1>2. CASE TryBeginCpuAccess /\ Tell(w, "reserved") /\ st[w] = "waiting"
    <2> USE DEF workerVars, hardwareVars
    <2>a. /\ st \in [Work -> States] /\ st' = [st EXCEPT ![w] = "reserved"]
          /\ w \in Accessors /\ ~cpuAccess /\ cpuAccess' = TRUE
          /\ UNCHANGED <<queued, outstanding, running, cur, pc, gpu>>
      BY <1>2 DEF IInv, TypeOK, Tell, TryBeginCpuAccess, BeginCpuAccess
    <2>b. Forgotten' = Forgotten
      BY <1>2, <2>a DEF Forgotten
    <2>c. Owners = {} /\ Owners' = {w}
      BY <2>a DEF Owners, IInv, AccessInv, Work
    <2>1. TypeOK'
      <3>1. st' \in [Work -> States]
        BY <2>a DEF States
      <3> QED
        BY <1>2, <2>a, <3>1 DEF IInv, TypeOK, Tell, BeginCpuAccess
    <2>2. ControlInv'
      BY <1>2, <2>a, <2>b DEF IInv, ControlInv, Holding, BeginCpuAccess
    <2>3. SlotsCounted'
      BY <2>a, <2>b DEF IInv, SlotsCounted
    <2>4. GpuInv'
      BY <2>a, <2>b DEF IInv, GpuInv, GpuMemoryPinned, BeginCpuAccess
    <2>5. AccessInv'
      BY <2>a, <2>c DEF AccessInv, Owners, Work
    <2> QED
      BY <2>1, <2>2, <2>3, <2>4, <2>5 DEF IInv
  <1> QED
    BY <1>1, <1>2 DEF BeginCpuAccess

\* The drop of A618CpuAccess.
LEMMA EndAccessStep ==
  ASSUME NEW w \in Work, IInv, EndAccess(w)
  PROVE  IInv'
  <1> USE DEF queueVars, callerVars, workerVars, hardwareVars
  <1>1. TypeOK'
    <2>1. st' \in [Work -> States]
      BY DEF IInv, TypeOK, States, EndAccess, Tell
    <2>2. cpuAccess' \in BOOLEAN
      BY Zenon DEF EndAccess, EndCpuAccess
    <2>3. UNCHANGED <<queued, outstanding, running, failure, waking, wakeLatch,
                      workerVars, hardwareVars, policy>>
      BY DEF EndAccess, Tell, EndCpuAccess
    <2> QED
      BY <2>1, <2>2, <2>3 DEF IInv, TypeOK
  <1>2. ControlInv'
    BY DEF IInv, TypeOK, States, ControlInv, Holding, Forgotten, EndAccess,
           Tell, EndCpuAccess
  <1>3. SlotsCounted'
    BY ForgottenFinite, Zenon
       DEF IInv, TypeOK, ControlInv, Holding, SlotsCounted, Forgotten,
           EndAccess, Tell, EndCpuAccess
  <1>4. GpuInv'
    BY DEF IInv, TypeOK, ControlInv, Holding, GpuInv, GpuMemoryPinned,
           Forgotten, EndAccess, Tell, EndCpuAccess
  <1>5. AccessInv'
    BY DEF IInv, TypeOK, ControlInv, Holding, GpuInv, AccessInv, Owners,
           EndAccess, Tell, EndCpuAccess
  <1> QED
    BY <1>1, <1>2, <1>3, <1>4, <1>5 DEF IInv

\* A step that leaves the queue, the callers' states and the worker's submission alone
\* and does not take the worker into or out of a turn.
LEMMA TurnFrame ==
  ASSUME IInv, TypeOK', GpuInv', UNCHANGED <<queueVars, st, cur>>,
         pc' \in Holding <=> pc \in Holding,
         pc = "finish" <=> pc' = "finish",
         pc = "finish" => sawQuarantine' = sawQuarantine,
         pc' = "record" => result' # "ok",
         gpu' \subseteq gpu \/ pc' \in Holding \ {"finish"}
  PROVE  IInv'
  <1> USE DEF queueVars
  <1>1. Forgotten' = Forgotten /\ Owners' = Owners
    BY DEF Forgotten, Owners
  <1>2. SlotsCounted'
    BY <1>1 DEF IInv, SlotsCounted
  <1>3. ControlInv'
    BY <1>1 DEF IInv, ControlInv
  <1>4. AccessInv'
    <2>1. ASSUME NEW a \in Accessors, st[a] = "ok"
          PROVE  gpu' = {} /\ pc' \notin Holding \ {"finish"}
      BY <2>1 DEF IInv, AccessInv
    <2> QED
      BY <1>1, <2>1 DEF IInv, AccessInv
  <1> QED
    BY <1>2, <1>3, <1>4 DEF IInv

\* WORKER_WAKER.wake_one.
LEMMA WakeWorkerStep ==
  ASSUME NEW w \in Work, IInv, WakeWorker(w)
  PROVE  IInv'
  <1> USE DEF queueVars, callerVars, workerVars, hardwareVars
  <1>1. TypeOK'
    BY DEF IInv, TypeOK, Errors, WakeWorker
  <1>2. GpuInv'
    BY DEF IInv, TypeOK, ControlInv, Holding, GpuInv, GpuMemoryPinned,
           Forgotten, WakeWorker
  <1>3. pc = "record" => result # "ok"
    BY DEF IInv, ControlInv
  <1> QED
    BY <1>1, <1>2, <1>3, TurnFrame, SMTT(60) DEF WakeWorker

\* query_info, which may boot or lose the device.
LEMMA QueryInfoStep ==
  ASSUME IInv, QueryInfo
  PROVE  IInv'
  <1> USE DEF queueVars, callerVars, workerVars, hardwareVars
  <1>1. TypeOK'
    <2>1. UNCHANGED <<queued, outstanding, failure, st, waking, pc, cur, result, gpu>>
      BY DEF QueryInfo, EnsureHardwareReady, BootOobTimeout,
             BootPreparationFailed, BootReady
    <2>2. boot' \in {"Cold", "Ready", "Lost"} /\ oobHeld' \in BOOLEAN
          /\ quiesceFailed' \in BOOLEAN /\ quarantine' \in BOOLEAN
      BY Zenon DEF IInv, TypeOK, QueryInfo, EnsureHardwareReady, BootOobTimeout,
             BootPreparationFailed, BootReady
    <2>3. policy' \in BOOLEAN
      BY Zenon DEF IInv, TypeOK, QueryInfo
    <2> QED
      BY <2>1, <2>2, <2>3 DEF IInv, TypeOK, QueryInfo
  <1>2. GpuInv'
    BY SMTT(40) DEF IInv, TypeOK, ControlInv, Holding, GpuInv, GpuMemoryPinned,
           Forgotten, QueryInfo, GateFree, EnsureHardwareReady, BootOobTimeout,
           BootPreparationFailed, BootReady
  <1>3. gpu' = gpu
    BY DEF QueryInfo, EnsureHardwareReady, BootOobTimeout, BootPreparationFailed, BootReady
  <1>4. pc = "record" => result # "ok"
    BY DEF IInv, ControlInv
  <1> QED
    BY <1>1, <1>2, <1>3, <1>4, TurnFrame, SMTT(60) DEF QueryInfo

\* A rejected frequency vote, which loses the device.
LEMMA SetFrequencyFailsStep ==
  ASSUME IInv, SetFrequencyFails
  PROVE  IInv'
  <1> USE DEF queueVars, callerVars, workerVars, hardwareVars
  <1>1. TypeOK'
    <2>1. oobHeld' \in BOOLEAN /\ quiesceFailed' \in BOOLEAN /\ quarantine' \in BOOLEAN
      BY Zenon DEF IInv, TypeOK, SetFrequencyFails, QuiesceLost
    <2>2. boot' \in {"Cold", "Ready", "Lost"} /\ gpu' \subseteq Work
      BY DEF IInv, TypeOK, SetFrequencyFails, QuiesceLost
    <2> QED
      BY <2>1, <2>2 DEF IInv, TypeOK, SetFrequencyFails
  <1>2. GpuInv'
    BY DEF IInv, TypeOK, ControlInv, Holding, GpuInv, GpuMemoryPinned,
           Forgotten, SetFrequencyFails, GateFree, QuiesceLost
  <1>3. gpu' \subseteq gpu
    BY DEF SetFrequencyFails, QuiesceLost
  <1>4. pc = "record" => result # "ok"
    BY DEF IInv, ControlInv
  <1> QED
    BY <1>1, <1>2, <1>3, <1>4, TurnFrame, SMTT(60) DEF SetFrequencyFails

\* start_next moves the oldest submission to the worker.
LEMMA StartStep ==
  ASSUME IInv, Start
  PROVE  IInv'
  <1> USE DEF queueVars, callerVars, workerVars, hardwareVars
  <1>a. /\ queued \in Seq(Work) /\ queued # << >> /\ queued' = Tail(queued)
        /\ st \in [Work -> States] /\ st' = [st EXCEPT ![Head(queued)] = "running"]
        /\ cur' = Head(queued) /\ running' = TRUE /\ pc = "scan"
        /\ pc' \in {"ready", "settle"}
        /\ UNCHANGED <<outstanding, cpuAccess, gpu, quarantine>>
    BY DEF IInv, TypeOK, Start, StartNext
  <1>b. /\ queued' \in Seq(Work) /\ Len(queued') = Len(queued) - 1
        /\ Len(queued) \in Nat \ {0}
        /\ \A i \in 1..Len(queued') : queued'[i] = queued[i + 1]
        /\ Head(queued) = queued[1] /\ Head(queued) \in Work
    BY <1>a, TailFacts
  <1>c. /\ st[Head(queued)] = "queued" /\ ~running /\ cur = None
        /\ \A i \in 1..Len(queued') : queued'[i] # Head(queued)
    BY <1>a, <1>b DEF IInv, ControlInv, Holding
  <1>d. Forgotten' = Forgotten /\ Head(queued) \notin Forgotten /\ cur \notin Forgotten
    BY <1>a, <1>b, <1>c, WorkAssumption DEF Forgotten
  <1>1. TypeOK'
    <2>1. st' \in [Work -> States]
      BY <1>a, <1>b DEF States
    <2>2. pc' \in {"ready", "settle"} /\ result' \in Errors \cup {"ok"}
      BY DEF IInv, TypeOK, Start
    <2> QED
      BY <1>a, <1>b, <2>1, <2>2 DEF IInv, TypeOK, Start
  <1>2. ControlInv'
    <2>1. \A v \in Work : st'[v] = "queued" <=> \E i \in 1..Len(queued') : queued'[i] = v
      <3>1. ASSUME NEW v \in Work, v # Head(queued), st[v] = "queued"
            PROVE  \E i \in 1..Len(queued') : queued'[i] = v
        <4>1. PICK j \in 1..Len(queued) : queued[j] = v
          BY <3>1 DEF IInv, ControlInv
        <4>2. j # 1 /\ j - 1 \in 1..Len(queued') /\ queued'[j - 1] = v
          BY <1>b, <3>1, <4>1
        <4> QED
          BY <4>2
      <3>2. ASSUME NEW i \in 1..Len(queued')
            PROVE  st[queued'[i]] = "queued" /\ queued'[i] \in Work
        BY <1>a, <1>b DEF IInv, ControlInv
      <3> QED
        BY <1>a, <1>b, <1>c, <3>1, <3>2
    <2>2. ASSUME NEW i \in 1..Len(queued'), NEW j \in 1..Len(queued'),
                 queued'[i] = queued'[j]
          PROVE  i = j
      <3>1. /\ i + 1 \in 1..Len(queued) /\ j + 1 \in 1..Len(queued)
            /\ queued[i + 1] = queued[j + 1]
        BY <1>b, <2>2
      <3> QED
        BY <3>1 DEF IInv, ControlInv
    <2>3. \A v \in Work : st'[v] = "running" => v = cur'
      BY <1>a, <1>b, <1>c, WorkAssumption DEF IInv, ControlInv
    <2>4. cur' # None /\ st'[cur'] = "running"
      BY <1>a, <1>b, WorkAssumption
    <2> QED
      BY <1>a, <2>1, <2>2, <2>3, <2>4 DEF ControlInv, Holding
  <1>3. SlotsCounted'
    <2>1. Cardinality(Forgotten' \ {cur'}) = Cardinality(Forgotten \ {cur})
      <3>1. Forgotten' \ {cur'} = Forgotten \ {cur}
        BY <1>a, <1>d
      <3> QED
        BY <3>1
    <2> QED
      BY <1>a, <1>b, <1>c, <2>1, ForgottenFinite DEF IInv, SlotsCounted
  <1>4. GpuInv'
    BY <1>a, <1>b, <1>c, <1>d, WorkAssumption
       DEF IInv, GpuInv, GpuMemoryPinned, TypeOK, Start, Errors
  <1>5. AccessInv'
    BY SMTT(40) DEF IInv, TypeOK, ControlInv, Holding, GpuInv, AccessInv, Owners, Start,
           StartNext
  <1> QED
    BY <1>1, <1>2, <1>3, <1>4, <1>5 DEF IInv

\* The worker finds the queue empty.
LEMMA DrainedStep ==
  ASSUME IInv, Drained
  PROVE  IInv'
  <1> USE DEF queueVars, callerVars, workerVars, hardwareVars
  <1>1. TypeOK'
    BY DEF IInv, TypeOK, Errors, Drained
  <1>2. GpuInv'
    BY DEF IInv, TypeOK, ControlInv, Holding, GpuInv, GpuMemoryPinned,
           Forgotten, Drained
  <1> QED
    BY <1>1, <1>2, TurnFrame, SMTT(60) DEF Drained, Holding

\* The worker begins to wait.
LEMMA SleepStep ==
  ASSUME IInv, Sleep
  PROVE  IInv'
  <1> USE DEF queueVars, callerVars, workerVars, hardwareVars
  <1>1. TypeOK'
    BY DEF IInv, TypeOK, Errors, Sleep
  <1>2. GpuInv'
    BY DEF IInv, TypeOK, ControlInv, Holding, GpuInv, GpuMemoryPinned,
           Forgotten, Sleep
  <1> QED
    BY <1>1, <1>2, TurnFrame, SMTT(60) DEF Sleep, Holding

\* The worker consumes a notification.
LEMMA AwakeStep ==
  ASSUME IInv, Awake
  PROVE  IInv'
  <1> USE DEF queueVars, callerVars, workerVars, hardwareVars
  <1>1. TypeOK'
    BY ZenonT(60) DEF IInv, TypeOK, Awake
  <1>2. GpuInv'
    BY DEF IInv, TypeOK, ControlInv, Holding, GpuInv, GpuMemoryPinned,
           Forgotten, Awake
  <1> QED
    BY <1>1, <1>2, TurnFrame, SMTT(60) DEF Awake, Holding

\* ensure_hardware_ready, called by the worker.
LEMMA EnsureReadyStep ==
  ASSUME IInv, EnsureReady
  PROVE  IInv'
  <1> USE DEF queueVars, callerVars, workerVars, hardwareVars
  <1>1. TypeOK'
    <2>1. UNCHANGED <<queued, outstanding, failure, st, waking, cur, gpu>>
      BY DEF EnsureReady, EnsureHardwareReady, BootOobTimeout,
             BootPreparationFailed, BootReady
    <2>2. boot' \in {"Cold", "Ready", "Lost"} /\ oobHeld' \in BOOLEAN
          /\ quiesceFailed' \in BOOLEAN /\ quarantine' \in BOOLEAN
      BY Zenon DEF IInv, TypeOK, EnsureReady, EnsureHardwareReady, BootOobTimeout,
             BootPreparationFailed, BootReady
    <2>3. result' \in Errors \cup {"ok"} /\ pc' \in {"submit", "settle"}
      BY DEF EnsureReady
    <2> QED
      BY <2>1, <2>2, <2>3 DEF IInv, TypeOK, EnsureReady
  <1>2. /\ gpu' = gpu
        /\ quarantine => quarantine'
        /\ UNCHANGED <<cur, st>>
        /\ pc = "ready"
        /\ pc' \in {"submit", "settle"}
        /\ pc' = "settle" => result' # "ok"
    <2>1. PICK res \in Errors \cup {"ok"} : EnsureHardwareReady(res)
      BY DEF EnsureReady
    <2>2. gpu' = gpu
      BY <2>1 DEF EnsureHardwareReady, BootOobTimeout, BootPreparationFailed, BootReady
    <2>3. quarantine => quarantine'
      BY <2>1, Zenon DEF EnsureHardwareReady, BootOobTimeout, BootPreparationFailed,
                         BootReady
    <2> QED
      BY <2>2, <2>3 DEF EnsureReady
  <1>3. GpuInv'
    BY <1>2 DEF IInv, GpuInv, GpuMemoryPinned, Forgotten
  <1> QED
    BY <1>1, <1>2, <1>3, TurnFrame, SMTT(60) DEF EnsureReady, Holding

\* submit_words returns before it touches the GPU.
LEMMA SubmitRefusedStep ==
  ASSUME IInv, SubmitRefused
  PROVE  IInv'
  <1> USE DEF queueVars, callerVars, workerVars, hardwareVars
  <1>1. TypeOK'
    BY DEF IInv, TypeOK, Errors, SubmitRefused
  <1>2. GpuInv'
    BY DEF IInv, TypeOK, ControlInv, Holding, GpuInv, GpuMemoryPinned,
           Forgotten, SubmitRefused
  <1> QED
    BY <1>1, <1>2, TurnFrame, SMTT(60) DEF SubmitRefused, Holding

\* submit_words kicks the GPU.
LEMMA SubmitWordsStep ==
  ASSUME IInv, SubmitWords
  PROVE  IInv'
  <1> USE DEF queueVars, callerVars, workerVars, hardwareVars
  <1>1. TypeOK'
    <2>1. gpu' \subseteq Work
      BY DEF IInv, TypeOK, SubmitWords, ControlInv, Holding
    <2> QED
      BY <2>1 DEF IInv, TypeOK, SubmitWords
  <1>2. GpuInv'
    BY DEF IInv, TypeOK, ControlInv, Holding, GpuInv, GpuMemoryPinned,
           Forgotten, SubmitWords
  <1> QED
    BY <1>1, <1>2, TurnFrame, SMTT(60) DEF SubmitWords, Holding

\* execute_ring saw the fence.
LEMMA RetiredStep ==
  ASSUME IInv, Retired
  PROVE  IInv'
  <1> USE DEF queueVars, callerVars, workerVars, hardwareVars
  <1>1. TypeOK'
    BY DEF IInv, TypeOK, Errors, Retired
  <1>2. GpuInv'
    BY DEF IInv, TypeOK, ControlInv, Holding, GpuInv, GpuMemoryPinned,
           Forgotten, Retired
  <1> QED
    BY <1>1, <1>2, TurnFrame, SMTT(60) DEF Retired, Holding

\* execute_ring failed; quiesce_lost stops the GPU or quarantines.
LEMMA FaultStep ==
  ASSUME IInv, Fault
  PROVE  IInv'
  <1> USE DEF queueVars, callerVars, workerVars, hardwareVars
  <1>1. TypeOK'
    BY ZenonT(60) DEF IInv, TypeOK, Errors, Fault, QuiesceLost
  <1>2. GpuInv'
    BY SMTT(40) DEF IInv, TypeOK, ControlInv, Holding, GpuInv, GpuMemoryPinned,
           Forgotten, Fault, QuiesceLost
  <1> QED
    BY <1>1, <1>2, TurnFrame, SMTT(60) DEF Fault, Holding

\* The worker copies the quarantine flag.
LEMMA ReadQuarantineStep ==
  ASSUME IInv, ReadQuarantine
  PROVE  IInv'
  <1> USE DEF queueVars, callerVars, workerVars, hardwareVars
  <1>1. TypeOK'
    BY DEF IInv, TypeOK, Errors, ReadQuarantine
  <1>2. GpuInv'
    BY SMTT(40) DEF IInv, TypeOK, ControlInv, Holding, GpuInv, GpuMemoryPinned,
           Forgotten, ReadQuarantine
  <1> QED
    BY <1>1, <1>2, TurnFrame, SMTT(60) DEF ReadQuarantine, Holding

\* The worker records the first failure.
LEMMA RecordFailureStep ==
  ASSUME IInv, RecordFailure
  PROVE  IInv'
  <1> USE DEF queueVars, callerVars, workerVars, hardwareVars
  <1>1. TypeOK'
    <2>1. failure' \in Errors \cup {None}
      BY DEF IInv, TypeOK, ControlInv, RecordFailure
    <2> QED
      BY <2>1 DEF IInv, TypeOK, RecordFailure
  <1>2. GpuInv'
    BY DEF IInv, TypeOK, ControlInv, Holding, GpuInv, GpuMemoryPinned,
           Forgotten, RecordFailure
  <1> QED
    BY <1>1, <1>2, TurnFrame, SMTT(60) DEF RecordFailure, Holding

\* The worker forgets the submission or tells its observer.
LEMMA NotifyStep ==
  ASSUME IInv, Notify
  PROVE  IInv'
  <1> USE DEF queueVars, callerVars, workerVars, hardwareVars
  <1>1. TypeOK'
    <2>1. st' \in [Work -> States]
      BY Zenon DEF IInv, TypeOK, States, Notify, Tell
    <2> QED
      BY <2>1 DEF IInv, TypeOK, Notify, Tell
  <1>2. ControlInv'
    BY SMTT(40) DEF IInv, TypeOK, States, ControlInv, Holding, Forgotten, Notify, Tell
  <1>3. SlotsCounted'
    BY ForgottenFinite, Zenon
       DEF IInv, TypeOK, ControlInv, Holding, SlotsCounted, Forgotten, Notify,
           Tell
  <1>4. GpuInv'
    BY SMTT(40) DEF IInv, TypeOK, ControlInv, Holding, GpuInv, GpuMemoryPinned,
           Forgotten, Notify, Tell
  <1>5. AccessInv'
    <2>a. /\ cur \in Work /\ st \in [Work -> States] /\ st[cur] = "running"
          /\ pc = "notify" /\ pc' = "finish"
          /\ UNCHANGED <<queued, cpuAccess, gpu>>
      BY WorkAssumption, SMTT(40) DEF IInv, TypeOK, ControlInv, Holding, Notify, Tell
    <2>b. /\ st' = [st EXCEPT ![cur] = st'[cur]]
          /\ st'[cur] \in {"lost", "asleep", "ok", "failed"}
          /\ cur \in Accessors => st'[cur] \in {"asleep", "ok", "failed"}
          /\ st'[cur] = "ok" => result = "ok"
      BY <2>a, WorkAssumption DEF Notify, Tell
    <2>c. Owners' = Owners
      BY <2>a, <2>b DEF Owners, Work
    <2>1. ASSUME NEW a \in Accessors
          PROVE  /\ st'[a] = "queued" => Len(queued) > 0 /\ queued[Len(queued)] = a
                 /\ st'[a] \in {"running", "ok"} => queued = << >>
                 /\ st'[a] = "ok" => gpu = {}
      BY <2>a, <2>b DEF IInv, AccessInv, GpuInv, Work
    <2> QED
      BY <2>a, <2>c, <2>1 DEF IInv, AccessInv, Holding
  <1> QED
    BY <1>1, <1>2, <1>3, <1>4, <1>5 DEF IInv

\* finish gives the slot back, or keeps it.
LEMMA FinishTurnStep ==
  ASSUME IInv, FinishTurn
  PROVE  IInv'
  <1> USE DEF queueVars, callerVars, workerVars, hardwareVars
  <1>a. /\ pc = "finish" /\ running /\ cur \in Work /\ cur' = None
        /\ running' = FALSE
        /\ outstanding' = IF sawQuarantine THEN outstanding ELSE outstanding - 1
        /\ UNCHANGED <<queued, st, cpuAccess>>
        /\ cur \in Forgotten <=> sawQuarantine
    BY DEF IInv, TypeOK, ControlInv, Holding, FinishTurn, Finish
  <1>b. Forgotten' = Forgotten /\ None \notin Forgotten
    BY <1>a, WorkAssumption DEF Forgotten
  <1>c. pc' = "scan" /\ gpu' = gpu
    BY DEF FinishTurn
  <1>1. TypeOK'
    <2>1. outstanding' \in Nat
      <3>1. Cardinality(Forgotten \ {cur}) \in Nat
        BY ForgottenFinite, FS_Difference, FS_CardinalityType
      <3>2. Len(queued) \in Nat /\ outstanding \in Nat
        BY DEF IInv, TypeOK
      <3> QED
        BY <1>a, <3>1, <3>2 DEF IInv, SlotsCounted
    <2> QED
      BY <1>a, <2>1, ZenonT(60) DEF IInv, TypeOK, FinishTurn
  <1>2. ControlInv'
    BY <1>a, <1>b, <1>c, SMTT(60) DEF IInv, ControlInv, Holding
  <1>3. SlotsCounted'
    <2>1. Cardinality(Forgotten' \ {cur'}) = Cardinality(Forgotten)
      <3>1. Forgotten' \ {cur'} = Forgotten
        BY <1>a, <1>b
      <3> QED
        BY <3>1
    <2>2. CASE sawQuarantine
      <3>1. Cardinality(Forgotten \ {cur}) = Cardinality(Forgotten) - 1
        BY <1>a, <2>2, ForgottenFinite, FS_RemoveElement, SMTT(40)
      <3>2. Len(queued) \in Nat
        BY DEF IInv, TypeOK
      <3> QED
        BY <1>a, <2>1, <2>2, <3>1, <3>2, ForgottenFinite DEF IInv, SlotsCounted
    <2>3. CASE ~sawQuarantine
      <3>1. Cardinality(Forgotten \ {cur}) = Cardinality(Forgotten)
        <4>1. Forgotten \ {cur} = Forgotten
          BY <1>a, <2>3
        <4> QED
          BY <4>1
      <3>2. Len(queued) \in Nat /\ outstanding \in Nat
        BY DEF IInv, TypeOK
      <3> QED
        BY <1>a, <2>1, <2>3, <3>1, <3>2, ForgottenFinite, CapacityAssumption
           DEF IInv, SlotsCounted
    <2> QED
      BY <2>2, <2>3
  <1>4. GpuInv'
    BY SMTT(40) DEF IInv, TypeOK, ControlInv, Holding, GpuInv, GpuMemoryPinned,
           Forgotten, FinishTurn, Finish
  <1>5. AccessInv'
    <2>1. Owners' = Owners
      BY <1>a DEF Owners
    <2> QED
      BY <1>a, <1>c, <2>1, SMTT(60) DEF IInv, AccessInv, Holding
  <1> QED
    BY <1>1, <1>2, <1>3, <1>4, <1>5 DEF IInv

\* Every step of the device preserves the invariant.
LEMMA NextIInv == IInv /\ [Next]_vars => IInv'
  <1> SUFFICES ASSUME IInv, [Next]_vars PROVE IInv'
    OBVIOUS
  <1>1. ASSUME NEW w \in Work, Caller(w) PROVE IInv'
    BY <1>1, EnqueueStep, SubmitStep, SubmitPreparedSyncStep,
       BeginCpuAccessStep,
       EndAccessStep, WakeWorkerStep DEF Caller
  <1>2. CASE Worker
    BY <1>2, StartStep, DrainedStep, SleepStep, AwakeStep, EnsureReadyStep,
       SubmitRefusedStep, SubmitWordsStep, RetiredStep, FaultStep,
       ReadQuarantineStep, RecordFailureStep, NotifyStep, FinishTurnStep
       DEF Worker
  <1>3. CASE QueryInfo \/ SetFrequencyFails
    BY <1>3, QueryInfoStep, SetFrequencyFailsStep
  <1>4. CASE UNCHANGED vars
    <2> USE <1>4 DEF vars, queueVars, callerVars, workerVars, hardwareVars
    <2>1. TypeOK'
      BY SMTT(40) DEF IInv, TypeOK
    <2>2. Forgotten' = Forgotten /\ Owners' = Owners
      BY DEF Forgotten, Owners
    <2>3. ControlInv' /\ SlotsCounted'
      BY <2>2, SMTT(40) DEF IInv, ControlInv, SlotsCounted
    <2>4. GpuInv' /\ AccessInv'
      BY <2>2, SMTT(40) DEF IInv, GpuInv, GpuMemoryPinned, AccessInv
    <2> QED
      BY <2>1, <2>3, <2>4 DEF IInv
  <1> QED
    BY <1>1, <1>2, <1>3, <1>4 DEF Next

-----------------------------------------------------------------------------
(* What holds in every reachable state.                                    *)

\* The inductive invariant holds in every reachable state.
LEMMA Invariance == Spec => []IInv
  BY InitIInv, NextIInv, PTL DEF Spec

\* Every variable keeps its type, for any capacity and any callers.
THEOREM TypeCorrect == Spec => []TypeOK
  <1>1. IInv => TypeOK
    BY DEF IInv
  <1> QED
    BY <1>1, Invariance, PTL

\* The outstanding counter is exactly the queued, running and forgotten work
\* and never exceeds the capacity (push, start_next, finish).
THEOREM SlotsAlwaysCounted == Spec => []SlotsCounted
  <1>1. IInv => SlotsCounted
    BY DEF IInv
  <1> QED
    BY <1>1, Invariance, PTL

\* Memory the GPU may still reach is never released: no observer is told of
\* a retirement that was not proved (process_submission, quiesce_lost), also
\* when devfreq or query_info quarantines the device meanwhile.
THEOREM GpuMemoryAlwaysPinned == Spec => []GpuMemoryPinned
  <1>1. IInv => GpuMemoryPinned
    BY DEF IInv, GpuInv
  <1> QED
    BY <1>1, Invariance, PTL

\* A managed CPU access never overlaps GPU execution (begin_cpu_access).
THEOREM CpuCopyAlwaysAlone == Spec => []CpuCopyAlone
  <1>1. IInv => CpuCopyAlone
    BY DEF IInv, AccessInv, CpuCopyAlone, Holding
  <1> QED
    BY <1>1, Invariance, PTL

\* The reservation is set exactly while one guard lives, so end_cpu_access
\* never clears another caller's reservation.
THEOREM ReservationAlwaysOwned == Spec => []ReservationOwned
  <1>1. ASSUME IInv PROVE ReservationOwned
    <2>1. CASE cpuAccess
      <3>1. PICK a \in Owners : TRUE
        BY <1>1, <2>1 DEF IInv, AccessInv
      <3>2. Owners = {a}
        BY <1>1, <3>1 DEF IInv, AccessInv
      <3>3. Cardinality(Owners) = 1
        BY <3>2, FS_Singleton
      <3> QED
        BY <2>1, <3>3 DEF ReservationOwned
    <2>2. CASE ~cpuAccess
      <3>1. Owners = {}
        BY <1>1, <2>2 DEF IInv, AccessInv
      <3>2. Cardinality(Owners) = 0
        BY <3>1, FS_EmptySet
      <3> QED
        BY <2>2, <3>2 DEF ReservationOwned
    <2> QED
      BY <2>1, <2>2
  <1> QED
    BY <1>1, Invariance, PTL

=============================================================================
