--------------------------- MODULE A618FifoProofs ---------------------------
(***************************************************************************)
(* The device implements DeviceFifo, for every capacity and every finite   *)
(* set of callers: a step simulation from the invariant of                 *)
(* A618DeviceProofs.  Accepting is Admit, the record of a failure Break,   *)
(* the worker's notification Answer, and the end of its turn Release or    *)
(* Keep; every other step leaves the abstract queue alone.                 *)
(***************************************************************************)
EXTENDS A618DeviceProofs

\* The abstract variables.
Fifo == (IF cur = None THEN << >> ELSE <<cur>>) \o queued
Kept == Forgotten \ {cur}
Answered == {w \in Work : st[w] \in {"ok", "failed", "done"}}
Broken == failure # None

Same == Fifo' = Fifo /\ Kept' = Kept /\ Answered' = Answered /\ Broken' = Broken
Simulated == Abstract!FifoNext \/ Same

-----------------------------------------------------------------------------
\* The worker's submission in front of the queue.
LEMMA ConsFacts ==
  ASSUME NEW S, NEW q \in Seq(S), NEW x \in S
  PROVE  /\ <<x>> \o q \in Seq(S)
         /\ <<x>> \o q # << >>
         /\ Len(<<x>> \o q) = Len(q) + 1
         /\ Head(<<x>> \o q) = x
         /\ Tail(<<x>> \o q) = q
         /\ (<<x>> \o q)[1] = x
         /\ \A i \in 1..Len(q) : (<<x>> \o q)[i + 1] = q[i]
  OBVIOUS

\* Appending behind it.
LEMMA ConsAppend ==
  ASSUME NEW S, NEW q \in Seq(S), NEW x \in S, NEW e \in S
  PROVE  Append(<<x>> \o q, e) = <<x>> \o Append(q, e)
  OBVIOUS

\* Nothing in front of it.
LEMMA EmptyConcat ==
  ASSUME NEW S, NEW q \in Seq(S)
  PROVE  << >> \o q = q
  OBVIOUS

\* start_next takes the front of the queue.
LEMMA HeadTail ==
  ASSUME NEW S, NEW q \in Seq(S), q # << >>
  PROVE  Head(q) \in S /\ Tail(q) \in Seq(S) /\ <<Head(q)>> \o Tail(q) = q
  OBVIOUS

-----------------------------------------------------------------------------
\* A step that changes neither the queue, the worker's submission nor the failure, and
\* moves no request to or from the answered and the forgotten ones.
LEMMA SameStep ==
  ASSUME UNCHANGED <<queued, cur, failure>>,
         \A w \in Work : st'[w] = st[w]
                         \/ {st[w], st'[w]} \cap {"ok", "failed", "done", "lost", "asleep"} = {}
                         \/ {st[w], st'[w]} \subseteq {"ok", "failed", "done"}
  PROVE  Simulated
  <1>1. Forgotten' = Forgotten
    BY Zenon DEF Forgotten
  <1>2. Answered' = Answered
    BY Zenon DEF Answered
  <1> QED
    BY <1>1, <1>2 DEF Simulated, Same, Fifo, Kept, Broken

\* Accepted work goes to the end of the abstract queue, which has a slot left.
LEMMA AdmitStep ==
  ASSUME IInv, NEW w \in Work, st[w] \in {"new", "waiting", "reserved"},
         failure = None, HasSlot, PushAdmitted(w), Accept(w), UNCHANGED <<cur, failure>>
  PROVE  Simulated
  <1>1. queued \in Seq(Work) /\ cur \in Work \cup {None} /\ Len(queued) \in Nat
    BY DEF IInv, TypeOK
  <1>2. w # cur /\ \A i \in 1..Len(queued) : queued[i] # w
    <2>1. \A i \in 1..Len(queued) : queued[i] # w
      BY DEF IInv, ControlInv
    <2>2. cur = w => st[w] \in {"running", "ok", "failed", "done", "lost", "asleep"}
      BY WorkAssumption DEF IInv, ControlInv, Holding
    <2> QED
      BY <2>1, <2>2
  <1>3. Fifo \in Seq(Work) /\ Len(Fifo) = Len(queued) + (IF running THEN 1 ELSE 0)
    <2>1. CASE cur = None
      BY <1>1, <2>1, EmptyConcat DEF Fifo, IInv, ControlInv
    <2>2. CASE cur # None
      BY <1>1, <2>2, ConsFacts DEF Fifo, IInv, ControlInv
    <2> QED
      BY <2>1, <2>2
  <1>4. \A i \in 1..Len(Fifo) : Fifo[i] # w
    <2>1. CASE cur = None
      BY <1>1, <1>2, <2>1, EmptyConcat DEF Fifo
    <2>2. CASE cur # None
      <3>1. Fifo = <<cur>> \o queued /\ cur \in Work
        BY <1>1, <2>2 DEF Fifo
      <3>2. ASSUME NEW i \in 1..Len(Fifo) PROVE Fifo[i] # w
        <4>1. CASE i = 1
          BY <1>1, <1>2, <3>1, <4>1, ConsFacts
        <4>2. CASE i # 1
          <5>1. i - 1 \in 1..Len(queued) /\ i = (i - 1) + 1
            BY <1>1, <3>1, <4>2, ConsFacts
          <5>2. Fifo[i] = queued[i - 1]
            BY <1>1, <3>1, <5>1, ConsFacts
          <5> QED
            BY <1>2, <5>1, <5>2
        <4> QED
          BY <4>1, <4>2
      <3> QED
        BY <3>2
    <2> QED
      BY <2>1, <2>2
  <1>5. Len(Fifo) + Cardinality(Kept) < Capacity
    <2>1. outstanding = Len(queued) + (IF running THEN 1 ELSE 0) + Cardinality(Kept)
      BY DEF IInv, SlotsCounted, Kept
    <2> QED
      BY <1>3, <2>1 DEF HasSlot
  <1>6. w \notin Kept \cup Answered
    BY DEF Kept, Answered, Forgotten
  <1>7. Fifo' = Append(Fifo, w)
    <2>1. queued' = Append(queued, w)
      BY DEF PushAdmitted
    <2>2. CASE cur = None
      BY <1>1, <2>1, <2>2, EmptyConcat, AppendFacts DEF Fifo
    <2>3. CASE cur # None
      BY <1>1, <2>1, <2>3, ConsAppend DEF Fifo
    <2> QED
      BY <2>2, <2>3
  <1>8. Kept' = Kept /\ Answered' = Answered /\ Broken' = Broken
    <2>1. \A v \in Work : st'[v] = IF v = w THEN "queued" ELSE st[v]
      BY DEF IInv, TypeOK, Accept
    <2> QED
      BY <2>1 DEF Kept, Answered, Forgotten, Broken
  <1>9. Abstract!Admit(w)
    <2>1. Abstract!Cardinality(Kept) = Cardinality(Kept)
      BY Zenon DEF Cardinality, Abstract!Cardinality
    <2>2. ~Abstract!InFifo(w)
      BY <1>4 DEF Abstract!InFifo, Fifo
    <2> QED
      BY <1>5, <1>6, <1>7, <1>8, <2>1, <2>2
         DEF Abstract!Admit, Fifo, Kept, Answered, Broken
  <1> QED
    BY <1>9 DEF Simulated, Abstract!FifoNext

\* A caller's step: it is told something, or its request is accepted.
LEMMA CallerStep ==
  ASSUME IInv, NEW w \in Work, Caller(w)
  PROVE  Simulated
  <1> USE DEF queueVars, workerVars
  <1>1. CASE Enqueue(w)
    <2>1. CASE Push(w) /\ Accept(w) /\ failure = None
      BY <1>1, <2>1, AdmitStep DEF Enqueue, Push, HasCapacity
    <2>2. CASE Tell(w, "rejected") /\ UNCHANGED queued
      BY <1>1, <2>2, SameStep DEF Enqueue, Tell, IInv, TypeOK
    <2> QED
      BY <1>1, <2>1, <2>2 DEF Enqueue
  <1>2. CASE Submit(w)
    BY <1>2, SameStep DEF Submit, Tell, IInv, TypeOK
  <1>3. CASE SubmitPreparedSync(w)
    <2>1. CASE failure = None /\ Accept(w)
      BY <1>3, <2>1, AdmitStep DEF SubmitPreparedSync, Push, PushCpuCheckpoint, HasCapacity
    <2>2. CASE \E s \in {"unwind", "rejected"} : Tell(w, s) /\ UNCHANGED queued
      BY <1>3, <2>2, SameStep DEF SubmitPreparedSync, Tell, IInv, TypeOK
    <2> QED
      BY <1>3, <2>1, <2>2 DEF SubmitPreparedSync
  <1>4. CASE BeginCpuAccess(w)
    BY <1>4, SameStep DEF BeginCpuAccess, TryBeginCpuAccess, Tell, IInv, TypeOK
  <1>5. CASE EndAccess(w)
    BY <1>5, SameStep DEF EndAccess, EndCpuAccess, Tell, IInv, TypeOK
  <1>6. CASE WakeWorker(w)
    BY <1>6, SameStep DEF WakeWorker
  <1> QED
    BY <1>1, <1>2, <1>3, <1>4, <1>5, <1>6 DEF Caller

\* The worker takes the oldest submission: it stays at the front.
LEMMA StartSimulated ==
  ASSUME IInv, Start
  PROVE  Simulated
  <1>1. /\ queued \in Seq(Work) /\ queued # << >> /\ cur = None
        /\ queued' = Tail(queued) /\ cur' = Head(queued) /\ failure' = failure
    BY DEF IInv, TypeOK, ControlInv, Start, StartNext
  <1>2. Head(queued) \in Work /\ st[Head(queued)] = "queued"
    <2>1. Head(queued) = queued[1] /\ 1 \in 1..Len(queued) /\ queued[1] \in Work
      BY <1>1
    <2> QED
      BY <2>1 DEF IInv, ControlInv
  <1>3. Fifo' = Fifo
    <2>1. Fifo = queued
      BY <1>1, EmptyConcat DEF Fifo
    <2>2. Fifo' = <<Head(queued)>> \o Tail(queued)
      BY <1>1, <1>2, WorkAssumption DEF Fifo
    <2> QED
      BY <1>1, <2>1, <2>2, HeadTail
  <1>4. \A v \in Work : st'[v] = IF v = Head(queued) THEN "running" ELSE st[v]
    BY DEF IInv, TypeOK, Start
  <1>5. Kept' = Kept /\ Answered' = Answered
    BY <1>1, <1>2, <1>4, WorkAssumption DEF Kept, Forgotten, Answered
  <1> QED
    BY <1>1, <1>3, <1>5 DEF Simulated, Same, Broken

\* What the worker holds is the front of the abstract queue.
LEMMA Front ==
  ASSUME IInv, cur # None
  PROVE  cur \in Work /\ Fifo # << >> /\ Head(Fifo) = cur /\ Tail(Fifo) = queued
  <1>1. cur \in Work /\ queued \in Seq(Work)
    BY DEF IInv, TypeOK
  <1>2. Fifo = <<cur>> \o queued
    BY DEF Fifo
  <1> QED
    BY <1>1, <1>2, ConsFacts

\* The first failure breaks the abstract queue; a later one changes nothing.
LEMMA RecordSimulated ==
  ASSUME IInv, RecordFailure
  PROVE  Simulated
  <1> USE DEF queueVars, callerVars
  <1>1. UNCHANGED <<queued, cur, st>>
    BY DEF RecordFailure
  <1>2. Fifo' = Fifo /\ Kept' = Kept /\ Answered' = Answered
    BY <1>1 DEF Fifo, Kept, Answered, Forgotten
  <1>3. CASE Broken' = Broken
    BY <1>2, <1>3 DEF Simulated, Same
  <1>4. CASE Broken' # Broken
    <2>1. Broken' = TRUE
      BY <1>4 DEF RecordFailure, Broken
    <2>2. Fifo # << >>
      BY Front DEF IInv, ControlInv, Holding, RecordFailure
    <2>3. Abstract!Break
      BY <1>2, <2>1, <2>2 DEF Abstract!Break, Fifo, Kept, Answered, Broken
    <2> QED
      BY <2>3 DEF Simulated, Abstract!FifoNext
  <1> QED
    BY <1>3, <1>4

\* The observer of the front is told, or it is forgotten and still holds its place.
LEMMA NotifySimulated ==
  ASSUME IInv, Notify
  PROVE  Simulated
  <1> USE DEF queueVars
  <1>1. cur # None /\ cur \in Work /\ st[cur] = "running" /\ UNCHANGED <<queued, cur, failure>>
    BY Front DEF IInv, ControlInv, Holding, Notify
  <1>2. Fifo' = Fifo /\ Broken' = Broken
    BY <1>1 DEF Fifo, Broken
  <1>3. \A v \in Work : v # cur => st'[v] = st[v]
    BY DEF IInv, TypeOK, Notify, Tell
  <1>4. Kept' = Kept
    BY <1>1, <1>3 DEF Kept, Forgotten
  <1>5. CASE sawQuarantine
    <2>1. st'[cur] \in {"lost", "asleep"}
      BY <1>1, <1>5 DEF IInv, TypeOK, Notify, Tell
    <2>2. Answered' = Answered
      BY <1>1, <1>3, <2>1 DEF Answered
    <2> QED
      BY <1>2, <1>4, <2>2 DEF Simulated, Same
  <1>6. CASE ~sawQuarantine
    <2>1. st'[cur] \in {"ok", "failed"}
      BY <1>1, <1>6 DEF IInv, TypeOK, Notify, Tell
    <2>2. Answered' = Answered \cup {Head(Fifo)}
      BY <1>1, <1>3, <2>1, Front DEF Answered
    <2>3. Fifo # << >> /\ Head(Fifo) \notin Kept \cup Answered
      BY <1>1, Front DEF Kept, Answered
    <2>4. Abstract!Answer
      BY <1>2, <1>4, <2>2, <2>3 DEF Abstract!Answer, Fifo, Kept, Answered, Broken
    <2> QED
      BY <2>4 DEF Simulated, Abstract!FifoNext
  <1> QED
    BY <1>5, <1>6

\* The front leaves the queue with its slot, or is kept with it.
LEMMA FinishSimulated ==
  ASSUME IInv, FinishTurn
  PROVE  Simulated
  <1> USE DEF callerVars
  <1>1. /\ cur # None /\ cur \in Work /\ cur' = None /\ UNCHANGED <<queued, failure, st>>
        /\ queued \in Seq(Work)
    BY Front DEF IInv, TypeOK, ControlInv, Holding, FinishTurn, Finish
  <1>2. Fifo # << >> /\ Head(Fifo) = cur /\ Fifo' = Tail(Fifo)
    <2>1. Fifo' = << >> \o queued
      BY <1>1 DEF Fifo
    <2> QED
      BY <1>1, <2>1, Front, EmptyConcat
  <1>3. Answered' = Answered /\ Broken' = Broken /\ Forgotten' = Forgotten
    BY <1>1 DEF Answered, Broken, Forgotten
  <1>4. Kept' = Forgotten
    BY <1>1, <1>3, WorkAssumption DEF Kept, Forgotten
  <1>5. CASE sawQuarantine
    <2>1. cur \in Forgotten /\ cur \notin Answered
      BY <1>1, <1>5 DEF IInv, ControlInv, FinishTurn, Forgotten, Answered
    <2>2. Kept' = Kept \cup {Head(Fifo)}
      BY <1>2, <1>4, <2>1 DEF Kept
    <2>3. Abstract!Keep
      BY <1>2, <1>3, <2>1, <2>2, SMTT(40) DEF Abstract!Keep, Fifo, Kept, Answered, Broken
    <2> QED
      BY <2>3 DEF Simulated, Abstract!FifoNext
  <1>6. CASE ~sawQuarantine
    <2>1. cur \notin Forgotten /\ cur \in Answered
      BY <1>1, <1>6, SMTT(40) DEF IInv, ControlInv, FinishTurn, Forgotten, Answered
    <2>2. Kept' = Kept
      BY <1>4, <2>1 DEF Kept
    <2>3. Abstract!Release
      BY <1>2, <1>3, <2>1, <2>2, SMTT(40) DEF Abstract!Release, Fifo, Kept, Answered, Broken
    <2> QED
      BY <2>3 DEF Simulated, Abstract!FifoNext
  <1> QED
    BY <1>5, <1>6

\* Every step of the device is a step of the abstract queue, or none.
LEMMA StepSimulated ==
  ASSUME IInv, [Next]_vars
  PROVE  [Abstract!FifoNext]_Abstract!fifoVars
  <1> USE DEF queueVars, callerVars, workerVars
  <1> SUFFICES Simulated
    BY SMTT(40) DEF Simulated, Same, Fifo, Kept, Answered, Broken, Abstract!fifoVars
  <1>1. ASSUME NEW w \in Work, Caller(w) PROVE Simulated
    BY <1>1, CallerStep
  <1>2. CASE QueryInfo \/ SetFrequencyFails \/ UNCHANGED vars
    BY <1>2, SameStep, Zenon DEF QueryInfo, SetFrequencyFails, vars
  <1>3. CASE Drained \/ Sleep \/ Awake \/ EnsureReady \/ SubmitRefused \/ SubmitWords
             \/ Retired \/ Fault \/ ReadQuarantine
    BY <1>3, SameStep, SMTT(40) DEF Drained, Sleep, Awake, EnsureReady, SubmitRefused, SubmitWords,
                          Retired, Fault, ReadQuarantine
  <1>4. CASE Start \/ RecordFailure \/ Notify \/ FinishTurn
    BY <1>4, StartSimulated, RecordSimulated, NotifySimulated, FinishSimulated
  <1> QED
    BY <1>1, <1>2, <1>3, <1>4 DEF Next, Worker

\* The device's initial states are those of the abstract queue.
LEMMA InitSimulated ==
  ASSUME Init
  PROVE  Abstract!FifoInit
  <1>1. cur = None /\ queued = << >> /\ failure = None /\ \A w \in Work : st[w] = "new"
    BY DEF Init, TryNew
  <1>2. Fifo = << >>
    BY <1>1 DEF Fifo
  <1>3. Kept = {} /\ Answered = {}
    BY <1>1 DEF Kept, Answered, Forgotten
  <1> QED
    BY <1>1, <1>2, <1>3 DEF Abstract!FifoInit, Fifo, Kept, Answered

\* The queue, the worker and the failure paths of the driver implement the bounded FIFO:
\* accepted work is answered in the order of its acceptance and at most once, nothing is
\* accepted after an error, and work the GPU may still reach keeps its slot.
THEOREM DeviceImplementsFifo == Spec => ImplementsFifo
  <1>1. Init => Abstract!FifoInit
    BY InitSimulated
  <1>2. IInv /\ [Next]_vars => [Abstract!FifoNext]_Abstract!fifoVars
    BY StepSimulated
  <1> QED
    BY <1>1, <1>2, Invariance, PTL DEF Spec, ImplementsFifo, Abstract!FifoSpec
=============================================================================
