----------------------------- MODULE A618Device -----------------------------
(***************************************************************************)
(* One A618 device of the GPU driver (backend.rs): the callers that submit *)
(* work or copy an image with the CPU, the worker that drains the queue,   *)
(* the boot state of the hardware and the two paths that change it beside  *)
(* the worker (devfreq and query_info).                                    *)
(*                                                                         *)
(* Every critical section of a mutex is one action, except the execution   *)
(* of a command stream, during which the worker keeps `execution` (the     *)
(* mapping gate) and `hardware` while the GPU runs: it is the worker's     *)
(* "executing" state, and the other takers of these two locks wait for it. *)
(***************************************************************************)
EXTENDS PendingQueue, FiniteSets

CONSTANTS
  Async,                   \* requests that come through enqueue
  Sync,                    \* requests that come through submit
  Accessors,               \* callers of begin_image_cpu_access
  None                     \* no work, no failure

Work == Async \cup Sync \cup Accessors

ASSUME WorkAssumption ==
  /\ Async \cap Sync = {} /\ Async \cap Accessors = {} /\ Sync \cap Accessors = {}
  /\ None \notin Work
  /\ IsFiniteSet(Work)

VARIABLES
  failure,                 \* PendingState::failure, sticky
  st,                      \* where each request is, and what its caller was told
  waking,                  \* accepted work whose WORKER_WAKER.wake_one is still to come
  wakeLatch,               \* WORKER_WAKER: a latched notification
  pc,                      \* the worker's step in process_submission
  cur,                     \* the submission the worker holds
  result,                  \* its result
  sawQuarantine,           \* the worker's copy of `quarantine`
  boot,                    \* HardwareState::boot
  oobHeld,                 \* HardwareState::gpu_oob_held: the GPU rail is on
  quiesceFailed,           \* HardwareState::quiesce_failed
  quarantine,              \* MappingGate::quarantine
  policy,                  \* frequency_policy_registered
  gpu                      \* requests whose memory the GPU may still reach

callerVars == <<st, waking>>
workerVars == <<pc, cur, result, sawQuarantine>>
hardwareVars == <<boot, oobHeld, quiesceFailed, quarantine, gpu>>
vars == <<queueVars, failure, callerVars, wakeLatch, workerVars, hardwareVars,
          policy>>

Errors == {"Rejected", "Unavailable", "DeviceLost"}

\* "asleep" and "lost": the submission was forgotten (core::mem::forget), its
\* storage, pins and slot are kept; a sync caller is never told, an async
\* observer was told DeviceLost.
States == {"new", "waiting", "reserved", "queued", "running", "ok", "failed",
           "rejected", "unwind", "done", "lost", "asleep"}

Init ==
  /\ TryNew
  /\ failure = None
  /\ st = [w \in Work |-> "new"]
  /\ waking = {}
  /\ wakeLatch = FALSE
  /\ pc = "scan" /\ cur = None /\ result = "ok" /\ sawQuarantine = FALSE
  /\ boot = "Cold" /\ oobHeld = FALSE /\ quiesceFailed = FALSE
  /\ quarantine = FALSE /\ policy = FALSE
  /\ gpu = {}

-----------------------------------------------------------------------------
(* Callers.                                                                *)

Accept(w) ==
  /\ st' = [st EXCEPT ![w] = "queued"]
  /\ waking' = waking \cup {w}

Tell(w, s) ==
  /\ st' = [st EXCEPT ![w] = s]
  /\ UNCHANGED waking

\* enqueue.  Busy (a contended lock, no slot, or a reservation) hands the
\* request back unchanged: no step.  Validation may reject it.
Enqueue(w) ==
  /\ w \in Async /\ st[w] = "new"
  /\ \/ failure # None /\ Tell(w, "rejected") /\ UNCHANGED queueVars
     \/ /\ failure = None /\ HasCapacity
        /\ \/ Tell(w, "rejected") /\ UNCHANGED queueVars
           \/ Push(w) /\ Accept(w)
  /\ UNCHANGED <<failure, wakeLatch, workerVars, hardwareVars, policy>>

\* Queue::submit: validation, outside every device lock.
Submit(w) ==
  /\ w \in Sync /\ st[w] = "new"
  /\ \E s \in {"rejected", "waiting"} : Tell(w, s)
  /\ UNCHANGED <<queueVars, failure, wakeLatch, workerVars, hardwareVars,
                 policy>>

\* One turn of the admission loop of submit_prepared_sync.  A turn that is
\* refused sleeps for at most a millisecond and tries again: no step.
SubmitPreparedSync(w) ==
  /\ \/ w \in Sync /\ st[w] = "waiting"
     \/ w \in Accessors /\ st[w] = "reserved"
  /\ \/ /\ failure # None
        /\ Tell(w, IF w \in Accessors THEN "unwind" ELSE "rejected")
        /\ UNCHANGED queueVars
     \/ /\ failure = None
        /\ \/ w \in Accessors /\ PushCpuCheckpoint(w)
           \/ w \in Sync /\ Push(w)
        /\ Accept(w)
  /\ UNCHANGED <<failure, wakeLatch, workerVars, hardwareVars, policy>>

\* begin_cpu_access up to the reservation; its checkpoint is admitted by
\* SubmitPreparedSync.
BeginCpuAccess(w) ==
  /\ w \in Accessors /\ st[w] \in {"new", "waiting"}
  /\ \/ st[w] = "new" /\ Tell(w, "waiting") /\ UNCHANGED queueVars
     \/ /\ st[w] = "waiting" /\ failure # None
        /\ Tell(w, "rejected") /\ UNCHANGED queueVars
     \/ /\ st[w] = "waiting" /\ failure = None
        /\ TryBeginCpuAccess /\ Tell(w, "reserved")
  /\ UNCHANGED <<failure, wakeLatch, workerVars, hardwareVars, policy>>

\* The guard is dropped: after the CPU copy ("ok"), or on the way out of a
\* begin_cpu_access that failed.
EndAccess(w) ==
  /\ w \in Accessors /\ st[w] \in {"ok", "failed", "unwind"} /\ w \notin waking
  /\ EndCpuAccess
  /\ Tell(w, IF st[w] = "unwind" THEN "rejected" ELSE "done")
  /\ UNCHANGED <<failure, wakeLatch, workerVars, hardwareVars, policy>>

\* Mutant: the notification is lost on a worker that does not wait yet.
WakeWorkerNoLatch(w) ==
  /\ w \in waking
  /\ waking' = waking \ {w}
  /\ wakeLatch' = (wakeLatch \/ pc = "asleep")
  /\ UNCHANGED <<queueVars, failure, st, workerVars, hardwareVars, policy>>

\* WORKER_WAKER.wake_one, after the pending lock is released.
WakeWorker(w) ==
  /\ w \in waking
  /\ waking' = waking \ {w}
  /\ wakeLatch' = TRUE
  /\ UNCHANGED <<queueVars, failure, st, workerVars, hardwareVars, policy>>

-----------------------------------------------------------------------------
(* Hardware.  force_stop_gpu and the GMU's force_shutdown each succeed or  *)
(* time out; `stopped` says that both succeeded, which is the only proof   *)
(* that the GPU has stopped.                                               *)

GateFree == pc # "executing"

\* Mutant: the result of the stop is not looked at.
QuiesceLostUnproved(stopped) ==
  /\ boot' = "Lost"
  /\ oobHeld' = FALSE
  /\ gpu' = IF oobHeld /\ ~stopped THEN gpu ELSE {}
  /\ UNCHANGED <<quiesceFailed, quarantine>>

QuiesceLost(stopped) ==
  /\ boot' = "Lost"
  /\ quiesceFailed' = IF oobHeld THEN ~stopped ELSE quiesceFailed
  /\ oobHeld' = (oobHeld /\ ~stopped)
  /\ quarantine' = (quarantine \/ quiesceFailed')
  /\ gpu' = IF oobHeld /\ ~stopped THEN gpu ELSE {}

\* The GMU did not acknowledge the GPU's power request.
BootOobTimeout(res, stopped) ==
  /\ quiesceFailed' = ~stopped
  /\ boot' = IF stopped THEN "Cold" ELSE "Lost"
  /\ quarantine' = (quarantine \/ ~stopped)
  /\ res = IF stopped THEN "Unavailable" ELSE "DeviceLost"
  /\ UNCHANGED <<oobHeld, gpu>>

\* Firmware, memory or the CP initialisation failed after the GPU was powered.
BootPreparationFailed(res, sqeStarted, stopped) ==
  /\ quiesceFailed' = ~stopped
  /\ oobHeld' = ~stopped
  /\ quarantine' = (quarantine \/ ~stopped)
  /\ boot' = IF sqeStarted \/ ~stopped THEN "Lost" ELSE "Cold"
  /\ res = IF sqeStarted THEN "DeviceLost" ELSE "Unavailable"
  /\ UNCHANGED gpu

BootReady(res) ==
  /\ boot' = "Ready" /\ oobHeld' = TRUE /\ res = "ok"
  /\ UNCHANGED <<quiesceFailed, quarantine, gpu>>

EnsureHardwareReady(res) ==
  \/ boot = "Ready" /\ res = "ok" /\ UNCHANGED hardwareVars
  \/ boot = "Lost" /\ res = "DeviceLost" /\ UNCHANGED hardwareVars
  \/ /\ boot = "Cold"
     /\ \/ res = "Unavailable" /\ UNCHANGED hardwareVars
        \/ \E stopped \in BOOLEAN : BootOobTimeout(res, stopped)
        \/ \E sqeStarted, stopped \in BOOLEAN :
             BootPreparationFailed(res, sqeStarted, stopped)
        \/ BootReady(res)

\* query_info boots a cold device; its error goes to the caller only.  On a
\* ready device it registers the devfreq policy, which may fail.
QueryInfo ==
  /\ GateFree
  /\ \E res \in Errors \cup {"ok"} :
       /\ EnsureHardwareReady(res)
       /\ policy' \in IF res = "ok" THEN {policy, TRUE} ELSE {policy}
  /\ UNCHANGED <<queueVars, failure, callerVars, wakeLatch, workerVars>>

\* set_frequency_khz whose vote the GMU rejects or does not acknowledge.  A
\* successful vote changes only the operating point.
SetFrequencyFails ==
  /\ GateFree /\ policy /\ boot = "Ready"
  /\ \E stopped \in BOOLEAN : QuiesceLost(stopped)
  /\ UNCHANGED <<queueVars, failure, callerVars, wakeLatch, workerVars,
                 policy>>

-----------------------------------------------------------------------------
(* The worker.                                                             *)

\* Mutant: work accepted before a failure is run after it.
StartIgnoringFailure ==
  /\ pc = "scan"
  /\ StartNext
  /\ cur' = Head(queued)
  /\ st' = [st EXCEPT ![Head(queued)] = "running"]
  /\ pc' = "ready" /\ UNCHANGED result
  /\ UNCHANGED <<failure, waking, wakeLatch, sawQuarantine, hardwareVars,
                 policy>>

\* process_submission takes the oldest submission and copies `failure`.
Start ==
  /\ pc = "scan"
  /\ StartNext
  /\ cur' = Head(queued)
  /\ st' = [st EXCEPT ![Head(queued)] = "running"]
  /\ IF failure = None THEN pc' = "ready" /\ UNCHANGED result
                       ELSE pc' = "settle" /\ result' = failure
  /\ UNCHANGED <<failure, waking, wakeLatch, sawQuarantine, hardwareVars,
                 policy>>

\* The queue is empty.  Between this look and the wait the lock is free.
Drained ==
  /\ pc = "scan" /\ queued = << >>
  /\ pc' = "drained"
  /\ UNCHANGED <<queueVars, failure, callerVars, wakeLatch, cur, result,
                 sawQuarantine, hardwareVars, policy>>

Sleep ==
  /\ pc = "drained"
  /\ pc' = "asleep"
  /\ UNCHANGED <<queueVars, failure, callerVars, wakeLatch, cur, result,
                 sawQuarantine, hardwareVars, policy>>

Awake ==
  /\ pc = "asleep" /\ wakeLatch
  /\ pc' = "scan" /\ wakeLatch' = FALSE
  /\ UNCHANGED <<queueVars, failure, callerVars, cur, result, sawQuarantine,
                 hardwareVars, policy>>

EnsureReady ==
  /\ pc = "ready"
  /\ \E res \in Errors \cup {"ok"} :
       /\ EnsureHardwareReady(res)
       /\ result' = res
       /\ pc' = IF res = "ok" THEN "submit" ELSE "settle"
  /\ UNCHANGED <<queueVars, failure, callerVars, wakeLatch, cur,
                 sawQuarantine, policy>>

\* submit_words: the stream does not fit the staging memory.
SubmitRefused ==
  /\ pc = "submit"
  /\ result' \in {"Rejected", "Unavailable"}
  /\ pc' = "settle"
  /\ UNCHANGED <<queueVars, failure, callerVars, wakeLatch, cur,
                 sawQuarantine, hardwareVars, policy>>

\* submit_words takes both locks, writes the ring and kicks the GPU.  A GPU
\* without power runs nothing.
SubmitWords ==
  /\ pc = "submit"
  /\ pc' = "executing"
  /\ gpu' = IF oobHeld THEN gpu \cup {cur} ELSE gpu
  /\ UNCHANGED <<queueVars, failure, callerVars, wakeLatch, cur, result,
                 sawQuarantine, boot, oobHeld, quiesceFailed, quarantine,
                 policy>>

\* execute_ring sees the submission's own fence (module A618Ring).
Retired ==
  /\ pc = "executing" /\ oobHeld
  /\ gpu' = {}
  /\ result' = "ok"
  /\ pc' = "settle"
  /\ UNCHANGED <<queueVars, failure, callerVars, wakeLatch, cur,
                 sawQuarantine, boot, oobHeld, quiesceFailed, quarantine,
                 policy>>

\* execute_ring sees a fatal interrupt, or its second runs out.
Fault ==
  /\ pc = "executing"
  /\ \E stopped \in BOOLEAN : QuiesceLost(stopped)
  /\ result' = "DeviceLost"
  /\ pc' = "settle"
  /\ UNCHANGED <<queueVars, failure, callerVars, wakeLatch, cur,
                 sawQuarantine, policy>>

ReadQuarantine ==
  /\ pc = "settle"
  /\ sawQuarantine' = quarantine
  /\ pc' = IF result = "ok" THEN "notify" ELSE "record"
  /\ UNCHANGED <<queueVars, failure, callerVars, wakeLatch, cur, result,
                 hardwareVars, policy>>

RecordFailure ==
  /\ pc = "record"
  /\ failure' = IF failure = None THEN result ELSE failure
  /\ pc' = "notify"
  /\ UNCHANGED <<queueVars, callerVars, wakeLatch, cur, result, sawQuarantine,
                 hardwareVars, policy>>

\* Either the whole submission is forgotten, or its command storage and
\* mapping pins are dropped and then its observer is told.
Notify ==
  /\ pc = "notify"
  /\ Tell(cur, IF sawQuarantine THEN IF cur \in Async THEN "lost" ELSE "asleep"
               ELSE IF result = "ok" THEN "ok" ELSE "failed")
  /\ pc' = "finish"
  /\ UNCHANGED <<queueVars, failure, wakeLatch, cur, result, sawQuarantine,
                 hardwareVars, policy>>

FinishTurn ==
  /\ pc = "finish"
  /\ Finish(~sawQuarantine)
  /\ pc' = "scan" /\ cur' = None
  /\ UNCHANGED <<failure, callerVars, wakeLatch, result, sawQuarantine,
                 hardwareVars, policy>>

Worker == \/ Start \/ Drained \/ Sleep \/ Awake \/ EnsureReady \/ SubmitRefused \/ SubmitWords
          \/ Retired \/ Fault \/ ReadQuarantine \/ RecordFailure \/ Notify
          \/ FinishTurn

Caller(w) == \/ Enqueue(w) \/ Submit(w) \/ SubmitPreparedSync(w)
             \/ BeginCpuAccess(w) \/ EndAccess(w) \/ WakeWorker(w)

Next == \/ \E w \in Work : Caller(w)
        \/ QueryInfo \/ SetFrequencyFails
        \/ Worker

Spec == Init /\ [][Next]_vars

\* The worker is a kernel task that is always scheduled again, the GPU's
\* deadline ends every execution, and a caller finishes the call it is in.
\* Nothing is assumed of callers that have not begun, of devfreq or of
\* query_info.
Fairness ==
  /\ WF_vars(Worker)
  /\ \A w \in Work : /\ WF_vars(WakeWorker(w))
                     /\ WF_vars(EndAccess(w))
                     /\ WF_vars(SubmitPreparedSync(w))

FairSpec == Spec /\ Fairness

-----------------------------------------------------------------------------
(* Properties.                                                             *)

Forgotten == {w \in Work : st[w] \in {"lost", "asleep"}}

\* Accessors that hold the A618CpuAccess guard.
Owners == {w \in Accessors : st[w] \in {"reserved", "queued", "running", "ok",
                                        "failed", "unwind", "asleep"}}

\* Every variable stays in its domain.
TypeOK ==
  /\ queued \in Seq(Work) /\ outstanding \in Nat
  /\ running \in BOOLEAN /\ cpuAccess \in BOOLEAN
  /\ failure \in Errors \cup {None}
  /\ st \in [Work -> States]
  /\ waking \subseteq Work /\ wakeLatch \in BOOLEAN
  /\ pc \in {"scan", "drained", "asleep", "ready", "submit", "executing",
             "settle", "record", "notify", "finish"}
  /\ cur \in Work \cup {None} /\ result \in Errors \cup {"ok"}
  /\ sawQuarantine \in BOOLEAN
  /\ boot \in {"Cold", "Ready", "Lost"} /\ oobHeld \in BOOLEAN
  /\ quiesceFailed \in BOOLEAN /\ quarantine \in BOOLEAN /\ policy \in BOOLEAN
  /\ gpu \subseteq Work

\* The slots in use are exactly the queued work, the running work and the
\* work whose retirement was never proved, and never exceed the capacity:
\* PendingQueue's outstanding counter across push, start_next and finish.
SlotsCounted ==
  /\ outstanding = Len(queued) + (IF running THEN 1 ELSE 0)
                   + Cardinality(Forgotten \ {cur})
  /\ outstanding <= Capacity

\* Memory the GPU may still reach belongs to a submission that the worker
\* holds or has forgotten: no observer of it was told that it retired, and
\* its command storage and mapping pins were not dropped (process_submission,
\* quiesce_lost).
GpuMemoryPinned ==
  \A w \in gpu : w = cur \/ w \in Forgotten

\* While a caller copies an image under A618CpuAccess the GPU runs nothing
\* and nothing is queued for it (begin_cpu_access, has_capacity).
CpuCopyAlone ==
  \A a \in Accessors :
    st[a] = "ok" => gpu = {} /\ queued = << >> /\ pc # "executing"

\* The reservation is set exactly while one caller owns its guard, so that
\* the unconditional end_cpu_access never clears another caller's.
ReservationOwned ==
  Cardinality(Owners) = IF cpuAccess THEN 1 ELSE 0

\* The GPU never starts a submission once the queue has failed, not even one
\* accepted before (process_submission's previous_failure).
NothingRunsAfterFailure ==
  [][gpu' \ gpu # {} => failure = None]_vars

\* Accepted work is always settled: its observer is told or, when the GPU
\* could not be stopped, it is forgotten.  No wake-up of the worker is lost.
AcceptedSettles ==
  \A w \in Work :
    (st[w] = "queued") ~> (st[w] \in {"ok", "failed", "done", "lost", "asleep"})

\* "Do not continue submitting work at an unknown voltage/frequency state"
\* (set_frequency_khz): the GPU is kicked only while it is booted and powered.
\* The code looks at the boot state in ensure_hardware_ready, releases both
\* locks, and does not look again in submit_words.
RunsOnlyWhenReady ==
  pc = "executing" => boot = "Ready" /\ oobHeld

-----------------------------------------------------------------------------
(* The device implements the bounded FIFO that its callers are promised.   *)

Abstract == INSTANCE DeviceFifo WITH
  fifo <- (IF cur = None THEN << >> ELSE <<cur>>) \o queued,
  kept <- Forgotten \ {cur},
  answered <- {w \in Work : st[w] \in {"ok", "failed", "done"}},
  broken <- failure # None

\* The queue, the worker and the failure paths together implement DeviceFifo.
ImplementsFifo == Abstract!FifoSpec

=============================================================================
