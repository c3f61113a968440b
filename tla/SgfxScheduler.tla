--------------------------- MODULE SgfxScheduler ---------------------------
(***************************************************************************)
(* The userspace dispatcher of one GPU context (sgfx-backend-scarlet-      *)
(* adreno: scheduler.rs, dispatch.rs and the upload arenas of              *)
(* asynchronous.rs).  Threads enqueue jobs, each a sequence of chunks; one *)
(* worker hands the chunks to the kernel in order, several in flight at a  *)
(* time, and signals each job when it and all jobs before it are retired.  *)
(*                                                                         *)
(* The kernel is external: it retires what it accepted in order, refuses   *)
(* with Busy when its slots are taken, and may lose the device.            *)
(***************************************************************************)
EXTENDS Naturals, Sequences, FiniteSets, Functions, FiniteSetsExt

CONSTANTS
  Jobs,
  Chunks,                  \* the chunks of each job: "commands" or "cpu"
  MaxSubmissions,          \* MAX_SUBMISSIONS
  MaxPending,              \* MAX_PENDING_BYTES, one unit per chunk
  MaxInFlight,             \* MAX_NATIVE_IN_FLIGHT
  Arenas,                  \* UPLOAD_ARENAS
  KernelSlots,             \* submissions the kernel takes before it is Busy
  None

Pieces == UNION {{<<j, k>> : k \in 1..Len(Chunks[j])} : j \in Jobs}
Kind(p) == Chunks[p[1]][p[2]]

ASSUME SchedulerAssumption ==
  /\ None \notin Jobs \cup Pieces \cup {"pending", "ok", "failed", "rejected"}
  /\ IsFiniteSet(Jobs)
  /\ Chunks \in [Jobs -> Seq({"commands", "cpu"})] /\ \A j \in Jobs : Chunks[j] # << >>
  /\ {MaxSubmissions, MaxPending, MaxInFlight, Arenas, KernelSlots} \subseteq Nat \ {0}

VARIABLES
  jobs, next, receipts, bytes, failure,  \* Scheduler
  known, progressed,                     \* the worker inside advance
  unseen,                                \* jobs enqueued since it last took the lock
  pc,                                    \* run
  signal,                                \* Signal::result of each job
  flag, pipe, notifying,                 \* the wake Event and its notifiers
  writeFailed,                           \* some notification was not written
  closing,
  waiter, covers,                        \* a thread in wait_idle
  gpuq, retired, lost, foreign,          \* the kernel
  arena, fence                           \* UploadArena: bytes, completion

schedVars == <<jobs, next, receipts, bytes, failure>>
workerVars == <<known, progressed, unseen>>
eventVars == <<flag, pipe, notifying, writeFailed>>
waitVars == <<waiter, covers>>
kernelVars == <<gpuq, retired, lost, foreign>>
arenaVars == <<arena, fence>>
vars == <<schedVars, workerVars, pc, signal, eventVars, closing, waitVars,
          kernelVars, arenaVars>>

Init ==
  /\ jobs = << >> /\ next = [j \in Jobs |-> 1] /\ receipts = [j \in Jobs |-> {}]
  /\ bytes = 0 /\ failure = FALSE
  /\ known = {} /\ progressed = FALSE /\ unseen = {} /\ pc = "consume"
  /\ signal = [j \in Jobs |-> None]
  /\ flag = FALSE /\ pipe = 0 /\ notifying = {} /\ writeFailed = FALSE
  /\ closing = FALSE
  /\ waiter = None /\ covers = {}
  /\ gpuq = << >> /\ retired = {} /\ lost = FALSE /\ foreign = FALSE
  /\ arena = [a \in 1..Arenas |-> None] /\ fence = [a \in 1..Arenas |-> None]

\* The worker holds the scheduler lock while it dispatches.
LockFree == pc # "dispatch"

-----------------------------------------------------------------------------
(* Enqueuing threads.                                                      *)

\* The bytes of the jobs js: one unit for each of their chunks.
SumLengths(js) == Cardinality({p \in Pieces : p[1] \in js})

Fits(n) == Len(jobs) < MaxSubmissions /\ bytes + n <= MaxPending

\* NativeScheduler::enqueue.  Busy (lock contended, no room) is no step.
Enqueue(j) ==
  /\ signal[j] = None /\ ~closing /\ LockFree
  /\ \/ /\ failure \/ Len(Chunks[j]) > MaxPending
        /\ signal' = [signal EXCEPT ![j] = "rejected"]
        /\ UNCHANGED <<jobs, bytes, notifying, unseen>>
     \/ /\ ~failure /\ Len(Chunks[j]) <= MaxPending /\ Fits(Len(Chunks[j]))
        /\ jobs' = Append(jobs, j) /\ bytes' = bytes + Len(Chunks[j])
        /\ signal' = [signal EXCEPT ![j] = "pending"]
        /\ notifying' = notifying \cup {<<j, "swap">>} /\ unseen' = unseen \cup {j}
  /\ UNCHANGED <<next, receipts, failure, known, progressed, pc, flag, pipe,
                 writeFailed, closing, waitVars, kernelVars, arenaVars>>

\* The last owner drops the scheduler.
Drop ==
  /\ ~closing /\ notifying = {} /\ waiter = None
  /\ closing' = TRUE /\ notifying' = notifying \cup {<<None, "swap">>}
  /\ UNCHANGED <<schedVars, workerVars, pc, signal, flag, pipe, writeFailed,
                 waitVars, kernelVars, arenaVars>>

\* Event::notify: set the flag; whoever set it writes the byte.  A write that
\* fails may or may not have put the byte into the pipe.
Notify(t) ==
  /\ \/ /\ <<t, "swap">> \in notifying
        /\ notifying' = (notifying \ {<<t, "swap">>})
                           \cup (IF flag THEN {} ELSE {<<t, "write">>})
        /\ flag' = TRUE
        /\ UNCHANGED <<pipe, writeFailed>>
     \/ /\ <<t, "write">> \in notifying
        /\ notifying' = notifying \ {<<t, "write">>}
        /\ \/ pipe' = pipe + 1 /\ UNCHANGED <<flag, writeFailed>>
           \/ pipe' \in {pipe, pipe + 1} /\ flag' = FALSE /\ writeFailed' = TRUE
  /\ UNCHANGED <<schedVars, workerVars, pc, signal, closing, waitVars,
                 kernelVars, arenaVars>>

\* Mutant: the signal of the oldest job.
FirstSignal == jobs[1]

\* wait_idle: wait for the signal of the newest job.
LastSignal == jobs[Len(jobs)]

WaitIdle ==
  /\ waiter = None /\ LockFree /\ ~closing /\ ~failure /\ jobs # << >>
  /\ waiter' = LastSignal /\ covers' = Range(jobs)
  /\ UNCHANGED <<schedVars, workerVars, pc, signal, eventVars, closing, kernelVars,
                 arenaVars>>

WaitReturns ==
  /\ waiter # None /\ signal[waiter] # "pending"
  /\ waiter' = None /\ covers' = {}
  /\ UNCHANGED <<schedVars, workerVars, pc, signal, eventVars, closing, kernelVars,
                 arenaVars>>

-----------------------------------------------------------------------------
(* The worker.                                                             *)

\* Scheduler::fail, after which run returns.
Fail ==
  /\ failure' = TRUE
  /\ signal' = [j \in Jobs |-> IF j \in Range(jobs) THEN "failed" ELSE signal[j]]
  /\ jobs' = << >> /\ bytes' = 0 /\ receipts' = [j \in Jobs |-> {}]
  /\ pc' = "exited"
  /\ UNCHANGED <<next, workerVars>>

Goto(l) == pc' = l /\ UNCHANGED <<schedVars, workerVars, signal>>

EnterAdvance == pc' = "advance" /\ known' = retired
                /\ UNCHANGED <<schedVars, progressed, unseen, signal>>

\* Event::consume: read the byte, then clear the flag.
Consume ==
  /\ pc = "consume" /\ LockFree
  /\ \/ pipe > 0 /\ pipe' = pipe - 1 /\ Goto("clear")
     \/ pipe = 0 /\ EnterAdvance /\ UNCHANGED pipe
     \/ Fail /\ UNCHANGED pipe
  /\ UNCHANGED <<flag, notifying, writeFailed, closing, waitVars, kernelVars, arenaVars>>

\* Mutant: the flag stays set after its byte was read.
ClearForgotten ==
  /\ pc = "clear" /\ EnterAdvance
  /\ UNCHANGED <<eventVars, closing, waitVars, kernelVars, arenaVars>>

Clear ==
  /\ pc = "clear"
  /\ flag' = FALSE /\ EnterAdvance
  /\ UNCHANGED <<pipe, notifying, writeFailed, closing, waitVars, kernelVars, arenaVars>>

Held(js) == {p \in Pieces : p[1] \in Range(js) /\ p[2] \in receipts[p[1]]}

Finished(js, held) ==
  {j \in Range(js) : next[j] > Len(Chunks[j]) /\ \A p \in held : p[1] # j}

\* Mutant: finished jobs are signalled only when the queue drains; a job
\* whose chunks were all handed over counts as finished.
RetireWhenDrained(held) == IF Range(jobs) = Finished(jobs, held) /\ Len(jobs) = 1 THEN << >> ELSE jobs
RetireHandedOver(held) == SelectSeq(jobs, LAMBDA j : next[j] <= Len(Chunks[j]))

\* The jobs that stay: everything from the first unfinished one on.
RetirePrefix(held) ==
  LET open == {i \in DOMAIN jobs : jobs[i] \notin Finished(jobs, held)}
  IN  IF open = {} THEN << >> ELSE SubSeq(jobs, Min(open), Len(jobs))

\* The first two loops of advance: drop the receipts seen retired (a receipt
\* polled early may be missed), then signal the finished prefix.
Advance ==
  /\ pc = "advance"
  /\ \/ lost /\ ~(Held(jobs) \subseteq retired) /\ Fail
     \/ /\ lost => Held(jobs) \subseteq retired
        /\ \E seen \in SUBSET (Held(jobs) \cap retired) :
             LET held == Held(jobs) \ seen
                 rest == RetirePrefix(held)
                 over == Range(jobs) \ Range(rest)
             IN  /\ Held(jobs) \cap known \subseteq seen
                 /\ jobs' = rest
                 /\ receipts' = [j \in Jobs |-> {p[2] : p \in {q \in held : q[1] = j}}]
                 /\ bytes' = bytes - SumLengths(over)
                 /\ signal' = [j \in Jobs |-> IF j \in over THEN "ok" ELSE signal[j]]
                 /\ progressed' = (seen # {} \/ over # {})
        /\ unseen' = {} /\ pc' = "dispatch"
        /\ UNCHANGED <<next, failure, known>>
  /\ UNCHANGED <<eventVars, closing, waitVars, kernelVars, arenaVars>>

\* The next chunk: the first one not handed over of the first such job.
Unsent == {i \in DOMAIN jobs : next[jobs[i]] <= Len(Chunks[jobs[i]])}
NextPiece == LET j == jobs[Min(Unsent)] IN <<j, next[j]>>

\* Chunk k of a job with commands uses the arenas in turn.
ArenaOf(p) ==
  LET index == Cardinality({k \in 1..(p[2] - 1) : Chunks[p[1]][k] = "commands"})
  IN  (index % Arenas) + 1

\* Mutant: CPU updates do not wait for the GPU.
BlockedByCount(p) == Cardinality(Held(jobs)) = MaxInFlight
Blocked(p) ==
  \/ Cardinality(Held(jobs)) = MaxInFlight
  \/ Held(jobs) # {} /\ Kind(p) = "cpu"

\* Mutant: an arena is taken while the GPU may still read it.
ReadyAlways(p) == TRUE

Ready(p) == Kind(p) = "commands" => fence[ArenaOf(p)] \in retired \cup {None}

Sendable == Unsent # {} /\ ~Blocked(NextPiece) /\ Ready(NextPiece)

KernelBusy == Len(gpuq) + (IF foreign THEN 1 ELSE 0) >= KernelSlots

Loaded(p) == [arena EXCEPT ![ArenaOf(p)] = p]

HandOver(p) ==
  /\ next' = [next EXCEPT ![p[1]] = @ + 1]
  /\ receipts' = [receipts EXCEPT ![p[1]] = @ \cup {p[2]}]
  /\ progressed' = TRUE
  /\ UNCHANGED <<jobs, bytes, failure, known, unseen, pc, signal>>

DispatchCpu ==
  /\ pc = "dispatch" /\ Sendable /\ Kind(NextPiece) = "cpu"
  /\ HandOver(NextPiece)
  /\ retired' = retired \cup {NextPiece}
  /\ UNCHANGED <<eventVars, closing, waitVars, gpuq, lost, foreign, arenaVars>>

DispatchCommands ==
  /\ pc = "dispatch" /\ Sendable /\ Kind(NextPiece) = "commands" /\ ~KernelBusy
  /\ HandOver(NextPiece)
  /\ arena' = Loaded(NextPiece)
  /\ gpuq' = Append(gpuq, NextPiece)
  /\ fence' = [fence EXCEPT ![ArenaOf(NextPiece)] = NextPiece]
  /\ UNCHANGED <<eventVars, closing, waitVars, retired, lost, foreign>>

\* A failed arena query, arena or buffer write, or submission; the kernel may
\* have accepted a submission whose answer was lost.
DispatchFails ==
  /\ pc = "dispatch" /\ Unsent # {} /\ ~Blocked(NextPiece)
  /\ Fail
  /\ \/ UNCHANGED <<arena, gpuq>>
     \/ /\ Kind(NextPiece) = "commands" /\ Ready(NextPiece)
        /\ arena' = Loaded(NextPiece)
        /\ gpuq' \in {gpuq, Append(gpuq, NextPiece)}
  /\ UNCHANGED <<eventVars, closing, waitVars, retired, lost, foreign, fence>>

\* advance returns: nothing to send, no room, an arena in use, or Busy, which
\* comes after the uploads were written.  The lock is dropped.
DispatchStops ==
  /\ pc = "dispatch"
  /\ \/ ~Sendable /\ UNCHANGED arena
     \/ /\ Sendable /\ Kind(NextPiece) = "commands" /\ KernelBusy
        /\ arena' = Loaded(NextPiece)
  /\ Goto(IF jobs = << >> /\ closing THEN "exited"
          ELSE IF progressed THEN "consume" ELSE "poll")
  /\ UNCHANGED <<eventVars, closing, waitVars, kernelVars, fence>>

\* The poll of run ends with a wake, a completion or its timeout, or fails.
Poll ==
  /\ pc = "poll"
  /\ Goto("consume") \/ Fail
  /\ UNCHANGED <<eventVars, closing, waitVars, kernelVars, arenaVars>>

-----------------------------------------------------------------------------
(* The kernel, external.                                                   *)

KernelRetire ==
  /\ gpuq # << >> /\ ~lost
  /\ retired' = retired \cup {Head(gpuq)} /\ gpuq' = Tail(gpuq)
  /\ UNCHANGED <<schedVars, workerVars, pc, signal, eventVars, closing, waitVars,
                 lost, foreign, arenaVars>>

KernelLost ==
  /\ gpuq # << >> /\ ~lost
  /\ lost' = TRUE
  /\ UNCHANGED <<schedVars, workerVars, pc, signal, eventVars, closing, waitVars,
                 gpuq, retired, foreign, arenaVars>>

\* Another context takes or frees a slot.
KernelForeign ==
  /\ foreign' = ~foreign
  /\ UNCHANGED <<schedVars, workerVars, pc, signal, eventVars, closing, waitVars,
                 gpuq, retired, lost, arenaVars>>

Worker == Consume \/ Clear \/ Advance \/ DispatchCpu \/ DispatchCommands
          \/ DispatchFails \/ DispatchStops \/ Poll

Next ==
  \/ \E j \in Jobs : Enqueue(j)
  \/ \E t \in Jobs \cup {None} : Notify(t)
  \/ Drop \/ WaitIdle \/ WaitReturns \/ Worker
  \/ KernelRetire \/ KernelLost \/ KernelForeign

Spec == Init /\ [][Next]_vars

\* The worker thread runs; the kernel settles what it accepted (A618Device).
FairSpec == Spec /\ WF_vars(Worker) /\ WF_vars(KernelRetire)

-----------------------------------------------------------------------------
(* Properties.                                                             *)

\* Types; the queue and the byte budget of Scheduler::enqueue are never
\* exceeded, and `bytes` is exactly the sum over the queued jobs.
TypeOK ==
  /\ jobs \in Seq(Jobs) /\ IsInjective(jobs) /\ Len(jobs) <= MaxSubmissions
  /\ bytes = SumLengths(Range(jobs)) /\ bytes <= MaxPending
  /\ \A j \in Jobs : next[j] \in 1..(Len(Chunks[j]) + 1) /\ receipts[j] \subseteq 1..(next[j] - 1)
  /\ Cardinality(Held(jobs)) <= MaxInFlight
  /\ signal \in [Jobs -> {None, "pending", "ok", "failed", "rejected"}]
  /\ \A j \in Jobs : signal[j] = "pending" <=> j \in Range(jobs)
  /\ pc \in {"consume", "clear", "advance", "dispatch", "poll", "exited"}
  /\ pipe \in 0..(Cardinality(Jobs) + 1)

\* The upload bytes of a chunk the GPU may still execute are its own: a later
\* chunk that shares the arena is written only after the earlier one retired,
\* also when Busy made the worker write its uploads more than once.
ArenaIntact ==
  TypeOK /\ \A i \in DOMAIN gpuq : arena[ArenaOf(gpuq[i])] = gpuq[i]

\* No enqueued job is forgotten by the wake pipe: unless a pipe write failed, a
\* worker that polls with a job it has not looked at has a byte to read or a
\* notifier about to write one.
NoLostWake ==
  (pc = "poll" /\ unseen # {} /\ ~writeFailed) => pipe > 0 \/ notifying # {}

\* A chunk takes effect after all earlier chunks of its job and of the jobs
\* enqueued before it: Busy never lets a later job pass, nothing is replayed,
\* and a CPU update finds the GPU idle.
EffectsInOrder ==
  [][\A p \in retired' \ retired :
       /\ \A k \in 1..(p[2] - 1) : <<p[1], k>> \in retired
       /\ \A i \in DOMAIN jobs : jobs[i] = p[1] =>
            \A q \in Pieces : (\E h \in 1..(i - 1) : jobs[h] = q[1]) => q \in retired
       /\ Kind(p) = "cpu" => gpuq = << >>]_vars

\* A job is signalled Ok only when its chunks and those of every job queued
\* before it are retired, whatever order the fences were observed in.
OkCoversPrefix ==
  [][\A i \in DOMAIN jobs : (signal[jobs[i]] # "ok" /\ signal'[jobs[i]] = "ok") =>
       \A h \in 1..i : \A k \in 1..Len(Chunks[jobs[h]]) : <<jobs[h], k>> \in retired]_vars

\* Work takes effect, and is reported as done, in the order in which it was queued.
InOrder == EffectsInOrder /\ OkCoversPrefix

\* wait_idle reports success only when every job that was queued when it was
\* called has retired.
IdleIsIdle ==
  [][(waiter # None /\ waiter' = None /\ signal[waiter] = "ok") =>
       \A p \in Pieces : p[1] \in covers => p \in retired]_vars

\* Every admitted job is eventually signalled, with the kernel Busy for other
\* contexts, notifications lost and devices failing.
JobsSettle == \A j \in Jobs : signal[j] = "pending" ~> signal[j] # "pending"

=============================================================================
