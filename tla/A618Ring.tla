------------------------------ MODULE A618Ring ------------------------------
(***************************************************************************)
(* How the A618 worker learns that the GPU has retired a command stream    *)
(* (execute_ring, fence_retired, claim_interrupt): the worker polls a      *)
(* fence word in memory and sleeps between two looks; the interrupt        *)
(* handler runs on any CPU, beside it, and may wake it.                    *)
(*                                                                         *)
(* The GPU and the interrupt line are external.  The GPU consumes the      *)
(* ring, writes the scratch register, reports idle and raises its          *)
(* interrupt in any order; only the fence word is written after the memory *)
(* writes of the stream.  An interrupt may be late or never delivered.     *)
(***************************************************************************)
EXTENDS Naturals

CONSTANTS
  SeqModulus,              \* sequence numbers are modulo this, 2^32 in the driver
  Deadline,                \* timed waits in GPU_TIMEOUT_US
  MaxSubmissions           \* bound: streams per behaviour

ASSUME RingAssumption ==
  SeqModulus \in Nat \ {0, 1} /\ Deadline \in Nat /\ MaxSubmissions \in Nat

VARIABLES
  wpc, result, turn, kicks,              \* the worker in execute_ring
  sequence, fenceValue, observed,
  fence,                                 \* the fence word in DMA memory
  scratch, consumed, idle, flushed,      \* the GPU
  raised,                                \* it raised this stream's completion event
  intStatus,                             \* RBBM_INT_0_STATUS
  snapshot, armed, latch,                \* interrupt_snapshot, _wait_armed, _waker
  hpc, taken                             \* the interrupt handler

workerVars == <<wpc, result, turn, kicks, sequence, fenceValue, observed>>
gpuVars == <<fence, scratch, consumed, idle, flushed, raised>>
wakeVars == <<snapshot, armed, latch>>
handlerVars == <<hpc, taken>>
ringVars == <<workerVars, gpuVars, intStatus, wakeVars, handlerVars>>

RingInit ==
  /\ wpc = "idle" /\ result = "ok" /\ turn = 0 /\ kicks = 0
  /\ sequence = 0 /\ fenceValue = 0 /\ observed = {}
  /\ fence = 0 /\ scratch = 0 /\ consumed = TRUE /\ idle = TRUE /\ flushed = TRUE
  /\ raised = TRUE
  /\ intStatus = {} /\ snapshot = {} /\ armed = FALSE /\ latch = FALSE
  /\ hpc = "idle" /\ taken = {}

-----------------------------------------------------------------------------
(* The worker.                                                             *)

\* wrapping_add(1).max(1): zero is never a sequence number.
NextSequence(s) == IF (s + 1) % SeqModulus = 0 THEN 1 ELSE (s + 1) % SeqModulus

\* Mutant: the scratch register and the ring pointer are proof enough.
FenceRetiredByScratch(expected, dma) ==
  expected # 0 /\ scratch = expected /\ consumed /\ idle

FenceRetired(expected, dma) ==
  /\ expected # 0 /\ dma = expected
  /\ scratch = expected /\ consumed /\ idle

\* The fence word is cleared, the ring written, stale status cleared and the
\* write pointer advanced.  A fault that is already pending, or a status that
\* does not clear, refuses the kick.
Kick ==
  /\ wpc = "idle" /\ result = "ok" /\ kicks < MaxSubmissions
  /\ kicks' = kicks + 1 /\ turn' = 0 /\ observed' = {}
  /\ sequence' = NextSequence(sequence)
  /\ fence' = 0
  /\ \/ /\ "fatal" \notin intStatus
        /\ wpc' = "read" /\ intStatus' = {}
        /\ consumed' = FALSE /\ flushed' = FALSE /\ raised' = FALSE
        /\ UNCHANGED result
     \/ /\ intStatus # {}
        /\ result' = "error" /\ UNCHANGED <<wpc, intStatus, consumed, flushed, raised>>
  /\ UNCHANGED <<fenceValue, scratch, idle, wakeVars, handlerVars>>

\* Invalidate and read the fence word, then take the handler's snapshot.
ReadFence ==
  /\ wpc = "read"
  /\ fenceValue' = fence
  /\ observed' = observed \cup snapshot
  /\ snapshot' = {}
  /\ wpc' = "check"
  /\ UNCHANGED <<result, turn, kicks, sequence, gpuVars, intStatus, armed, latch,
                 handlerVars>>

RingReturn(res) == wpc' = "idle" /\ result' = res

\* Time may run out at any look, and has run out after Deadline waits.
Check ==
  /\ wpc = "check"
  /\ \/ "fatal" \in observed /\ RingReturn("error")
     \/ "fatal" \notin observed /\ FenceRetired(sequence, fenceValue) /\ RingReturn("ok")
     \/ /\ "fatal" \notin observed /\ ~FenceRetired(sequence, fenceValue)
        /\ \/ RingReturn("error")
           \/ turn < Deadline /\ wpc' = "arm" /\ UNCHANGED result
  /\ UNCHANGED <<turn, kicks, sequence, fenceValue, observed, gpuVars, intStatus,
                 wakeVars, handlerVars>>

\* Mutant: the flag is set only when the worker goes to sleep.
ArmLate ==
  /\ wpc = "arm"
  /\ wpc' = "recheck"
  /\ UNCHANGED <<result, turn, kicks, sequence, fenceValue, observed, gpuVars,
                 intStatus, wakeVars, handlerVars>>

ArmWait ==
  /\ wpc = "arm"
  /\ armed' = TRUE
  /\ wpc' = "recheck"
  /\ UNCHANGED <<result, turn, kicks, sequence, fenceValue, observed, gpuVars,
                 intStatus, snapshot, latch, handlerVars>>

RingRecheck ==
  /\ wpc = "recheck"
  /\ \/ /\ snapshot # {}
        /\ armed' = FALSE /\ observed' = observed \cup snapshot /\ snapshot' = {}
        /\ wpc' = "read"
     \/ /\ snapshot = {}
        /\ wpc' = "wait" /\ UNCHANGED <<armed, observed, snapshot>>
  /\ UNCHANGED <<result, turn, kicks, sequence, fenceValue, gpuVars, intStatus, latch,
                 handlerVars>>

\* Mutant: the wait has no timeout.
WaitForever ==
  /\ wpc = "wait" /\ latch
  /\ latch' = FALSE /\ armed' = FALSE
  /\ turn' = turn + 1 /\ wpc' = "read"
  /\ UNCHANGED <<result, kicks, sequence, fenceValue, observed, gpuVars, intStatus,
                 snapshot, handlerVars>>

\* The wait ends with a notification or after PROGRESS_INTERVAL_NS.
RingWait ==
  /\ wpc = "wait"
  /\ latch' = FALSE /\ armed' = FALSE
  /\ turn' = turn + 1 /\ wpc' = "read"
  /\ UNCHANGED <<result, kicks, sequence, fenceValue, observed, gpuVars, intStatus,
                 snapshot, handlerVars>>

\* The loop of execute_ring.
RingLoop == ReadFence \/ Check \/ ArmWait \/ RingRecheck \/ RingWait

-----------------------------------------------------------------------------
(* The GPU, external, and the interrupt handler.                           *)

Executing == wpc # "idle"

GpuConsumes ==
  /\ Executing /\ ~consumed /\ "fatal" \notin intStatus
  /\ consumed' = TRUE /\ scratch' = sequence
  /\ UNCHANGED <<workerVars, fence, idle, flushed, raised, intStatus, wakeVars, handlerVars>>

GpuBusy ==
  /\ Executing /\ idle /\ ~flushed
  /\ idle' = FALSE
  /\ UNCHANGED <<workerVars, fence, scratch, consumed, flushed, raised, intStatus,
                 wakeVars, handlerVars>>

GpuIdle ==
  /\ Executing /\ ~idle
  /\ idle' = TRUE
  /\ UNCHANGED <<workerVars, fence, scratch, consumed, flushed, raised, intStatus,
                 wakeVars, handlerVars>>

GpuFlushes ==
  /\ Executing /\ consumed /\ ~flushed
  /\ flushed' = TRUE
  /\ UNCHANGED <<workerVars, fence, scratch, consumed, idle, raised, intStatus,
                 wakeVars, handlerVars>>

GpuWritesFence ==
  /\ Executing /\ consumed /\ flushed /\ fence # sequence
  /\ fence' = sequence
  /\ UNCHANGED <<workerVars, scratch, consumed, idle, flushed, raised, intStatus,
                 wakeVars, handlerVars>>

GpuRaises ==
  /\ Executing /\ consumed /\ ~raised
  /\ raised' = TRUE /\ intStatus' = intStatus \cup {"ts"}
  /\ UNCHANGED <<workerVars, fence, scratch, consumed, idle, flushed, wakeVars,
                 handlerVars>>

GpuFaults ==
  /\ Executing /\ "fatal" \notin intStatus
  /\ intStatus' = intStatus \cup {"fatal"}
  /\ UNCHANGED <<workerVars, gpuVars, wakeVars, handlerVars>>

\* consume_ring_interrupts: read the status and write it back to clear it.
HandlerTakes ==
  /\ hpc = "idle" /\ intStatus # {}
  /\ taken' = intStatus /\ intStatus' = {} /\ hpc' = "merge"
  /\ UNCHANGED <<workerVars, gpuVars, wakeVars>>

HandlerMerges ==
  /\ hpc = "merge"
  /\ snapshot' = snapshot \cup taken /\ taken' = {} /\ hpc' = "wake"
  /\ UNCHANGED <<workerVars, gpuVars, intStatus, armed, latch>>

\* interrupt_wait_armed.swap(false); wake_all only when it was set.
HandlerWakes ==
  /\ hpc = "wake"
  /\ armed' = FALSE /\ latch' = (latch \/ armed) /\ hpc' = "idle"
  /\ UNCHANGED <<workerVars, gpuVars, intStatus, snapshot, taken>>

Gpu == GpuConsumes \/ GpuBusy \/ GpuIdle \/ GpuFlushes \/ GpuWritesFence
       \/ GpuRaises \/ GpuFaults
Handler == HandlerTakes \/ HandlerMerges \/ HandlerWakes

RingNext == Kick \/ RingLoop \/ Gpu \/ Handler

RingSpec == RingInit /\ [][RingNext]_ringVars

\* Fairness: the scheduler runs RingLoop and the timer of its wait expires.  Nothing
\* is assumed of the GPU or of interrupt delivery.

-----------------------------------------------------------------------------
(* Properties.                                                             *)

Causes == {"ts", "fatal"}

\* Every variable has its type; in particular a sequence number in use is
\* never zero, the value execute_ring writes to the fence word as "not yet".
RingTypeOK ==
  /\ wpc \in {"idle", "read", "check", "arm", "recheck", "wait"}
  /\ result \in {"ok", "error"}
  /\ turn \in 0..Deadline /\ (wpc \in {"arm", "recheck", "wait"} => turn < Deadline)
  /\ kicks \in 0..MaxSubmissions
  /\ sequence \in 0..(SeqModulus - 1) /\ (Executing => sequence # 0)
  /\ fenceValue \in 0..(SeqModulus - 1) /\ fence \in 0..(SeqModulus - 1)
  /\ scratch \in 0..(SeqModulus - 1)
  /\ consumed \in BOOLEAN /\ idle \in BOOLEAN /\ flushed \in BOOLEAN
  /\ raised \in BOOLEAN /\ armed \in BOOLEAN /\ latch \in BOOLEAN
  /\ intStatus \subseteq Causes /\ snapshot \subseteq Causes /\ taken \subseteq Causes
  /\ observed \subseteq Causes /\ hpc \in {"idle", "merge", "wake"}

\* execute_ring reports a stream retired only once that stream's writes are in
\* memory, whatever was left in the fence word or the scratch register by an
\* earlier stream with the same (wrapped) sequence number, and however early
\* the interrupt, the ring pointer and the idle bit were.
RetiredIsFlushed == (wpc = "idle" /\ result = "ok") => flushed

\* The worker never sleeps on an interrupt the handler has delivered: between
\* arming, the recheck and the wait, a finished handler leaves either an empty
\* snapshot or a latched wake.
DeliveredInterruptWakes ==
  (wpc = "wait" /\ hpc = "idle" /\ snapshot # {}) => latch

\* A stream whose GPU hangs, and one whose interrupts are all lost, is given
\* back to the caller: the wait is timed and the deadline counts.
ExecutionEnds == Executing ~> ~Executing

=============================================================================
