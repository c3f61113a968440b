---------------------------- MODULE PendingQueue ----------------------------
(***************************************************************************)
(* The admission queue of one A618 device (pending.rs).  The kernel calls  *)
(* every operation with the `pending` mutex held, so each is one action.   *)
(* A slot is counted from admission until the worker proves that the GPU   *)
(* has retired the work; work whose retirement is unproved keeps its slot. *)
(***************************************************************************)
EXTENDS Naturals, Sequences

CONSTANT Capacity          \* ASYNC_CAPACITY, 8 in the driver

ASSUME CapacityAssumption == Capacity \in Nat \ {0}

VARIABLES
  queued,                  \* accepted work the worker has not taken, oldest first
  outstanding,             \* slots in use
  running,                 \* the worker holds one value
  cpuAccess                \* a managed CPU access has reserved admission

queueVars == <<queued, outstanding, running, cpuAccess>>

TryNew ==
  /\ queued = << >>
  /\ outstanding = 0
  /\ running = FALSE
  /\ cpuAccess = FALSE

\* Mutant: a full queue is taken to have one more slot.
HasSlotOffByOne == outstanding <= Capacity

HasSlot == outstanding < Capacity

\* Mutant: the reservation of a CPU access is not looked at.
HasCapacityIgnoringReservation == HasSlot

HasCapacity == ~cpuAccess /\ HasSlot

TryBeginCpuAccess ==
  /\ ~cpuAccess
  /\ cpuAccess' = TRUE
  /\ UNCHANGED <<queued, outstanding, running>>

EndCpuAccess ==
  /\ cpuAccess' = FALSE
  /\ UNCHANGED <<queued, outstanding, running>>

\* Mutant: new work is put in front of the older work.
PushAdmittedFront(value) ==
  /\ queued' = <<value>> \o queued
  /\ outstanding' = outstanding + 1
  /\ UNCHANGED <<running, cpuAccess>>

PushAdmitted(value) ==
  /\ queued' = Append(queued, value)
  /\ outstanding' = outstanding + 1
  /\ UNCHANGED <<running, cpuAccess>>

Push(value) == HasCapacity /\ PushAdmitted(value)

\* The reservation owner's checkpoint passes its own reservation, not the
\* ceiling on outstanding work.
PushCpuCheckpoint(value) == cpuAccess /\ HasSlot /\ PushAdmitted(value)

StartNext ==
  /\ ~running
  /\ queued # << >>
  /\ queued' = Tail(queued)
  /\ running' = TRUE
  /\ UNCHANGED <<outstanding, cpuAccess>>

Finish(retired) ==
  /\ running' = FALSE
  /\ outstanding' = IF running /\ retired THEN outstanding - 1 ELSE outstanding
  /\ UNCHANGED <<queued, cpuAccess>>

=============================================================================
