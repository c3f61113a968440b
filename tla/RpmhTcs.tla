------------------------------ MODULE RpmhTcs ------------------------------
(***************************************************************************)
(* The active TCS (triggered command set) of the RPMh resource state       *)
(* coordinator: write_active_batch of qcom-rpmh-rsc.  Callers take turns   *)
(* under the controller's spin lock; the hardware issues the commands of a *)
(* triggered batch in slot order and raises the completion interrupt when  *)
(* the last one is acknowledged, possibly long after the caller gave up.   *)
(***************************************************************************)
EXTENDS Naturals, FiniteSets

CONSTANTS
  Calls,                   \* calls of write_active_batch
  CommandsPerTcs,          \* NCPT, read from the hardware at probe
  None

ASSUME TcsAssumption ==
  None \notin Calls \cup {"ok", "error"} /\ CommandsPerTcs \in Nat \ {0}

Slots == 1..CommandsPerTcs
Commands == Calls \X Slots \* the i-th command of call c

VARIABLES
  step,                    \* where each call is
  res,                     \* what it returned
  size, waitMask,          \* its commands, and those that request a response
  holder,                  \* the spin lock
  command, cmdEnabled,     \* TCS command registers, CMD_ENABLE
  irq,                     \* completion bit in IRQ_STATUS
  cmdStatus,               \* slots with ISSUED and COMPLETE, sticky
  running, todo,           \* hardware: the batch in flight and its open slots
  applied                  \* commands the accelerators have acknowledged

callVars == <<step, res, size, waitMask, holder>>
hwVars == <<running, todo, applied, cmdStatus>>
tcsVars == <<callVars, command, cmdEnabled, irq, hwVars>>

TcsInit ==
  /\ step = [c \in Calls |-> "new"] /\ res = [c \in Calls |-> None]
  /\ size = [c \in Calls |-> 0] /\ waitMask = [c \in Calls |-> {}]
  /\ holder = None
  /\ command = [i \in Slots |-> None] /\ cmdEnabled = {} /\ irq \in BOOLEAN
  /\ cmdStatus \in SUBSET Slots       \* the boot loader used the TCS before
  /\ running = None /\ todo = {} /\ applied = {}

Goto(c, s) == step' = [step EXCEPT ![c] = s] /\ UNCHANGED <<res, size, waitMask, holder>>

Return(c, r) ==
  /\ step' = [step EXCEPT ![c] = "done"] /\ res' = [res EXCEPT ![c] = r]
  /\ holder' = None
  /\ UNCHANGED <<size, waitMask>>

\* Mutant: the TCS status is not read.
AdmissibleBlindly(n, w) == n \in Slots /\ w # {}

\* The checks before any register is written: an empty or oversized batch, a
\* TCS still busy with an earlier batch, a batch without a response.
Admissible(n, w) == n \in Slots /\ w # {} /\ running = None

Begin(c) ==
  /\ step[c] = "new" /\ holder = None
  /\ \E n \in 0..(CommandsPerTcs + 1) : \E w \in SUBSET (1..n) :
       IF Admissible(n, w)
         THEN /\ size' = [size EXCEPT ![c] = n]
              /\ waitMask' = [waitMask EXCEPT ![c] = w]
              /\ step' = [step EXCEPT ![c] = "clear"]
              /\ holder' = c /\ UNCHANGED res
         ELSE Return(c, "error")
  /\ UNCHANGED <<command, cmdEnabled, irq, hwVars>>

\* Mutant: a completion left by a timed-out batch stays pending.
ClearKeepingIrq(c) ==
  /\ step[c] = "clear"
  /\ Goto(c, "program") /\ cmdEnabled' = {}
  /\ UNCHANGED <<command, irq, hwVars>>

\* clear_trigger, CMD_ENABLE = 0, clear_irq_status; a write that does not
\* become visible in time ends the call half way.
Clear(c) ==
  /\ step[c] = "clear"
  /\ \/ Goto(c, "program") /\ cmdEnabled' = {} /\ irq' = FALSE
     \/ Return(c, "error") /\ cmdEnabled' \in {cmdEnabled, {}} /\ UNCHANGED irq
  /\ UNCHANGED <<command, hwVars>>

Program(c) ==
  /\ step[c] = "program"
  /\ command' = [i \in Slots |-> IF i <= size[c] THEN <<c, i>> ELSE command[i]]
  /\ \/ Goto(c, "trigger") /\ cmdEnabled' = 1..size[c]
     \/ Return(c, "error") /\ cmdEnabled' \in {cmdEnabled, 1..size[c]}
  /\ UNCHANGED <<irq, hwVars>>

Trigger(c) ==
  /\ step[c] = "trigger"
  /\ \/ Goto(c, "poll") /\ running' = c /\ todo' = cmdEnabled
     \/ Return(c, "error") /\ UNCHANGED <<running, todo>>
  /\ UNCHANGED <<command, cmdEnabled, irq, applied, cmdStatus>>

\* The completion bit is set: read the acknowledgements, then put the TCS back.
Complete(c) ==
  /\ step[c] = "poll" /\ irq
  /\ \/ /\ Return(c, IF waitMask[c] \subseteq cmdStatus THEN "ok" ELSE "error")
        /\ cmdEnabled' = {} /\ irq' = FALSE
     \/ Return(c, "error") /\ cmdEnabled' \in {cmdEnabled, {}} /\ UNCHANGED irq
  /\ UNCHANGED <<command, hwVars>>

\* TRANSFER_TIMEOUT_US.  Whether taking the trigger and the enables away stops
\* a batch in flight is up to the hardware.
Timeout(c) ==
  /\ step[c] = "poll"
  /\ Return(c, "error") /\ cmdEnabled' = {}
  /\ \/ UNCHANGED <<running, todo>>
     \/ running = c /\ running' = None /\ todo' = {}
  /\ UNCHANGED <<command, irq, applied, cmdStatus>>

\* An accelerator acknowledges the next command of the batch in flight.
HwAck ==
  /\ running # None
  /\ \E i \in todo :
       /\ \A j \in todo : i <= j
       /\ applied' = applied \cup {command[i]}
       /\ cmdStatus' = cmdStatus \cup {i}
       /\ todo' = todo \ {i}
  /\ UNCHANGED <<callVars, command, cmdEnabled, irq, running>>

HwComplete ==
  /\ running # None /\ todo = {}
  /\ running' = None /\ irq' = TRUE
  /\ UNCHANGED <<callVars, command, cmdEnabled, todo, applied, cmdStatus>>

Caller(c) == Clear(c) \/ Program(c) \/ Trigger(c) \/ Complete(c) \/ Timeout(c)
TcsNext == (\E c \in Calls : Begin(c) \/ Caller(c)) \/ HwAck \/ HwComplete

TcsSpec == TcsInit /\ [][TcsNext]_tcsVars

-----------------------------------------------------------------------------
(* Properties.                                                             *)

\* Every variable has its type; a batch never exceeds the TCS's command slots.
TcsTypeOK ==
  /\ step \in [Calls -> {"new", "clear", "program", "trigger", "poll", "done"}]
  /\ res \in [Calls -> {None, "ok", "error"}]
  /\ size \in [Calls -> 0..CommandsPerTcs] /\ waitMask \in [Calls -> SUBSET Slots]
  /\ holder \in Calls \cup {None}
  /\ command \in [Slots -> Commands \cup {None}] /\ cmdEnabled \subseteq Slots
  /\ irq \in BOOLEAN /\ cmdStatus \subseteq Slots
  /\ running \in Calls \cup {None} /\ todo \subseteq Slots /\ applied \subseteq Commands

\* write_active_batch returns Ok only when every command of this batch has been
\* acknowledged: neither a completion left over from a batch that timed out nor
\* a sticky command status of the boot loader can stand in for it.
OkMeansApplied ==
  TcsTypeOK /\ \A c \in Calls : res[c] = "ok" => \A i \in 1..size[c] : <<c, i>> \in applied

\* The batch in flight is the one that was programmed: no later call rewrites
\* the command registers of a batch the hardware has not finished, even after
\* the caller of that batch has been told that it timed out.
BatchNotTorn ==
  running # None => \A i \in todo : command[i] = <<running, i>>

\* What a caller of write_active_batch relies on.
BatchIntact == OkMeansApplied /\ BatchNotTorn
=============================================================================
