----------------------------- MODULE SocProofs -----------------------------
(* The RPMh command set for any number of calls and size of the TCS, and the   *)
(* EC's event path for any number of events, failures and reads in a batch.    *)
EXTENDS RpmhTcs, CrosEcEvents, TLAPS

-----------------------------------------------------------------------------
(* The RPMh command set.                                                     *)

Preparing == {"clear", "program", "trigger"}

\* The lock: a call that is under way holds it, and has not returned.
LockInv ==
  \A c \in Calls :
    /\ step[c] \in Preparing \cup {"poll"} <=> holder = c
    /\ step[c] # "done" => res[c] = None

\* The registers of the call under way: nothing runs until it is triggered, and
\* then nothing but its batch, whose slots are either open or acknowledged; a
\* completion that the call can see is its own.
PhaseInv ==
  \A c \in Calls :
    /\ step[c] \in Preparing => running = None
    /\ step[c] \in {"program", "trigger"} => ~irq
    /\ step[c] \in {"trigger", "poll"} => \A i \in 1..size[c] : command[i] = <<c, i>>
    /\ step[c] = "trigger" => cmdEnabled = 1..size[c]
    /\ step[c] = "poll" =>
         /\ irq => running = None
         /\ running \in {c, None}
         /\ running = c => \A i \in 1..size[c] : i \in todo \/ <<c, i>> \in applied
         /\ irq => \A i \in 1..size[c] : <<c, i>> \in applied

\* The hardware: what runs was triggered by a call that is polling or gave up.
HwInv ==
  /\ running # None => step[running] \in {"poll", "done"}
  /\ running = None => todo = {}

TcsInv == TcsTypeOK /\ LockInv /\ PhaseInv /\ HwInv /\ OkMeansApplied /\ BatchNotTorn

\* Init.
LEMMA TcsInitInv ==
  ASSUME TcsInit
  PROVE  TcsInv
  <1>1. TcsTypeOK
    BY TcsAssumption DEF TcsInit, TcsTypeOK, Slots, Commands
  <1>2. LockInv /\ PhaseInv /\ HwInv
    BY TcsAssumption DEF TcsInit, LockInv, PhaseInv, HwInv, Preparing
  <1>3. OkMeansApplied /\ BatchNotTorn
    BY <1>1, TcsAssumption DEF TcsInit, OkMeansApplied, BatchNotTorn
  <1> QED
    BY <1>1, <1>2, <1>3 DEF TcsInv

\* A call takes the lock, or is refused.
LEMMA BeginStep ==
  ASSUME TcsInv, NEW c \in Calls, Begin(c)
  PROVE  TcsInv'
  <1> USE DEF callVars, hwVars
  <1> DEFINE Taken(n, w) ==
          /\ size' = [size EXCEPT ![c] = n] /\ waitMask' = [waitMask EXCEPT ![c] = w]
          /\ step' = [step EXCEPT ![c] = "clear"] /\ holder' = c /\ UNCHANGED res
  <1>0. PICK n \in 0..(CommandsPerTcs + 1) : \E w \in SUBSET (1..n) :
          IF Admissible(n, w) THEN Taken(n, w) ELSE Return(c, "error")
    BY DEF Begin
  <1>a. PICK w \in SUBSET (1..n) : IF Admissible(n, w) THEN Taken(n, w) ELSE Return(c, "error")
    BY <1>0
  <1>b. step[c] = "new" /\ holder = None /\ res[c] = None
    BY DEF Begin, TcsInv, LockInv
  <1>c. UNCHANGED <<command, cmdEnabled, irq, running, todo, applied, cmdStatus>>
    BY DEF Begin
  <1>d. CASE Admissible(n, w)
    <2>1. w \subseteq Slots /\ n \in 0..CommandsPerTcs /\ running = None
      BY <1>d, TcsAssumption DEF Admissible, Slots
    <2>2. TcsTypeOK'
      BY <1>a, <1>c, <1>d, <2>1, ZenonT(60) DEF TcsInv, TcsTypeOK
    <2>3. LockInv' /\ PhaseInv' /\ HwInv'
      BY <1>a, <1>b, <1>c, <1>d, <2>1, TcsAssumption
          DEF TcsInv, TcsTypeOK, LockInv, PhaseInv, HwInv, Preparing
    <2>4. \A d \in Calls : res'[d] = "ok" => d # c /\ res[d] = "ok" /\ size'[d] = size[d]
      BY <1>a, <1>b, <1>d, TcsAssumption DEF TcsInv, TcsTypeOK
    <2> QED
      BY <1>c, <2>2, <2>3, <2>4 DEF TcsInv, OkMeansApplied, BatchNotTorn
  <1>e. CASE ~Admissible(n, w)
    <2>1. TcsTypeOK'
      BY <1>a, <1>c, <1>e DEF TcsInv, TcsTypeOK, Return
    <2>2. LockInv' /\ PhaseInv' /\ HwInv'
      BY <1>a, <1>b, <1>c, <1>e, TcsAssumption
          DEF TcsInv, TcsTypeOK, LockInv, PhaseInv, HwInv, Preparing, Return
    <2>3. \A d \in Calls : res'[d] = "ok" => res[d] = "ok" /\ size'[d] = size[d]
      BY <1>a, <1>e DEF TcsInv, TcsTypeOK, Return
    <2> QED
      BY <1>c, <2>1, <2>2, <2>3 DEF TcsInv, OkMeansApplied, BatchNotTorn
  <1> QED
    BY <1>d, <1>e

\* The TCS is cleared: from here on a completion is the call's own.
LEMMA ClearStep ==
  ASSUME TcsInv, NEW c \in Calls, Clear(c)
  PROVE  TcsInv'
  <1> USE DEF callVars, hwVars
  <1>1. TcsTypeOK'
    BY TcsAssumption, Zenon DEF TcsInv, TcsTypeOK, Slots, Commands, BatchNotTorn, Clear,
                              Goto, Return
  <1>2. LockInv'
    BY TcsAssumption DEF TcsInv, TcsTypeOK, LockInv, Preparing, Clear, Goto, Return
  <1>3. PhaseInv'
    BY TcsAssumption DEF TcsInv, TcsTypeOK, LockInv, PhaseInv, HwInv, BatchNotTorn,
                         Preparing, Slots, Clear, Goto, Return
  <1>4. HwInv'
    BY TcsAssumption DEF TcsInv, TcsTypeOK, LockInv, PhaseInv, HwInv, Preparing, Clear, Goto,
                         Return
  <1>5. OkMeansApplied'
    <2>1. /\ \A d \in Calls : res'[d] = "ok" => res[d] = "ok"
          /\ UNCHANGED <<size, applied>>
      BY DEF TcsInv, TcsTypeOK, Clear, Goto, Return
    <2> QED
      BY <1>1, <2>1 DEF TcsInv, OkMeansApplied
  <1>6. BatchNotTorn'
    BY TcsAssumption DEF TcsInv, TcsTypeOK, LockInv, PhaseInv, HwInv, BatchNotTorn,
                         Preparing, Slots, Clear, Goto, Return
  <1> QED
    BY <1>1, <1>2, <1>3, <1>4, <1>5, <1>6 DEF TcsInv

\* The registers are written; nothing runs.
LEMMA ProgramStep ==
  ASSUME TcsInv, NEW c \in Calls, Program(c)
  PROVE  TcsInv'
  <1> USE DEF callVars, hwVars
  <1>1. TcsTypeOK'
    <2>1. command' \in [Slots -> Commands \cup {None}]
      BY DEF TcsInv, TcsTypeOK, Commands, Program
    <2>2. cmdEnabled' \subseteq Slots
      <3>1. 1..size[c] \subseteq Slots
        BY TcsAssumption DEF TcsInv, TcsTypeOK, Slots
      <3> QED
        BY <3>1, SMTT(40) DEF TcsInv, TcsTypeOK, Program
    <2> QED
      BY <2>1, <2>2, Zenon DEF TcsInv, TcsTypeOK, Program, Goto, Return
  <1>2. LockInv'
    BY TcsAssumption DEF TcsInv, TcsTypeOK, LockInv, Preparing, Program, Goto, Return
  <1>3. PhaseInv'
    BY TcsAssumption DEF TcsInv, TcsTypeOK, LockInv, PhaseInv, HwInv, BatchNotTorn,
                         Preparing, Slots, Program, Goto, Return
  <1>4. HwInv'
    BY TcsAssumption DEF TcsInv, TcsTypeOK, LockInv, PhaseInv, HwInv, Preparing, Program,
                         Goto, Return
  <1>5. OkMeansApplied'
    <2>1. /\ \A d \in Calls : res'[d] = "ok" => res[d] = "ok"
          /\ UNCHANGED <<size, applied>>
      BY DEF TcsInv, TcsTypeOK, Program, Goto, Return
    <2> QED
      BY <1>1, <2>1 DEF TcsInv, OkMeansApplied
  <1>6. BatchNotTorn'
    BY TcsAssumption DEF TcsInv, TcsTypeOK, LockInv, PhaseInv, HwInv, BatchNotTorn,
                         Preparing, Slots, Program, Goto, Return
  <1> QED
    BY <1>1, <1>2, <1>3, <1>4, <1>5, <1>6 DEF TcsInv

\* The batch starts.
LEMMA TriggerStep ==
  ASSUME TcsInv, NEW c \in Calls, Trigger(c)
  PROVE  TcsInv'
  <1> USE DEF callVars, hwVars
  <1>1. TcsTypeOK'
    BY TcsAssumption, Zenon DEF TcsInv, TcsTypeOK, Slots, Commands, BatchNotTorn, Trigger,
                              Goto, Return
  <1>2. LockInv'
    BY TcsAssumption DEF TcsInv, TcsTypeOK, LockInv, Preparing, Trigger, Goto, Return
  <1>3. PhaseInv'
    BY TcsAssumption DEF TcsInv, TcsTypeOK, LockInv, PhaseInv, HwInv, BatchNotTorn,
                         Preparing, Slots, Trigger, Goto, Return
  <1>4. HwInv'
    BY TcsAssumption DEF TcsInv, TcsTypeOK, LockInv, PhaseInv, HwInv, Preparing, Trigger,
                         Goto, Return
  <1>5. OkMeansApplied'
    BY <1>1, TcsAssumption DEF TcsInv, TcsTypeOK, LockInv, PhaseInv, OkMeansApplied,
                              Preparing, Trigger, Goto, Return
  <1>6. BatchNotTorn'
    BY TcsAssumption DEF TcsInv, TcsTypeOK, LockInv, PhaseInv, HwInv, BatchNotTorn,
                         Preparing, Slots, Trigger, Goto, Return
  <1> QED
    BY <1>1, <1>2, <1>3, <1>4, <1>5, <1>6 DEF TcsInv

\* The caller sees the completion of its own batch.
LEMMA CompleteStep ==
  ASSUME TcsInv, NEW c \in Calls, Complete(c)
  PROVE  TcsInv'
  <1> USE DEF callVars, hwVars
  <1>0. PICK v \in {"ok", "error"} : /\ res' = [res EXCEPT ![c] = v]
                                    /\ step' = [step EXCEPT ![c] = "done"]
                                    /\ holder' = None
                                    /\ UNCHANGED <<size, waitMask, applied>>
    BY Zenon DEF Complete, Return
  <1>1. TcsTypeOK'
    BY TcsAssumption, Zenon DEF TcsInv, TcsTypeOK, Slots, Commands, BatchNotTorn, Complete,
                              Return
  <1>2. LockInv'
    <2>1. holder = c
      BY DEF TcsInv, LockInv, Complete
    <2> QED
      BY <1>0, <2>1, TcsAssumption DEF TcsInv, TcsTypeOK, LockInv, Preparing
  <1>3. PhaseInv'
    <2>1. ASSUME NEW d \in Calls PROVE step'[d] \notin Preparing \cup {"poll"}
      <3>1. step' = [step EXCEPT ![c] = "done"]
        BY Zenon DEF Complete, Return
      <3>2. d # c => step[d] \notin Preparing \cup {"poll"}
        BY DEF TcsInv, LockInv, Complete
      <3> QED
        BY <3>1, <3>2 DEF TcsInv, TcsTypeOK, Preparing
    <2> QED
      BY <2>1 DEF PhaseInv, Preparing
  <1>4. HwInv'
    BY TcsAssumption DEF TcsInv, TcsTypeOK, LockInv, PhaseInv, HwInv, Preparing, Complete,
                         Return
  <1>5. OkMeansApplied'
    <2>1. \A i \in 1..size[c] : <<c, i>> \in applied
      BY DEF TcsInv, PhaseInv, Complete
    <2> QED
      BY <1>0, <1>1, <2>1 DEF TcsInv, TcsTypeOK, OkMeansApplied
  <1>6. BatchNotTorn'
    BY TcsAssumption DEF TcsInv, TcsTypeOK, LockInv, PhaseInv, HwInv, BatchNotTorn,
                         Preparing, Slots, Complete, Return
  <1> QED
    BY <1>1, <1>2, <1>3, <1>4, <1>5, <1>6 DEF TcsInv

\* The caller gives up; the batch may go on.
LEMMA TimeoutStep ==
  ASSUME TcsInv, NEW c \in Calls, Timeout(c)
  PROVE  TcsInv'
  <1> USE DEF callVars, hwVars
  <1>0. PICK v \in {"ok", "error"} : /\ res' = [res EXCEPT ![c] = v]
                                    /\ step' = [step EXCEPT ![c] = "done"]
                                    /\ holder' = None
                                    /\ UNCHANGED <<size, waitMask, applied>>
                                    /\ v = "error"
    BY DEF Timeout, Return
  <1>1. TcsTypeOK'
    BY TcsAssumption, Zenon DEF TcsInv, TcsTypeOK, Slots, Commands, BatchNotTorn, Timeout,
                              Return
  <1>2. LockInv'
    <2>1. holder = c
      BY DEF TcsInv, LockInv, Timeout
    <2> QED
      BY <1>0, <2>1, TcsAssumption DEF TcsInv, TcsTypeOK, LockInv, Preparing
  <1>3. PhaseInv'
    BY TcsAssumption DEF TcsInv, TcsTypeOK, LockInv, PhaseInv, HwInv, BatchNotTorn,
                         Preparing, Slots, Timeout, Return
  <1>4. HwInv'
    BY TcsAssumption DEF TcsInv, TcsTypeOK, LockInv, PhaseInv, HwInv, Preparing, Timeout, Return
  <1>5. OkMeansApplied'
    BY <1>0, <1>1 DEF TcsInv, TcsTypeOK, OkMeansApplied
  <1>6. BatchNotTorn'
    BY TcsAssumption, Zenon DEF TcsInv, TcsTypeOK, LockInv, PhaseInv, HwInv, BatchNotTorn,
                 Preparing, Slots, Timeout, Return
  <1> QED
    BY <1>1, <1>2, <1>3, <1>4, <1>5, <1>6 DEF TcsInv

\* A command is acknowledged.
LEMMA AckStep ==
  ASSUME TcsInv, HwAck
  PROVE  TcsInv'
  <1> USE DEF callVars, hwVars
  <1>1. TcsTypeOK'
    <2>1. PICK i \in todo : /\ applied' = applied \cup {command[i]}
                            /\ cmdStatus' = cmdStatus \cup {i} /\ todo' = todo \ {i}
      BY DEF HwAck
    <2>2. i \in Slots /\ running \in Calls /\ command[i] = <<running, i>>
      BY DEF TcsInv, TcsTypeOK, BatchNotTorn, HwAck
    <2> QED
      BY <2>1, <2>2 DEF TcsInv, TcsTypeOK, Commands, HwAck
  <1>2. LockInv'
    BY TcsAssumption DEF TcsInv, TcsTypeOK, LockInv, Preparing, HwAck
  <1>3. PhaseInv'
    BY TcsAssumption DEF TcsInv, TcsTypeOK, LockInv, PhaseInv, HwInv, BatchNotTorn,
                         Preparing, Slots, HwAck
  <1>4. HwInv'
    BY TcsAssumption DEF TcsInv, TcsTypeOK, LockInv, PhaseInv, HwInv, Preparing, HwAck
  <1>5. OkMeansApplied'
    BY <1>1, TcsAssumption DEF TcsInv, TcsTypeOK, LockInv, PhaseInv, OkMeansApplied,
                              Preparing, HwAck
  <1>6. BatchNotTorn'
    BY TcsAssumption, Zenon DEF TcsInv, TcsTypeOK, LockInv, PhaseInv, HwInv, BatchNotTorn,
                 Preparing, Slots, HwAck
  <1> QED
    BY <1>1, <1>2, <1>3, <1>4, <1>5, <1>6 DEF TcsInv

\* The batch in flight completes.
LEMMA HwCompleteStep ==
  ASSUME TcsInv, HwComplete
  PROVE  TcsInv'
  <1> USE DEF callVars, hwVars
  <1>1. TcsTypeOK'
    BY TcsAssumption DEF TcsInv, TcsTypeOK, Slots, Commands, BatchNotTorn, HwComplete
  <1>2. LockInv'
    BY TcsAssumption DEF TcsInv, TcsTypeOK, LockInv, Preparing, HwComplete
  <1>3. PhaseInv'
    BY TcsAssumption DEF TcsInv, TcsTypeOK, LockInv, PhaseInv, HwInv, BatchNotTorn,
                         Preparing, Slots, HwComplete
  <1>4. HwInv'
    BY TcsAssumption DEF TcsInv, TcsTypeOK, LockInv, PhaseInv, HwInv, Preparing, HwComplete
  <1>5. OkMeansApplied'
    BY <1>1, TcsAssumption DEF TcsInv, TcsTypeOK, LockInv, PhaseInv, OkMeansApplied,
                              Preparing, HwComplete
  <1>6. BatchNotTorn'
    BY TcsAssumption DEF TcsInv, TcsTypeOK, LockInv, PhaseInv, HwInv, BatchNotTorn,
                         Preparing, Slots, HwComplete
  <1> QED
    BY <1>1, <1>2, <1>3, <1>4, <1>5, <1>6 DEF TcsInv

\* Every step preserves the invariant.
LEMMA TcsNextInv ==
  ASSUME TcsInv, [TcsNext]_tcsVars
  PROVE  TcsInv'
  <1>1. ASSUME NEW c \in Calls, Begin(c) \/ Caller(c) PROVE TcsInv'
    BY <1>1, BeginStep, ClearStep, ProgramStep, TriggerStep, CompleteStep,
                              TimeoutStep DEF Caller
  <1>2. CASE HwAck \/ HwComplete
    BY <1>2, AckStep, HwCompleteStep
  <1>3. CASE UNCHANGED tcsVars
    BY <1>3 DEF tcsVars, callVars, hwVars, TcsInv, TcsTypeOK, LockInv, PhaseInv, HwInv,
                OkMeansApplied,
                BatchNotTorn
  <1> QED
    BY <1>1, <1>2, <1>3 DEF TcsNext

\* For every number of calls and slots the invariant holds in every reachable state.
THEOREM TcsInvariant == TcsSpec => []TcsInv
  <1>1. TcsInit => TcsInv
    BY TcsInitInv
  <1>2. TcsInv /\ [TcsNext]_tcsVars => TcsInv'
    BY TcsNextInv
  <1> QED
    BY <1>1, <1>2, PTL DEF TcsSpec

\* write_active_batch returns Ok only for a batch that the accelerators acknowledged, and
\* the command registers of a batch in flight are not rewritten, however many batches
\* timed out before and however late they complete.
THEOREM BatchAlwaysIntact == TcsSpec => []BatchIntact
  <1>1. TcsInv => BatchIntact
    BY DEF TcsInv, BatchIntact
  <1> QED
    BY <1>1, TcsInvariant, PTL

-----------------------------------------------------------------------------
(* The EC event path.                                                        *)

Removing == {"inactive", "cleared", "freed", "removed"}

\* remove_fn: inactive first, and the registration gone from FreeIrq on; no delivery
\* of an earlier registration can enable the pin again.
RemoveInv ==
    /\ active <=> device \notin Removing
    /\ active => Steady \in listeners
    /\ device \in {"freed", "removed"} => ~reg /\ ~irqOn /\ ~sameGen

Held == IF worker = "dispatch" /\ Steady \in targets THEN 1 ELSE 0

\* Every event is in the EC, corrupted, delivered or held by the worker; after
\* remove_fn began some may be dropped.
CountInv ==
    /\ fifo + garbled + got + Held <= made
    /\ active => made = fifo + garbled + got + Held

EcInv == EcTypeOK /\ RemoveInv /\ CountInv

\* The bounds, one by one.
LEMMA EcBounds ==
  MaxEvents \in Nat /\ MaxFaults \in Nat /\ Budget \in Nat \ {0}
  BY CrosEcAssumption

\* Init.
LEMMA EcInitInv ==
  ASSUME EcInit
  PROVE  EcInv
  <1>1. EcTypeOK
    <2>1. 0 \in 0..MaxEvents /\ 0 \in 0..MaxFaults /\ 0 \in 0..Budget
      BY EcBounds
    <2> QED
      BY <2>1, Zenon DEF EcInit, EcTypeOK
  <1>2. RemoveInv /\ CountInv
    BY DEF EcInit, RemoveInv, Removing, CountInv, Held
  <1> QED
    BY <1>1, <1>2 DEF EcInv

\* Types; that no count passes the bound on the events follows from CountInv.
LEMMA EcTypeStep ==
  ASSUME EcInv, EcNext
  PROVE  EcTypeOK'
  <1> USE CrosEcAssumption DEF Ec, Pin, Batch, Tally, EcInv, EcTypeOK, CountInv, Held
  <1>1. CASE EcEvent
    BY <1>1 DEF EcEvent
  <1>2. CASE Deliver
    BY <1>2, Zenon DEF Deliver
  <1>3. CASE HandlerEnter
    BY <1>3 DEF HandlerEnter
  <1>4. CASE HandlerMask
    BY <1>4, Zenon DEF HandlerMask, DisablePin
  <1>5. CASE HandlerPost
    BY <1>5 DEF HandlerPost
  <1>6. CASE Request
    BY <1>6, Zenon DEF Request
  <1>7. CASE Publish
    BY <1>7 DEF Publish
  <1>8. CASE Recheck
    BY <1>8 DEF Recheck, LineLow
  <1>9. CASE Deactivate
    BY <1>9, Zenon DEF Deactivate
  <1>10. CASE ClearWork
    BY <1>10, Zenon DEF ClearWork
  <1>11. CASE FreeIrq
    BY <1>11, Zenon DEF FreeIrq
  <1>12. CASE DropListeners
    BY <1>12 DEF DropListeners
  <1>13. CASE Subscribe
    BY <1>13 DEF Subscribe
  <1>14. CASE Wake
    BY <1>14, Zenon DEF Wake
  <1>15. CASE Scan
    BY <1>15 DEF Scan, Wait, Published
  <1>16. CASE Claim
    <2>1. budget' \in 0..Budget
      BY <1>16, EcBounds DEF EcInv, EcTypeOK, Claim, BatchBudget
    <2>2. worker' \in {"read", "wait"} /\ timer' \in {timer, "none"} /\ workPending' \in BOOLEAN
      BY <1>16, Zenon DEF EcInv, EcTypeOK, Claim, Wait
    <2> QED
      BY <1>16, <2>1, <2>2 DEF EcInv, EcTypeOK, Claim
  <1>17. CASE ReadEvent
    <2>1. fifo' \in 0..MaxEvents /\ budget' \in 0..Budget
      BY <1>17, EcBounds DEF EcInv, EcTypeOK, ReadEvent
    <2>2. targets' \in {targets, listeners} /\ worker' \in {"done", "dispatch"}
      BY <1>17 DEF ReadEvent
    <2>3. more' \in BOOLEAN
      <3>1. (fifo > 1) \in BOOLEAN
        OBVIOUS
      <3>2. more \in BOOLEAN
        BY DEF EcInv, EcTypeOK
      <3> QED
        BY <1>17, <3>1, <3>2, Zenon DEF ReadEvent
    <2> QED
      BY <1>17, <2>1, <2>2, <2>3 DEF EcInv, EcTypeOK, ReadEvent
  <1>18. CASE ReadFails
    BY <1>18 DEF ReadFails, Wait, KeepWork
  <1>19. CASE Dispatch
    BY <1>19 DEF Dispatch, NextTargets
  <1>20. CASE BatchFull
    BY <1>20 DEF BatchFull, Wait, BatchTimer
  <1>21. CASE Done
    BY <1>21 DEF Done, Wait
  <1>22. CASE Enable
    BY <1>22, Zenon DEF Enable, Wait, EnablePin
  <1> QED
    BY <1>1, <1>2, <1>3, <1>4, <1>5, <1>6, <1>7, <1>8, <1>9, <1>10, <1>11, <1>12,
       <1>13, <1>14, <1>15, <1>16, <1>17, <1>18, <1>19, <1>20, <1>21, <1>22, Zenon
       DEF EcNext, EcHandler, EcDriver, Worker

\* No step enables a freed pin: not the handler of an earlier delivery, not the worker.
LEMMA RemoveStep ==
  ASSUME EcInv, EcNext
  PROVE  RemoveInv'
  <1> USE CrosEcAssumption DEF Ec, Pin, Batch, Tally, EcInv, EcTypeOK, RemoveInv, Removing
  <1>1. CASE EcEvent
    BY <1>1 DEF EcEvent
  <1>2. CASE Deliver
    BY <1>2 DEF Deliver
  <1>3. CASE HandlerEnter
    BY <1>3 DEF HandlerEnter
  <1>4. CASE HandlerMask
    BY <1>4 DEF HandlerMask, DisablePin
  <1>5. CASE HandlerPost
    BY <1>5 DEF HandlerPost
  <1>6. CASE Request
    BY <1>6 DEF Request
  <1>7. CASE Publish
    BY <1>7 DEF Publish
  <1>8. CASE Recheck
    BY <1>8 DEF Recheck, LineLow
  <1>9. CASE Deactivate
    BY <1>9 DEF Deactivate
  <1>10. CASE ClearWork
    BY <1>10 DEF ClearWork
  <1>11. CASE FreeIrq
    BY <1>11 DEF FreeIrq
  <1>12. CASE DropListeners
    BY <1>12 DEF DropListeners
  <1>13. CASE Subscribe
    BY <1>13 DEF Subscribe
  <1>14. CASE Wake
    BY <1>14 DEF Wake
  <1>15. CASE Scan
    BY <1>15 DEF Scan, Wait, Published
  <1>16. CASE Claim
    BY <1>16 DEF Claim, Wait, BatchBudget
  <1>17. CASE ReadEvent
    BY <1>17 DEF ReadEvent
  <1>18. CASE ReadFails
    BY <1>18 DEF ReadFails, Wait, KeepWork
  <1>19. CASE Dispatch
    BY <1>19 DEF Dispatch, NextTargets
  <1>20. CASE BatchFull
    BY <1>20 DEF BatchFull, Wait, BatchTimer
  <1>21. CASE Done
    BY <1>21 DEF Done, Wait
  <1>22. CASE Enable
    BY <1>22 DEF Enable, Wait, EnablePin
  <1> QED
    BY <1>1, <1>2, <1>3, <1>4, <1>5, <1>6, <1>7, <1>8, <1>9, <1>10, <1>11, <1>12,
       <1>13, <1>14, <1>15, <1>16, <1>17, <1>18, <1>19, <1>20, <1>21, <1>22, Zenon
       DEF EcNext, EcHandler, EcDriver, Worker

\* A step moves an event from one place to the next.
LEMMA CountStep ==
  ASSUME EcInv, EcNext
  PROVE  CountInv'
  <1> USE CrosEcAssumption DEF Ec, Pin, Batch, Tally, EcInv, EcTypeOK, RemoveInv, CountInv, Held
  <1>1. CASE EcEvent
    BY <1>1 DEF EcEvent
  <1>2. CASE Deliver
    BY <1>2 DEF Deliver
  <1>3. CASE HandlerEnter
    BY <1>3 DEF HandlerEnter
  <1>4. CASE HandlerMask
    BY <1>4 DEF HandlerMask, DisablePin
  <1>5. CASE HandlerPost
    BY <1>5 DEF HandlerPost
  <1>6. CASE Request
    BY <1>6 DEF Request
  <1>7. CASE Publish
    BY <1>7 DEF Publish
  <1>8. CASE Recheck
    BY <1>8 DEF Recheck, LineLow
  <1>9. CASE Deactivate
    BY <1>9 DEF Deactivate
  <1>10. CASE ClearWork
    BY <1>10 DEF ClearWork
  <1>11. CASE FreeIrq
    BY <1>11 DEF FreeIrq
  <1>12. CASE DropListeners
    BY <1>12 DEF DropListeners
  <1>13. CASE Subscribe
    BY <1>13 DEF Subscribe
  <1>14. CASE Wake
    BY <1>14 DEF Wake
  <1>15. CASE Scan
    BY <1>15 DEF Scan, Wait, Published
  <1>16. CASE Claim
    BY <1>16 DEF Claim, Wait, BatchBudget
  <1>17. CASE ReadEvent
    BY <1>17 DEF ReadEvent
  <1>18. CASE ReadFails
    BY <1>18 DEF ReadFails, Wait, KeepWork
  <1>19. CASE Dispatch
    BY <1>19 DEF Dispatch, NextTargets
  <1>20. CASE BatchFull
    BY <1>20 DEF BatchFull, Wait, BatchTimer
  <1>21. CASE Done
    BY <1>21 DEF Done, Wait
  <1>22. CASE Enable
    BY <1>22 DEF Enable, Wait, EnablePin
  <1> QED
    BY <1>1, <1>2, <1>3, <1>4, <1>5, <1>6, <1>7, <1>8, <1>9, <1>10, <1>11, <1>12,
       <1>13, <1>14, <1>15, <1>16, <1>17, <1>18, <1>19, <1>20, <1>21, <1>22, Zenon
       DEF EcNext, EcHandler, EcDriver, Worker

\* For every number of events, faults and reads in a batch the invariant holds in every
\* reachable state.
THEOREM EventInvariant == EcSpec => []EcInv
  <1>1. EcInit => EcInv
    BY EcInitInv
  <1>2. EcInv /\ [EcNext]_ecVars => EcInv'
    <2>1. ASSUME EcInv, UNCHANGED ecVars PROVE EcInv'
      <3>1. EcTypeOK'
        BY <2>1, Zenon DEF ecVars, EcInv, EcTypeOK
      <3>2. RemoveInv'
        BY <2>1, Zenon DEF ecVars, EcInv, RemoveInv
      <3>3. CountInv'
        BY <2>1, Zenon DEF ecVars, EcInv, CountInv, Held
      <3> QED
        BY <3>1, <3>2, <3>3 DEF EcInv
    <2> QED
      BY <2>1, EcTypeStep, RemoveStep, CountStep DEF EcInv
  <1> QED
    BY <1>1, <1>2, PTL DEF EcSpec

\* remove_fn races finish_event_drain and the handler, and a freed pin is never enabled.
THEOREM FreedAlwaysMasked == EcSpec => []FreedStaysMasked
  <1>1. EcInv => FreedStaysMasked
    BY DEF EcInv, RemoveInv, FreedStaysMasked
  <1> QED
    BY <1>1, EventInvariant, PTL

\* The worker loses no event between the EC and the steady listener, whatever the other
\* listener does and wherever a batch ends or a transfer fails.
THEOREM NothingEverWithheld == EcSpec => []NothingWithheld
  <1>1. EcInv => NothingWithheld
    BY DEF EcInv, CountInv, Held, NothingWithheld
  <1> QED
    BY <1>1, EventInvariant, PTL
=============================================================================
