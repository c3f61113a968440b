------------------------------- MODULE MCSoc -------------------------------
(* The controllers under the drivers that wait for interrupts or firmware: *)
(* the TLMM interrupt demultiplexer, the RPMh command set, the EC event    *)
(* path and the ring of the A618.  They share no state in the code, so     *)
(* that a behaviour exercises one of them, `unit', while the others stay   *)
(* as they started.                                                        *)
EXTENDS TlmmIrq, RpmhTcs, CrosEcEvents, A618Ring

VARIABLE unit

vars == <<unit, irqVars, tcsVars, ecVars, ringVars>>

InIrq(A) == unit = "irq" /\ A /\ UNCHANGED <<unit, tcsVars, ecVars, ringVars>>
InTcs(A) == unit = "tcs" /\ A /\ UNCHANGED <<unit, irqVars, ecVars, ringVars>>
InEc(A) == unit = "ec" /\ A /\ UNCHANGED <<unit, irqVars, tcsVars, ringVars>>
InRing(A) == unit = "ring" /\ A /\ UNCHANGED <<unit, irqVars, tcsVars, ecVars>>

\* What the boot loader left in the TCS matters to the TCS alone.
Init ==
    /\ unit \in {"irq", "tcs", "ec", "ring"}
    /\ IrqInit /\ TcsInit /\ EcInit /\ RingInit
    /\ unit # "tcs" => irq = FALSE /\ cmdStatus = {}

Next == InIrq(IrqNext) \/ InTcs(TcsNext) \/ InEc(EcNext) \/ InRing(RingNext)

\* The fairness of the units with a liveness property, as their modules justify it.
Spec ==
    /\ Init /\ [][Next]_vars
    /\ WF_vars(InIrq(IrqHandler))
    /\ WF_vars(InEc(EcHandler)) /\ WF_vars(InEc(Worker))
    /\ SF_vars(InEc(ScanClaims))
    /\ WF_vars(InEc(Publish)) /\ WF_vars(InEc(Recheck))
    /\ WF_vars(InRing(RingLoop))
=============================================================================
