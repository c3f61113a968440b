------------------------------ MODULE TlmmIrq ------------------------------
(***************************************************************************)
(* The GPIO interrupt demultiplexer of the SC7180 TLMM                      *)
(* (drivers/gpio/qcom-sc7180-tlmm): the registration slots guarded by       *)
(* irq_handlers, the per-pin interrupt registers, and the summary-interrupt *)
(* handler service_pending_irqs, which snapshots the pending pins under the *)
(* lock and runs the callbacks without it.  request_irq, free_irq,          *)
(* enable_irq and disable_irq may be called by other CPUs between any two   *)
(* steps of the handler, and by a callback from inside it.                  *)
(***************************************************************************)
EXTENDS Naturals, Sequences, FiniteSets

CONSTANTS
    Pins,       \* the GPIOs in use
    Devices,    \* drivers that register a handler
    Edge,       \* pins requested with an edge trigger; the others are level
    NoDevice,   \* an empty slot
    MaxGen      \* bound on the registration changes of one pin

ASSUME TlmmAssumption ==
    /\ IsFiniteSet(Pins) /\ Edge \subseteq Pins
    /\ NoDevice \notin Devices
    /\ MaxGen \in Nat

VARIABLES
    slot,     \* GpioIrqSlot of each pin: generation, enabled, handler
    enabled,  \* INTERRUPT_ENABLE of each pin's INTERRUPT_CONFIG
    raw,      \* INTERRUPT_RAW_STATUS_ENABLE of each pin's INTERRUPT_CONFIG
    status,   \* INTERRUPT_STATUS_PENDING of each pin
    line,     \* the input is at its active level
    pc,       \* service_pending_irqs: "idle", "enter", "match", "call", "rearm"
    pending,  \* its local array of snapshots, head first
    verdict,  \* the callback asked to re-enable the source
    owed,     \* edges that arrived at an enabled pin and no callback has seen
    refused   \* generation whose callback left the source masked, or 0

irqVars == <<slot, enabled, raw, status, line, pc, pending, verdict, owed, refused>>

Hardware == <<enabled, raw, status>>
Service  == <<pc, pending, verdict>>

EmptySlot == [gen |-> 0, on |-> FALSE, dev |-> NoDevice]

\* Sc7180Tlmm::new, and probe_fn masking and acknowledging every pin before
\* the summary line is enabled.
IrqInit ==
    /\ slot = [p \in Pins |-> EmptySlot]
    /\ enabled = [p \in Pins |-> FALSE]
    /\ raw = [p \in Pins |-> FALSE]
    /\ status = [p \in Pins |-> FALSE]
    /\ line = [p \in Pins |-> FALSE]
    /\ pc = "idle"
    /\ pending = <<>>
    /\ verdict = FALSE
    /\ owed = [p \in Pins |-> FALSE]
    /\ refused = [p \in Pins |-> 0]

-----------------------------------------------------------------------------
\* slot.handler filtered by slot.enabled.
Registered(p) == slot[p].on /\ slot[p].dev # NoDevice

\* The input changes level.  The status latches an edge whenever raw status
\* is enabled, and a level for as long as the line is active.
Rise(p) ==
    /\ ~line[p]
    /\ line' = [line EXCEPT ![p] = TRUE]
    /\ status' = [status EXCEPT ![p] = @ \/ raw[p]]
    /\ owed' = [owed EXCEPT ![p] = p \in Edge /\ Registered(p)]
    /\ UNCHANGED <<slot, enabled, raw, Service, refused>>

Fall(p) ==
    /\ line[p]
    /\ line' = [line EXCEPT ![p] = FALSE]
    /\ UNCHANGED <<slot, Hardware, Service, owed, refused>>

\* The status register after raw status is enabled: an active level latches.
Relatched(p, statusBit) == statusBit \/ (p \notin Edge /\ line[p])

-----------------------------------------------------------------------------
\* Mutant: the edge source loses raw status as well.
KeepsRawNever(p) == FALSE

\* mask_irq_for_delivery: a level source loses both enables, an edge source
\* keeps raw status so that another edge can latch.
KeepsRaw(p) == p \in Edge

\* The handler goes on only if the snapshot is not empty.
AfterSnapshot(live) == IF live = {} THEN "idle" ELSE "match"

\* A sequence holding the snapshots of a set of pins in pin order; the order
\* of distinct pins is immaterial, so any enumeration stands for it.
Snapshots(S) ==
    {q \in [1..Cardinality(S) -> {[pin |-> p, gen |-> slot[p].gen, dev |-> slot[p].dev] : p \in S}] :
        \A p \in S : \E i \in DOMAIN q : q[i].pin = p}

\* The CPU takes the summary interrupt, asserted while any enabled pin has its
\* status set.  Another CPU may change the pin before the handler has the lock.
TakeInterrupt ==
    /\ pc = "idle"
    /\ \E p \in Pins : enabled[p] /\ status[p]
    /\ pc' = "enter"
    /\ UNCHANGED <<slot, Hardware, line, pending, verdict, owed, refused>>

\* service_pending_irqs, the part under the lock: mask and acknowledge every
\* pending pin, and snapshot the ones with an enabled handler.
Snapshot ==
    /\ pc = "enter"
    /\ LET stat  == {p \in Pins : status[p]}
           live  == {p \in stat : Registered(p)}
       IN /\ raw' = [p \in Pins |->
                       IF p \in stat THEN p \in live /\ raw[p] /\ KeepsRaw(p)
                                     ELSE raw[p]]
          /\ enabled' = [p \in Pins |-> enabled[p] /\ p \notin stat]
          /\ status' = [p \in Pins |-> p \notin stat /\ status[p]]
          /\ \E q \in Snapshots(live) : pending' = q
          /\ pc' = AfterSnapshot(live)
    /\ UNCHANGED <<slot, line, verdict, owed, refused>>

\* registration_matches, and the second validation after the callback.
Matches(d) ==
    /\ slot[d.pin].gen = d.gen
    /\ slot[d.pin].on
    /\ slot[d.pin].dev = d.dev

\* Mutant: the callback's answer alone decides.
StillRegisteredAlways(d) == TRUE

\* The delivery in hand is still the current registration.
StillRegistered(d) ==
    /\ slot[d.pin].gen = d.gen
    /\ slot[d.pin].on
    /\ slot[d.pin].dev = d.dev

NextDelivery ==
    /\ pending' = Tail(pending)
    /\ pc' = IF Len(pending) = 1 THEN "idle" ELSE "match"

\* `continue`: a stale delivery is skipped, the rest of the batch goes on.
Skip == NextDelivery

\* The first check: skip a delivery whose registration has changed.
Match ==
    /\ pc = "match"
    /\ \/ /\ Matches(Head(pending))
          /\ pc' = "call"
          /\ UNCHANGED <<pending>>
       \/ /\ ~Matches(Head(pending))
          /\ Skip
    /\ UNCHANGED <<slot, Hardware, line, verdict, owed, refused>>

\* claim_interrupt runs with no TLMM lock held.  Handled, NotMine and
\* Reschedule ask for the source to be re-enabled; Deferred and an error
\* leave it masked.
Call ==
    /\ pc = "call"
    /\ pc' = "rearm"
    /\ verdict' \in BOOLEAN
    /\ LET p == Head(pending).pin IN
       /\ owed' = [owed EXCEPT ![p] = FALSE]
       /\ refused' = [refused EXCEPT ![p] = IF verdict' THEN @ ELSE Head(pending).gen]
    /\ UNCHANGED <<slot, Hardware, line, pending>>

\* configure_irq(pin, trigger, true) when the registration is still the one
\* that was snapshot.
Rearm ==
    /\ pc = "rearm"
    /\ LET p  == Head(pending).pin
           on == verdict /\ StillRegistered(Head(pending))
       IN /\ enabled' = [enabled EXCEPT ![p] = @ \/ on]
          /\ raw' = [raw EXCEPT ![p] = @ \/ on]
          /\ status' = [status EXCEPT ![p] = IF on THEN Relatched(p, @) ELSE @]
    /\ NextDelivery
    /\ UNCHANGED <<slot, line, verdict, owed, refused>>

-----------------------------------------------------------------------------
\* The calls a driver makes, each under the irq_handlers lock.
Bump(p) == slot[p].gen + 1

Arm(p) ==
    /\ enabled' = [enabled EXCEPT ![p] = TRUE]
    /\ raw' = [raw EXCEPT ![p] = TRUE]
    /\ status' = [status EXCEPT ![p] = p \notin Edge /\ line[p]]
    /\ owed' = [owed EXCEPT ![p] = FALSE]

Disarm(p) ==
    /\ enabled' = [enabled EXCEPT ![p] = FALSE]
    /\ raw' = [raw EXCEPT ![p] = FALSE]
    /\ owed' = [owed EXCEPT ![p] = FALSE]

request_irq(p, d) ==
    /\ slot[p].gen < MaxGen
    /\ slot[p].dev = NoDevice
    /\ slot' = [slot EXCEPT ![p] = [gen |-> Bump(p), on |-> TRUE, dev |-> d]]
    /\ Arm(p)
    /\ UNCHANGED <<line, Service, refused>>

free_irq(p) ==
    /\ slot[p].gen < MaxGen
    /\ slot' = [slot EXCEPT ![p] = [gen |-> Bump(p), on |-> FALSE, dev |-> NoDevice]]
    /\ Disarm(p)
    /\ status' = [status EXCEPT ![p] = FALSE]
    /\ UNCHANGED <<line, Service, refused>>

enable_irq(p) ==
    /\ slot[p].gen < MaxGen
    /\ slot[p].dev # NoDevice
    /\ slot' = [slot EXCEPT ![p] = [gen |-> Bump(p), on |-> TRUE, dev |-> @.dev]]
    /\ Arm(p)
    /\ UNCHANGED <<line, Service, refused>>

disable_irq(p) ==
    /\ slot[p].gen < MaxGen
    /\ slot' = [slot EXCEPT ![p] = [gen |-> Bump(p), on |-> FALSE, dev |-> @.dev]]
    /\ Disarm(p)
    /\ UNCHANGED <<status, line, Service, refused>>

IrqDriver(p) ==
    \/ \E d \in Devices : request_irq(p, d)
    \/ free_irq(p) \/ enable_irq(p) \/ disable_irq(p)

IrqHandler == TakeInterrupt \/ Snapshot \/ Match \/ Call \/ Rearm

IrqNext == IrqHandler \/ \E p \in Pins : Rise(p) \/ Fall(p) \/ IrqDriver(p)

\* Fairness: the CPU takes an asserted summary interrupt and runs its
\* handler to the end.
IrqSpec == IrqInit /\ [][IrqNext]_irqVars /\ WF_irqVars(IrqHandler)

-----------------------------------------------------------------------------
\* The types, and a handler that is in its loop exactly while it has a
\* delivery left.
IrqTypeOK ==
    /\ slot \in [Pins -> [gen : 0..MaxGen, on : BOOLEAN, dev : Devices \cup {NoDevice}]]
    /\ enabled \in [Pins -> BOOLEAN] /\ raw \in [Pins -> BOOLEAN]
    /\ status \in [Pins -> BOOLEAN] /\ line \in [Pins -> BOOLEAN]
    /\ owed \in [Pins -> BOOLEAN]
    /\ pc \in {"idle", "enter", "match", "call", "rearm"}
    /\ pending \in Seq([pin : Pins, gen : 0..MaxGen, dev : Devices])
    /\ pc \in {"idle", "enter"} <=> pending = <<>>
    /\ verdict \in BOOLEAN
    /\ refused \in [Pins -> 0..MaxGen]

\* A delivery of the current registration of p is still in the handler.
InFlight(p) == \E i \in DOMAIN pending : pending[i].pin = p /\ pending[i].gen = slot[p].gen

\* The callback of the current registration left its source masked.
LeftMasked(p) == refused[p] = slot[p].gen

\* The re-enable after a callback races free_irq, disable_irq and a new
\* registration of another CPU.  A pin without an enabled handler never has its
\* interrupt enabled; conversely masking for delivery is always undone: an
\* enabled registration has its interrupt enabled unless its own delivery is
\* still in the handler or its callback asked for it to stay masked.
ArmedIffRegistered ==
    /\ IrqTypeOK
    /\ \A p \in Pins : IF Registered(p) THEN enabled[p] \/ InFlight(p) \/ LeftMasked(p)
                       ELSE ~enabled[p]

\* An edge no callback has seen, at a source that may still deliver it.
EdgeWaits(p) == owed[p] /\ ~LeftMasked(p)

\* An edge at an enabled registration is followed by a callback, unless the
\* callback before it left the source masked.
EdgeServed == \A p \in Edge : EdgeWaits(p) ~> ~EdgeWaits(p)
=============================================================================
