---------------------------- MODULE CrosEcEvents ----------------------------
(***************************************************************************)
(* The event path of a Chrome EC on SPI (drivers/platform/chromeos/         *)
(* cros-ec-spi): the EC's event FIFO and its level-low interrupt line, the  *)
(* interrupt handler that masks the line and defers to a worker, the worker *)
(* that drains the FIFO in bounded batches and dispatches every event to    *)
(* the listeners, and probe and remove of the controller around them.  The  *)
(* worker is shared with other controllers, so it may be running before     *)
(* this one is probed.  The pin is the slot of module TlmmIrq seen from its *)
(* owner: registered, enabled, and masked while a delivery is in flight.    *)
(***************************************************************************)
EXTENDS Naturals, FiniteSets

CONSTANTS
    Steady,       \* the listener that stays registered (the power button)
    Transient,    \* a listener that comes and goes (a sensor)
    Budget,       \* MAX_EVENTS_PER_DRAIN
    MaxEvents,    \* bound on the events the EC produces
    MaxFaults     \* bound on the transfers that fail

ASSUME CrosEcAssumption ==
    /\ Steady # Transient
    /\ Budget \in Nat \ {0}
    /\ {MaxEvents, MaxFaults} \subseteq Nat

VARIABLES
    device,     \* "none", "requested", "published", "up", and remove's steps
    fifo,       \* events in the EC, which pulls the line low while there are any
    made,       \* events produced so far
    reg,        \* the pin has this controller's handler
    irqOn,      \* the pin's interrupt is enabled
    handler,    \* handle_interrupt: "idle", "enter", "mask", "post"
    sameGen,    \* the registration of the delivery in flight has not changed
    active, workPending,
    worker,     \* "scan", "claim", "read", "dispatch", "done", "enable", "wait"
    budget,     \* reads left in the batch
    more,       \* the event in hand said that more follow
    targets,    \* listeners of the snapshot still to be called
    listeners,  \* registered listeners
    timer,      \* why the wait will time out: "none", "yield" or "backoff"
    token,      \* a wake latched in EVENT_WORKER_WAKER
    faults,     \* failed transfers so far
    garbled,    \* events the EC dequeued into a response that was corrupted
    got         \* events Steady has received

ecVars == <<device, fifo, made, reg, irqOn, handler, sameGen, active, workPending, worker,
            budget, more, targets, listeners, timer, token, faults, garbled, got>>

Ec    == <<fifo, made>>
Pin   == <<reg, irqOn, sameGen>>
Batch == <<budget, more, targets>>
Tally == <<faults, garbled, got>>

EcInit ==
    /\ device = "none"
    /\ fifo = 0 /\ made = 0
    /\ reg = FALSE /\ irqOn = FALSE /\ sameGen = FALSE
    /\ handler = "idle"
    /\ active = TRUE
    /\ workPending = FALSE
    /\ worker = "wait"
    /\ budget = 0 /\ more = FALSE /\ targets = {}
    /\ listeners = {Steady, Transient}
    /\ timer = "none"
    /\ token = FALSE
    /\ faults = 0 /\ garbled = 0 /\ got = 0

-----------------------------------------------------------------------------
\* The EC queues an event and asserts its line.
EcEvent ==
    /\ made < MaxEvents
    /\ made' = made + 1
    /\ fifo' = fifo + 1
    /\ UNCHANGED <<device, Pin, handler, active, workPending, worker, Batch, listeners,
                   timer, token, Tally>>

\* Mutant: a pin without a registration is enabled as well.
EnableUnregistered ==
    /\ irqOn' = TRUE
    /\ sameGen' = FALSE
    /\ UNCHANGED reg

\* enable_irq and disable_irq of the TLMM: nothing without a registration,
\* and a new generation, which stops the TLMM's own re-enable.
EnablePin ==
    /\ irqOn' = reg
    /\ sameGen' = FALSE
    /\ UNCHANGED reg

DisablePin ==
    /\ irqOn' = FALSE
    /\ sameGen' = FALSE
    /\ UNCHANGED reg

\* The TLMM masks the pending level and calls the handler.
Deliver ==
    /\ handler = "idle"
    /\ irqOn /\ fifo > 0
    /\ irqOn' = FALSE
    /\ sameGen' = TRUE
    /\ handler' = "enter"
    /\ UNCHANGED <<device, Ec, reg, active, workPending, worker, Batch, listeners,
                   timer, token, Tally>>

\* handle_interrupt: an inactive controller returns at once, and the TLMM
\* re-enables the source if its registration is unchanged.
HandlerEnter ==
    /\ handler = "enter"
    /\ handler' = IF active THEN "mask" ELSE "idle"
    /\ irqOn' = IF active THEN irqOn ELSE irqOn \/ sameGen
    /\ UNCHANGED <<device, Ec, reg, sameGen, active, workPending, worker, Batch, listeners,
                   timer, token, Tally>>

HandlerMask ==
    /\ handler = "mask"
    /\ DisablePin
    /\ handler' = "post"
    /\ UNCHANGED <<device, Ec, active, workPending, worker, Batch, listeners, timer,
                   token, Tally>>

\* event_work_pending.swap(true): the first one wakes the worker.
HandlerPost ==
    /\ handler = "post"
    /\ workPending' = TRUE
    /\ token' = (token \/ ~workPending)
    /\ irqOn' = (irqOn \/ sameGen)
    /\ handler' = "idle"
    /\ UNCHANGED <<device, Ec, reg, sameGen, active, worker, Batch, listeners, timer, Tally>>

-----------------------------------------------------------------------------
\* probe_fn: request the interrupt, publish the controller, and look at the
\* level, which may have been asserted before the worker could see it.
Request ==
    /\ device = "none"
    /\ device' = "requested"
    /\ reg' = TRUE /\ irqOn' = TRUE /\ sameGen' = FALSE
    /\ UNCHANGED <<Ec, handler, active, workPending, worker, Batch, listeners, timer,
                   token, Tally>>

Publish ==
    /\ device = "requested"
    /\ device' = "published"
    /\ UNCHANGED <<Ec, Pin, handler, active, workPending, worker, Batch, listeners, timer,
                   token, Tally>>

LineLow == fifo > 0

Recheck ==
    /\ device = "published"
    /\ device' = "up"
    /\ workPending' = (workPending \/ LineLow)
    /\ token' = (token \/ LineLow)
    /\ UNCHANGED <<Ec, Pin, handler, active, worker, Batch, listeners, timer, Tally>>

\* remove_fn, in its order: deactivate and unpublish, clear the work, free the
\* interrupt, drop the listeners, wake the worker.
Deactivate ==
    /\ device = "up"
    /\ device' = "inactive"
    /\ active' = FALSE
    /\ UNCHANGED <<Ec, Pin, handler, workPending, worker, Batch, listeners, timer, token, Tally>>

ClearWork ==
    /\ device = "inactive"
    /\ device' = "cleared"
    /\ workPending' = FALSE
    /\ UNCHANGED <<Ec, Pin, handler, active, worker, Batch, listeners, timer, token, Tally>>

FreeIrq ==
    /\ device = "cleared"
    /\ device' = "freed"
    /\ reg' = FALSE /\ irqOn' = FALSE /\ sameGen' = FALSE
    /\ UNCHANGED <<Ec, handler, active, workPending, worker, Batch, listeners, timer, token, Tally>>

DropListeners ==
    /\ device = "freed"
    /\ device' = "removed"
    /\ listeners' = {}
    /\ token' = TRUE
    /\ UNCHANGED <<Ec, Pin, handler, active, workPending, worker, Batch, timer, Tally>>

EcDriver == Request \/ Publish \/ Recheck \/ Deactivate \/ ClearWork \/ FreeIrq \/ DropListeners

\* register_event_listener, and unregister_event_listener or a dropped Weak.
Subscribe ==
    /\ device = "up"
    /\ listeners' = IF Transient \in listeners THEN listeners \ {Transient}
                                               ELSE listeners \cup {Transient}
    /\ UNCHANGED <<device, Ec, Pin, handler, active, workPending, worker, Batch, timer, token, Tally>>

-----------------------------------------------------------------------------
Wait(why) == worker' = "wait" /\ timer' = why

\* The worker wakes by a token or by its timeout.
Wake ==
    /\ worker = "wait"
    /\ token \/ timer # "none"
    /\ token' = FALSE
    /\ worker' = "scan"
    /\ UNCHANGED <<device, Ec, Pin, handler, active, workPending, Batch, listeners, timer, Tally>>

Published == device \in {"published", "up"}

\* The loop over a snapshot of CONTROLLERS: pass over an inactive controller,
\* one without work, and one whose backoff has not run out, for which the
\* worker waits again with a timeout.
Scan ==
    /\ worker = "scan"
    /\ \/ /\ Published /\ active /\ workPending
          /\ \/ worker' = "claim" /\ timer' = "none"
             \/ timer = "backoff" /\ Wait("backoff")
       \/ /\ ~(Published /\ active /\ workPending)
          /\ Wait("none")
    /\ UNCHANGED <<device, Ec, Pin, handler, active, workPending, Batch, listeners, token, Tally>>

\* for _ in 0..budget
BatchBudget == Budget

\* event_work_pending.swap(false).
Claim ==
    /\ worker = "claim"
    /\ \/ /\ workPending
          /\ workPending' = FALSE
          /\ worker' = "read"
          /\ budget' = BatchBudget
          /\ UNCHANGED timer
       \/ /\ ~workPending
          /\ Wait("none")
          /\ UNCHANGED <<workPending, budget>>
    /\ UNCHANGED <<device, Ec, Pin, handler, active, more, targets, listeners, token, Tally>>

\* One GET_NEXT_EVENT: unavailable ends the batch, an event is snapshot with
\* the EC's `more` flag and the live listeners.
ReadEvent ==
    /\ worker = "read" /\ budget > 0
    /\ \/ /\ fifo = 0
          /\ worker' = "done"
          /\ UNCHANGED <<fifo, budget, more, targets>>
       \/ /\ fifo > 0
          /\ fifo' = fifo - 1
          /\ more' = (fifo > 1)
          /\ targets' = listeners
          /\ budget' = budget - 1
          /\ worker' = "dispatch"
    /\ UNCHANGED <<device, made, Pin, handler, active, workPending, listeners, timer,
                   token, faults, garbled, got>>

\* Mutant: the failed drain forgets its work.
KeepWorkNever == FALSE

\* After an error: keep the work and wait out the backoff, if still active.
KeepWork == active

\* The transfer fails, before the EC has seen the command or after it has
\* dequeued the event.  The drain ends and backs off.
ReadFails ==
    /\ worker = "read" /\ budget > 0
    /\ faults < MaxFaults
    /\ faults' = faults + 1
    /\ \/ UNCHANGED <<fifo, garbled>>
       \/ fifo > 0 /\ fifo' = fifo - 1 /\ garbled' = garbled + 1
    /\ workPending' = (workPending \/ KeepWork)
    /\ Wait(IF KeepWork THEN "backoff" ELSE "none")
    /\ UNCHANGED <<device, made, Pin, handler, active, Batch, listeners, token, got>>

\* Mutant: a listener that does not consume the event ends its dispatch.
NextTargetsConsumed(l) == {}

\* `consumed &= ...` calls every listener, whatever the one before returned.
NextTargets(l) == targets \ {l}

\* dispatch_event: call the next listener of the snapshot if still active.
\* drain_batch ignores the listeners' verdict and goes on while the EC has more.
Dispatch ==
    /\ worker = "dispatch"
    /\ \/ /\ targets # {} /\ active
          /\ \E l \in targets :
                /\ targets' = NextTargets(l)
                /\ got' = IF l = Steady THEN got + 1 ELSE got
          /\ UNCHANGED worker
       \/ /\ targets = {} \/ ~active
          /\ targets' = {}
          /\ worker' = IF more THEN "read" ELSE "done"
          /\ UNCHANGED got
    /\ UNCHANGED <<device, Ec, Pin, handler, active, workPending, budget, more, listeners,
                   timer, token, faults, garbled>>

BatchTimer == "yield"

\* The budget ran out: keep the work and yield for a millisecond.
BatchFull ==
    /\ worker = "read" /\ budget = 0
    /\ workPending' = TRUE
    /\ Wait(BatchTimer)
    /\ UNCHANGED <<device, Ec, Pin, handler, active, Batch, listeners, token, Tally>>

\* finish_event_drain: the check, and then acknowledge and enable.
Done ==
    /\ worker = "done"
    /\ IF active THEN worker' = "enable" /\ UNCHANGED timer ELSE Wait("none")
    /\ UNCHANGED <<device, Ec, Pin, handler, active, workPending, Batch, listeners, token, Tally>>

Enable ==
    /\ worker = "enable"
    /\ EnablePin
    /\ Wait("none")
    /\ UNCHANGED <<device, Ec, handler, active, workPending, Batch, listeners, token, Tally>>

EcHandler == Deliver \/ HandlerEnter \/ HandlerMask \/ HandlerPost
Worker == Wake \/ Scan \/ Claim \/ ReadEvent \/ ReadFails \/ Dispatch \/ BatchFull
          \/ Done \/ Enable

\* The scan finds the controller's work and claims it.
ScanClaims == Scan /\ worker' = "claim"

EcNext == EcEvent \/ EcHandler \/ EcDriver \/ Subscribe \/ Worker

\* The interrupt is taken, the worker is scheduled, probe runs to its end and
\* a backoff runs out.  The EC, removal and the listeners are free.
EcFairness ==
    /\ WF_ecVars(EcHandler)
    /\ WF_ecVars(Worker)
    /\ SF_ecVars(ScanClaims)
    /\ WF_ecVars(Publish) /\ WF_ecVars(Recheck)

EcSpec == EcInit /\ [][EcNext]_ecVars /\ EcFairness

-----------------------------------------------------------------------------
EcTypeOK ==
    /\ device \in {"none", "requested", "published", "up", "inactive", "cleared", "freed", "removed"}
    /\ {fifo, made, garbled, got} \subseteq 0..MaxEvents
    /\ {reg, irqOn, sameGen, active, workPending, more, token} \subseteq BOOLEAN
    /\ handler \in {"idle", "enter", "mask", "post"}
    /\ worker \in {"scan", "claim", "read", "dispatch", "done", "enable", "wait"}
    /\ budget \in 0..Budget
    /\ targets \subseteq {Steady, Transient} /\ listeners \subseteq {Steady, Transient}
    /\ timer \in {"none", "yield", "backoff"}
    /\ faults \in 0..MaxFaults

\* "a listener failure must not delay unrelated button releases": whatever
\* the other listener does, Steady has received every event taken from the
\* EC, except the one being dispatched and those corrupted on the wire.
NothingWithheld ==
    /\ EcTypeOK
    /\ active =>
        made = fifo + garbled + got
               + (IF worker = "dispatch" /\ Steady \in targets THEN 1 ELSE 0)

\* remove_fn races finish_event_drain, whose check of `active` and whose
\* enable are two steps: a freed pin is never enabled again.
FreedStaysMasked == device \in {"freed", "removed"} => ~irqOn

EventsLeft == device = "up" /\ fifo > 0

\* Every event leaves the EC, unless the controller is removed.
EventsDrained == EventsLeft ~> ~EventsLeft
=============================================================================
