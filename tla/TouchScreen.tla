---------------------------- MODULE TouchScreen ----------------------------
(***************************************************************************)
(* The Goodix touchscreen: probing and removal, the level interrupt that   *)
(* its handler masks and its worker unmasks, and the polling fallback.     *)
(* The pin is the slot of TlmmIrq seen from its owner.  What becomes of    *)
(* the contacts of a report is in TouchTracker.                            *)
(***************************************************************************)
EXTENDS Naturals, Sequences

CONSTANTS Reports,     \* "touch", "other" identifier, "bad" length or fields
          MaxQueue,    \* reports that the controller holds
          MaxProbes    \* bound on probes

VARIABLES steps,     \* what is left of a probe or a removal
          dev,       \* the published device: [there, active, poll, pending]
          pin,       \* [reg, on, same]: registered, enabled, unchanged since the delivery
          handler,   \* handle_interrupt: "idle", "mask", "post"
          worker,    \* [pc, old]: old when its device was removed under it
          token,     \* a wake latched in WORKER_WAKER
          hid,       \* the controller: [queue, awake]
          probes
vars == <<steps, dev, pin, handler, worker, token, hid, probes>>
Irq == <<pin, handler>>
Fresh == [there |-> FALSE, active |-> TRUE, poll |-> FALSE, pending |-> FALSE]
Init ==
    /\ steps = <<>> /\ dev = Fresh /\ pin = [reg |-> FALSE, on |-> FALSE, same |-> FALSE]
    /\ handler = "idle" /\ worker = [pc |-> "wait", old |-> FALSE] /\ token = FALSE
    /\ hid = [queue |-> <<>>, awake |-> FALSE] /\ probes = 0

-----------------------------------------------------------------------------
(* The controller and its interrupt *)

Queue(r) ==
    /\ hid.awake /\ Len(hid.queue) < MaxQueue
    /\ hid' = [hid EXCEPT !.queue = Append(@, r)]
    /\ UNCHANGED <<steps, dev, Irq, worker, token, probes>>
irq_asserted == hid.queue # <<>>

\* The TLMM masks the level for the delivery, and enables it again after the handler if
\* nobody changed the registration.
Deliver ==
    /\ handler = "idle" /\ pin.on /\ irq_asserted
    /\ IF dev.active THEN handler' = "mask" /\ pin' = [pin EXCEPT !.on = FALSE, !.same = TRUE]
       ELSE UNCHANGED Irq
    /\ UNCHANGED <<steps, dev, worker, token, hid, probes>>
disable_irq == [pin EXCEPT !.on = FALSE, !.same = FALSE]
enable_irq == [pin EXCEPT !.on = pin.reg, !.same = FALSE]
handle_interrupt ==
    /\ handler = "mask" /\ handler' = "post" /\ pin' = disable_irq
    /\ UNCHANGED <<steps, dev, worker, token, hid, probes>>
Post ==
    /\ handler = "post" /\ handler' = "idle"
    /\ pin' = [pin EXCEPT !.on = @ \/ pin.same]
    /\ dev' = [dev EXCEPT !.pending = dev.there \/ steps # <<>>]
    /\ token' = (token \/ ~dev.pending)
    /\ UNCHANGED <<steps, worker, hid, probes>>

-----------------------------------------------------------------------------
(* The worker *)

Go(pc) == worker' = [worker EXCEPT !.pc = pc]
Wake ==
    /\ worker.pc = "wait" /\ token /\ token' = FALSE /\ Go("scan")
    /\ UNCHANGED <<steps, dev, Irq, hid, probes>>
\* The device is cloned: it may be removed from now on.
worker_entry ==
    /\ worker.pc = "scan" /\ worker' = [pc |-> IF dev.there THEN "claim" ELSE "wait", old |-> FALSE]
    /\ UNCHANGED <<steps, dev, Irq, token, hid, probes>>
Claim ==
    /\ worker.pc = "claim"
    /\ CASE worker.old -> Go("scan") /\ UNCHANGED dev
         [] ~worker.old /\ dev.poll -> Go(IF irq_asserted THEN "active" ELSE "scan") /\ UNCHANGED dev
         [] OTHER -> Go(IF dev.pending THEN "active" ELSE "wait") /\ dev' = [dev EXCEPT !.pending = FALSE]
    /\ UNCHANGED <<steps, Irq, token, hid, probes>>
process_worker_report ==
    /\ worker.pc = "active" /\ Go(IF dev.active /\ ~worker.old THEN "read" ELSE "scan")
    /\ UNCHANGED <<steps, dev, Irq, token, hid, probes>>

\* The transfer fails, or takes the first report; with none the controller sends zeros.
ReadReport == IF hid.queue = <<>> THEN "ack" ELSE Head(hid.queue)
rearm_after_success(ok) == IF ok THEN "check" ELSE "scan"
rearm(ok) == "check"
process_report ==
    /\ worker.pc = "read" /\ UNCHANGED <<steps, dev, Irq, token, probes>>
    /\ \/ Go(rearm(FALSE)) /\ UNCHANGED hid
       \/ /\ hid' = [hid EXCEPT !.queue = IF @ = <<>> THEN @ ELSE Tail(@)]
          /\ Go(rearm(ReadReport \in {"ack", "other", "touch"}))
Check ==
    /\ worker.pc = "check" /\ Go(IF dev.active /\ ~worker.old /\ ~dev.poll THEN "enable" ELSE "scan")
    /\ UNCHANGED <<steps, dev, Irq, token, hid, probes>>
Enable ==
    /\ worker.pc = "enable" /\ Go("scan") /\ pin' = enable_irq
    /\ UNCHANGED <<steps, dev, handler, token, hid, probes>>

-----------------------------------------------------------------------------
(* Probe and removal *)

reset_controller == <<"reset">>
initialize_i2c_hid == <<"power", "hid reset", "acknowledge", "power">>
read_identity == <<"descriptor">> \o initialize_i2c_hid \o <<"layout">>
probe_fn == reset_controller \o read_identity \o <<"publish", "irq">>
remove_fn == <<"take", "deactivate", "free", "unpend">>

\* A probe waits 200 ms before anything else: no interrupt handler is left by then.
Probe ==
    /\ steps = <<>> /\ ~dev.there /\ handler = "idle" /\ probes < MaxProbes
    /\ probes' = probes + 1 /\ steps' = probe_fn
    /\ UNCHANGED <<dev, Irq, worker, token, hid>>
Removal ==
    /\ steps = <<>> /\ dev.there /\ steps' = remove_fn
    /\ UNCHANGED <<dev, Irq, worker, token, hid, probes>>

\* A bus, GPIO controller or descriptor that is missing, wrong or unreadable.
ProbeFails ==
    /\ steps # <<>> /\ Head(steps) \in {"reset", "descriptor", "power", "hid reset", "acknowledge", "layout"}
    /\ steps' = <<>>
    /\ UNCHANGED <<dev, Irq, worker, token, hid, probes>>

\* wait_for_reset_completion reads whatever comes before the acknowledgement.
wait_for_reset_completion ==
    /\ irq_asserted /\ hid' = [hid EXCEPT !.queue = Tail(@)]
    /\ steps' = IF Head(hid.queue) = "ack" THEN Tail(steps) ELSE steps
StepHid(s) ==
    CASE s = "reset" -> [queue |-> <<>>, awake |-> FALSE]
      [] s = "power" -> [hid EXCEPT !.awake = TRUE]
      [] s = "hid reset" -> [queue |-> Append(hid.queue, "ack"), awake |-> FALSE]
      [] OTHER -> hid
Ready == [there |-> TRUE, active |-> TRUE, poll |-> FALSE, pending |-> FALSE]
StepDev(s, poll) ==
    CASE s = "publish" -> Ready
      [] s = "irq" -> [dev EXCEPT !.poll = poll]
      [] s = "take" -> [dev EXCEPT !.there = FALSE]
      [] s = "deactivate" -> [dev EXCEPT !.active = FALSE]
      [] s = "unpend" -> Fresh
      [] OTHER -> dev
StepPin(s, poll) ==
    CASE s = "irq" /\ ~poll -> [reg |-> TRUE, on |-> TRUE, same |-> FALSE]
      [] s = "free" /\ ~dev.poll -> [reg |-> FALSE, on |-> FALSE, same |-> FALSE]
      [] OTHER -> pin
Step ==
    /\ steps # <<>> /\ UNCHANGED <<handler, probes>>
    /\ LET s == Head(steps) IN
       IF s = "acknowledge"
       THEN wait_for_reset_completion /\ UNCHANGED <<dev, pin, worker, token>>
       ELSE /\ steps' = Tail(steps) /\ hid' = StepHid(s)
            /\ \E poll \in BOOLEAN :
                 /\ s # "irq" => ~poll
                 /\ dev' = StepDev(s, poll) /\ pin' = StepPin(s, poll)
                 /\ token' = (token \/ (s = "irq" /\ poll) \/ s = "unpend")
            /\ worker' = [worker EXCEPT !.old = @ \/ s = "deactivate"]

Next ==
    \/ \E r \in Reports : Queue(r)
    \/ Deliver \/ handle_interrupt \/ Post
    \/ Wake \/ worker_entry \/ Claim \/ process_worker_report \/ process_report \/ Check \/ Enable
    \/ Probe \/ Removal \/ ProbeFails \/ Step
Spec == Init /\ [][Next]_vars

-----------------------------------------------------------------------------
(* Properties *)

\* A report never waits with nobody to fetch it: while a probed device's line is low its
\* interrupt is enabled or being handled, or the worker has it to do and is or will be
\* awake, whatever failed before.
NoReportStranded ==
    /\ steps = <<>> /\ dev.there /\ ~dev.poll /\ irq_asserted
         => pin.on \/ handler # "idle" \/ dev.pending
              \/ (worker.pc \in {"active", "read", "check", "enable"} /\ ~worker.old)
    /\ steps = <<>> /\ dev.there /\ (dev.pending \/ dev.poll) /\ worker.pc = "wait" => token
=============================================================================
