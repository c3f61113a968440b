------------------------------- MODULE Sdhci -------------------------------
(* The SC7180 glue of the SDHCI controllers (drivers/mmc): probing the      *)
(* soldered eMMC and the removable SD card, the voltage switch, and the     *)
(* tuning of SDR104.  The generic host and the MMC core are external: the   *)
(* core resets, sets timing and clock, tunes and only then transfers, and   *)
(* starts over with a reset when a step of that sequence fails.             *)
(* A call is a sequence of steps; it stops at the first one that fails, and *)
(* the effect of a failed step may or may not have reached the hardware.    *)
EXTENDS Naturals, Sequences, FiniteSets, SequencesExt

CONSTANTS Phases,   \* sampling phases of the DLL are 0 .. Phases - 1 (16 in the code)
          Idle      \* no payload

SdhciAssumption == Phases \in Nat \ {0}

VARIABLES
    kind,     \* "none", "emmc" or "sd"
    probe,    \* "no", "up", "failed" or "empty"
    queue,    \* the probed node has a usable window of the command queue
    held,     \* clocks enabled and windows mapped by this driver
    h,        \* registers of the controller and of the rails, see Fresh
    retune,   \* `retune_needed'
    old,      \* 60 s have passed since last_tuning_ms
    next,     \* what the MMC core does next
    sent      \* the DLL under the last payload of SDR104, or Idle
vars == <<kind, probe, queue, held, h, retune, old, next, sent>>

CLOCK_NAMES == <<"iface", "core", "xo">>
Volts == {"1v8", "3v"}

vendor_spec_for_media(k) == IF k = "emmc" THEN "1v8" ELSE "3v"

\* Rails, pads and the host's mode may be left anywhere by the firmware.
Fresh(k) ==
    [sdclk : {FALSE}, mode : Volts, pads : {vendor_spec_for_media(k)},
     io : IF k = "emmc" THEN {"1v8"} ELSE Volts, card : {TRUE}, base : {100}, core : {100},
     dll : {IF k = "emmc" THEN "off" ELSE "firmware"}, timing : {"legacy"}]

Init ==
    /\ kind = "none" /\ probe = "no" /\ queue = FALSE /\ held = {} /\ h = Idle
    /\ retune = FALSE /\ old = FALSE /\ next = "reset" /\ sent = Idle

-----------------------------------------------------------------------------
(* Probe *)

\* What the device tree and the other drivers offer: the wiring, the card detect line,
\* the rails of the slot, the fixed voltages, the interrupt and the register windows.
DeviceTree ==
    [soldered : BOOLEAN, width : {4, 8}, cd : {"none", "not ready", "absent", "present"},
     rails : {"wired", "not ready", "other"}, volts : BOOLEAN, irq : BOOLEAN, hc : BOOLEAN,
     cqhci : BOOLEAN]

classify_media(dt) ==
    CASE dt.soldered /\ dt.width = 8 -> "emmc"
      [] ~dt.soldered /\ dt.width = 4 /\ dt.cd # "none" -> "sd"
      [] OTHER -> "none"

\* Before any resource is taken: "no" is a deferred probe, which runs again, and "empty"
\* a slot without a card.
resolve_card_detect(dt) == IF dt.cd = "not ready" THEN "no"
                           ELSE IF dt.cd = "absent" THEN "empty" ELSE "bound"
SdSupplies(dt) == CASE dt.rails = "not ready" -> "no" [] dt.rails = "other" -> "failed"
                    [] OTHER -> "bound"
fixed_supply_voltage_uv(dt) == IF dt.volts THEN "bound" ELSE "failed"
resolve_named_irq(dt) == IF dt.irq THEN "bound" ELSE "failed"
resolve_primary_memory(dt) == IF dt.hc THEN "bound" ELSE "failed"
Bound(dt) ==
    LET checks == (IF classify_media(dt) = "sd" THEN <<resolve_card_detect(dt), SdSupplies(dt)>>
                   ELSE <<>>)
                  \o <<fixed_supply_voltage_uv(dt), resolve_named_irq(dt),
                       resolve_primary_memory(dt)>>
        bad == SelectSeq(checks, LAMBDA c : c # "bound")
    IN IF classify_media(dt) = "none" THEN "failed"
       ELSE IF bad = <<>> THEN "bound" ELSE Head(bad)

\* A request for power that is pending when its interrupt has been masked.
handoff_power_action(usable, requests) ==
    IF ~usable THEN "reject"
    ELSE IF requests = {} THEN "none"
    ELSE IF requests = {"bus_on"} THEN "acknowledge" ELSE "reject"

\* Clocks are enabled in order; those before the one that fails are disabled.
resolve_and_enable_clocks(n) == Range(SubSeq(CLOCK_NAMES, 1, n))
disable_clocks_core(taken) == taken \ {"core"}
disable_clocks(taken) == taken \ Range(CLOCK_NAMES)
iounmap(taken, windows) == taken \ windows

\* What a probe that fails leaves behind.  The window of the command queue is looked up
\* with clocks and window taken: when it is missing, the early return keeps both.
Left(k, dt, usable, requests, failsAt) ==
    LET handoff == IF k = "sd" THEN "none" ELSE handoff_power_action(usable, requests)
        all == resolve_and_enable_clocks(3) \cup {"hc"}
    IN IF failsAt = "clocks" THEN {disable_clocks(resolve_and_enable_clocks(n)) : n \in 0 .. 2}
       ELSE IF failsAt = "map" THEN {disable_clocks(resolve_and_enable_clocks(3))}
       ELSE IF failsAt \in {"mask", "pads"} \/ handoff \in {"reject", failsAt}
       THEN {disable_clocks(iounmap(all, {"hc"}))}
       ELSE IF k = "emmc" /\ ~dt.cqhci THEN {all}
       ELSE IF k = "emmc" /\ failsAt = "cqhci" THEN {disable_clocks(iounmap(all, {"hc"}))}
       ELSE IF k = "emmc" /\ failsAt = "isolate_legacy_pio"
       THEN {disable_clocks(iounmap(all \cup {"cqhci"}, {"hc", "cqhci"}))}
       ELSE {}

ProbeStops ==
    /\ probe = "no"
    /\ \E dt \in DeviceTree : Bound(dt) # "bound" /\ probe' = Bound(dt)
    /\ UNCHANGED <<kind, queue, held, h, retune, old, next, sent>>

ProbeFails ==
    /\ probe = "no" /\ probe' = "failed"
    /\ \E dt \in DeviceTree, usable \in BOOLEAN, requests \in SUBSET {"bus_on", "io_low"},
          failsAt \in {"clocks", "map", "mask", "acknowledge", "pads", "cqhci", "isolate_legacy_pio"} :
          /\ Bound(dt) = "bound"
          /\ held' \in Left(classify_media(dt), dt, usable, requests, failsAt)
          /\ queue' = (classify_media(dt) = "emmc" => dt.cqhci)
    /\ UNCHANGED <<kind, h, retune, old, next, sent>>

\* eMMC powers its DLL down at once, SD after the reset of the controller.
ProbeOk ==
    /\ probe = "no" /\ probe' = "up"
    /\ \E dt \in DeviceTree, usable \in BOOLEAN, requests \in SUBSET {"bus_on", "io_low"} :
          /\ Bound(dt) = "bound" /\ kind' = classify_media(dt)
          /\ kind' = "emmc" => dt.cqhci /\ handoff_power_action(usable, requests) # "reject"
    /\ queue' = (kind' = "emmc")
    /\ held' = resolve_and_enable_clocks(3) \cup {"hc"}
                \cup (IF kind' = "emmc" THEN {"cqhci"} ELSE {})
    /\ h' \in Fresh(kind')
    /\ UNCHANGED <<retune, old, next, sent>>

\* Identification failed: dropping the host disables the clocks and unmaps.
Drop ==
    /\ probe = "up" /\ next = "reset"
    /\ probe' = "failed" /\ held' = disable_clocks(iounmap(held, {"cqhci", "hc"}))
    /\ UNCHANGED <<kind, queue, h, retune, old, next, sent>>

-----------------------------------------------------------------------------
(* Calls of the MMC core *)

\* What one step does to the controller and the rails.
Do(r, step) ==
    CASE step = "stop" -> [r EXCEPT !.sdclk = FALSE]
      [] step = "run" -> [r EXCEPT !.sdclk = TRUE]
      [] step = "card_off" -> [r EXCEPT !.card = FALSE]
      [] step = "card_on" -> [r EXCEPT !.card = TRUE]
      [] step = "io_high" -> [r EXCEPT !.io = "3v"]
      [] step = "io_low" -> [r EXCEPT !.io = "1v8"]
      [] step = "pads_high" -> [r EXCEPT !.pads = "3v"]
      [] step = "pads_low" -> [r EXCEPT !.pads = "1v8"]
      [] step = "mode_high" -> [r EXCEPT !.mode = "3v"]
      [] step = "mode_low" -> [r EXCEPT !.mode = "1v8"]
      [] step = "core100" -> [r EXCEPT !.core = 100, !.dll = "off"]
      [] step = "core202" -> [r EXCEPT !.core = 202, !.dll = "off"]
      [] step = "base" -> [r EXCEPT !.base = r.core]
      [] step = "legacy" -> [r EXCEPT !.timing = "legacy"]
      [] step = "dll_off" -> [r EXCEPT !.dll = "off"]
      [] OTHER -> r                            \* waits, reads and checks

\* Writes to registers of the controller cannot fail; the rails, the clock tree
\* and the waits can.
Fallible == {"stop", "run", "card_off", "card_on", "io_high", "io_low", "core100", "core202",
             "base", "dat_low", "dat_high", "requests", "host_reset"}

\* The outcomes of a call: the registers it leaves and whether it succeeded.
Outcomes(steps) ==
    LET After(n) == FoldLeft(Do, h, SubSeq(steps, 1, n))
        Bad == {n \in 1 .. Len(steps) : steps[n] \in Fallible}
    IN {<<After(Len(steps)), TRUE>>}
       \cup {<<After(n - 1), FALSE>> : n \in Bad}
       \cup {<<After(n), FALSE>> : n \in {m \in Bad : steps[m] # "run"}}

power_cycle == <<"card_off", "io_high", "card_on">>

\* MmcHost::reset.  Only a slot with supplies cycles its power; the acknowledgement of
\* pending requests and the verification of the eMMC handoff come last.
ResetSteps(k) ==
    IF k = "sd"
    THEN <<"stop">> \o power_cycle \o <<"pads_high", "mode_high", "ack", "legacy", "host_reset", "dll_off">>
    ELSE <<"host_reset", "requests">>

\* The SD card clock stops first, and the rail moves before the pads.
switch_1v8_running == <<"dat_low", "mode_low", "io_low", "pads_low", "requests", "ack",
                        "run", "dat_high">>
switch_1v8 == <<"dat_low", "stop", "mode_low", "io_low", "pads_low", "requests", "ack",
                "run", "dat_high">>

\* MmcHost::set_clock: above 100 MHz the core clock is 202 MHz.
SourceFor(fast) == IF fast THEN 202 ELSE 100
ClockSteps(k, fast) ==
    (IF k = "sd" /\ h.base # SourceFor(fast)
     THEN <<"stop", IF fast THEN "core202" ELSE "core100", "base">> ELSE <<>>) \o <<"run">>

\* The core's plan: after each success the next call, after a failure a reset.
Reset ==
    /\ probe = "up" /\ next \in {"reset", "ready"}
    /\ \E o \in Outcomes(ResetSteps(kind)) :
       h' = o[1] /\ next' = IF o[2] THEN "clock" ELSE "reset"
    /\ UNCHANGED <<kind, probe, queue, held, retune, old, sent>>

SetClock ==
    /\ probe = "up" /\ next \in {"clock", "fast clock"}
    /\ LET fast == next = "fast clock" /\ h.timing = "sdr104"
       IN \E o \in Outcomes(ClockSteps(kind, fast)) :
          /\ h' = o[1]
          /\ next' = IF ~o[2] THEN "reset"
                     ELSE IF next = "clock" THEN "identify"
                     ELSE IF h.timing = "sdr104" THEN "tune" ELSE "ready"
    /\ UNCHANGED <<kind, probe, queue, held, retune, old, sent>>

\* switch_signal_voltage_1v8, which fails without supplies.
SwitchVoltage ==
    /\ probe = "up" /\ next = "identify" /\ kind = "sd"
    /\ \E o \in Outcomes(switch_1v8) : h' = o[1] /\ next' = IF o[2] THEN "timing" ELSE "reset"
    /\ UNCHANGED <<kind, probe, queue, held, retune, old, sent>>

\* sd_uhs_modes offers the fast modes only at 1.8 V.
SetTiming ==
    /\ probe = "up" /\ next \in {"identify", "timing"} /\ next' = "fast clock"
    /\ \E t \in IF next = "timing" THEN {"fast", "sdr104"} ELSE {"fast"} :
          h' = [h EXCEPT !.timing = t]
    /\ UNCHANGED <<kind, probe, queue, held, retune, old, sent>>

-----------------------------------------------------------------------------
(* Tuning *)

\* The lengths of the runs of valid phases, and the three-quarter point of the first
\* longest one; phases form a circle.
RunFrom(valid, start) ==
    CHOOSE n \in 0 .. Phases :
       /\ \A i \in 0 .. n - 1 : (start + i) % Phases \in valid
       /\ n = Phases \/ (start + n) % Phases \notin valid
select_tuning_phase(valid) ==
    LET starts == {s \in 0 .. Phases - 1 :
                      valid = 0 .. Phases - 1 \/ (s + Phases - 1) % Phases \notin valid}
        best == CHOOSE s \in starts :
                   \A t \in starts : \/ RunFrom(valid, t) < RunFrom(valid, s)
                                     \/ RunFrom(valid, t) = RunFrom(valid, s) /\ s <= t
        len == RunFrom(valid, best)
        back == (len * 3) \div 4
    IN (best + (IF back = 0 THEN 0 ELSE back - 1)) % Phases

\* The registers after a tuning that gives up: the DLL was reset on the way.
init_dll(r) == [r EXCEPT !.dll = "reset"]

\* The outcomes of tune_sd under SDR104: ten passes fail, a wait on the DLL fails, or a
\* pass finds `valid' phases and the chosen one is validated three times.
Tuned(r, valid) ==
    [r EXCEPT !.dll = IF select_tuning_phase(valid) \in valid THEN "tuned" ELSE "off phase"]
tune_sd ==
    IF h.timing # "sdr104" THEN {<<h, TRUE>>}
    ELSE {<<init_dll(h), FALSE>>}
         \cup {<<Tuned(h, valid), TRUE>> : valid \in SUBSET (0 .. Phases - 1) \ {{}}}

\* last_tuning_ms and retune_needed change only when a tuning succeeds.
RetunedAlways(ok) == h.timing = "sdr104"
Retuned(ok) == ok /\ h.timing = "sdr104"
Remember(ok) ==
    /\ retune' = IF Retuned(ok) THEN FALSE ELSE retune
    /\ old' = IF Retuned(ok) THEN FALSE ELSE old

ExecuteTuning ==
    /\ probe = "up" /\ next = "tune"
    /\ \E o \in tune_sd : h' = o[1] /\ next' = (IF o[2] THEN "ready" ELSE "reset") /\ Remember(o[2])
    /\ UNCHANGED <<kind, probe, queue, held, sent>>

\* send_command with 512 bytes or more: tunes first when it must, and asks for a
\* tuning when the transfer fails.
NeedsTuning == h.timing = "sdr104" /\ (retune \/ old)
SendPayload ==
    /\ probe = "up" /\ next = "ready"
    /\ \E o \in (IF NeedsTuning THEN tune_sd ELSE {<<h, TRUE>>}), ok \in BOOLEAN :
       /\ h' = o[1]
       /\ sent' = IF o[2] /\ h.timing = "sdr104" THEN o[1].dll ELSE Idle
       /\ retune' = \/ o[2] /\ ~ok /\ h.timing = "sdr104"
                    \/ retune /\ ~(NeedsTuning /\ Retuned(o[2]))
       /\ old' = (old /\ ~(NeedsTuning /\ Retuned(o[2])))
    /\ UNCHANGED <<kind, probe, queue, held, next>>

TimePasses == ~old /\ old' = TRUE
              /\ UNCHANGED <<kind, probe, queue, held, h, retune, next, sent>>

Next ==
    \/ ProbeStops \/ ProbeFails \/ ProbeOk \/ Drop \/ Reset \/ SetClock \/ SwitchVoltage \/ SetTiming
    \/ ExecuteTuning \/ SendPayload \/ TimePasses

Spec == Init /\ [][Next]_vars

-----------------------------------------------------------------------------
\* While the card is clocked, it is powered and the signalling voltage of the rail, of
\* the pads and of the host's mode are the same: no call, however it fails, leaves the
\* clock running across a change of voltage.
LevelsAgree ==
    kind # "none" /\ h.sdclk => h.card /\ h.pads = h.io /\ (kind = "sd" => h.mode = h.io)

\* A payload goes out under SDR104 only on a DLL that was tuned at the core rate in use,
\* at a phase that the card answered: neither a failed tuning nor a changed clock can
\* leave a stale phase behind that transfers go on to use.
PayloadTuned ==
    sent \in {Idle, "tuned"}

\* A probe that failed holds no clock and no mapping, at whatever step it failed, with
\* one exception: an eMMC node whose command queue window is missing or too small is
\* found out by a `?' that comes after the clocks and the host's window were taken and
\* that releases neither.
FailedProbeReleases ==
    probe = "failed" =>
        \/ held = {}
        \/ ~queue /\ held = Range(CLOCK_NAMES) \cup {"hc"}
=============================================================================
