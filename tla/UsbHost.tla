------------------------------ MODULE UsbHost ------------------------------
(* The USB host: the SC7180 wrapper and the DWC3 core (drivers/usb/dwc3)    *)
(* with the two PHYs they power (drivers/phy).  Probing is sequential and a *)
(* deferred probe runs again.  Every step may fail, and unwinds what the    *)
(* code unwinds at that point; the SuperSpeed PHY may also time out, upon   *)
(* which the core runs on the USB2 clock alone.                             *)
EXTENDS Integers, Sequences, FiniteSets, SequencesExt

VARIABLES
    wrapper,  \* "no", "up" or "failed"
    clocks,   \* clocks of the wrapper that are enabled
    reset,    \* the wrapper is held in reset
    usb2,     \* QUSB2: its phase, programming clocks and reset
    usb3,     \* QMP: powered, its clocks, reset and whether the PCS runs
    refs,     \* power references that the handles of the PHYs hold
    core,     \* registers of the DWC3 core, see Cold
    pipe,     \* QSCRATCH: "pipe" or "utmi" feeds the PIPE domain, or "gated"
    probe,    \* the core's probe: "no", "bound" or "failed"
    phys      \* PHY providers: not probed "no", "registered" or "failed"
vars == <<wrapper, clocks, reset, usb2, usb3, refs, core, pipe, probe, phys>>

WRAPPER_CLOCK_NAMES == <<"cfg_noc", "core", "iface", "sleep", "mock_utmi">>
COMMON_CLOCK_NAMES == <<"aux", "cfg_ahb", "ref", "com_aux">>
Cold == [global |-> FALSE, phy2 |-> FALSE, phy3 |-> FALSE, host |-> FALSE, force20 |-> FALSE,
         susphy |-> FALSE]
Phy2Off == [phase |-> "off", clocks |-> {}, held |-> TRUE]
Phy3Off == [powered |-> FALSE, clocks |-> {}, held |-> TRUE, pcs |-> FALSE]

\* The firmware leaves the resets of the wrapper and of the PHYs anywhere.
Init ==
    /\ wrapper = "no" /\ clocks = {} /\ reset \in BOOLEAN
    /\ usb2 \in {[Phy2Off EXCEPT !.held = r] : r \in BOOLEAN} /\ usb3 = Phy3Off
    /\ refs = {} /\ core = Cold /\ pipe = "pipe" /\ probe = "no"
    /\ phys = [usb2 |-> "no", usb3 |-> "no"]

-----------------------------------------------------------------------------
(* The QUSB2 PHY *)

disable_programming_clocks_cfg(p) == [p EXCEPT !.clocks = @ \ {"cfg_ahb"}]
disable_programming_clocks(p) == [p EXCEPT !.clocks = @ \ {"cfg_ahb", "iface"}]

\* With or without an iface clock, depending on the device tree.
Programming == {{"cfg_ahb"}, {"iface", "cfg_ahb"}}

\* The PHYs that a failed or successful initialization may leave.
enable_programming_clocks(p, all) == [p EXCEPT !.clocks = all]
initialize(p) ==
    LET started(all) == enable_programming_clocks(p, all)
    IN {<<[p EXCEPT !.clocks = {}], "PowerOnFailed">>}
       \cup {<<disable_programming_clocks(started(all)), "ResetFailed">> : all \in Programming}
       \cup {<<[disable_programming_clocks(started(all)) EXCEPT !.held = held], why>> :
                all \in Programming, held \in BOOLEAN, why \in {"ResetFailed", "Timeout"}}
       \cup {<<[started(all) EXCEPT !.held = FALSE], "Ok">> : all \in Programming}

shutdown(p) ==
    {<<disable_programming_clocks([p EXCEPT !.held = TRUE]), "Ok">>,
     <<disable_programming_clocks(p), "PowerOffFailed">>}

Phased(o, phase) == <<[o[1] EXCEPT !.phase = IF o[2] = "Ok" THEN phase ELSE "off"], o[2]>>
power_on2(p) == IF p.phase = "on" THEN {<<p, "Ok">>} ELSE {Phased(o, "on") : o \in initialize(p)}
power_off2(p) ==
    IF p.phase = "off" THEN {p} ELSE {[o[1] EXCEPT !.phase = "off"] : o \in shutdown(p)}

-----------------------------------------------------------------------------
(* The QMP combo PHY *)

\* Clocks are enabled in order and those before a failure are disabled again; a
\* failure of the reset itself leaves it as it is.
enable_common(p) ==
    {<<p, "ResetFailed">>, <<[p EXCEPT !.held = TRUE], "ResetFailed">>}
    \cup {<<[p EXCEPT !.held = held], "PowerOnFailed">> : held \in BOOLEAN}
    \cup {<<[p EXCEPT !.held = FALSE, !.clocks = Range(COMMON_CLOCK_NAMES)], "Ok">>}

configure_usb3(p) ==
    {<<p, "PowerOnFailed">>}
    \cup {<<[p EXCEPT !.clocks = @ \cup {"usb3_pipe"}, !.pcs = TRUE], why>> : why \in {"Timeout", "Ok"}}

stop_usb3_pcs(p) == [p EXCEPT !.pcs = FALSE]
stop_usb3(p) == [p EXCEPT !.clocks = @ \ {"usb3_pipe"}, !.pcs = FALSE]
disable_common(p) ==
    {[p EXCEPT !.held = held, !.clocks = @ \ Range(COMMON_CLOCK_NAMES)] : held \in {p.held, TRUE}}

power_on3(p) ==
    IF p.powered THEN {<<p, "Ok">>}
    ELSE UNION {IF c[2] # "Ok" THEN {c}
                ELSE UNION {IF u[2] = "Ok" THEN {<<[u[1] EXCEPT !.powered = TRUE], "Ok">>}
                            ELSE {<<q, u[2]>> : q \in disable_common(stop_usb3(u[1]))} :
                            u \in configure_usb3(c[1])} :
                c \in enable_common(p)}
power_off3(p) ==
    IF ~p.powered THEN {p}
    ELSE {[q EXCEPT !.powered = FALSE] : q \in disable_common(stop_usb3(p))}

-----------------------------------------------------------------------------
(* The providers of the PHYs.  A clock, reset or fuse that is not there yet defers the *)
(* probe, so that it stays "no".                                                       *)

\* A tuning property is absent (-1), or a byte up to its maximum.
property_u8(value, max) == value = -1 \/ (value >= 0 /\ value <= max)
TuningMaxima == [imp_res |-> 63, bias |-> 63, charge |-> 3, hstx |-> 15, preemphasis |-> 3,
                 width |-> 1, hsdisc |-> 3]
tuning_from_dt(t) == \A f \in DOMAIN TuningMaxima : property_u8(t[f], TuningMaxima[f])

Qusb2_probe ==
    /\ phys.usb2 = "no"
    /\ \E window, parts \in BOOLEAN, f \in DOMAIN TuningMaxima, v \in {-1, 0, 1, 3, 4, 15, 63, 64} :
          LET t == [g \in DOMAIN TuningMaxima |-> IF g = f THEN v ELSE -1]
          IN phys' = [phys EXCEPT !.usb2 =
                         IF ~window THEN "failed" ELSE IF ~parts THEN "no"
                         ELSE IF tuning_from_dt(t) THEN "registered" ELSE "failed"]
    /\ UNCHANGED <<wrapper, clocks, reset, usb2, usb3, refs, core, pipe, probe>>

Qmp_probe ==
    /\ phys.usb3 = "no"
    /\ \E window, parts \in BOOLEAN :
          phys' = [phys EXCEPT !.usb3 = IF ~window THEN "failed"
                                       ELSE IF parts THEN "registered" ELSE "no"]
    /\ UNCHANGED <<wrapper, clocks, reset, usb2, usb3, refs, core, pipe, probe>>

-----------------------------------------------------------------------------
(* The wrapper *)

disable_clocks(taken) == taken \ Range(WRAPPER_CLOCK_NAMES)

\* The domain, the phandle and the reset come before any clock; n clocks are on when
\* the wrapper fails.  An assertion of the reset on the way out may fail unnoticed.
wrapper_probe ==
    /\ wrapper = "no"
    /\ \/ wrapper' \in {"no", "failed"} /\ reset' \in BOOLEAN /\ UNCHANGED clocks
       \/ \E n \in 0 .. Len(WRAPPER_CLOCK_NAMES) :
             /\ clocks' = disable_clocks(Range(SubSeq(WRAPPER_CLOCK_NAMES, 1, n)))
             /\ wrapper' \in {"failed"} \cup (IF n < Len(WRAPPER_CLOCK_NAMES) THEN {"no"} ELSE {})
             /\ reset' \in BOOLEAN
       \/ wrapper' = "up" /\ clocks' = Range(WRAPPER_CLOCK_NAMES) /\ reset' = FALSE
    /\ UNCHANGED <<usb2, usb3, refs, core, pipe, probe, phys>>

-----------------------------------------------------------------------------
(* The core *)

\* A failed verification powers the PHYs `off' and ends the probe; a handle without a
\* power reference has nothing to release.
PowerOff(off, p2, p3) ==
    /\ usb2' \in IF "usb2" \in off THEN power_off2(p2) ELSE {p2}
    /\ usb3' \in IF "usb3" \in off THEN power_off3(p3) ELSE {p3}
    /\ refs' = {}

\* What the steps of initialize_core do to the core, and the PHYs that are powered off
\* when they fail.
Do(r, step) ==
    CASE step = "reset" -> Cold
      [] step = "release phys" -> [r EXCEPT !.phy2 = TRUE, !.phy3 = TRUE]
      [] step = "release core" -> [r EXCEPT !.global = TRUE]
      [] step = "force20" -> [r EXCEPT !.force20 = TRUE]
      [] step = "host" -> [r EXCEPT !.host = TRUE]
      [] step = "susphy" -> [r EXCEPT !.susphy = TRUE]
      [] OTHER -> r
Fallback == {"verify", "force20", "susphy"}
InitStepsFull(high_speed_only) ==
    <<"reset", "release phys", "release core", "host">>
InitSteps(high_speed_only) ==
    SelectSeq(<<"reset", "release phys", "verify", "release core", "force20", "host", "susphy">>,
              LAMBDA s : high_speed_only \/ s \notin Fallback)
Fallible == {"verify", "release core", "force20", "host", "susphy"}

\* QSCRATCH is switched while the core is in reset: gate, select, ungate.
select_utmi_as_pipe_clock == {<<"pipe", FALSE>>, <<"gated", FALSE>>, <<"utmi", FALSE>>, <<"utmi", TRUE>>}

\* Later failures drop the guard that owns both PHYs: the interrupt, the DMA context
\* and the binding of xHCI.
QcomDwc3_drop == {"usb3", "usb2"}

initialize_core(p2, r2, p3, r3) ==
    LET hs == r3 = "Timeout"
        steps == InitSteps(hs)
        After(n) == FoldLeft(Do, core, SubSeq(steps, 1, n))
    IN \/ /\ r2 # "Ok" /\ probe' = "failed" /\ core' = After(1)
          /\ usb2' = p2 /\ UNCHANGED <<usb3, refs, pipe>>
       \/ /\ r2 = "Ok" /\ r3 \notin {"Ok", "Timeout"} /\ probe' = "failed" /\ core' = After(1)
          /\ PowerOff({"usb2"}, p2, p3) /\ UNCHANGED pipe
       \/ /\ r2 = "Ok" /\ r3 \in {"Ok", "Timeout"}
          /\ \E mux \in (IF hs THEN select_utmi_as_pipe_clock ELSE {<<pipe, TRUE>>}) :
             /\ pipe' = mux[1]
             /\ \/ /\ ~mux[2] /\ probe' = "failed" /\ core' = After(1)
                   /\ PowerOff({"usb2"}, p2, p3)
                \/ /\ mux[2]
                   /\ \E n \in 1 .. Len(steps) :
                         /\ steps[n] \in Fallible /\ core' \in {After(n - 1), After(n)}
                         /\ probe' = "failed" /\ PowerOff({"usb3", "usb2"}, p2, p3)
                \/ /\ mux[2] /\ core' = After(Len(steps)) /\ probe' = "failed"
                   /\ PowerOff(QcomDwc3_drop, p2, p3)
                \/ /\ mux[2] /\ core' = After(Len(steps)) /\ probe' = "bound"
                   /\ usb2' = p2 /\ usb3' = p3
                   /\ refs' = {"usb2"} \cup (IF hs THEN {} ELSE {"usb3"})

\* The host mode of a PHY is recorded only; every PHY accepts it.
resolve_host_phy(p) == phys[p]

\* Deferred without the wrapper or a PHY provider, rejected outside host mode.
core_probe ==
    /\ probe = "no" /\ wrapper = "up"
    /\ \/ probe' = "failed" /\ UNCHANGED <<usb2, usb3, refs, core, pipe>>
       \/ /\ \A p \in {"usb2", "usb3"} : resolve_host_phy(p) = "registered"
          /\ \E a \in power_on2(usb2), b \in power_on3(usb3) :
                initialize_core(a[1], a[2], b[1], b[2])
    /\ UNCHANGED <<wrapper, clocks, reset, phys>>

Next == Qusb2_probe \/ Qmp_probe \/ wrapper_probe \/ core_probe

Spec == Init /\ [][Next]_vars

-----------------------------------------------------------------------------
\* Once xHCI is bound, the wrapper is clocked and out of reset, the USB2 PHY runs, both
\* PHY interfaces and the core are out of reset in host mode, and the PIPE domain has a
\* running source: the SuperSpeed PHY, or the UTMI clock with the SuperSpeed side
\* suspended and the core forced onto the USB2 clock.
HostPrepared ==
    probe = "bound" =>
       /\ clocks = Range(WRAPPER_CLOCK_NAMES) /\ ~reset
       /\ usb2.phase = "on" /\ "cfg_ahb" \in usb2.clocks /\ ~usb2.held
       /\ core.global /\ core.phy2 /\ core.phy3 /\ core.host
       /\ \/ pipe = "pipe" /\ usb3.powered /\ "usb3_pipe" \in usb3.clocks /\ ~usb3.held
          \/ pipe = "utmi" /\ core.force20 /\ core.susphy /\ ~usb3.powered /\ ~usb3.pcs

\* A wrapper that failed has no clock enabled, and after a failed probe of the core both
\* PHYs are off with all their clocks: a PHY that is off never keeps a clock.
FailedProbeReleases ==
    /\ wrapper = "failed" => clocks = {}
    /\ probe = "failed" => usb2.phase = "off" /\ ~usb3.powered /\ refs = {}
    /\ usb2.phase = "off" => usb2.clocks = {}
    /\ ~usb3.powered => usb3.clocks = {} /\ ~usb3.pcs
=============================================================================
