----------------------------- MODULE GccClocks -----------------------------
(***************************************************************************)
(* The global clock controller as qcom-sc7180-gcc-display drives it: the   *)
(* handoff at probe, branch clocks, the rate generators of USB, the SD     *)
(* controllers and the serial engines, the votes that share a register,    *)
(* the USB power domain and resets.  A call of a clock operation is one    *)
(* step: consumers probe one at a time.  A wait that times out leaves its  *)
(* request pending, and the hardware may grant it at any later time.       *)
(***************************************************************************)
EXTENDS DriverArithmetic, FiniteSets

CONSTANTS
    Consumers,     \* sets of clocks that are used together in a behaviour
    Requests,      \* rates in kHz that consumers ask for
    MaxTimeouts    \* bound on the waits that time out

-----------------------------------------------------------------------------
(* The tables of the driver. *)

UsbMaster == {"cfg_noc_usb3_prim_axi", "usb30_prim_master", "aggre_usb3_prim_axi"}
QupSerial == {"qupv3_wrap0_s4", "qupv3_wrap1_s1"}
SdccApps == {"sdcc1_apps", "sdcc2_apps"}
SDCC_CLOCKS == SdccApps \cup {"sdcc1_ahb", "sdcc2_ahb"}
USB_CLOCKS ==
    UsbMaster \cup {"usb30_prim_sleep", "usb30_prim_mock_utmi", "usb_phy_cfg_ahb2phy", "usb3_prim_clkref",
                   "usb3_prim_phy_aux", "usb3_prim_phy_com_aux", "usb3_prim_phy_pipe"}
GPU_CLOCKS ==
    {"ddrss_gpu_axi", "gpu_cfg_ahb", "gpu_gpll0_clk_src", "gpu_gpll0_div_clk_src",
     "gpu_memnoc_gfx", "gpu_snoc_dvm_gfx"}

\* How a clock's rate is controlled; GPLL0 itself is always on, and so is the
\* AHB clock of the GPU's clock controller once it runs.
Kind(c) ==
    CASE c \in UsbMaster -> "Master"
      [] c = "usb30_prim_mock_utmi" -> "MockUtmi"
      [] c = "usb3_prim_phy_aux" -> "PhyAux"
      [] c \in SdccApps -> "Apps"
      [] c \in QupSerial -> "Qup"
      [] c = "gpu_cfg_ahb" -> "AlwaysOn"
      [] c = "gpll0_out_main" -> "Source"
      [] OTHER -> "Fixed"

\* The generator that a clock's operations program; the PHY's COM_AUX clock runs
\* from the generator of AUX but leaves it to AUX.
RcgOf(c) ==
    CASE c \in UsbMaster -> "usb_master"
      [] c = "sdcc1_apps" -> "sdcc1"
      [] c = "sdcc2_apps" -> "sdcc2"
      [] c \in QupSerial \cup {"usb30_prim_mock_utmi", "usb3_prim_phy_aux"} -> c
      [] OTHER -> "none"

\* The rate of the clocks with one rate, in kHz.
FixedRate(c) == IF c \in UsbMaster THEN 200000 ELSE 19200

\* The clocks whose branch reports that it is halted.
halt_check(c) ==
    c \notin {"usb3_prim_phy_pipe", "ddrss_gpu_axi", "gpu_gpll0_clk_src", "gpu_gpll0_div_clk_src",
              "gpu_memnoc_gfx", "lpass_cfg_noc_sway", "gpll0_out_main"}

SDCC1_APPS_RATES ==
    {Entry(144, 0, 31, 3, 25), Entry(400, 0, 23, 1, 4), Entry(19200, 0, 1, 0, 0),
     Entry(20000, 6, 9, 1, 3), Entry(25000, 6, 11, 1, 2), Entry(50000, 6, 11, 0, 0),
     Entry(100000, 6, 5, 0, 0), Entry(192000, 2, 3, 0, 0), Entry(384000, 2, 1, 0, 0)}

SDCC2_APPS_RATES ==
    {Entry(400, 0, 23, 1, 4), Entry(9600, 0, 3, 0, 0), Entry(19200, 0, 1, 0, 0),
     Entry(25000, 6, 23, 0, 0), Entry(50000, 6, 11, 0, 0), Entry(100000, 6, 5, 0, 0),
     Entry(202000, 3, 7, 0, 0)}

apps_rates == [sdcc1 |-> SDCC1_APPS_RATES, sdcc2 |-> SDCC2_APPS_RATES]

\* The sources that the selectors name, in kHz: XO, GPLL0, GPLL6, GPLL7, GPLL0/2.
SourceRate == [s \in {0, 1, 2, 3, 6} |->
    CASE s = 0 -> 19200 [] s = 1 -> 600000 [] s = 2 -> 384000 [] s = 3 -> 808000 [] OTHER -> 300000]

HwRate(w) == Output(w, SourceRate[w.source], 255)

\* Mutant: the nearest rate above the request.
CeilRate(group, rate) == {e \in apps_rates[group] : e.rate >= rate /\
    \A f \in apps_rates[group] : f.rate >= rate => e.rate <= f.rate}

\* sdcc_apps_rate_for_request: the fastest entry that does not exceed the request;
\* the set is empty when the request is below the table (InvalidRate).
sdcc_apps_rate_for_request(group, rate) == {e \in apps_rates[group] : e.rate <= rate /\
    \A f \in apps_rates[group] : f.rate <= rate => f.rate <= e.rate}

-----------------------------------------------------------------------------
VARIABLES
    used,       \* the clocks of this behaviour
    probe,      \* "deferred" until the parent domain is on, "done" or "failed"
    bits,       \* clocks whose enable bit or vote is set
    running,    \* clocks that are not halted
    cfg, live,  \* words in the registers and words in force, per generator
    pending,    \* generators whose update bit is still set
    cell,       \* the rates that recalc_rate reports
    settled,    \* generators whose rate the latest call promises
    asked,      \* what the latest successful set_rate asked for
    usb,        \* the USB power domain and its resets
    timeouts

vars == <<used, probe, bits, running, cfg, live, pending, cell, settled, asked, usb, timeouts>>

Rcgs == {RcgOf(c) : c \in used} \ {"none"}
Idle == [source |-> 0, div |-> 1, dual |-> FALSE, mnd |-> <<1, 254, 253>>]
Fast == [source |-> 6, div |-> 5, dual |-> FALSE, mnd |-> <<1, 254, 253>>]
USB_RESETS == {"qusb2phy_prim", "usb30_prim", "usb3_dp_phy_prim", "usb3_phy_prim"}

\* Firmware leaves generators and branches in an arbitrary state.
Init ==
    /\ used \in Consumers
    /\ probe = "deferred"
    /\ bits \in {{}, used} /\ running = bits
    /\ \E w \in {Idle, Fast} : cfg = [r \in Rcgs |-> w] /\ live = cfg
    /\ pending = {} /\ settled = {} /\ timeouts = 0
    /\ cell = [r \in Rcgs |-> CASE r \in {"sdcc1", "sdcc2"} -> 400
                                [] r = "usb_master" -> 200000 [] OTHER -> 19200]
    /\ asked = cell
    /\ usb = [gdsc |-> "off", reset |-> {}]

Late(ok) == IF ok THEN 0 ELSE 1
Outcomes(waits) == IF waits THEN BOOLEAN ELSE {TRUE}

\* probe_fn: deferred without a parent domain; prepare_display_clocks starts the
\* AHB clock of the GPU's clock controller before any vote for its parents and
\* fails when that branch or the display's stays halted.
ProbeWith(ahb, axi) ==
    /\ probe = "deferred"
    /\ timeouts + Late(ahb) + Late(ahb => axi) <= MaxTimeouts
    /\ timeouts' = timeouts + Late(ahb) + Late(ahb => axi)
    /\ bits' = bits \cup ({"gpu_cfg_ahb"} \cap used)
    /\ running' = IF ahb THEN running \cup ({"gpu_cfg_ahb"} \cap used) ELSE running
    /\ probe' = IF ahb /\ axi THEN "done" ELSE "failed"
    /\ UNCHANGED <<used, cfg, live, pending, cell, settled, asked, usb>>

Probe == \E ahb, axi \in BOOLEAN : ProbeWith(ahb, axi)

\* configure_rcg and configure_sdcc_apps_rcg: write the words, set the update bit
\* and wait for the hardware to clear it.
Configure(r, w, ok) ==
    /\ cfg' = [cfg EXCEPT ![r] = w]
    /\ live' = IF ok THEN [live EXCEPT ![r] = w] ELSE live
    /\ pending' = IF ok THEN pending \ {r} ELSE pending \cup {r}

\* A call that succeeds promises its generator's rate, one that fails does not.
Promise(r, ok) == settled' = IF ok THEN settled \cup {r} ELSE settled \ {r}

\* The words for a generator whose rate cell holds `rate', and the rate they give.
TargetOf(c, rate) ==
    LET r == RcgOf(c)
    IN  IF Kind(c) = "Apps"
        THEN {[w |-> Word(e, 255, cfg[r]), rate |-> e.rate] :
                 e \in sdcc_apps_rate_for_request(r, rate)}
        ELSE {[w |-> [source |-> IF r = "usb_master" THEN 1 ELSE 0, dual |-> FALSE,
                      div |-> IF r = "usb_master" THEN 5 ELSE 1, mnd |-> cfg[r].mnd],
               rate |-> FixedRate(c)]}

\* Mutant: enable trusts the generator that set_rate programmed.
TunesNever(c) == Kind(c) = "Qup"

\* The clocks whose enable programs their generator.
EnableTunes(c) == Kind(c) \in {"PhyAux", "Apps", "Qup"}

\* Clk::enable: the generator first, then the branch or vote, then the wait for
\* the branch to leave its halt state, where the hardware reports it.
Enable(c) ==
    /\ probe = "done" /\ c \in used
    /\ \E tuned \in Outcomes(EnableTunes(c)), up \in Outcomes(halt_check(c)) :
         /\ timeouts + Late(tuned) + Late(tuned => up) <= MaxTimeouts
         /\ timeouts' = timeouts + Late(tuned) + Late(tuned => up)
         /\ IF EnableTunes(c)
              THEN \E t \in TargetOf(c, cell[RcgOf(c)]) : Configure(RcgOf(c), t.w, tuned)
              ELSE UNCHANGED <<cfg, live, pending>>
         /\ IF Kind(c) \in {"PhyAux", "Apps", "Qup"}
              THEN Promise(RcgOf(c), tuned) ELSE UNCHANGED settled
         /\ bits' = IF tuned /\ Kind(c) # "Source" THEN bits \cup {c} ELSE bits
         /\ running' = IF tuned /\ up /\ halt_check(c) THEN running \cup {c} ELSE running
    /\ UNCHANGED <<used, probe, cell, asked, usb>>

\* Mutant: the branch is stopped for every consumer.
MayStopAlways(c) == Kind(c) # "Source"

\* An always-on clock keeps its branch when its consumer lets go.
MayStop(c) == Kind(c) \notin {"AlwaysOn", "Source"}

Disable(c) ==
    /\ probe = "done" /\ c \in bits
    /\ bits' = IF MayStop(c) THEN bits \ {c} ELSE bits
    /\ running' = IF MayStop(c) THEN running \ {c} ELSE running
    /\ UNCHANGED <<used, probe, cfg, live, pending, cell, settled, asked, usb, timeouts>>

\* round_rate: the rates that set_rate accepts for a clock.
Accepts(c, rate) ==
    CASE Kind(c) = "Master" -> rate \in {150000, 200000}
      [] Kind(c) = "Apps" -> TRUE
      [] OTHER -> rate = FixedRate(c)

\* Clk::set_rate: the cell that recalc_rate reports is stored only after the
\* hardware took the new words.
SetRate(c, rate) ==
    /\ probe = "done" /\ c \in used /\ RcgOf(c) # "none" /\ Accepts(c, rate)
    /\ \E t \in TargetOf(c, rate), tuned \in BOOLEAN :
         /\ timeouts + Late(tuned) <= MaxTimeouts
         /\ timeouts' = timeouts + Late(tuned)
         /\ Configure(RcgOf(c), t.w, tuned) /\ Promise(RcgOf(c), tuned)
         /\ cell' = IF tuned THEN [cell EXCEPT ![RcgOf(c)] = t.rate] ELSE cell
         /\ asked' = IF tuned THEN [asked EXCEPT ![RcgOf(c)] = rate] ELSE asked
    /\ UNCHANGED <<used, probe, bits, running, usb>>

\* enable_usb30_prim_gdsc and the reset controller, in the behaviours of the
\* consumer of the USB sleep clock.
UsbPower ==
    /\ probe = "done" /\ "usb30_prim_sleep" \in used
    /\ \/ \E ok \in BOOLEAN :
            /\ timeouts + Late(ok) <= MaxTimeouts /\ timeouts' = timeouts + Late(ok)
            /\ usb' = [usb EXCEPT !.gdsc = IF ok THEN "on" ELSE "rising"]
       \/ \E x \in USB_RESETS :
            /\ usb' = [usb EXCEPT !.reset = IF x \in @ THEN @ \ {x} ELSE @ \cup {x}]
            /\ UNCHANGED timeouts
    /\ UNCHANGED <<used, probe, bits, running, cfg, live, pending, cell, settled, asked>>

\* The hardware takes an update, or starts a branch, after the wait for it ended.
Grant ==
    /\ \/ \E r \in pending :
            /\ live' = [live EXCEPT ![r] = cfg[r]] /\ pending' = pending \ {r}
            /\ UNCHANGED <<running, usb>>
       \/ \E c \in bits \ running :
            running' = running \cup {c} /\ UNCHANGED <<live, pending, usb>>
       \/ /\ usb.gdsc = "rising" /\ usb' = [usb EXCEPT !.gdsc = "on"]
          /\ UNCHANGED <<live, pending, running>>
    /\ UNCHANGED <<used, probe, bits, cfg, cell, settled, asked, timeouts>>

\* The operations of each family of clocks; a simple clock has one rate, and
\* setting it does nothing.
ClockCall(c) == Enable(c) \/ Disable(c) \/ (\E rate \in Requests : SetRate(c, rate))
UsbClock(c) == c \in USB_CLOCKS /\ ClockCall(c)
SdccClock(c) == c \in SDCC_CLOCKS /\ ClockCall(c)
QupSerialClock(c) == c \in QupSerial /\ ClockCall(c)
SimpleClock(c) == c \in GPU_CLOCKS \cup {"lpass_cfg_noc_sway"} /\ (Enable(c) \/ Disable(c))
Gpll0MainClock(c) == c = "gpll0_out_main" /\ (Enable(c) \/ Disable(c))

Next ==
    \/ Probe \/ UsbPower \/ Grant
    \/ \E c \in used : UsbClock(c) \/ SdccClock(c) \/ SimpleClock(c) \/ QupSerialClock(c)
                     \/ Gpll0MainClock(c)

Spec == Init /\ [][Next]_vars

-----------------------------------------------------------------------------
\* A generator for which the latest call succeeded runs at the rate recalc_rate
\* reports, whatever calls timed out before and were granted late, and a card
\* clock runs no faster than the latest set_rate that succeeded asked for.
ReportedIsLive ==
    \A r \in settled :
        /\ HwRate(live[r]) = cell[r]
        /\ r \in {"sdcc1", "sdcc2"} => HwRate(live[r]) <= asked[r]

\* The registers of the GPU's clock controller stay reachable once the probe
\* succeeded: no consumer that lets go of its AHB clock stops it.
GpuCcReachable == probe = "done" /\ "gpu_cfg_ahb" \in used => "gpu_cfg_ahb" \in running
=============================================================================
