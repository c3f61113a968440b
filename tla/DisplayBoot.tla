---------------------------- MODULE DisplayBoot ----------------------------
(* Bringing up the panel: the display clock controller (DISP_CC), the DSI  *)
(* host and PHY, the SN65DSI86 bridge with its AUX channel, and the DPU    *)
(* (drivers/clk/qcom-sc7180-dispcc, drivers/display).  The firmware leaves *)
(* the hardware as its own splash screen needed it.  A probe is a sequence *)
(* of steps and stops at the first that fails; nothing is switched off     *)
(* then.  A deferred probe runs again.  One probe runs at a time, so that  *)
(* the steps of a group are taken in one action.                           *)
EXTENDS Integers, Sequences, FiniteSets, SequencesExt

CONSTANTS Panels,   \* panels that may be attached: a timing, and the lanes and rate of its sink
          NoTiming

VARIABLES
    hw,       \* registers, see Inherited
    panel,    \* timing and sink of the panel that is attached
    bridge,   \* the bridge's probe: "no", "up" or "failed"
    probe,    \* the display's probe: "no", "up" or "failed"
    mode,     \* the timing that the driver has read from the panel, or NoTiming
    todo      \* the groups of steps that are left of the display's probe
vars == <<hw, panel, bridge, probe, mode, todo>>

Foundation == <<"non_gdsc_ahb", "gdsc", "ahb", "mdp", "vsync">>
LinkClocks == <<"esc0", "pclk0", "byte0", "byte0_intf">>

\* Settings of the previous owner that must not survive: the test-pattern FIFO of
\* coreboot, the stop bit of the interface, a disabled scrambler, and a video stream.
Leftovers == {"test_pattern", "stop_mode", "scrambler_off", "stream"}

\* Clocks and leftovers are arbitrary; a branch that runs without its domain does not exist.
Inherited ==
    {[on |-> on, root |-> {}, left |-> left, gpio |-> FALSE, hpd |-> hpd, refclk |-> FALSE,
      phy |-> "off", timed |-> FALSE, host |-> "off", dpu |-> "off", pll |-> FALSE,
      link |-> "off", rate |-> 0, lanes |-> 0, video |-> FALSE, scanout |-> FALSE,
      light |-> FALSE, early |-> {}] :
        on \in {{}, {"non_gdsc_ahb"}, {"non_gdsc_ahb", "gdsc", "ahb"}, ToSet(Foundation)},
        left \in {{}, Leftovers}, hpd \in BOOLEAN}

Init ==
    /\ hw \in Inherited /\ panel \in Panels
    /\ bridge = "no" /\ probe = "no" /\ mode = NoTiming /\ todo = <<>>

-----------------------------------------------------------------------------
(* The timing of the panel *)

\* Bits hi to lo of a number.
Bits(x, hi, lo) == (x \div 2^lo) % 2^(hi - lo + 1)

\* The detailed timing descriptor as VESA lays it out, byte 0 first.
Descriptor(t) ==
    <<(t.khz \div 10) % 256, (t.khz \div 10) \div 256, t.hactive % 256, t.hblank % 256,
      Bits(t.hactive, 11, 8) * 16 + Bits(t.hblank, 11, 8), t.vactive % 256, t.vblank % 256,
      Bits(t.vactive, 11, 8) * 16 + Bits(t.vblank, 11, 8), t.hoff % 256, t.hsync % 256,
      (t.voff % 16) * 16 + (t.vsync % 16),
      Bits(t.hoff, 9, 8) * 64 + Bits(t.hsync, 9, 8) * 16 + Bits(t.voff, 5, 4) * 4
        + Bits(t.vsync, 5, 4)>>

decode(d) ==
    LET b(i) == d[i + 1] IN
    [khz |-> (b(0) + 256 * b(1)) * 10,
     hactive |-> b(2) + Bits(b(4), 7, 4) * 256, hblank |-> b(3) + Bits(b(4), 3, 0) * 256,
     vactive |-> b(5) + Bits(b(7), 7, 4) * 256, vblank |-> b(6) + Bits(b(7), 3, 0) * 256,
     hoff |-> b(8) + Bits(b(11), 7, 6) * 256, hsync |-> b(9) + Bits(b(11), 5, 4) * 256,
     voff |-> Bits(b(10), 7, 4) + Bits(b(11), 3, 2) * 16,
     vsync |-> Bits(b(10), 3, 0) + Bits(b(11), 1, 0) * 16]

horizontal_back_porch(t) == t.hblank - t.hoff - t.hsync
vertical_back_porch(t) == t.vblank - t.voff - t.vsync
validate(t) ==
    /\ t.khz # 0 /\ t.hactive # 0 /\ t.vactive # 0
    /\ horizontal_back_porch(t) >= 0 /\ vertical_back_porch(t) >= 0
preferred_timing(d) == IF validate(decode(d)) THEN decode(d) ELSE NoTiming

\* The AUX channel: what a transaction of n bytes returns for a reply of the bridge.
AUX_MAX_PAYLOAD == 16
Replies == [status : {"done", "i2c", "unsent", "timeout", "deferred", "nack", "short"},
            length : {0, 2, 16, 17}]
aux_transfer_locked(n, reply) ==
    CASE n = 0 \/ n > AUX_MAX_PAYLOAD -> "InvalidArgument"
      [] reply.status = "i2c" -> "I2c"
      [] reply.status \in {"unsent", "timeout"} -> "Timeout"
      [] reply.status = "deferred" -> "Deferred"
      [] reply.status = "nack" -> "Nack"
      [] reply.status = "short" /\ reply.length > n -> "InvalidArgument"
      [] reply.status = "short" /\ reply.length # n -> "ShortReply"
      [] OTHER -> "Ok"

\* A range goes in chunks of 16 bytes, and its first bad chunk fails it.
Good == [status |-> "done", length |-> 16]
Chunks(n) == [i \in 1 .. (n + 15) \div 16 |-> IF i * 16 > n THEN n % 16 ELSE 16]
dpcd(n, bad, reply) ==
    LET results == [i \in DOMAIN Chunks(n) |->
                        aux_transfer_locked(Chunks(n)[i], IF i = bad THEN reply ELSE Good)]
        failed == SelectSeq(results, LAMBDA e : e # "Ok")
    IN IF failed = <<>> THEN "Ok" ELSE Head(failed)
read_edid_block(bad, reply) ==
    LET offset == aux_transfer_locked(1, IF bad = 0 THEN reply ELSE Good)
    IN IF offset # "Ok" THEN offset ELSE dpcd(128, bad, reply)

\* One or two blocks, each with its checksum: the results that its callers tell apart.
read_edid ==
    {IF read_edid_block(bad, reply) = "Ok" /\ sum THEN "Ok" ELSE "failed" :
        bad \in {0, 1, 8}, reply \in Replies, sum \in BOOLEAN}

-----------------------------------------------------------------------------
(* The DSI PHY: its PLL and the timing of its lanes *)

DSI_LANES == 4
DSI_BITS_PER_PIXEL == 24
BitClock(t) == (t.khz * DSI_BITS_PER_PIXEL) \div DSI_LANES   \* kHz

MINIMUM_VCO == 1000000
DIVIDERS == <<<<2, 11>>, <<4, 5>>, <<2, 9>>, <<8, 2>>, <<1, 15>>, <<2, 7>>, <<1, 13>>, <<4, 3>>,
              <<1, 11>>, <<2, 5>>, <<1, 9>>, <<8, 1>>, <<1, 7>>, <<2, 3>>, <<1, 5>>, <<4, 1>>,
              <<1, 3>>, <<2, 1>>, <<1, 1>>>>
calculate_dividers(t) ==
    LET fits == SelectSeq(DIVIDERS, LAMBDA d : BitClock(t) * d[1] * d[2] > MINIMUM_VCO)
    IN IF fits = <<>> THEN 0 ELSE BitClock(t) * Last(fits)[1] * Last(fits)[2]

\* 18 bits of fraction of the VCO over twice 19.2 MHz, in three registers.
calculate_pll_rate(vco) ==
    LET fraction == ((vco % 38400) * 512) \div 75
    IN [decimal |-> vco \div 38400, low |-> fraction % 256, mid |-> Bits(fraction, 15, 8),
        high |-> Bits(fraction, 17, 16)]

\* Division that truncates, rounded away from zero.
DivCeilPositive(n, d) == (n + d - 1) \div d
signed_div_ceil(n, d) == IF n >= 0 THEN DivCeilPositive(n, d) ELSE -DivCeilPositive(-n, d)
interpolate(maximum, minimum, percent) ==
    LET value == signed_div_ceil((maximum - minimum) * percent, 100) + minimum
    IN IF value < 0 THEN 0 ELSE value

calculate_timings(t) ==
    LET ui == 1000000000 \div BitClock(t)
        x8 == 8 * ui
        prepare == interpolate(95000 \div x8, signed_div_ceil(38000, x8), 50)
        zeroMin == signed_div_ceil(300000 - prepare * x8, x8) - 1
        zero == interpolate(IF zeroMin > 255 THEN 511 ELSE 255, zeroMin, 2)
        hsPrepare == interpolate((85000 + 6 * ui) \div x8, signed_div_ceil(40000 + 4 * ui, x8), 50)
        request == signed_div_ceil(50000 - x8, x8)
        preMin == signed_div_ceil(x8 + prepare * x8 + ((zero + 3) * 8 + 11) * ui
                                    + (request * 8 + 8) * ui, x8) - 1
    IN [clock_prepare |-> prepare, clock_zero |-> zero, hs_prepare |-> hsPrepare,
        clock_trail |-> interpolate((85000 + 15 * ui) \div x8, signed_div_ceil(60000 + 3 * ui, x8), 30),
        hs_zero |-> interpolate(255, signed_div_ceil(145000 + 10 * ui - hsPrepare * x8, x8) - 1, 10),
        hs_trail |-> interpolate((85000 + 12 * ui) \div x8 - 1,
                                 signed_div_ceil(60000 + 4 * ui, x8) - 1, 30),
        hs_request |-> request,
        hs_exit |-> interpolate(255, signed_div_ceil(100000, x8) - 1, 10),
        clock_post |-> interpolate(63, signed_div_ceil(60000 + 9 * ui, x8) - 1, 10),
        clock_pre |-> IF preMin > 63 THEN interpolate(126, preMin, 10) \div 2
                      ELSE interpolate(63, preMin, 10)]
timing_value(t) == \A f \in DOMAIN calculate_timings(t) : calculate_timings(t)[f] >= 0

\* The line at which fetching starts ahead of a frame, in pixels, or 0 for no prefetch;
\* the subtraction wraps.
MAXIMUM_PREFILL_LINES == 24
configure_fetch_start(t) ==
    LET total == t.vactive + t.vblank
        line == t.hactive + t.hblank
        needed == MAXIMUM_PREFILL_LINES - t.vblank + t.voff
        available == IF t.voff < needed THEN t.voff ELSE needed
    IN IF t.vblank - t.voff + 1 >= MAXIMUM_PREFILL_LINES THEN 0
       ELSE (total - available) * line + line + 1

-----------------------------------------------------------------------------
(* The link of the bridge *)

DP_RATE_MBPS == <<1620, 2160, 2430, 2700, 3240, 4320, 5400>>
required_dp_rate_raw(t, lanes) == DivCeilPositive(t.khz * 24, lanes * 1000)
required_dp_rate_mbps(t, lanes) == DivCeilPositive(t.khz * 24 * 10, lanes * 8 * 1000)
select_dp_rate(t, sink) ==
    LET max == CASE sink.rate = 6 -> 1 [] sink.rate = 10 -> 4 [] OTHER -> 7
        fits == SelectSeq(<<1, 4, 7>>, LAMBDA s : s <= max
                             /\ DP_RATE_MBPS[s] >= required_dp_rate_mbps(t, sink.lanes))
    IN IF sink.lanes = 0 \/ fits = <<>> THEN 0 ELSE Head(fits)

configure_timing_registers(t) ==
    \A porch \in {horizontal_back_porch(t), vertical_back_porch(t), t.hoff, t.voff} : porch < 256

-----------------------------------------------------------------------------
(* The steps of the two probes *)

\* What a step must find, from the comments of the code and the data sheets it cites.
Prepared(r, step) ==
    CASE step = "dsi reset" -> ToSet(LinkClocks) \subseteq r.on
      [] step = "stream on" -> r.pll /\ r.link = "normal" /\ "scrambler_off" \notin r.left
      [] step = "start" ->
           /\ ToSet(Foundation) \cup ToSet(LinkClocks) \subseteq r.on
           /\ {"pclk0", "byte0"} \subseteq r.root
           /\ r.phy = "locked" /\ r.timed /\ r.host = "video"
           /\ r.gpio /\ ~r.hpd /\ r.refclk /\ r.video /\ r.scanout /\ r.left = {}
      [] step = "light" -> r.dpu = "started"
      [] OTHER -> TRUE

\* The effect of a step on the registers of each block.
enable_branch(r, clock) == [r EXCEPT !.on = @ \cup {clock}]
configure_root(r) == [r EXCEPT !.root = @ \cup {"pclk0", "byte0"}]
prepare_common_block(r) == [r EXCEPT !.phy = "prepared"]
enable_lanes(r) == [r EXCEPT !.phy = "lanes"]
start_pll(r) == [r EXCEPT !.phy = "locked"]
reset_phy(r) == [r EXCEPT !.phy = "off"]
reset_host(r) == [r EXCEPT !.host = "reset", !.left = @ \ {"test_pattern"}]
configure_host(r) == [r EXCEPT !.host = "lanes"]
enable_video(r) == [r EXCEPT !.host = "video"]
configure_timing(r) == [r EXCEPT !.timed = TRUE]
configure_timing_generator(r) == [r EXCEPT !.left = @ \ {"stop_mode"}]
configure(r) == [configure_timing_generator(r) EXCEPT !.dpu = "configured"]
start(r) == [r EXCEPT !.dpu = "started"]
stream(r, on) == [r EXCEPT !.video = on, !.left = @ \ {"stream"}]
Effect(r, step) ==
    CASE step \in ToSet(Foundation) \cup ToSet(LinkClocks) -> enable_branch(r, step)
      [] step = "link roots" -> configure_root(r)
      [] step = "gpio" -> [r EXCEPT !.gpio = TRUE]
      [] step = "hpd" -> [r EXCEPT !.hpd = FALSE]
      [] step = "refclk" -> [r EXCEPT !.refclk = TRUE]
      [] step = "scanout" -> [r EXCEPT !.scanout = TRUE]
      [] step = "phy reset" -> reset_phy(r)
      [] step = "phy common" -> prepare_common_block(r)
      [] step = "phy lanes" -> enable_lanes(r)
      [] step = "phy pll" -> start_pll(r)
      [] step = "dsi timing" -> configure_timing(r)
      [] step = "dsi reset" -> reset_host(r)
      [] step = "dsi host" -> configure_host(r)
      [] step = "dpu" -> configure(r)
      [] step = "video" -> enable_video(r)
      [] step \in {"stream off", "stream on"} -> stream(r, step = "stream on")
      [] step = "pll" -> [r EXCEPT !.pll = TRUE]
      [] step = "scrambler" -> [r EXCEPT !.left = @ \ {"scrambler_off"}]
      [] step = "train" -> [r EXCEPT !.link = "normal"]
      [] step = "start" -> start(r)
      [] step = "light" -> [r EXCEPT !.light = TRUE]
      [] OTHER -> r
Do(r, step) ==
    [Effect(r, step) EXCEPT !.early = IF Prepared(r, step) THEN @ ELSE @ \cup {step}]

\* A branch or a domain that runs already is left alone.
preserve_or_start(r) == SelectSeq(Foundation, LAMBDA c : c \notin r.on)

initialize_reference_clock == <<"hpd", "refclk">>
DsiPhy_initialize == <<"phy common", "dividers", "timings", "phy lanes", "phy pll">>
enable_dsi0 == <<"link roots">> \o LinkClocks
train_link_inherited == <<"pll", "dpcd configuration", "train">>
train_link == <<"pll", "dpcd configuration", "scrambler", "train">>
configure_link ==
    initialize_reference_clock \o <<"sink", "lanes", "stream off">> \o train_link
        \o <<"timing registers", "clear errors", "stream on">>
\* In groups, of which the last is the link and the DPU's start.
initialize ==
    <<initialize_reference_clock \o <<"phy reset">> \o DsiPhy_initialize \o enable_dsi0
        \o <<"dsi timing", "dsi reset", "dsi host", "dpu", "video">>,
      configure_link \o <<"start", "snapshot">>>>

\* Of the display's probe: "defer" steps wait for another driver.
power_panel_path == <<"defer gpio", "gpio", "defer supply">>
Probe(r) ==
    <<preserve_or_start(r) \o <<"defer ec", "defer bridge">> \o power_panel_path
        \o initialize_reference_clock \o <<"edid", "scanout", "resources", "defer irq", "map">>>>
    \o initialize \o <<<<"light", "defer light gpio", "irq", "publish">>>>

Infallible ==
    {"gpio", "phy reset", "phy lanes", "link roots", "dsi timing", "dsi reset", "dsi host", "dpu",
     "video", "start"}
Defers == {"defer ec", "defer bridge", "defer gpio", "defer supply", "defer irq", "defer bus",
           "defer light gpio"}
\* Steps whose outcome the panel decides.
MustFail(step, t, sink) ==
    \/ step = "dividers" /\ calculate_dividers(t) = 0
    \/ step = "timings" /\ ~timing_value(t)
    \/ step = "sink" /\ select_dp_rate(t, sink) = 0
    \/ step = "timing registers" /\ ~configure_timing_registers(t)
AuxResults(step) ==
    IF step = "edid" THEN read_edid ELSE {dpcd(2, 1, reply) : reply \in Replies}
CanFail(step) ==
    /\ step \notin Infallible \cup {"dividers", "timings", "defer bridge"}
    /\ step \in {"edid", "sink", "dpcd configuration"} => AuxResults(step) # {"Ok"}

enable_bridge_gpio == <<"defer gpio", "gpio">>
BridgeSteps == enable_bridge_gpio \o <<"defer bus", "address", "id", "snapshot">>

\* The timing that the EDID holds decides later steps.
ReadMode == preferred_timing(Descriptor(panel[1]))
Blocked(step) ==
    \/ step = "defer bridge" /\ bridge # "up"
    \/ IF ReadMode = NoTiming THEN step = "edid" ELSE MustFail(step, ReadMode, panel[2])

\* The registers after the first n steps.
Linked(r) == [r EXCEPT !.rate = select_dp_rate(ReadMode, panel[2]), !.lanes = panel[2].lanes]
After(steps, n) ==
    LET at[i \in 0 .. n] ==
            IF i = 0 THEN hw ELSE IF steps[i] = "sink" THEN Linked(at[i - 1]) ELSE Do(at[i - 1], steps[i])
    IN at[n]
Mode(steps, n) == IF \E i \in 1 .. n : steps[i] = "edid" THEN ReadMode ELSE mode

Pass(steps) ==
    /\ ~\E i \in DOMAIN steps : Blocked(steps[i])
    /\ hw' = After(steps, Len(steps)) /\ mode' = Mode(steps, Len(steps))

\* Step n fails; its effect may have happened.  A probe that fails frees the scanout
\* buffers, also when the DPU runs already.
Fail(steps, n) ==
    /\ CanFail(steps[n]) \/ Blocked(steps[n])
    /\ ~\E i \in 1 .. n - 1 : Blocked(steps[i])
    /\ LET r == After(steps, n - 1)
       IN \E q \in IF steps[n] \in Defers THEN {r} ELSE {r, Do(r, steps[n])} :
             hw' = [q EXCEPT !.scanout = FALSE]
    /\ mode' = Mode(steps, n - 1)
Status(step) == IF step \in Defers THEN "no" ELSE "failed"

\* A sink that does not answer the bridge's probe is reported and accepted.
ProbeBridge ==
    /\ todo = <<>> /\ bridge = "no" /\ UNCHANGED <<panel, probe, todo>>
    /\ \/ Pass(BridgeSteps) /\ bridge' = "up"
       \/ \E n \in DOMAIN BridgeSteps : Fail(BridgeSteps, n) /\ bridge' = Status(BridgeSteps[n])
ProbeDisplay ==
    /\ probe = "no" /\ UNCHANGED <<panel, bridge>>
    /\ LET groups == IF todo = <<>> THEN Probe(hw) ELSE todo
           steps == Head(groups)
       IN \/ /\ Pass(steps) /\ todo' = Tail(groups)
             /\ probe' = IF todo' = <<>> THEN "up" ELSE "no"
          \/ /\ todo' = <<>>
             /\ \E n \in DOMAIN steps : Fail(steps, n) /\ probe' = Status(steps[n])

Next == ProbeBridge \/ ProbeDisplay
Spec == Init /\ [][Next]_vars

-----------------------------------------------------------------------------
(* Properties *)

\* Nothing starts before what it needs, whatever the firmware left and however often the
\* probe was deferred: the DPU only when the domain, the clocks, the PHY's PLL, the video
\* host and the bridge's stream run with nothing of the firmware's display left over, the
\* stream only on a trained and scrambled link, the reset of the host only while its link
\* clocks run, and the backlight only behind a picture.
StartsPrepared == hw.early = {}

\* A panel that is brought up shows its own mode: the timing read is the panel's, the
\* link carries its pixels at a rate the sink has, the PLL makes its bit clock, and every
\* lane timing fits its register and meets the D-PHY minimum of 300 ns for prepare + zero.
ModeIsCarried ==
    probe = "up" =>
      LET t == panel[1]
          sink == panel[2]
          vco == calculate_dividers(t)
          p == calculate_pll_rate(vco)
          lanes == calculate_timings(t)
          error == vco * 512 - (p.decimal * 38400 * 512 + (p.low + 256 * p.mid + 65536 * p.high) * 75)
      IN /\ mode = t
         /\ DP_RATE_MBPS[hw.rate] * sink.lanes * 8 * 100 >= t.khz * 24
         /\ sink.rate \in {6, 10} => DP_RATE_MBPS[hw.rate] <= sink.rate * 270
         /\ vco > MINIMUM_VCO /\ vco % BitClock(t) = 0 /\ 0 <= error /\ error < 75
         /\ \A f \in DOMAIN lanes : lanes[f] \in 0 .. 255
         /\ (lanes.clock_prepare + lanes.clock_zero + 1) * 8 * (1000000000 \div BitClock(t)) >= 300000
         /\ configure_fetch_start(t) <= (t.vactive + t.vblank) * (t.hactive + t.hblank)
                                         + t.hactive + t.hblank + 1
=============================================================================
