--------------------------- MODULE MCControllers ---------------------------
(* The controllers and devices that drivers program directly: pin control, *)
(* the clock controllers, the votes placed with the power controller, the  *)
(* GMU, the SD host, the USB host, the display, the serial engines, audio, *)
(* the input devices, the motion sensors and the source of entropy.  They  *)
(* share no state in the code, so that a behaviour exercises one of them,  *)
(* `unit', and v1 to v22 are its variables; a variable that a unit does    *)
(* not use stays None.                                                     *)
EXTENDS Naturals, Sequences, FiniteSets, TLC

CONSTANTS Callers, Gpios, QupPins, Sdcs, SharedDrive, Unknown, Firmware, g1, g2, s1, s2, s3,
          None, Messages, Levels, MaxBoots, MaxAnswers

VARIABLES unit, v1, v2, v3, v4, v5, v6, v7, v8, v9, v10, v11,
          v12, v13, v14, v15, v16, v17, v18, v19, v20, v21, v22

From14 == <<v14, v15, v16, v17, v18, v19, v20, v21, v22>>
From13 == <<v13, From14>>
From12 == <<v12, From13>>
From11 == <<v11, From12>>
From10 == <<v10, From11>>
From9 == <<v9, From10>>
From8 == <<v8, From9>>
From7 == <<v7, From8>>
From6 == <<v6, From7>>
From5 == <<v5, From6>>
From4 == <<v4, From5>>
vars == <<unit, v1, v2, v3, From4>>

\* States over one or two pads that share them, their registers or their drive bits (s1
\* and s2), and one for each reason to be refused; g1 offers the QUP function and g2 does
\* not.
PinStates(pins, function, drive, input) ==
    [pins : pins, function : function, bias : BOOLEAN, drive : drive, output : BOOLEAN,
     input : input]
Requests ==
    PinStates({<<g1, g2>>}, {"none", "gpio"}, {"even"}, {FALSE})
    \cup PinStates({<<s1>>, <<s2>>, <<s3, g2>>}, {"none"}, {"none", "even"}, {FALSE})
    \cup PinStates({<<g1>>, <<g2, g1>>}, {"qup"}, {"none", "odd"}, {FALSE})
    \cup PinStates({<<s1>>, <<g1>>}, {"none"}, {"even"}, {TRUE})
    \cup PinStates({<<g2, Unknown>>, <<s1>>}, {"gpio"}, {"even"}, {FALSE})

Pins == INSTANCE TlmmPinctrl WITH
    cfg <- v1, lock <- v2, req <- v3, pc <- v4, todo <- v5, copy <- v6

Video == INSTANCE VideoCc WITH
    Threads <- Callers, MaxTimeouts <- 1, on <- v1, l <- v2, rate <- v3, running <- v4, out <- v5, root <- v6,
    live <- v7, op <- v8, todo <- v9, result <- v10, raced <- v11,
    timeouts <- v12

Gmu == INSTANCE A618Gmu WITH
    active <- v1, ready <- v2, rscAsleep <- v3, index <- v4, sequence <- v5,
    boot <- v6, oobHeld <- v7, quiesceFailed <- v8, pc <- v9, why <- v10,
    quiesced <- v11, boots <- v12, cm3 <- v13, rsc <- v14, sptprac <- v15,
    intr <- v16, requests <- v17, held <- v18, vote <- v19, commands <- v20,
    answers <- v21, firmware <- v22

\* Clocks that their consumers use together, and rates around the table entries.
ClockGroups ==
    {{"cfg_noc_usb3_prim_axi", "usb30_prim_master", "usb30_prim_mock_utmi"},
     {"usb3_prim_phy_aux", "usb3_prim_phy_pipe", "usb3_prim_phy_com_aux"},
     {"sdcc1_ahb", "sdcc1_apps"}, {"sdcc2_apps"}, {"qupv3_wrap0_s4", "qupv3_wrap1_s1"},
     {"gpu_cfg_ahb", "ddrss_gpu_axi", "gpu_gpll0_div_clk_src"},
     {"lpass_cfg_noc_sway", "gpll0_out_main"}, {"usb30_prim_sleep"}}

Gcc == INSTANCE GccClocks WITH
    Consumers <- ClockGroups, Requests <- {399, 400, 19200, 26000, 150000, 200000, 400000},
    MaxTimeouts <- 2, used <- v1, probe <- v2, bits <- v3, running <- v4, cfg <- v5,
    live <- v6, pending <- v7, cell <- v8, settled <- v9, asked <- v10, usb <- v11,
    timeouts <- v12

Lpass == INSTANCE LpassClocks WITH
    Threads <- Callers, AudioRates <- {1536, 3072, 19200}, MaxTimeouts <- 2, Nobody <- None,
    used <- v1, state <- v2, job <- v3, cfg <- v4, live <- v5, pending <- v6, cell <- v7,
    settled <- v8, pll <- v9, branches <- v10, gdsc <- v11, timeouts <- v12

GpuClocks == INSTANCE GpuCc WITH
    Threads <- Callers, Handles <- {"cx_gmu", "gmu_clk_src"}, MaxTimeouts <- 1,
    cx <- v1, parent <- v2, votes <- v3, root <- v4, copy <- v5, on <- v6, halted <- v7,
    call <- v8, holder <- v9, sole <- v10, ok <- v11, timeouts <- v12

\* Two layouts of the Command DB: clock domains that interleave the listed order,
\* and one in which every controller but two has a domain of its own.
CommandDb ==
    {[width |-> 4, unit |-> 400, vcd |-> [SH0 |-> 0, MC0 |-> 1, ACV |-> 0, MM1 |-> 1]],
     [width |-> 16, unit |-> 3000, vcd |-> [SH0 |-> 1, MC0 |-> 0, ACV |-> 2, MM1 |-> 1]]}

Rpmh == INSTANCE RpmhVotes WITH
    Layouts <- CommandDb, MaxFaults <- 1, level <- v1, staged <- v2, inForce <- v3,
    inFlight <- v4, enabled <- v5, held <- v6, lowered <- v7, last_peak <- v8, aux <- v9,
    faults <- v10

Sd == INSTANCE Sdhci WITH
    Phases <- 5, Idle <- None, kind <- v1, probe <- v2, held <- v3, h <- v4, retune <- v5,
    old <- v6, next <- v7, sent <- v8, queue <- v9

Usb == INSTANCE UsbHost WITH
    wrapper <- v1, clocks <- v2, reset <- v3, usb2 <- v4, usb3 <- v5, refs <- v6,
    core <- v7, pipe <- v8, probe <- v9, phys <- v10

\* Panels from 640 x 480 to 2560 x 1600, one without a clock and one whose sync pulse is
\* longer than its blanking; sinks with too few lanes, too slow, and with an unknown rate.
Timing(khz, h, v) ==
    [khz |-> khz, hactive |-> h[1], hblank |-> h[2], hoff |-> h[3], hsync |-> h[4],
     vactive |-> v[1], vblank |-> v[2], voff |-> v[3], vsync |-> v[4]]
Sink(lanes, rate) == [lanes |-> lanes, rate |-> rate]
FullHd == Timing(148500, <<1920, 280, 88, 44>>, <<1080, 45, 4, 5>>)
PanelChoices ==
    {<<FullHd, Sink(4, 10)>>, <<FullHd, Sink(2, 6)>>, <<FullHd, Sink(2, 30)>>, <<FullHd, Sink(0, 10)>>,
     <<Timing(25170, <<640, 160, 16, 96>>, <<480, 45, 10, 2>>), Sink(1, 6)>>,
     <<Timing(65000, <<1024, 320, 24, 136>>, <<768, 38, 30, 6>>), Sink(1, 10)>>,
     <<Timing(0, <<1024, 320, 24, 136>>, <<768, 38, 30, 6>>), Sink(1, 10)>>,
     <<Timing(200000, <<2160, 300, 40, 300>>, <<1440, 60, 4, 5>>), Sink(4, 20)>>,
     <<Timing(360000, <<2560, 600, 200, 40>>, <<1600, 50, 40, 5>>), Sink(4, 20)>>}

Display == INSTANCE DisplayBoot WITH
    Panels <- PanelChoices, NoTiming <- None, hw <- v1, panel <- v2, bridge <- v3,
    probe <- v4, mode <- v5, todo <- v6

\* GPU images are named by numbers, as the two scanout buffers are; one is too short.
Flip == INSTANCE PageFlip WITH
    Tiles <- 2, Images <- 2 .. 5, Unaligned <- {5}, Short <- {5}, Capacity <- 2, Nothing <- None,
    source <- v1, live <- v2, flush <- v3, enable <- v4, status <- v5, front <- v6,
    cached <- v7, active <- v8, staging <- v9, job <- v10, lacks <- v11, adrift <- v12,
    foreign <- v13

\* Transfers of one and two messages that are shorter, as long and longer than the
\* FIFOs, one that asks for a stop in its middle, and one that addresses ten bits.
Message(read, len, stop, ten) == [read |-> read, len |-> len, stop |-> stop, ten |-> ten]
I2cTransfers ==
    {<<>>, <<Message(FALSE, 9, FALSE, FALSE)>>, <<Message(TRUE, 6, FALSE, FALSE)>>,
     <<Message(FALSE, 0, FALSE, FALSE)>>,
     <<Message(FALSE, 3, FALSE, FALSE), Message(TRUE, 9, FALSE, FALSE)>>,
     <<Message(FALSE, 5, FALSE, FALSE), Message(FALSE, 2, TRUE, FALSE)>>,
     <<Message(FALSE, 1, FALSE, FALSE), Message(TRUE, 1, FALSE, TRUE)>>}

I2c == INSTANCE GeniI2c WITH
    Depth <- 2, RxWatermark <- 1, Failures <- {"nack", "lost", "failure"},
    Transfers <- I2cTransfers, hw <- v1, msgs <- v2, index <- v3, phase <- v4, off <- v5,
    seen <- v6, right <- v7, held <- v8, result <- v9, unclean <- v10

\* The same for SPI: half and full duplex, the EC's wait for a byte, waits that cannot be,
\* segments that are skipped and refused, a chip that does not exist and one that differs,
\* and speeds that agree, differ, are left open and are slower than the divider reaches.
Segment(tx, rx, len, until, chip, speed) ==
    [tx |-> tx, rx |-> rx, len |-> len, until |-> until, chip |-> chip, speed |-> speed]
Bytes(tx, rx, len, speed) == Segment(tx, rx, len, "no", 0, speed)
SpiTransfers ==
    {<<>>, <<Bytes(TRUE, FALSE, 14, 700)>>, <<Bytes(FALSE, TRUE, 6, 0)>>, <<Bytes(TRUE, TRUE, 5, 0)>>,
     <<Bytes(TRUE, FALSE, 3, 500), Segment(FALSE, TRUE, 0, "ok", 0, 500)>>,
     <<Bytes(TRUE, FALSE, 1, 0), Bytes(FALSE, FALSE, 1, 0)>>, <<Bytes(TRUE, FALSE, 0, 0)>>,
     <<Bytes(FALSE, FALSE, 0, 0), Segment(FALSE, TRUE, 1, "bad", 0, 0)>>,
     <<Bytes(FALSE, TRUE, 1, 0), Bytes(FALSE, FALSE, 0, 0)>>,
     <<Bytes(TRUE, FALSE, 1, 2), Bytes(TRUE, FALSE, 1, 3)>>,
     <<Bytes(TRUE, FALSE, 1, 1), Bytes(TRUE, FALSE, 1, 0)>>,
     <<Segment(TRUE, FALSE, 1, "no", 9, 0)>>, <<Bytes(TRUE, FALSE, 1, 0), Segment(TRUE, FALSE, 1, "no", 9, 0)>>}

Spi == INSTANCE GeniSpi WITH
    Depth <- 4, RxWatermark <- 1, Failures <- {"failure"}, Transfers <- SpiTransfers,
    Chips <- {0}, Speeds <- {0, 2}, Source <- 8190, hw <- v1, segs <- v2, index <- v3, phase <- v4,
    off <- v5, seen <- v6, right <- v7, result <- v8, gpio <- v9, cs <- v10, stuck <- v11,
    wedged <- v12, speed <- v13

Audio == INSTANCE LpassPlayback WITH
    Period <- 2, Periods <- 2, MaxLag <- 5, Jitter <- 1, MaxEnables <- 2, st <- v1, hw <- v2,
    clk <- v3, codec <- v4, call <- v5, work <- v6, irq <- v7, since <- v8, owed <- v9,
    fresh <- v10, overlap <- v11

Touch == INSTANCE TouchScreen WITH
    Reports <- {"touch", "bad"}, MaxQueue <- 2, MaxProbes <- 2, steps <- v1, dev <- v2,
    pin <- v3, handler <- v4, worker <- v5, token <- v6, hid <- v7, probes <- v8

\* Reports of the touchscreen as the contact identifier of each record, 0 without a tip:
\* more contacts than slots, identifiers twice, in another order and all exchanged.
TipReports ==
    {<<>>, <<1, 0>>, <<1, 2>>, <<2, 1>>, <<2, 3>>, <<1, 1>>, <<3, 2, 1>>, <<0, 2>>,
     <<1, 2, 3>>, <<2, 2, 1>>}
Tracker == INSTANCE TouchTracker WITH
    SlotCount <- 2, Tips <- TipReports, MaxTracking <- 6, Nil <- None, idFields <- v1,
    track <- v2, view <- v3, seen <- v4, torn <- v5

\* Descriptors with collections of both kinds, reports that alternate, usages listed and
\* as a range, padding, saved globals, and fields and values that are too large.
HidItem(item, value) == [item |-> item, value |-> value]
HidBlocks ==
    {<<HidItem("page", 13), HidItem("usage", 4), HidItem("collection", 0)>>,
     <<HidItem("collection", 0)>>, <<HidItem("end", 0)>>, <<HidItem("id", 1)>>, <<HidItem("id", 2)>>,
     <<HidItem("push", 0), HidItem("size", 3), HidItem("count", 1)>>, <<HidItem("pop", 0)>>,
     <<HidItem("size", 1), HidItem("count", 1), HidItem("page", 13), HidItem("usage", 66), HidItem("input", 2)>>,
     <<HidItem("size", 5), HidItem("count", 3), HidItem("page", 1), HidItem("min", 48), HidItem("max", 49),
       HidItem("input", 2)>>,
     <<HidItem("page", 1), HidItem("usage", 49), HidItem("usage", 48), HidItem("input", 2)>>,
     <<HidItem("count", 2), HidItem("input", 3)>>, <<HidItem("size", 33)>>, <<HidItem("huge", 1)>>}
Hid == INSTANCE HidLayout WITH
    Blocks <- HidBlocks, MaxBlocks <- 5, MaxBits <- 40, MaxFields <- 4, Ids <- 0 .. 2,
    Nil <- None, p <- v1, blocks <- v2, layout <- v3

\* Positions of one, two and no fingers that move by less and by more than the scale,
\* and one beyond the pad's edge.
PadReport(id, pressed, at) == [id |-> id, pressed |-> pressed, at |-> at]
PadReports ==
    {PadReport("other", TRUE, <<>>), PadReport("abs", FALSE, <<>>)}
    \cup {PadReport("abs", p, at) : p \in BOOLEAN, at \in {<<0>>, <<17>>, <<29, 0>>, <<41>>, [f \in {2} |-> 8]}}
Elan == INSTANCE ElanPad WITH
    MaxPos <- 40, Reports <- PadReports, MaxQueue <- 2, MaxMoved <- 4, Nil <- None,
    queue <- v1, edge <- v2, pending <- v3, worker <- v4, token <- v5, pointer <- v6,
    button <- v7, reader <- v8, origin <- v9, failed <- v10

\* Frames of up to two contacts out of three, and one with more contacts than slots.
Finger(id, active, at) == [id |-> id, active |-> active, at |-> at]
Fingers ==
    {Finger(i, a, x) : i \in 1 .. 3, a \in BOOLEAN, x \in {0, 3}} \cup {Finger(1, TRUE, 4)}
PadFrames ==
    {<<>>, <<Finger(1, TRUE, 0), Finger(2, TRUE, 0), Finger(3, TRUE, 0)>>}
    \cup {<<c>> : c \in Fingers} \cup {<<c, d>> : c \in Fingers, d \in Fingers}
Pad == INSTANCE EcPad WITH
    FINGER_COUNT <- 2, Frames <- PadFrames, MaxMoved <- 4, Nil <- None, bound <- v1,
    state <- v2, reader <- v3, origin <- v4

Inputs == INSTANCE EcInputs WITH
    Keys <- {1, 2}, MaxEvents <- 2, Nil <- None, kind <- v1, supported <- v2, ec <- v3,
    fifo <- v4, steps <- v5, listening <- v6, tracker <- v7, snapshot <- v8, worker <- v9,
    reader <- v10, raced <- v11

\* Time in which the EC's counter wraps around once.
Motion == INSTANCE MotionSense WITH
    Sensors <- {1}, Period <- 2, Wrap <- 8, Capacity <- 2, Batch <- 1, Start <- 6, MaxTime <- 8,
    MaxVectors <- 3, Nil <- None, present <- v1, tight <- v2, proc <- v3, ec <- v4, job <- v5,
    now <- v6, shown <- v7

\* Answers that take one command and more, and frames of one and two bytes.
Entropy == INSTANCE Cr50 WITH
    CmdLen <- 3, HeaderSize <- 2, MaxRandom <- 2, Requests <- {1, 3}, MaxCommands <- 3,
    drv <- v1, call <- v2, buf <- v3, chip <- v4

ASSUME ControllersAssumption ==
    /\ Pins!PinctrlAssumption /\ Video!VideoCcAssumption /\ Gmu!GmuAssumption
    /\ Sd!SdhciAssumption /\ Flip!PageFlipAssumption /\ Audio!LpassAssumption

Unused14 ==
    /\ v14 = None /\ v15 = None /\ v16 = None /\ v17 = None
    /\ v18 = None /\ v19 = None /\ v20 = None /\ v21 = None /\ v22 = None
Unused13 == v13 = None /\ Unused14
Unused12 == v12 = None /\ Unused13
Unused11 == v11 = None /\ Unused12
Unused10 == v10 = None /\ Unused11
Unused9 == v9 = None /\ Unused10
Unused8 == v8 = None /\ Unused9
Unused7 == v7 = None /\ Unused8
Unused6 == v6 = None /\ Unused7
Unused5 == v5 = None /\ Unused6
Unused4 == v4 = None /\ Unused5

Init ==
    \/ unit = "pins" /\ Pins!Init /\ Unused7
    \/ unit = "video" /\ Video!Init /\ Unused13
    \/ unit = "gmu" /\ Gmu!Init
    \/ unit = "gcc" /\ Gcc!Init /\ Unused13
    \/ unit = "lpass" /\ Lpass!Init /\ Unused13
    \/ unit = "gpucc" /\ GpuClocks!Init /\ Unused13
    \/ unit = "rpmh" /\ Rpmh!Init /\ Unused11
    \/ unit = "sdhci" /\ Sd!Init /\ Unused10
    \/ unit = "usb" /\ Usb!Init /\ Unused11
    \/ unit = "panel" /\ Display!Init /\ Unused7
    \/ unit = "flip" /\ Flip!Init /\ Unused14
    \/ unit = "i2c" /\ I2c!Init /\ Unused11
    \/ unit = "spi" /\ Spi!Init /\ Unused14
    \/ unit = "audio" /\ Audio!Init /\ Unused12
    \/ unit = "touch" /\ Touch!Init /\ Unused9
    \/ unit = "tracker" /\ Tracker!Init /\ Unused6
    \/ unit = "hid" /\ Hid!Init /\ Unused4
    \/ unit = "elan" /\ Elan!Init /\ Unused11
    \/ unit = "pad" /\ Pad!Init /\ Unused5
    \/ unit = "inputs" /\ Inputs!Init /\ Unused12
    \/ unit = "motion" /\ Motion!Init /\ Unused8
    \/ unit = "cr50" /\ Entropy!Init /\ Unused5

Next ==
    \/ unit = "pins" /\ Pins!Next /\ UNCHANGED <<unit, From7>>
    \/ unit = "video" /\ Video!Next /\ UNCHANGED <<unit, From13>>
    \/ unit = "gmu" /\ Gmu!Next /\ UNCHANGED unit
    \/ unit = "gcc" /\ Gcc!Next /\ UNCHANGED <<unit, From13>>
    \/ unit = "lpass" /\ Lpass!Next /\ UNCHANGED <<unit, From13>>
    \/ unit = "gpucc" /\ GpuClocks!Next /\ UNCHANGED <<unit, From13>>
    \/ unit = "rpmh" /\ Rpmh!Next /\ UNCHANGED <<unit, From11>>
    \/ unit = "sdhci" /\ Sd!Next /\ UNCHANGED <<unit, From10>>
    \/ unit = "usb" /\ Usb!Next /\ UNCHANGED <<unit, From11>>
    \/ unit = "panel" /\ Display!Next /\ UNCHANGED <<unit, From7>>
    \/ unit = "flip" /\ Flip!Next /\ UNCHANGED <<unit, From14>>
    \/ unit = "i2c" /\ I2c!Next /\ UNCHANGED <<unit, From11>>
    \/ unit = "spi" /\ Spi!Next /\ UNCHANGED <<unit, From14>>
    \/ unit = "audio" /\ Audio!Next /\ UNCHANGED <<unit, From12>>
    \/ unit = "touch" /\ Touch!Next /\ UNCHANGED <<unit, From9>>
    \/ unit = "tracker" /\ Tracker!Next /\ UNCHANGED <<unit, From6>>
    \/ unit = "hid" /\ Hid!Next /\ UNCHANGED <<unit, From4>>
    \/ unit = "elan" /\ Elan!Next /\ UNCHANGED <<unit, From11>>
    \/ unit = "pad" /\ Pad!Next /\ UNCHANGED <<unit, From5>>
    \/ unit = "inputs" /\ Inputs!Next /\ UNCHANGED <<unit, From12>>
    \/ unit = "motion" /\ Motion!Next /\ UNCHANGED <<unit, From8>>
    \/ unit = "cr50" /\ Entropy!Next /\ UNCHANGED <<unit, From5>>

Spec == Init /\ [][Next]_vars

CallerSymmetry == Permutations(Callers)

-----------------------------------------------------------------------------
(* The properties of the modules, each in the behaviours of its unit. *)

\* No read-modify-write undoes another driver's: see TlmmPinctrl.
UpdatesSurvive == unit = "pins" => Pins!UpdatesSurvive

\* What a consumer holds stays fed, short of the exceptions that the properties of the
\* modules state (a set_rate that races, a resource that two domains share): the Venus
\* clocks and domains (VideoCc), the GMU's clock (GpuCc), the bus clock in front of it
\* (GccClocks), the crystal, the power corners and the bandwidth that was voted for
\* (RpmhVotes), and the bit clock and the amplifier of a running stream (LpassPlayback).
HeldStaysFed ==
    /\ unit = "video" => Video!CoreHasSource
    /\ unit = "gpucc" => GpuClocks!GmuClockFed
    /\ unit = "gcc" => Gcc!GpuCcReachable
    /\ unit = "rpmh" => Rpmh!HeldIsVoted /\ Rpmh!PathStaysFast
    /\ unit = "audio" => Audio!StreamPowered

\* The rate that a clock reports after a call that succeeded is the rate at which
\* the hardware runs: see VideoCc, GccClocks and LpassClocks.
ReportedIsLive ==
    /\ unit = "video" => Video!SuccessMeansRate
    /\ unit = "gcc" => Gcc!ReportedIsLive
    /\ unit = "lpass" => Lpass!ReportedIsLive

\* The GPU's rail is on wherever its registers are touched, and a ready GMU has booted
\* completely and runs at the reported index: see A618Gmu.
GmuInStep == unit = "gmu" => Gmu!GxPowered /\ Gmu!FirmwareInStep

\* Hardware starts only with what it needs: the card's pads at the voltage of its rails
\* (Sdhci), a clocked host with its PHYs (UsbHost), and a display pipeline that runs from
\* the domain to the bridge (DisplayBoot).
StartsPrepared ==
    /\ unit = "sdhci" => Sd!LevelsAgree
    /\ unit = "usb" => Usb!HostPrepared
    /\ unit = "panel" => Display!StartsPrepared

\* A call that reports success has done it, short of the exceptions that the properties
\* of the modules state (a flip after one that timed out, an engine that an abort did not
\* stop, a bus that cannot go as slow as was asked): payloads go out tuned (Sdhci), the panel's
\* mode is carried by the link (DisplayBoot), a flip is on the screen (PageFlip), and
\* every byte of a transfer went over the bus (GeniI2c, GeniSpi); an accepted report
\* descriptor yields fields that do not overlap (HidLayout); and the bytes of entropy are
\* as many as were asked for, and fresh (Cr50).
OkIsTrue ==
    /\ unit = "sdhci" => Sd!PayloadTuned
    /\ unit = "panel" => Display!ModeIsCarried
    /\ unit = "flip" => Flip!FlipHappened
    /\ unit = "i2c" => I2c!OkIsTransferred
    /\ unit = "spi" => Spi!OkIsTransferred
    /\ unit = "hid" => Hid!LayoutIsDeclared
    /\ unit = "cr50" => Entropy!EntropyFresh

\* A call that failed keeps nothing: no clock, reset or PHY after a probe (Sdhci, where
\* one failing path keeps the clocks and the mapping; UsbHost), no chip selected after a
\* transfer (GeniSpi).
FailureReleases ==
    /\ unit = "sdhci" => Sd!FailedProbeReleases
    /\ unit = "usb" => Usb!FailedProbeReleases
    /\ unit = "spi" => Spi!ChipReleased

\* What is on the screen is mapped, whole and not drawn into, until a flip times out or a
\* copy fails: see PageFlip.
ScanoutIntact ==
    unit = "flip" => Flip!LiveIsMapped /\ Flip!FrontIsWhole /\ Flip!BackIsHidden

\* What the reader of a stream sees is what the hardware produced: no period is reported
\* twice, early or never (LpassPlayback, unless a stream is started again while the worker
\* or the handler of the one before is under way); no report is left behind with its
\* interrupt off or its edge spent (TouchScreen; ElanPad, unless the read of the report
\* failed, which spends the edge and is only logged); and contacts, movements, buttons and
\* switches are shown as they are (TouchTracker, ElanPad, EcPad; EcInputs, unless an event
\* crosses the boot snapshot of the switches, the subject of RacingEventSettles), as are
\* motion samples, in order and at a time that fits (MotionSense).
StreamIntact ==
    /\ unit = "audio" => Audio!PeriodsExact
    /\ unit = "touch" => Touch!NoReportStranded
    /\ unit = "tracker" => Tracker!ContactsShown
    /\ unit = "elan" => Elan!MotionExact /\ Elan!NoReportStranded
    /\ unit = "pad" => Pad!ReaderAgrees
    /\ unit = "inputs" => Inputs!StateShown
    /\ unit = "motion" => Motion!SamplesShown
=============================================================================
