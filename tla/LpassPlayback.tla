--------------------------- MODULE LpassPlayback ---------------------------
(***************************************************************************)
(* Playback through the LPASS: the DMA ring and its bookkeeping, the bit   *)
(* clock and the amplifier.  Three actors touch it: the PCM layer, whose   *)
(* calls do not overlap each other; the worker that turns the ring's       *)
(* position into completed periods; and the interrupt handler, for a bus   *)
(* error or an overrun of the DMA.  Positions are counted in units, Period *)
(* units to a period and Periods periods to the ring.                      *)
(***************************************************************************)
EXTENDS Integers, Sequences, FiniteSetsExt

CONSTANTS Period, Periods,
          MaxLag,      \* units that the DMA may advance unobserved
          Jitter,      \* error of the clock, in units
          MaxEnables   \* bound on the bit clock's count
Ring == Period * Periods
WorkerIdle == [pc |-> "idle", at |-> 0, elapsed |-> 0]
LpassAssumption == {Period, Periods, MaxLag, MaxEnables} \subseteq Nat \ {0} /\ 2 * Jitter < Ring

VARIABLES st,      \* PlaybackState: [mapped, running, queued, last], and fault_completions
          hw,      \* the DMA and its interrupt, and the ring's position
          clk,     \* enables of the bit clock
          codec,   \* [configured, powered, muted]
          call,    \* what is left of a call of the PCM layer
          work,    \* the worker: idle, with a position that it read, or about to stop the DMA
          irq,     \* periods that the handler is about to report; 0 at rest
          since,   \* units since the position was read
          owed,    \* periods played and not reported
          fresh,   \* those of them played after the position was read
          overlap  \* since it was configured, the stream was started with one of them under way
vars == <<st, hw, clk, codec, call, work, irq, since, owed, fresh, overlap>>
count == <<since, owed, fresh>>

Init ==
    /\ st = [mapped |-> FALSE, running |-> FALSE, queued |-> 0, last |-> 0, faults |-> 0]
    /\ hw = [dma |-> FALSE, irq |-> FALSE, at |-> 0]
    /\ clk = 0 /\ codec = [configured |-> FALSE, powered |-> FALSE, muted |-> TRUE]
    /\ call = <<>> /\ work = WorkerIdle /\ irq = 0 /\ since = 0 /\ owed = 0 /\ fresh = 0
    /\ overlap = FALSE

\* The amplifier's enable line (max98360a).
update_output(c) == c.configured /\ c.powered /\ ~c.muted

\* The calls, as their steps in order.  stop drops an enable of the bit clock also when the
\* stream was not started; the clock's count does not fall below zero.
disable_hardware_clock_first == <<"clock off", "quiet", "dma off">>
disable_hardware == <<"quiet", "dma off", "clock off">>
start == <<"clock on", "power on", "run", "dma on", "unmute">>
stop == <<"halt">> \o disable_hardware
release == stop \o <<"unmap">>
configure == <<"quiet", "registers", "map">>

Call(steps) ==
    /\ call = <<>> /\ call' = steps
    /\ UNCHANGED <<st, hw, clk, codec, work, irq, count, overlap>>
Calls ==
    \/ ~st.running /\ Call(configure)
    \/ st.mapped /\ ~st.running /\ st.queued > 0 /\ clk < MaxEnables /\ Call(start)
    \/ Call(stop)
    \/ Call(release)
submit_period ==
    /\ call = <<>> /\ st.mapped /\ st.queued < Periods
    /\ st' = [st EXCEPT !.queued = @ + 1]
    /\ UNCHANGED <<hw, clk, codec, call, work, irq, count, overlap>>

StepSt(s) ==
    CASE s = "run" -> [st EXCEPT !.running = TRUE, !.last = 0, !.faults = 0]
      [] s = "halt" -> [st EXCEPT !.running = FALSE, !.queued = 0]
      [] s = "clock off" -> [st EXCEPT !.faults = 0]
      [] s = "map" -> [mapped |-> TRUE, running |-> FALSE, queued |-> 0, last |-> 0, faults |-> 0]
      [] s = "unmap" -> [st EXCEPT !.mapped = FALSE, !.last = 0]
      [] OTHER -> st
configure_registers == [dma |-> FALSE, irq |-> FALSE, at |-> 0]
Halted(h) == [h EXCEPT !.dma = FALSE, !.irq = FALSE]
StepHw(s) ==
    CASE s = "dma on" -> [dma |-> TRUE, irq |-> TRUE, at |-> 0]
      [] s = "dma off" -> Halted(hw)
      [] s = "registers" -> configure_registers
      [] OTHER -> hw
StepCodec(s) ==
    CASE s = "quiet" -> [codec EXCEPT !.muted = TRUE, !.powered = FALSE]
      [] s = "unmute" -> [codec EXCEPT !.muted = FALSE]
      [] s = "power on" -> [codec EXCEPT !.powered = TRUE]
      [] s = "registers" -> [codec EXCEPT !.configured = TRUE]
      [] OTHER -> codec
StepClk(s) ==
    CASE s = "clock on" -> clk + 1 [] s = "clock off" -> Max({0, clk - 1}) [] OTHER -> clk
Step ==
    /\ call # <<>> /\ call' = Tail(call)
    /\ LET s == Head(call) IN
       /\ st' = StepSt(s) /\ hw' = StepHw(s) /\ codec' = StepCodec(s) /\ clk' = StepClk(s)
       /\ IF s \in {"run", "halt"} THEN since' = 0 /\ owed' = 0 /\ fresh' = 0
          ELSE UNCHANGED count
       /\ overlap' = CASE s = "run" -> overlap \/ work # WorkerIdle \/ irq # 0
                       [] s = "registers" -> FALSE
                       [] OTHER -> overlap
    /\ UNCHANGED <<work, irq>>

\* A configuration may fail before the registers are written.
ConfigureFails ==
    /\ call # <<>> /\ Head(call) = "registers" /\ call' = <<>>
    /\ UNCHANGED <<st, hw, clk, codec, work, irq, count, overlap>>

\* The DMA plays on.  Nothing is counted once the stream is stopped, or after an overlapping start.
Advance ==
    /\ hw.dma /\ since < MaxLag
    /\ hw' = [hw EXCEPT !.at = (@ + 1) % Ring]
    /\ IF overlap \/ ~st.running THEN UNCHANGED count
       ELSE /\ since' = since + 1
            /\ LET ended == IF (hw.at + 1) % Period = 0 THEN 1 ELSE 0
               IN owed' = owed + ended /\ fresh' = fresh + ended
    /\ UNCHANGED <<st, clk, codec, call, work, irq, overlap>>

\* Whole revolutions that the position does not show are taken from the time elapsed.
completed_without_revolutions(last, current, expected) ==
    ((last % Period) + (IF current >= last THEN current - last ELSE Ring - last + current)) \div Period
completed_periods_from_dma_position(last, current, expected) ==
    LET modulo == IF current >= last THEN current - last ELSE Ring - last + current
        revolutions == IF expected > modulo THEN (expected - modulo + Ring \div 2) \div Ring ELSE 0
    IN ((last % Period) + modulo + revolutions * Ring) \div Period

\* process_completions: the time and the position are read before the state is locked.
\* After an overlapping start the position or the time may be of the stream before it,
\* and the periods found are any number.
ReadPosition ==
    /\ work = WorkerIdle /\ UNCHANGED <<hw, clk, codec, call, irq>>
    /\ overlap' = (overlap \/ (st.running /\ ~hw.dma))
    /\ IF st.faults # 0 THEN st' = [st EXCEPT !.faults = 0] /\ UNCHANGED <<work, count>>
       ELSE /\ \E j \in -Jitter .. Jitter :
                 work' = [pc |-> "read", at |-> hw.at,
                          elapsed |-> IF st.running /\ ~overlap' THEN Max({0, since + j}) ELSE 0]
            /\ since' = 0 /\ fresh' = 0 /\ owed' = (IF overlap' THEN 0 ELSE owed) /\ UNCHANGED st
Found ==
    IF overlap THEN 0 .. Periods + 1
    ELSE {completed_periods_from_dma_position(st.last, work.at, work.elapsed)}
process_completions ==
    /\ work.pc = "read" /\ UNCHANGED <<hw, clk, codec, call, irq, overlap>>
    /\ IF ~st.running THEN work' = WorkerIdle /\ UNCHANGED <<st, count>>
       ELSE \E done \in Found :
               /\ IF done > st.queued
                  THEN /\ st' = [st EXCEPT !.last = work.at, !.queued = 0, !.running = FALSE]
                       /\ work' = [WorkerIdle EXCEPT !.pc = "stop"]
                       /\ since' = 0 /\ owed' = 0 /\ fresh' = 0
                  ELSE /\ owed' = (IF overlap THEN 0 ELSE owed - done) /\ UNCHANGED <<since, fresh>>
                       /\ st' = [st EXCEPT !.last = work.at, !.queued = @ - done]
                       /\ work' = WorkerIdle
StopStream ==
    /\ work.pc = "stop" /\ work' = WorkerIdle /\ hw' = Halted(hw)
    /\ UNCHANGED <<st, clk, codec, call, irq, count, overlap>>

\* claim_interrupt for an error of the DMA: every queued period, and one more, is reported.
claim_interrupt ==
    /\ irq = 0 /\ hw.irq /\ hw.dma /\ irq' = st.queued + 1
    /\ st' = [st EXCEPT !.running = FALSE, !.queued = 0] /\ since' = 0 /\ owed' = 0 /\ fresh' = 0
    /\ UNCHANGED <<hw, clk, codec, call, work, overlap>>
handle_stream_error ==
    /\ irq # 0 /\ irq' = 0
    /\ hw' = Halted(hw) /\ st' = [st EXCEPT !.faults = irq]
    /\ UNCHANGED <<clk, codec, call, work, count, overlap>>

Next ==
    \/ Calls \/ submit_period \/ Step \/ ConfigureFails
    \/ Advance \/ ReadPosition \/ process_completions \/ StopStream
    \/ claim_interrupt \/ handle_stream_error
Spec == Init /\ [][Next]_vars

-----------------------------------------------------------------------------
(* Properties *)

\* Every period played is reported once: after a position was used, the periods played
\* and not reported are those that ended since it was read, however late the worker was
\* (by less than half a ring of clock error), unless the worker or the handler was
\* under way when the stream was started again without being configured.
PeriodsExact == st.running /\ work = WorkerIdle /\ ~overlap => owed = fresh

\* The DMA reads only a mapped ring, the amplifier is on only while the bit clock runs,
\* and when everyone is at rest the DMA runs exactly while the stream does.
StreamPowered ==
    /\ hw.dma => st.mapped /\ clk > 0
    /\ update_output(codec) => clk > 0
    /\ call = <<>> /\ work = WorkerIdle /\ irq = 0 /\ ~overlap => hw.dma = st.running
=============================================================================
