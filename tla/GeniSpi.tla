------------------------------ MODULE GeniSpi ------------------------------
(***************************************************************************)
(* The FIFO-mode SPI master: the segments of a transfer under one chip     *)
(* select, which is a GPIO or a line of the engine.  A failed command is   *)
(* cancelled, or else aborted, and the receive FIFO drained; every         *)
(* transfer programs the engine anew.  Reading the status, serving the     *)
(* FIFOs and clearing the bits are steps of their own.                     *)
(***************************************************************************)
EXTENDS GeniEngine

CONSTANTS Transfers,   \* sequences of segments [tx, rx, len, until, chip, speed]; until is
                       \* "no", "ok" or "bad", a condition that no byte meets or without bytes
          Chips,       \* the chip selects that exist
          Speeds,      \* what set_bus_speed is asked for
          Source       \* the frequency that the divider starts from

VARIABLES hw, segs, index, phase, off, seen, right, result,
          gpio,      \* the chip selects are GPIOs
          cs,        \* the chip select is asserted
          stuck,     \* a chip select command of the engine was not confirmed
          wedged,    \* an abort was not confirmed
          speed      \* [requested, effective], as programmed last
vars == <<hw, segs, index, phase, off, seen, right, result, gpio, cs, stuck, wedged, speed>>

Init ==
    /\ hw = EngineAtRest /\ segs = <<>> /\ index = 1 /\ phase = "idle"
    /\ off = [tx |-> 0, rx |-> 0, tries |-> 0] /\ seen = {} /\ right = TRUE /\ result = "none"
    /\ gpio \in BOOLEAN /\ cs = FALSE /\ stuck = FALSE /\ wedged = FALSE
    /\ speed = [requested |-> Source, effective |-> Source]

\* The divider rounds up and is clamped to its field.
DividerMax == 4095

\* Mutant: the divider rounds down.
program_speed_down(hz) ==
    LET divider == Max({1, Min({DividerMax, Source \div hz})}) IN
    [requested |-> hz, effective |-> Source \div divider]

program_speed(hz) ==
    LET divider == Max({1, Min({DividerMax, (Source + hz - 1) \div hz})}) IN
    [requested |-> hz, effective |-> Source \div divider]

segment == segs[index]
initialize_undrained(h) == [h EXCEPT !.st = {}]
initialize_fifo_mode(h) == [h EXCEPT !.st = {}, !.rxf = <<>>]

\* The bytes of one command: a read_until reads one at a time.
length == IF segment.until = "no" THEN segment.len ELSE 1

\* The segments share a chip select, and their speeds agree or are left to the last one
\* programmed.
SpeedsOf(ss) == {s.speed : s \in ToSet(ss)} \ {0}
ChipsOf(ss) == {s.chip : s \in ToSet(ss)}
transfer(ss) ==
    /\ phase = "idle" /\ UNCHANGED <<off, seen, gpio, wedged, stuck, cs>>
    /\ IF Cardinality(ChipsOf(ss)) # 1 \/ Cardinality(SpeedsOf(ss)) > 1
       THEN result' = "InvalidArg" /\ UNCHANGED <<hw, segs, index, phase, right, speed>>
       ELSE /\ segs' = ss /\ index' = 1 /\ right' = TRUE /\ result' = "none"
            /\ speed' = program_speed(IF SpeedsOf(ss) = {} THEN speed.effective
                                      ELSE CHOOSE hz \in SpeedsOf(ss) : TRUE)
            /\ hw' = initialize_fifo_mode(hw) /\ phase' = "select"

set_bus_speed(hz) ==
    /\ phase = "idle" /\ speed' = (IF hz = 0 THEN speed ELSE program_speed(hz))
    /\ UNCHANGED <<hw, segs, index, phase, off, seen, right, result, gpio, cs, stuck, wedged>>

Return(r, h) ==
    /\ phase' = "idle" /\ result' = r /\ hw' = Rested(h)
    /\ segs' = <<>> /\ index' = 1 /\ off' = [tx |-> 0, rx |-> 0, tries |-> 0] /\ seen' = {}

\* recover_command: the engine confirms the cancel or the abort, or neither.
Recovered == {initialize_fifo_mode([Quit(hw) EXCEPT !.wm = FALSE]),
              initialize_fifo_mode([hw EXCEPT !.wm = FALSE])}

\* set_chip_select by a command of the engine, which is confirmed (ok) or times out and is
\* recovered.  A running command refuses it; its end may then pass for the confirmation.
issue_chip_select_command(on, ok) ==
    /\ \/ ok /\ hw.cmd = "idle" /\ cs' = on /\ stuck' = stuck
       \/ hw.cmd = "run" /\ cs' = cs /\ stuck' = TRUE
       \/ ~ok /\ hw.cmd = "idle" /\ cs' \in {cs, on} /\ stuck' = TRUE
    /\ wedged' = wedged
set_chip_select(on, ok) ==
    IF gpio THEN ok /\ cs' = on /\ UNCHANGED <<stuck, wedged>> ELSE issue_chip_select_command(on, ok)
Settled(ok) == IF gpio THEN {hw} ELSE IF ok THEN {[hw EXCEPT !.st = {}]} ELSE Recovered
select ==
    /\ phase = "select" /\ UNCHANGED <<gpio, right, speed>>
    /\ \/ /\ ChipsOf(segs) \cap Chips = {} /\ Return("InvalidArg", hw)
          /\ UNCHANGED <<cs, stuck, wedged>>
       \/ /\ ChipsOf(segs) \subseteq Chips
          /\ \E ok \in BOOLEAN : \E h \in Settled(ok) :
               /\ set_chip_select(TRUE, ok)
               /\ IF ok THEN phase' = "segment" /\ hw' = h /\ UNCHANGED <<segs, index, off, seen, result>>
                  ELSE Return("Timeout", h)

\* The end of the segments' loop: the chip select is released whatever happened.
FinishHeld(r) == phase' = (IF r = "Ok" THEN "deselect" ELSE "idle") /\ result' = r
Finish(r) == phase' = "deselect" /\ result' = r
deselect ==
    /\ phase = "deselect" /\ UNCHANGED <<gpio, right, speed>>
    /\ \E ok \in BOOLEAN : \E h \in Settled(ok) :
         /\ set_chip_select(FALSE, ok)
         /\ Return(IF result = "Ok" /\ ~ok THEN "Timeout" ELSE result, h)

\* The loop over the segments.
Proceed ==
    IF index = Len(segs) THEN Finish("Ok") /\ UNCHANGED index
    ELSE index' = index + 1 /\ phase' = "segment" /\ UNCHANGED result

\* A segment that asks for nothing is skipped; a read_until reads only, and has a condition
\* that a byte can meet; otherwise there is something to send or to receive, and bytes.
Nothing == segment.until = "no" /\ ~(segment.tx \/ segment.rx) /\ segment.len = 0
Refused == IF segment.until = "no" THEN segment.len = 0 \/ ~(segment.tx \/ segment.rx)
           ELSE ~segment.rx \/ segment.tx \/ segment.until = "bad"

\* The head of the loop, and run_transfer up to the start of the command.
run_transfer ==
    /\ phase = "segment" /\ UNCHANGED <<segs, gpio, wedged, right, speed, cs, stuck>>
    /\ off' = [off EXCEPT !.tx = 0, !.rx = 0] /\ seen' = {}
    /\ CASE Nothing -> Proceed /\ UNCHANGED hw
         [] ~Nothing /\ Refused -> Finish("InvalidArg") /\ UNCHANGED <<hw, index>>
         [] OTHER -> phase' = "command" /\ hw' = [hw EXCEPT !.st = {}] /\ UNCHANGED <<result, index>>
start_command ==
    /\ phase = "command" /\ phase' = "poll"
    /\ hw' = [MasterCommand(hw, segment.tx, segment.rx, length) EXCEPT !.wm = segment.tx]
    /\ UNCHANGED <<segs, index, off, seen, right, result, gpio, cs, stuck, wedged, speed>>

\* An error, the deadline or bytes that are missing: the command is recovered.
ErrorMask == {"overrun", "failure", "fifo"}
recover_command(r) ==
    /\ hw' \in Recovered /\ wedged' = (wedged \/ hw'.cmd = "run")
    /\ Finish(r)
poll ==
    /\ phase = "poll" /\ UNCHANGED <<segs, index, off, right, gpio, cs, stuck, speed>>
    /\ IF hw.st \cap ErrorMask # {} THEN recover_command("BusError") /\ UNCHANGED seen
       ELSE /\ hw.st # {} /\ phase' = "serve" /\ seen' = hw.st
            /\ UNCHANGED <<hw, result, wedged>>
deadline ==
    /\ phase = "poll" /\ UNCHANGED <<segs, index, off, seen, right, gpio, cs, stuck, speed>>
    /\ recover_command("Timeout")

\* At most Depth - 1 words are written; the last word received says how many of its bytes
\* are valid.
fill_tx_fifo(h, from) ==
    LET count == Min({length - from, (Depth - 1) * 4})
        words == [i \in 1 .. (count + 3) \div 4 |->
                    Word(h.turn, from + (i - 1) * 4, Min({4, count - (i - 1) * 4}))]
    IN [h |-> FoldLeft(TxFifo, h, words), to |-> from + count]
drain_rx_fifo(from) ==
    FoldLeft(LAMBDA acc, w : [to |-> acc.to + Min({w.n, length - acc.to}),
                              right |-> acc.right /\ w = Word(hw.turn, acc.to, w.n)],
             [to |-> from, right |-> right], hw.rxf)
serve ==
    /\ phase = "serve" /\ phase' = "clear"
    /\ UNCHANGED <<segs, index, seen, result, gpio, cs, stuck, wedged, speed>>
    /\ \E a \in {IF "txwm" \in seen /\ segment.tx THEN fill_tx_fifo(hw, off.tx)
                 ELSE [h |-> hw, to |-> off.tx]} :
       \E b \in {IF seen \cap {"rxwm", "rxlast"} # {} /\ segment.rx THEN drain_rx_fifo(off.rx)
                 ELSE [to |-> off.rx, right |-> right]} :
         /\ off' = [off EXCEPT !.tx = a.to, !.rx = b.to] /\ right' = b.right
         /\ hw' = [a.h EXCEPT !.rxf = IF seen \cap {"rxwm", "rxlast"} # {} /\ segment.rx THEN <<>> ELSE @,
                              !.wm = @ /\ a.to < length]

Complete == off.tx = (IF segment.tx THEN length ELSE 0)
              /\ off.rx = (IF segment.rx THEN length ELSE 0)
ClearUnread == [hw EXCEPT !.st = @ \ (seen \ {"done"})]
Clear == [hw EXCEPT !.st = @ \ seen]

\* A segment is one command, or with read_until one command a byte until the byte matches.
MaxBytes == 2
Done ==
    /\ right' = (right /\ hw.at = length /\ ~hw.bad) /\ hw' = Clear /\ wedged' = wedged
    /\ \/ /\ segment.until # "no" /\ off.tries + 1 < MaxBytes
          /\ off' = [off EXCEPT !.tries = @ + 1] /\ phase' = "segment"
          /\ UNCHANGED <<index, result>>
       \/ /\ segment.until # "no" /\ off.tries + 1 = MaxBytes /\ Finish("Timeout")
          /\ UNCHANGED <<index, off>>
       \/ off' = [off EXCEPT !.tries = 0] /\ Proceed
clear ==
    /\ phase = "clear" /\ seen' = {} /\ UNCHANGED <<segs, gpio, cs, stuck, speed>>
    /\ CASE "done" \notin seen ->
              phase' = "poll" /\ hw' = Clear /\ UNCHANGED <<index, off, right, result, wedged>>
         [] "done" \in seen /\ ~Complete ->
              recover_command("Timeout") /\ UNCHANGED <<index, off, right>>
         [] OTHER -> Done

Engine ==
    /\ hw' \in EngineSteps(hw)
    /\ UNCHANGED <<segs, index, phase, off, seen, right, result, gpio, cs, stuck, wedged, speed>>

Next ==
    \/ \E ss \in Transfers : transfer(ss)
    \/ \E hz \in Speeds : set_bus_speed(hz)
    \/ select \/ run_transfer \/ start_command \/ poll \/ deadline \/ serve \/ clear \/ deselect
    \/ Engine
Spec == Init /\ [][Next]_vars

-----------------------------------------------------------------------------
(* Properties *)

\* A transfer that returns Ok has sent every byte and received the bytes of its own
\* commands in order, also after transfers that failed in any way, unless the engine once
\* confirmed neither the cancel nor the abort (wedged).  The bus is no faster than was asked
\* for, or as slow as the divider can make it: a speed below that is not refused.
OkIsTransferred ==
    /\ result = "Ok" /\ phase = "idle" /\ ~wedged => right
    /\ speed.effective <= Max({speed.requested, Source \div DividerMax})

\* No transfer leaves its chip select asserted, however it ends, unless the engine did not
\* confirm a chip select command.
ChipReleased == phase = "idle" /\ ~stuck => ~cs
=============================================================================
