----------------------------- MODULE GeniEngine -----------------------------
(***************************************************************************)
(* A Qualcomm GENI serial engine in FIFO mode, as the I2C and SPI drivers  *)
(* use it.  A command shifts a number of bytes, four to a FIFO word; the   *)
(* status bits latch until they are cleared.  A command starts with an     *)
(* empty transmit FIFO; the receive FIFO keeps what nobody read.           *)
(***************************************************************************)
EXTENDS Integers, Sequences, SequencesExt, FiniteSetsExt

CONSTANTS Depth,         \* words in each FIFO
          RxWatermark,   \* words received that set the receive watermark bit
          Failures       \* the ways in which a command fails

\* Bytes from + 1 .. from + n of the command of a turn.
Word(turn, from, n) == [turn |-> turn, from |-> from, n |-> n]

EngineAtRest ==
    [cmd |-> "idle", tx |-> FALSE, rx |-> FALSE, len |-> 0, at |-> 0, bad |-> FALSE,
     turn |-> 0, txf |-> <<>>, rxf |-> <<>>, st |-> {}, wm |-> FALSE]

\* Writes to the command and FIFO registers.  A command on top of a running one is an
\* error, and so is a word on top of a full FIFO.
MasterCommand(h, tx, rx, n) ==
    IF h.cmd = "run" THEN [h EXCEPT !.st = @ \cup {"overrun"}]
    ELSE [h EXCEPT !.cmd = "run", !.tx = tx, !.rx = rx, !.len = n, !.at = 0, !.bad = FALSE,
                   !.txf = <<>>, !.turn = 1 - @]
TxFifo(h, w) ==
    IF Len(h.txf) >= Depth THEN [h EXCEPT !.st = @ \cup {"fifo"}]
    ELSE [h EXCEPT !.txf = Append(@, w)]
Quit(h) == [h EXCEPT !.cmd = "idle"]
\* An engine at rest, without the traces of its last command.
Rested(h) ==
    IF h.cmd = "run" THEN h
    ELSE [h EXCEPT !.tx = FALSE, !.rx = FALSE, !.len = 0, !.at = 0, !.bad = FALSE, !.txf = <<>>]

\* What the engine does by itself.
Shifted(h) ==
    LET n == Min({4, h.len - h.at})
        in == IF h.rx THEN Append(h.rxf, Word(h.turn, h.at, n)) ELSE h.rxf
    IN [h EXCEPT !.at = @ + n, !.rxf = in,
                 !.txf = IF h.tx THEN Tail(@) ELSE @,
                 !.bad = @ \/ (h.tx /\ Head(h.txf) # Word(h.turn, h.at, n)),
                 !.st = @ \cup (IF h.rx /\ Len(in) >= RxWatermark THEN {"rxwm"} ELSE {})
                          \cup (IF h.rx /\ h.at + n = h.len THEN {"rxlast"} ELSE {})]
EngineSteps(h) ==
    (IF h.cmd = "run" /\ h.at < h.len /\ (h.tx => h.txf # <<>>) /\ (h.rx => Len(h.rxf) < Depth)
     THEN {Shifted(h)} ELSE {})
    \cup (IF h.cmd = "run" /\ h.at = h.len THEN {[Quit(h) EXCEPT !.st = @ \cup {"done"}]} ELSE {})
    \cup (IF h.cmd = "run" THEN {[Quit(h) EXCEPT !.st = @ \cup {f}] : f \in Failures} ELSE {})
    \cup (IF h.wm /\ Len(h.txf) <= 1 /\ "txwm" \notin h.st
          THEN {[h EXCEPT !.st = @ \cup {"txwm"}]} ELSE {})
=============================================================================
