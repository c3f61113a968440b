------------------------------ MODULE GeniI2c ------------------------------
(***************************************************************************)
(* The FIFO-mode I2C master: a transfer of several messages under the      *)
(* transfer lock, polled.  Reading the status, serving the FIFOs and       *)
(* clearing the bits that were read are steps of their own: the engine     *)
(* runs between them.                                                      *)
(***************************************************************************)
EXTENDS GeniEngine

CONSTANTS Transfers   \* sequences of messages [read, len, stop, ten]

VARIABLES hw, msgs, index, phase,
          off,      \* bytes put into, or taken from, the FIFO
          seen,     \* the status that was read
          right,    \* every byte so far was the right one
          held,     \* the bus is kept for a further message
          result,
          unclean   \* a failed command left words behind, or went on
vars == <<hw, msgs, index, phase, off, seen, right, held, result, unclean>>

Init ==
    /\ hw = EngineAtRest /\ msgs = <<>> /\ index = 1 /\ phase = "idle" /\ off = 0 /\ seen = {}
    /\ right = TRUE /\ held = FALSE /\ result = "none" /\ unclean = FALSE

\* transfer: the timing is configured, which clears every status bit.
transfer(ms) ==
    /\ phase = "idle"
    /\ msgs' = ms /\ index' = 1 /\ right' = TRUE /\ UNCHANGED <<off, seen, held, unclean>>
    /\ IF ms = <<>> THEN result' = "InvalidArg" /\ UNCHANGED <<hw, phase>>
       ELSE result' = "none" /\ phase' = "message" /\ hw' = [hw EXCEPT !.st = {}]

message == msgs[index]
keep_bus == index < Len(msgs) /\ ~message.stop
Return(r, h) ==
    /\ phase' = "idle" /\ result' = r /\ hw' = Rested(h)
    /\ msgs' = <<>> /\ index' = 1 /\ off' = 0 /\ seen' = {}
    /\ unclean' = (unclean \/ (r # "Ok" /\ (h.cmd = "run" \/ h.rxf # <<>>)))

start_command ==
    /\ phase = "message" /\ UNCHANGED right
    /\ IF message.ten THEN Return("InvalidArg", hw) /\ UNCHANGED held
       ELSE /\ hw' = [MasterCommand(hw, ~message.read /\ message.len > 0,
                                    message.read /\ message.len > 0, message.len)
                        EXCEPT !.wm = ~message.read /\ message.len > 0]
            /\ phase' = "poll" /\ off' = 0 /\ held' = TRUE
            /\ UNCHANGED <<msgs, index, seen, result, unclean>>

ErrorMask == {"overrun", "nack", "lost", "failure"}
status_error(st) == CASE "nack" \in st -> "Nack" [] "lost" \in st -> "ArbitrationLost"
                      [] OTHER -> "BusError"
poll ==
    /\ phase = "poll" /\ UNCHANGED <<right, held>>
    /\ IF hw.st \cap ErrorMask # {} THEN Return(status_error(hw.st), [hw EXCEPT !.wm = FALSE, !.st = {}])
       ELSE /\ phase' = "serve" /\ seen' = hw.st
            /\ UNCHANGED <<hw, msgs, index, off, result, unclean>>

\* Up to Depth - 1 words are pushed, and the watermark is dropped with the last byte.
Push(acc) ==
    LET n == Min({4, message.len - acc.off}) IN
    [h |-> TxFifo(acc.h, Word(acc.h.turn, acc.off, n)), off |-> acc.off + n]
PushAll(acc) == FoldLeft(LAMBDA a, i : IF i > 1 /\ a.off = message.len THEN a ELSE Push(a), acc,
                         [i \in 1 .. Depth - 1 |-> i])
Take(acc, w) ==
    LET n == Min({4, message.len - acc.off}) IN
    [off |-> acc.off + n, right |-> acc.right /\ (n > 0 => w = Word(hw.turn, acc.off, n))]
transfer_write ==
    IF "txwm" \notin seen THEN UNCHANGED <<hw, off>>
    ELSE \E a \in {PushAll([h |-> hw, off |-> off])} :
            /\ off' = a.off
            /\ hw' = IF a.off = message.len THEN [a.h EXCEPT !.wm = FALSE] ELSE a.h
transfer_read ==
    IF seen \cap {"rxwm", "rxlast"} = {} THEN UNCHANGED <<hw, off, right>>
    ELSE \E a \in {FoldLeft(Take, [off |-> off, right |-> right], hw.rxf)} :
            off' = a.off /\ right' = a.right /\ hw' = [hw EXCEPT !.rxf = <<>>]
serve ==
    /\ phase = "serve" /\ phase' = "clear" /\ UNCHANGED <<msgs, index, seen, held, result, unclean>>
    /\ CASE message.len = 0 -> UNCHANGED <<hw, off, right>>
         [] message.len > 0 /\ ~message.read -> transfer_write /\ UNCHANGED right
         [] OTHER -> transfer_read

\* The bits that were read are cleared, and only those.
ClearUnread == [hw EXCEPT !.st = @ \ (seen \ {"done"})]
Clear == [hw EXCEPT !.st = @ \ seen]
clear ==
    /\ phase = "clear"
    /\ CASE "done" \notin seen ->
              /\ phase' = "poll" /\ seen' = {}
              /\ hw' = IF message.len = 0 THEN hw ELSE Clear
              /\ UNCHANGED <<msgs, index, off, right, held, result, unclean>>
         [] "done" \in seen /\ off < message.len ->
              Return("BusError", Clear) /\ held' = keep_bus /\ UNCHANGED right
         [] OTHER ->
              /\ right' = (right /\ off = message.len /\ hw.at = message.len /\ ~hw.bad)
              /\ held' = keep_bus
              /\ IF index = Len(msgs) THEN Return("Ok", Clear)
                 ELSE /\ phase' = "message" /\ hw' = Clear /\ index' = index + 1 /\ seen' = {}
                      /\ UNCHANGED <<msgs, off, result, unclean>>

\* The deadline may pass at any poll.  The abort is confirmed or not.
abort_command ==
    /\ phase = "poll" /\ UNCHANGED <<right, held>>
    /\ \/ Return("Timeout", [Quit(hw) EXCEPT !.wm = FALSE, !.st = {}])
       \/ Return("Timeout", [hw EXCEPT !.wm = FALSE])

Engine == hw' \in EngineSteps(hw) /\ UNCHANGED <<msgs, index, phase, off, seen, right, held, result, unclean>>

Next ==
    \/ \E ms \in Transfers : transfer(ms)
    \/ start_command \/ poll \/ serve \/ clear \/ abort_command
    \/ Engine
Spec == Init /\ [][Next]_vars

-----------------------------------------------------------------------------
(* Properties *)

\* A transfer that returns Ok has put every byte of its writes on the bus and nothing
\* else, has given its reads the bytes of their own commands in order, and has let go of
\* the bus, whenever watermarks, completions and errors latch.  This holds until a failed
\* command leaves received words behind or goes on by itself: nothing drains the receive
\* FIFO then.
OkIsTransferred == result = "Ok" /\ ~unclean => right /\ ~held
=============================================================================
