------------------------------- MODULE Cr50 -------------------------------
(***************************************************************************)
(* Entropy from the Cr50 TPM: the FIFO protocol of one command after       *)
(* another, frame by frame, under the driver's lock.  A frame may fail     *)
(* with or without its effect, a poll may time out, and the chip goes to   *)
(* sleep when it is left alone.  The content of an answer is the command   *)
(* it answers and the place of each byte.                                  *)
(***************************************************************************)
EXTENDS Naturals, Sequences, FiniteSets

CONSTANTS CmdLen,        \* bytes of a command
          HeaderSize,    \* TPM_HEADER_SIZE
          MaxRandom,     \* TPM_MAX_RANDOM_BYTES
          Requests,      \* lengths that callers ask for
          MaxCommands    \* bound on the commands sent

VARIABLES drv,    \* Cr50State: [awake, locality, n], awake until wake_after_ns;
          \* n counts commands
          call,   \* the call under way: [pc, asked, off, got, ok]
          buf,    \* the bytes handed to the caller
          chip    \* [asleep, locality, phase, in, cmd, out, size]
vars == <<drv, call, buf, chip>>

NoCall == [pc |-> "idle", asked |-> 0, off |-> 0, got |-> <<>>, ok |-> TRUE]
Init ==
    /\ drv = [awake |-> FALSE, locality |-> FALSE, n |-> 0] /\ call = NoCall /\ buf = <<>>
    /\ chip = [asleep |-> TRUE, locality |-> FALSE, phase |-> "idle", in |-> 0, cmd |-> 0,
               out |-> <<>>, size |-> 0]

-----------------------------------------------------------------------------
(* The chip *)

\* COMMAND_READY ends whatever goes on, and prepares for a command now or the next time.
CommandReady ==
    {[chip EXCEPT !.phase = p, !.in = 0, !.out = <<>>] :
        p \in IF chip.phase \in {"idle", "ready"} THEN {"ready"} ELSE {"idle", "ready"}}
Received(count) ==
    IF chip.phase \in {"ready", "reception"}
    THEN [chip EXCEPT !.phase = "reception", !.in = @ + count] ELSE chip
Expects == chip.phase = "reception" /\ chip.in < CmdLen
Available == chip.phase = "completion" /\ chip.out # <<>>
Started == IF chip.phase = "reception" /\ chip.in = CmdLen THEN [chip EXCEPT !.phase = "execution"] ELSE chip

\* The answer: a failure's header, or up to the bytes asked for; it may be longer than
\* its header says.
Execute ==
    /\ chip.phase = "execution"
    /\ \E count \in 0 .. MaxRandom + 1, extra \in 0 .. 1 :
         LET size == HeaderSize + count IN
         chip' = [chip EXCEPT !.phase = "completion", !.size = size,
                              !.out = [k \in 1 .. size + extra |-> [cmd |-> chip.cmd, k |-> k, size |-> size]]]
    /\ UNCHANGED <<drv, call, buf>>

\* A second without a frame: the chip may sleep, and forget.
Idle ==
    /\ call.pc = "idle" /\ drv.awake /\ drv' = [drv EXCEPT !.awake = FALSE]
    /\ \/ chip' = [chip EXCEPT !.asleep = TRUE]
       \/ chip' = [chip EXCEPT !.asleep = TRUE, !.locality = FALSE, !.phase = "idle", !.in = 0, !.out = <<>>]
    /\ UNCHANGED <<call, buf>>

-----------------------------------------------------------------------------
(* The driver *)

read_entropy(asked) ==
    /\ call.pc = "idle" /\ drv.n < MaxCommands
    /\ call' = [NoCall EXCEPT !.pc = "wake", !.asked = asked] /\ buf' = <<>> /\ UNCHANGED <<drv, chip>>
Return(ok) == call' = [NoCall EXCEPT !.ok = ok, !.asked = call.asked]
Go(pc) == call' = [call EXCEPT !.pc = pc]
\* An error before the locality is held ends the call, a later one the command.
Failing == IF call.pc \in {"wake", "access", "valid", "use", "active"} THEN Return(FALSE)
           ELSE call' = [call EXCEPT !.pc = "clear", !.ok = FALSE]

\* The pulse that wakes the chip; only one that was sent is remembered.
PulsedAnyway(sent) == TRUE
Pulsed(sent) == sent
wake_if_needed ==
    /\ call.pc = "wake" /\ UNCHANGED buf
    /\ \E sent \in IF drv.awake THEN {TRUE} ELSE BOOLEAN :
         /\ drv' = [drv EXCEPT !.awake = @ \/ Pulsed(sent)]
         /\ chip' = [chip EXCEPT !.asleep = @ /\ ~(sent /\ ~drv.awake)]
         /\ IF sent THEN Go(IF drv.locality THEN "access" ELSE "valid") ELSE Return(FALSE)

\* A write frame, with its effect on the chip, and a read or poll.
write_frame(pc, effects, next) ==
    /\ call.pc = pc /\ UNCHANGED buf
    /\ \/ chip' \in effects /\ next
       \/ chip' \in effects \cup {chip} /\ Failing
poll_u8(pc, seen, next) ==
    /\ call.pc = pc /\ UNCHANGED <<drv, buf, chip>>
    /\ (seen /\ next) \/ Failing

request_locality ==
    \/ poll_u8("access", TRUE, Go(IF chip.locality THEN "ready" ELSE "valid"))
    \/ poll_u8("valid", TRUE, Go("use"))
    \/ write_frame("use", {chip, [chip EXCEPT !.locality = TRUE]}, Go("active")) /\ UNCHANGED drv
    \/ /\ call.pc = "active" /\ chip.locality /\ drv' = [drv EXCEPT !.locality = TRUE]
       /\ Go("ready") /\ UNCHANGED <<buf, chip>>
    \/ poll_u8("active", FALSE, TRUE)

Burst == 1 .. 2
Least(a, b) == IF a < b THEN a ELSE b
send_fifo ==
    \/ write_frame("ready", CommandReady, Go("poll ready")) /\ UNCHANGED drv
    \/ poll_u8("poll ready", chip.phase = "ready", call' = [call EXCEPT !.pc = "put", !.off = 0])
    \/ \E burst \in Burst : LET count == Least(burst, CmdLen - call.off - 1) IN
         write_frame("put", {Received(count)}, call' = [call EXCEPT !.pc = "expect", !.off = @ + count])
           /\ UNCHANGED drv
    \/ poll_u8("expect", TRUE, IF Expects THEN Go(IF call.off + 1 < CmdLen THEN "put" ELSE "last") ELSE Failing)
    \/ write_frame("last", {Received(1)}, Go("complete")) /\ UNCHANGED drv
    \/ poll_u8("complete", TRUE, IF Expects THEN Failing ELSE Go("go"))
    \/ /\ drv.n < MaxCommands /\ drv' = [drv EXCEPT !.n = @ + 1]
       /\ write_frame("go", {[Started EXCEPT !.cmd = drv.n + 1]}, call' = [call EXCEPT !.pc = "get", !.got = <<>>])

\* The header, and then the rest that it announces, if that is not too long.
Size == IF Len(call.got) < HeaderSize THEN HeaderSize ELSE call.got[1].size
Fits == Size <= HeaderSize + MaxRandom
receive_fifo ==
    \/ /\ Fits /\ Len(call.got) < Size /\ Available /\ UNCHANGED drv
       /\ \E burst \in Burst : LET count == Least(Least(burst, Len(chip.out)), Size - Len(call.got)) IN
            write_frame("get", {[chip EXCEPT !.out = SubSeq(@, count + 1, Len(@))]},
                        call' = [call EXCEPT !.got = @ \o SubSeq(chip.out, 1, count)])
    \/ (Len(call.got) < Size \/ ~Fits) /\ poll_u8("get", FALSE, TRUE)
    \/ Len(call.got) = Size /\ poll_u8("get", TRUE, Go("final"))

\* Nothing may be left of the answer.
leftover == Available
final_status == poll_u8("final", TRUE, IF leftover THEN Failing ELSE Go("clear"))

\* Whatever happened the chip is told to forget it, and then the answer is judged.
Bytes == SubSeq(call.got, HeaderSize + 1, Len(call.got))
execute_command ==
    /\ call.pc = "clear" /\ chip' \in CommandReady \cup {chip}
    /\ call' = [call EXCEPT !.pc = "judge"] /\ UNCHANGED <<drv, buf>>
get_random_once ==
    /\ call.pc = "judge" /\ UNCHANGED <<drv, chip>>
    /\ IF ~call.ok \/ Bytes = <<>> \/ Len(Bytes) > Least(MaxRandom, call.asked - Len(buf))
       THEN Return(FALSE) /\ UNCHANGED buf
       ELSE /\ buf' = buf \o Bytes
            /\ IF Len(buf') = call.asked THEN Return(TRUE)
               ELSE call' = [NoCall EXCEPT !.pc = "wake", !.asked = call.asked]

Next ==
    \/ Execute \/ Idle \/ \E asked \in Requests : read_entropy(asked)
    \/ wake_if_needed \/ request_locality \/ send_fifo \/ receive_fifo \/ final_status
    \/ execute_command \/ get_random_once
Spec == Init /\ [][Next]_vars

-----------------------------------------------------------------------------
(* Properties *)

\* The bytes that a caller is given are as many as it asked for and all fresh: none was
\* given before, and an answer is taken whole and from the command at hand, whatever an
\* earlier command that failed has left behind.  A sleeping chip is never addressed.
EntropyFresh ==
    /\ call.pc \notin {"idle", "wake"} => ~chip.asleep
    /\ call.pc = "clear" /\ call.ok => chip.out = <<>>
    /\ call.pc = "judge" /\ call.ok =>
         call.got = [k \in 1 .. chip.size |-> [cmd |-> drv.n, k |-> k, size |-> chip.size]]
    /\ Cardinality({buf[k] : k \in DOMAIN buf}) = Len(buf)
    /\ call.pc = "idle" /\ call.ok /\ call.asked > 0 => Len(buf) = call.asked
=============================================================================
