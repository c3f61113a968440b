------------------------------ MODULE VenusHfi ------------------------------
(***************************************************************************)
(* The Venus host-firmware interface: two rings of words in shared memory  *)
(* (HfiTransport), one the host writes commands to and one the firmware    *)
(* writes messages to, and above them the calls that send a command and    *)
(* wait for its answer among the other messages (HfiCore).  The driver's   *)
(* lock lets one thread at a time in, so the host is one process; the      *)
(* firmware and the interrupt handler run beside it.                       *)
(*                                                                         *)
(* A word of a ring is the packet it belongs to and its place in it; the   *)
(* first word also carries the length.  The firmware is external: it       *)
(* answers commands in order, may be late, sends messages of its own,      *)
(* reports a fatal event and may write a header that makes no sense.  When *)
(* its ring is full it sets tx_req, looks once more and then sleeps until  *)
(* the host interrupts it.                                                 *)
(***************************************************************************)
EXTENDS Integers, Sequences, SequencesExt, FiniteSets

CONSTANTS
  QueueSize,               \* words in a ring, QUEUE_DATA_WORDS in the driver
  MaxPacket,               \* words in the longest packet, MAX_PACKET_BYTES / 4
  CommandLengths,          \* words in a command
  Sessions,                \* session identifiers
  Types,                   \* the response types a command waits for
  MaxCommands,             \* bound: calls that send a command
  MaxMessages,             \* bound: messages the firmware writes
  Deadline                 \* timed waits in HFI_RESPONSE_TIMEOUT_US

ASSUME HfiAssumption ==
  /\ QueueSize \in Nat /\ MaxPacket \in Nat /\ 2 <= MaxPacket /\ MaxPacket < QueueSize
  /\ CommandLengths \subseteq 2..MaxPacket
  /\ MaxCommands \in Nat /\ MaxMessages \in Nat /\ Deadline \in Nat

VARIABLES
  commands, messages,      \* the two rings: data, read and write index, requests
  sent, made,              \* every command sent and message written, in order
  calls, hpc, call,        \* calls made, the host's step and the locals of its call
  deferred,                \* HfiCore::deferred, as places in `made`
  givenUp, own,            \* commands that failed; every answer was one to its command
  handled,                 \* the last message of each session given to the worker
  taken, dropped,          \* messages read or dropped; the message ring was dropped
  latch,                   \* the worker was queued by an interrupt
  fpc, softint,            \* the firmware, and the host's interrupt to it
  eaten, answered          \* how many commands it has taken and answered

outcome == <<deferred, givenUp, own, handled, taken, dropped>>
hostVars == <<hpc, call, outcome, latch>>
firmVars == <<fpc, eaten, answered>>
vars == <<commands, messages, sent, made, calls, hostVars, softint, firmVars>>

Lengths == 2..MaxPacket
Blank == [n |-> 0, off |-> 0]
Ring == [data |-> [i \in 0..(QueueSize - 1) |-> Blank],
         read |-> 0, write |-> 0, rxReq |-> TRUE, txReq |-> FALSE]

\* Who reads, the command and its answer's type, the index read and the messages
\* written by then, the timed waits left and the words of the packet.
NoCall == [by |-> "worker", session |-> 0, type |-> 0, len |-> 0, snap |-> 0, seen |-> 0,
           looks |-> 0, packet |-> <<>>]

\* HfiTransport::reset.
Init ==
  /\ commands = Ring /\ messages = Ring
  /\ sent = <<>> /\ made = <<>>
  /\ calls = 0 /\ hpc = "idle" /\ call = NoCall
  /\ deferred = <<>> /\ givenUp = {} /\ own = TRUE
  /\ handled = [s \in Sessions |-> 0] /\ taken = 0 /\ dropped = FALSE /\ latch = FALSE
  /\ fpc = "run" /\ softint = FALSE /\ eaten = 0 /\ answered = 0

-----------------------------------------------------------------------------
(* Ring arithmetic.                                                        *)

Used(read, write) ==
  IF write >= read THEN write - read ELSE QueueSize - (read - write)

Advance(index, count) == (index + count) % QueueSize

\* Mutant: what does not fit before the end of the ring is not put in front.
PutUnwrapped(data, index, n, length) ==
  [i \in 0..(QueueSize - 1) |->
     IF i \in index..(index + length - 1) THEN [n |-> n, off |-> i - index] ELSE data[i]]

\* copy_words_to_queue: the words up to the end of the ring, the rest in front.
Put(data, index, n, length) ==
  [i \in 0..(QueueSize - 1) |->
     LET off == IF i >= index THEN i - index ELSE QueueSize - index + i
     IN  IF off < length THEN [n |-> n, off |-> off] ELSE data[i]]

\* copy_words_from_queue.
Get(data, index, length) ==
  [k \in 1..length |-> data[(index + k - 1) % QueueSize]]

\* The words a packet consists of.
Words(n, length) == [k \in 1..length |-> [n |-> n, off |-> k - 1]]

-----------------------------------------------------------------------------
(* HfiTransport::send.                                                     *)

\* A call of command_response or buffer_requirements.  One whose answer failed to come
\* may be made again: reconfigure fails only the access unit in flight, and the next
\* change of sequence asks for the buffer requirements of the same session once more.
Begin(session, type, length) ==
  /\ hpc = "idle" /\ calls < MaxCommands /\ calls' = calls + 1
  /\ call' = [NoCall EXCEPT !.by = "command", !.session = session, !.type = type,
                            !.len = length, !.looks = Deadline]
  /\ hpc' = "send"
  /\ UNCHANGED <<commands, messages, sent, made, outcome, latch, softint, firmVars>>

Return == hpc' = "idle" /\ call' = NoCall
GiveUp == Return /\ givenUp' = givenUp \cup {Len(sent)}

\* Mutant: a packet may fill the ring to the last word.
HasRoomFilled(ring, length) == QueueSize - Used(ring.read, ring.write) >= length

HasRoom(ring, length) == QueueSize - Used(ring.read, ring.write) > length

\* The indices are read and the free space checked; a full ring refuses.
SendCheck ==
  /\ hpc = "send"
  /\ \/ /\ HasRoom(commands, call.len)
        /\ commands' = [commands EXCEPT !.txReq = FALSE]
        /\ call' = [call EXCEPT !.snap = commands.write]
        /\ hpc' = "copy"
     \/ /\ ~HasRoom(commands, call.len)
        /\ commands' = [commands EXCEPT !.txReq = TRUE]
        /\ Return
  /\ UNCHANGED <<messages, sent, made, outcome, latch, softint, firmVars>>

SendCopy ==
  /\ hpc = "copy" /\ hpc' = "publish"
  /\ commands' = [commands EXCEPT !.data = Put(@, call.snap, Len(sent) + 1, call.len)]
  /\ UNCHANGED <<messages, sent, made, call, outcome, latch, softint, firmVars>>

SendPublish ==
  /\ hpc = "publish" /\ hpc' = "ring"
  /\ commands' = [commands EXCEPT !.write = Advance(call.snap, call.len)]
  /\ messages' = [messages EXCEPT !.rxReq = TRUE]
  /\ sent' = Append(sent, [session |-> call.session, type |-> call.type, len |-> call.len])
  /\ UNCHANGED <<made, call, outcome, latch, softint, firmVars>>

\* The interrupt is raised whether or not the firmware asked for it.
SendRing ==
  /\ hpc = "ring" /\ hpc' = "match"
  /\ softint' = TRUE
  /\ UNCHANGED <<commands, messages, sent, made, call, outcome, latch, firmVars>>

-----------------------------------------------------------------------------
(* read_queue, for the waiting command or for the worker.                  *)

ReadIndices ==
  /\ hpc = "read"
  /\ call' = [call EXCEPT !.snap = messages.write, !.seen = Len(made)]
  /\ hpc' = IF messages.read = messages.write THEN "empty" ELSE "get"
  /\ UNCHANGED <<commands, messages, sent, made, outcome, latch, softint, firmVars>>

\* The ring was empty: the firmware is asked to interrupt.
ReadEmpty ==
  /\ hpc = "empty"
  /\ messages' = [messages EXCEPT !.rxReq = TRUE]
  /\ \/ call.by = "command" /\ hpc' = "sleep" /\ UNCHANGED call
     \/ call.by = "worker" /\ Return
  /\ UNCHANGED <<commands, sent, made, outcome, latch, softint, firmVars>>

\* The length in the header at the read index; a word that is no header, or a
\* header that makes no sense, has none.
Header == LET word == messages.data[messages.read]
          IN  IF word.n = 0 \/ word.off # 0 THEN 0 ELSE made[word.n].len

\* drop_receive_queue: what was published when the indices were read is skipped.
\* The waiting command fails; the worker quarantines the firmware.
ReadDrops ==
  /\ hpc = "get" /\ Header \notin Lengths
  /\ messages' = [messages EXCEPT !.read = call.snap, !.rxReq = TRUE]
  /\ dropped' = TRUE /\ taken' = call.seen
  /\ \/ call.by = "command" /\ GiveUp
     \/ call.by = "worker" /\ hpc' = "failed" /\ call' = NoCall /\ UNCHANGED givenUp
  /\ UNCHANGED <<commands, sent, made, deferred, own, handled, latch, softint, firmVars>>

\* The packet is copied out, the read index moved and an interrupt requested if
\* this was the last one.
ReadPacket ==
  /\ hpc = "get" /\ Header \in Lengths /\ hpc' = "moved"
  /\ LET next == Advance(messages.read, Header)
     IN  /\ call' = [call EXCEPT !.packet = Get(messages.data, messages.read, Header)]
         /\ messages' = [messages EXCEPT !.read = next, !.rxReq = (next = call.snap)]
  /\ taken' = taken + 1
  /\ UNCHANGED <<commands, sent, made, deferred, givenUp, own, handled, dropped, latch,
                 softint, firmVars>>

\* Mutant: the firmware is not interrupted.
ReadMovedQuiet ==
  /\ hpc = "moved" /\ hpc' = "take"
  /\ UNCHANGED <<commands, messages, sent, made, call, outcome, latch, softint, firmVars>>

\* read_message: a firmware that waits for room is interrupted.
ReadMoved ==
  /\ hpc = "moved" /\ hpc' = "take"
  /\ softint' = (softint \/ messages.txReq)
  /\ UNCHANGED <<commands, messages, sent, made, call, outcome, latch, firmVars>>

-----------------------------------------------------------------------------
(* wait_matching_with_wait.                                                *)

\* Mutant: the answer is told by its type alone.
AnswersByType(n) == made[n].type = call.type

\* The response type and the session of the command.
Answers(n) == made[n].type = call.type /\ made[n].session = call.session

Fatal(n) == made[n].type = "fatal"

\* The answer is to this command, or to an equal one that was given up.
Due(n) == LET c == made[n].command
          IN  c = Len(sent) \/ (c \in givenUp /\ sent[c].session = call.session
                                               /\ sent[c].type = call.type)

Answered(n) == Return /\ own' = (own /\ Due(n)) /\ UNCHANGED givenUp

\* The messages put aside are searched first: a fatal event, then the answer.
MatchDeferred ==
  LET fatal == SelectInSeq(deferred, Fatal)
      hit == SelectInSeq(deferred, Answers)
  IN  /\ hpc = "match"
      /\ IF fatal # 0 THEN GiveUp /\ deferred' = RemoveAt(deferred, fatal) /\ UNCHANGED own
         ELSE IF hit # 0 THEN Answered(deferred[hit]) /\ deferred' = RemoveAt(deferred, hit)
         ELSE hpc' = "read" /\ UNCHANGED <<call, deferred, givenUp, own>>
      /\ UNCHANGED <<commands, messages, sent, made, handled, taken, dropped, latch, softint,
                     firmVars>>

\* A message that is not the answer is put aside; time may be up after it.
MatchPacket ==
  /\ hpc = "take" /\ call.by = "command"
  /\ LET n == call.packet[1].n
     IN  \/ Fatal(n) /\ GiveUp /\ UNCHANGED <<deferred, own>>
         \/ ~Fatal(n) /\ Answers(n) /\ Answered(n) /\ UNCHANGED deferred
         \/ /\ ~Fatal(n) /\ ~Answers(n)
            /\ deferred' = Append(deferred, n)
            /\ \/ GiveUp
               \/ hpc' = "match" /\ call' = [call EXCEPT !.packet = <<>>]
                  /\ UNCHANGED givenUp
            /\ UNCHANGED own
  /\ UNCHANGED <<commands, messages, sent, made, handled, taken, dropped, latch, softint, firmVars>>

\* wait_without_burning_cpu: until the interrupt or for 100 microseconds; time
\* may be up at any look, and is up after Deadline of them.
MatchSleep ==
  /\ hpc = "sleep"
  /\ \/ GiveUp
     \/ /\ call.looks > 0 /\ call' = [call EXCEPT !.looks = @ - 1]
        /\ hpc' = "match" /\ UNCHANGED givenUp
  /\ UNCHANGED <<commands, messages, sent, made, deferred, own, handled, taken, dropped, latch,
                 softint, firmVars>>

-----------------------------------------------------------------------------
(* The worker: try_next_packet, called until nothing is left.              *)

\* Mutant: the worker waits for the interrupt without a timeout.
WorkerWakesUntimed == latch

\* While a decode is in flight the worker's wait is timed.
WorkerWakes == TRUE

Handle(n) ==
  /\ handled' = IF Fatal(n) THEN handled ELSE [handled EXCEPT ![made[n].session] = n]
  /\ hpc' = IF Fatal(n) THEN "failed" ELSE "next"
  /\ call' = NoCall

\* Mutant: the ring is read before the messages put aside.
WorkerNextRingFirst ==
  /\ hpc = "next" \/ (hpc = "idle" /\ WorkerWakes)
  /\ latch' = FALSE
  /\ \/ /\ messages.read = messages.write /\ deferred # <<>>
        /\ Handle(Head(deferred)) /\ deferred' = Tail(deferred)
     \/ /\ messages.read # messages.write \/ deferred = <<>>
        /\ hpc' = "read" /\ UNCHANGED <<call, deferred, handled>>
  /\ UNCHANGED <<commands, messages, sent, made, givenUp, own, taken, dropped, softint, firmVars>>

WorkerNext ==
  /\ hpc = "next" \/ (hpc = "idle" /\ WorkerWakes)
  /\ latch' = FALSE
  /\ \/ deferred # <<>> /\ Handle(Head(deferred)) /\ deferred' = Tail(deferred)
     \/ deferred = <<>> /\ hpc' = "read" /\ UNCHANGED <<call, deferred, handled>>
  /\ UNCHANGED <<commands, messages, sent, made, givenUp, own, taken, dropped, softint, firmVars>>

WorkerPacket ==
  /\ hpc = "take" /\ call.by = "worker"
  /\ Handle(call.packet[1].n)
  /\ UNCHANGED <<commands, messages, sent, made, deferred, givenUp, own, taken, dropped, latch,
                 softint, firmVars>>

\* VenusBackend::claim_interrupt, and the acknowledgement in it.
ClaimInterrupt(raised) == latch' = (latch \/ raised)

-----------------------------------------------------------------------------
(* The firmware.                                                           *)

FwTake ==
  /\ fpc = "run" /\ commands.read # commands.write
  /\ LET n == commands.data[commands.read].n
     IN  commands' = [commands EXCEPT !.read = Advance(@, sent[n].len), !.rxReq = FALSE]
  /\ eaten' = eaten + 1
  /\ UNCHANGED <<messages, sent, made, hostVars, softint, fpc, answered>>

\* It finds no command, asks for an interrupt and sleeps.
FwDrained ==
  /\ fpc = "run" /\ commands.read = commands.write /\ answered = eaten
  /\ fpc' = "drained"
  /\ UNCHANGED <<commands, messages, sent, made, hostVars, softint, eaten,
                 answered>>

FwNap ==
  /\ fpc = "drained"
  /\ commands' = [commands EXCEPT !.rxReq = TRUE]
  /\ fpc' = "asleep"
  /\ UNCHANGED <<messages, sent, made, hostVars, softint, eaten, answered>>

\* The next message: the answer to the oldest command, which is the longest packet, an
\* event of a session, a fatal event, or a packet with a length of zero.
Message(m) ==
  \/ /\ answered < eaten
     /\ m = [session |-> sent[answered + 1].session, len |-> MaxPacket,
             type |-> sent[answered + 1].type, command |-> answered + 1]
  \/ \E s \in Sessions : m = [session |-> s, type |-> "event", len |-> 2, command |-> 0]
  \/ \E f \in {"fatal", "broken"} :
       /\ \A i \in DOMAIN made : made[i].type \notin {"fatal", "broken"}
       /\ m = [session |-> 0, type |-> f, len |-> IF f = "broken" THEN 0 ELSE 2,
               command |-> 0]

\* A broken packet still takes two words.
Space(m) == IF m.len = 0 THEN 2 ELSE m.len

FwWrite ==
  /\ fpc = "run" /\ Len(made) < MaxMessages
  /\ \E m \in [session : Sessions \cup {0}, type : Types \cup {"event", "fatal", "broken"},
               len : {0} \cup Lengths, command : 0..MaxCommands] :
       /\ Message(m)
       /\ \/ /\ HasRoom(messages, Space(m))
             /\ messages' = [messages EXCEPT
                  !.data = Put(@, messages.write, Len(made) + 1, Space(m)),
                  !.write = Advance(@, Space(m)), !.txReq = FALSE]
             /\ made' = Append(made, m)
             /\ answered' = IF m.command = 0 THEN answered ELSE m.command
             /\ fpc' = "raise"
          \/ /\ ~HasRoom(messages, Space(m))
             /\ messages' = [messages EXCEPT !.txReq = TRUE]
             /\ fpc' = "full" /\ UNCHANGED <<made, answered>>
  /\ UNCHANGED <<commands, sent, hostVars, softint, eaten>>

FwRaise ==
  /\ fpc = "raise"
  /\ ClaimInterrupt(messages.rxReq) /\ fpc' = "run"
  /\ UNCHANGED <<commands, messages, sent, made, hpc, call, outcome, softint, eaten,
                 answered>>

\* Full: one more look, then sleep.
FwRecheck ==
  /\ fpc = "full"
  /\ \/ HasRoom(messages, MaxPacket) /\ fpc' = "run"
        /\ messages' = [messages EXCEPT !.txReq = FALSE]
     \/ ~HasRoom(messages, MaxPacket) /\ fpc' = "blocked" /\ UNCHANGED messages
  /\ UNCHANGED <<commands, sent, made, hostVars, softint, eaten,
                 answered>>

FwWakes ==
  /\ softint /\ softint' = FALSE
  /\ fpc \in {"run", "asleep", "blocked"} /\ fpc' = "run"
  /\ messages' = [messages EXCEPT !.txReq = FALSE]
  /\ UNCHANGED <<commands, sent, made, hostVars, latch, eaten, answered>>

-----------------------------------------------------------------------------

HostStep ==
  \/ SendCheck \/ SendCopy \/ SendPublish \/ SendRing
  \/ ReadIndices \/ ReadEmpty \/ ReadDrops \/ ReadPacket \/ ReadMoved
  \/ MatchDeferred \/ MatchPacket \/ MatchSleep
  \/ WorkerNext \/ WorkerPacket

FwStep == FwTake \/ FwDrained \/ FwNap \/ FwWrite \/ FwRaise \/ FwRecheck \/ FwWakes

Next ==
  \/ \E s \in Sessions, t \in Types, l \in CommandLengths : Begin(s, t, l)
  \/ (HostStep \/ FwStep) /\ UNCHANGED calls

Spec == Init /\ [][Next]_vars

\* The host's code runs; the firmware owes nothing.
FairSpec == Spec /\ WF_vars(HostStep /\ UNCHANGED calls)

-----------------------------------------------------------------------------
Index == 0..(QueueSize - 1)
RingType(log) ==
  [data : [Index -> [n : 0..(Len(log) + 1), off : 0..(MaxPacket - 1)]],
   read : Index, write : Index, rxReq : BOOLEAN, txReq : BOOLEAN]

\* Types and ranges of the rings, the host and the firmware; indices stay inside
\* the ring, as both send and read_queue require before they use them.
TypeOK ==
  /\ commands \in RingType(sent) /\ messages \in RingType(made)
  /\ hpc \in {"idle", "send", "copy", "publish", "ring", "match", "read", "empty", "get",
              "moved", "take", "sleep", "next", "failed"}
  /\ call.by \in {"command", "worker"}
  /\ taken \in 0..Len(made) /\ call.snap \in Index /\ call.looks \in 0..Deadline
  /\ \A i \in DOMAIN deferred : deferred[i] \in 1..Len(made)
  /\ givenUp \subseteq 1..Len(sent)
  /\ handled \in [Sessions -> 0..Len(made)]
  /\ own \in BOOLEAN /\ dropped \in BOOLEAN /\ latch \in BOOLEAN /\ softint \in BOOLEAN
  /\ fpc \in {"run", "drained", "asleep", "raise", "full", "blocked"}
  /\ answered \in 0..eaten /\ eaten \in 0..Len(sent)

\* The packets first..Len(log), word by word.
Unread(log, first, Length(_)) ==
  FlattenSeq([k \in 1..(Len(log) - first + 1) |->
                Words(first + k - 1, Length(log[first + k - 1]))])

\* Between the two indices of the command ring lie the commands the firmware has not
\* taken, whole and in order: send never overwrites one, not at the wrap and
\* not when the ring is full (HfiTransport::send, copy_words_to_queue).
CommandsIntact ==
  Get(commands.data, commands.read, Used(commands.read, commands.write)) =
    Unread(sent, eaten + 1, LAMBDA c : c.len)

\* Between the two indices of the message ring lie the messages the host has neither
\* read nor dropped, whole and in order: the read index is always at a header, also
\* after the ring was dropped while the firmware went on writing (read_queue,
\* drop_receive_queue).
MessagesIntact ==
  Get(messages.data, messages.read, Used(messages.read, messages.write)) =
    Unread(made, taken + 1, Space)

\* Neither side overwrites, tears or misreads a packet of the other.
RingsIntact == TypeOK /\ CommandsIntact /\ MessagesIntact

\* The answer a command returns was sent for this command, not for another session's
\* and not for one of another type that timed out (wait_matching_with_wait).  An answer
\* to a command of the same session and type that was given up passes for this one's:
\* nothing else tells them apart.
AnswerIsOwn == own

\* The worker sees the messages of a session in the order the firmware wrote them,
\* also those a waiting command had put aside (try_next_packet).
HandledInOrder == [][\A s \in Sessions : handled'[s] >= handled[s]]_vars

\* A message goes to whom it is meant for: an answer to its command, or to the same
\* command sent again; the others to the worker in the order of their session.
MessagesMatched == []AnswerIsOwn /\ HandledInOrder

\* A firmware that sleeps for want of commands with one in the ring has an interrupt on its way, or
\* the host is about to raise it (send raises it unconditionally).
CommandNoticed ==
  fpc = "asleep" /\ commands.read # commands.write => softint \/ hpc = "ring"

\* A firmware that sleeps because the message ring was full is interrupted once there
\* is room (read_queue looks at tx_req after it moved the read index).
FullFirmwareNotified ==
  fpc = "blocked" /\ HasRoom(messages, MaxPacket) /\ ~dropped
    => softint \/ hpc = "moved"

\* The firmware sleeps through neither a command nor the room it waits for.
FirmwareNotified == CommandNoticed /\ FullFirmwareNotified

\* Messages do not stay in the ring, though the request for an interrupt and the
\* firmware's look at it may miss each other: with a decode in flight every wait is
\* timed (venus_worker_entry).
MessagesTaken ==
  messages.read # messages.write ~> (messages.read = messages.write \/ hpc = "failed")

=============================================================================
