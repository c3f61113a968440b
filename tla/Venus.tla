------------------------------- MODULE Venus -------------------------------
(***************************************************************************)
(* The stateful H.264 decoder (drivers/video/qcom-venus-sc7180): clients   *)
(* that open, feed and close streams, the kernel decode worker, the        *)
(* interrupt and the firmware.  The process mutex is held by the worker in *)
(* the pcs of Locked; create_session and the last part of destroy_session  *)
(* hold it for one action.  Packets that a command set aside in `deferred' *)
(* are read before the ones of the message ring, so that both queues are   *)
(* one sequence, messages.                                                 *)
(*                                                                         *)
(* The client is the frontend as the driver describes it: one access unit, *)
(* then one frame, always from the buffers of its open.  Stream numbers    *)
(* are never reused (they are 32 bits wide in the code).                   *)
(***************************************************************************)
EXTENDS Naturals, Sequences, FiniteSets, FiniteSetsExt, SequencesExt

CONSTANTS
    StreamCount,     \* streams ever opened
    MaxSessions,     \* MAX_CONCURRENT_SESSIONS
    MaxTag,          \* the largest input tag (2^32 - 1 in the code)
    MessageBound,    \* packets waiting to be read
    Scenarios        \* what may happen in one behaviour: its streams and access
                     \* units (of all streams together), the picture buffers and
                     \* the errors per stream, and what may go wrong besides a
                     \* slow decode: see Kinds

\* A control command that fails, a lost interrupt, missing memory or a frame
\* too large for its buffer, a failed access unit, a fatal system event, and a
\* release event for a picture buffer that the firmware does not refer to.
Kinds == {"command", "irq", "memory", "session", "sys", "release"}

ASSUME VenusAssumption ==
    /\ {StreamCount, MaxSessions, MaxTag, MessageBound} \subseteq Nat \ {0}
    /\ \A e \in Scenarios : /\ e.streams \in 1..StreamCount
                            /\ {e.requests, e.pictures, e.errors} \subseteq Nat
                            /\ e.faults \subseteq Kinds

VARIABLES
    scenario,     \* the member of Scenarios this behaviour follows
    client,       \* per stream, where its user is
    req,          \* per stream, the last accepted request
    active,       \* active_session_ids
    queued,       \* queued_decodes
    completions,  \* completions
    core,         \* BackendState.core.is_some()
    failed,       \* BackendState.failed
    sess,         \* BackendState.sessions
    own,          \* per stream, the memory the driver keeps mapped
    inflight,     \* inflight_decodes
    worker,       \* the worker's position and local variables
    woken,        \* VENUS_WORKER_PENDING
    latch,        \* a wake latched by VENUS_WORKER_WAKER
    irq,          \* an interrupt the firmware raised
    messages,     \* packets the firmware sent
    dead,         \* the firmware crashed
    fw,           \* the firmware's sessions
    reg           \* per stream, the internal buffers firmware was given

clientVars == <<client, req, active, queued, completions>>
stateVars == <<core, failed, sess, own, inflight>>
wakeVars == <<woken, latch>>
fwVars == <<irq, messages, dead, fw, reg>>
vars == <<scenario, clientVars, stateVars, worker, wakeVars, fwVars>>

Streams == 1..StreamCount

Memory == {"frame", "scratch", "persist", "dpb"}

NoPending == [tag |-> 0, r |-> 0]

\* dpb is the set of picture buffers marked in dpb_queued.  astray is history: an access
\* unit was given up before an output buffer was queued for it.
NewSession ==
    [live |-> TRUE, pending |-> NoPending, late |-> FALSE, layout |-> FALSE,
     next |-> 1, dpb |-> {}, astray |-> FALSE]

Gone == [NewSession EXCEPT !.live = FALSE]

Pictures == 1..scenario.pictures

\* What the firmware holds of a session: access units and output tags in order, how often
\* each picture buffer is queued with it, and the returned ones it still refers to.
Idle == [inputs |-> <<>>, outputs |-> <<>>, announced |-> FALSE, continued |-> FALSE,
         dpb |-> [i \in Pictures |-> 0], refs |-> {}, errors |-> 0]

Init ==
    /\ scenario \in Scenarios
    /\ client = [s \in Streams |-> "none"]
    /\ req = [s \in Streams |-> 0]
    /\ active = {} /\ queued = <<>> /\ completions = <<>>
    /\ core = FALSE /\ failed = FALSE 
    /\ sess = [s \in Streams |-> Gone]
    /\ own = [s \in Streams |-> {}]
    /\ inflight = 0
    /\ worker = [pc |-> "swap", requests |-> <<>>, out |-> <<>>, progress |-> FALSE]
    /\ woken = FALSE /\ latch = FALSE
    /\ irq = FALSE /\ messages = <<>> /\ dead = FALSE
    /\ fw = [s \in Streams |-> Idle]
    /\ reg = [s \in Streams |-> {}]

-----------------------------------------------------------------------------
(* Parts of several operations. *)

Locked == worker.pc \in {"requests", "packets"}

Pending(s) == sess[s].pending # NoPending

QueueWorker ==
    /\ woken' = TRUE
    /\ latch' = (latch \/ ~woken)

\* As Quarantine, but the failure is not latched.
QuarantineForgotten ==
    /\ UNCHANGED <<failed, irq, messages>>

\* Interrupts are masked and the core is held in reset; nothing reads the
\* message ring any more, so that what is left in it is forgotten.
Quarantine ==
    /\ failed' = TRUE
    /\ irq' = FALSE
    /\ messages' = <<>>

Failure(s, r) == [s |-> s, r |-> r, frame |-> 0]

FailAllPending ==
    [i \in DOMAIN SelectSeq([s \in Streams |-> s], Pending) |->
        LET s == SelectSeq([t \in Streams |-> t], Pending)[i]
        IN  Failure(s, sess[s].pending.r)]

NonePending == [s \in Streams |-> [sess[s] EXCEPT !.pending = NoPending, !.late = FALSE]]

NextTag(t) == IF t = MaxTag THEN 1 ELSE t + 1

CountInflight(ss) == Cardinality({s \in Streams : ss[s].live /\ ss[s].pending # NoPending})

-----------------------------------------------------------------------------
(* create_session and destroy_session. *)

\* A command that fails after the internal buffers were published drops them.
CreateFails(s) ==
    /\ \/ dead /\ Quarantine /\ UNCHANGED reg
       \/ /\ "command" \in scenario.faults
          /\ Quarantine
          /\ \E b \in {{}, {"scratch", "persist"}} : reg' = [reg EXCEPT ![s] = b]
    /\ core' = TRUE
    /\ client' = [client EXCEPT ![s] = "closed"]
    /\ UNCHANGED <<sess, own, active, dead, fw, wakeVars>>

CreateSucceeds(s) ==
    /\ ~dead
    /\ core' = TRUE
    /\ sess' = [sess EXCEPT ![s] = NewSession]
    /\ own' = [own EXCEPT ![s] = {"scratch", "persist"}]
    /\ reg' = [reg EXCEPT ![s] = {"scratch", "persist"}]
    /\ active' = active \cup {s}
    /\ client' = [client EXCEPT ![s] = "idle"]
    /\ QueueWorker
    /\ UNCHANGED <<failed, irq, messages, dead, fw>>

\* A core that does not boot leaves the backend as it was.
BootFails(s) ==
    /\ ~core /\ "command" \in scenario.faults
    /\ client' = [client EXCEPT ![s] = "closed"]
    /\ UNCHANGED <<core, failed, sess, own, active, wakeVars, fwVars>>

CreateSession(s) ==
    /\ client[s] = "none" /\ s <= scenario.streams
    /\ \A t \in 1..(s - 1) : client[t] # "none"
    /\ ~Locked /\ ~failed
    /\ Cardinality({t \in Streams : sess[t].live}) < MaxSessions
    /\ CreateFails(s) \/ CreateSucceeds(s) \/ BootFails(s)
    /\ UNCHANGED <<req, queued, completions, inflight, worker>>

Deactivate(s) ==
    /\ client[s] \in {"idle", "waiting"}
    /\ active' = active \ {s}
    /\ client' = [client EXCEPT ![s] = "closing"]
    /\ UNCHANGED <<req, queued, completions, stateVars, worker, wakeVars, fwVars>>

Purge(s) ==
    /\ client[s] = "closing"
    /\ queued' = SelectSeq(queued, LAMBDA q : q.s # s)
    /\ completions' = SelectSeq(completions, LAMBDA c : c.s # s)
    /\ client' = [client EXCEPT ![s] = "purged"]
    /\ UNCHANGED <<req, active, stateVars, worker, wakeVars, fwVars>>

\* The session of a core already held in reset is leaked.
Forget(s) ==
    /\ failed
    /\ UNCHANGED <<failed, own, fwVars>>

\* As StopFails, but the session is dropped.
StopFailsDrops(s) ==
    /\ ~failed
    /\ \/ dead /\ Quarantine
       \/ "command" \in scenario.faults /\ Quarantine
    /\ own' = [own EXCEPT ![s] = {}]
    /\ UNCHANGED <<dead, fw, reg>>

\* STOP fails: everything is leaked.
StopFails(s) ==
    /\ ~failed
    /\ \/ dead /\ Quarantine
       \/ "command" \in scenario.faults /\ Quarantine
    /\ UNCHANGED <<own, dead, fw, reg>>

\* Releasing an internal buffer fails: mem::take has already moved the whole
\* list out of the session, so that the buffers not yet released are dropped.
ReleaseFails(s) ==
    /\ ~failed /\ ~dead /\ "command" \in scenario.faults
    /\ Quarantine
    /\ own' = [own EXCEPT ![s] = @ \ {"scratch", "persist"}]
    /\ \E released \in {{}, {"scratch"}} : reg' = [reg EXCEPT ![s] = @ \ released]
    /\ fw' = [fw EXCEPT ![s] = Idle]
    /\ UNCHANGED dead

Destroyed(s) ==
    /\ ~failed /\ ~dead
    /\ own' = [own EXCEPT ![s] = {}]
    /\ reg' = [reg EXCEPT ![s] = {}]
    /\ fw' = [fw EXCEPT ![s] = Idle]
    /\ UNCHANGED <<failed, irq, messages, dead>>

DestroySession(s) ==
    /\ client[s] = "purged"
    /\ ~Locked
    /\ sess' = [sess EXCEPT ![s] = Gone]
    /\ inflight' = CountInflight(sess')
    /\ Forget(s) \/ StopFails(s) \/ ReleaseFails(s) \/ Destroyed(s)
    /\ client' = [client EXCEPT ![s] = "closed"]
    /\ QueueWorker
    /\ UNCHANGED <<req, active, queued, completions, core, worker>>

-----------------------------------------------------------------------------
(* submit_decode and dequeue_frame. *)

Has(seq, s) == \E i \in DOMAIN seq : seq[i].s = s

SubmitCheck(s) ==
    /\ client[s] = "idle"
    /\ MapThenSumSet(LAMBDA t : req[t], Streams) < scenario.requests
    /\ s \in active
    /\ ~Has(completions, s)
    /\ client' = [client EXCEPT ![s] = "checked"]
    /\ UNCHANGED <<req, active, queued, completions, stateVars, worker, wakeVars, fwVars>>

Submit(s) ==
    /\ client[s] = "checked"
    /\ IF Has(queued, s) \/ Len(queued) >= MaxSessions
         THEN /\ client' = [client EXCEPT ![s] = "idle"]
              /\ UNCHANGED <<req, queued, wakeVars>>
         ELSE /\ client' = [client EXCEPT ![s] = "waiting"]
              /\ req' = [req EXCEPT ![s] = @ + 1]
              /\ queued' = Append(queued, [s |-> s, r |-> req[s] + 1])
              /\ QueueWorker
    /\ UNCHANGED <<active, completions, stateVars, worker, fwVars>>

DequeueFrame(s) ==
    /\ client[s] \in {"idle", "waiting"}
    /\ s \in active
    /\ Has(completions, s)
    /\ completions' = RemoveAt(completions, SelectInSeq(completions, LAMBDA c : c.s = s))
    /\ client' = [client EXCEPT ![s] = "idle"]
    /\ UNCHANGED <<req, active, queued, stateVars, worker, wakeVars, fwVars>>

-----------------------------------------------------------------------------
(* The worker: venus_worker_entry and process_pending_work. *)

\* Where the worker goes with the requests, the completions and the progress
\* of a pass: to the next phase that has something to do.
Requesting(w) == [w EXCEPT !.pc = IF w.requests = <<>> THEN "packets" ELSE "requests"]

\* As Publishing, but the worker always blocks without a timeout.
PublishingBlocks(w) ==
    IF w.out # <<>> THEN [w EXCEPT !.pc = "publish"]
    ELSE [w EXCEPT !.pc = IF w.progress THEN "swap" ELSE "idle", !.progress = FALSE]

Publishing(w) ==
    IF w.out # <<>> THEN [w EXCEPT !.pc = "publish"]
    ELSE [w EXCEPT !.pc = IF w.progress THEN "swap"
                          ELSE IF inflight' # 0 THEN "timed" ELSE "idle",
                   !.progress = FALSE]

WorkerSwap ==
    /\ worker.pc = "swap"
    /\ worker' = [worker EXCEPT !.pc = "drain", !.progress = woken]
    /\ woken' = FALSE
    /\ UNCHANGED <<clientVars, stateVars, latch, fwVars>>

\* Drains the queue and takes the process lock.
WorkerDrain ==
    /\ worker.pc = "drain"
    /\ worker' = Requesting([worker EXCEPT !.requests = queued,
                                           !.progress = @ \/ queued # <<>>])
    /\ queued' = <<>>
    /\ UNCHANGED <<client, req, active, completions, stateVars, wakeVars, fwVars>>

\* The rest of a request once a completion is all it gets.
Answer(c) ==
    worker' = Requesting([worker EXCEPT !.requests = Tail(@), !.out = @ \o c])

\* A failure that is not one of is_session_resource_error: the core is
\* quarantined and this, the pending and the drained requests are failed.
SubmitPoisons(q) ==
    /\ Quarantine
    /\ sess' = NonePending
    /\ worker' = Requesting([worker EXCEPT
          !.requests = <<>>,
          !.out = @ \o <<Failure(q.s, q.r)>> \o FailAllPending
                    \o [i \in 1..(Len(worker.requests) - 1) |->
                          Failure(worker.requests[i + 1].s, worker.requests[i + 1].r)]])

Map(s) == own' = [own EXCEPT ![s] = @ \cup {"frame"}]

BeginSubmit(q) ==
    LET s == q.s  tag == sess[s].next
        bumped == [sess EXCEPT ![s].next = NextTag(tag)]
        withOutput == IF sess[s].layout
                        THEN [fw EXCEPT ![s].outputs = Append(@, tag)] ELSE fw
    IN  \/ \* an access unit of this session is already in flight
           /\ Pending(s)
           /\ SubmitPoisons(q)
           /\ UNCHANGED <<own, dead, fw, reg>>
        \/ \* sizes or mappings are refused
           /\ ~Pending(s)
           /\ Answer(<<Failure(s, q.r)>>)
           /\ UNCHANGED <<failed, sess, own, fwVars>>
        \/ \* the frame does not fit the frontend's output buffer
           /\ ~Pending(s) /\ sess[s].layout
           /\ Map(s) /\ sess' = bumped
           /\ Answer(<<Failure(s, q.r)>>)
           /\ UNCHANGED <<failed, fwVars>>
        \/ \* the command ring refuses the input
           /\ ~Pending(s) /\ "command" \in scenario.faults
           /\ Map(s) /\ fw' = withOutput
           /\ SubmitPoisons(q)
           /\ UNCHANGED <<dead, reg>>
        \/ /\ ~Pending(s)
           /\ Map(s)
           /\ sess' = [bumped EXCEPT ![s].pending = [tag |-> tag, r |-> q.r]]
           /\ fw' = [withOutput EXCEPT ![s].inputs = Append(@, q.r), ![s].announced = FALSE]
           /\ Answer(<<>>)
           /\ UNCHANGED <<failed, irq, messages, dead, reg>>

WorkerRequest ==
    /\ worker.pc = "requests"
    /\ LET q == Head(worker.requests)
       IN  \/ /\ q.s \notin active
              /\ Answer(<<>>)
              /\ UNCHANGED <<failed, sess, own, fwVars>>
           \/ /\ q.s \in active /\ (failed \/ ~sess[q.s].live)
              /\ Answer(<<Failure(q.s, q.r)>>)
              /\ UNCHANGED <<failed, sess, own, fwVars>>
           \/ /\ q.s \in active /\ ~failed /\ sess[q.s].live
              /\ BeginSubmit(q)
    /\ UNCHANGED <<clientVars, core, inflight, wakeVars>>

\* One packet has been read from messages.
Consumed(out) ==
    worker' = [worker EXCEPT !.progress = TRUE, !.out = @ \o out]

Unpended(s) ==
    [sess EXCEPT ![s].pending = NoPending, ![s].late = FALSE,
                 ![s].astray = @ \/ (Pending(s) /\ ~sess[s].layout)]

\* A packet whose handling failed is answered to its own stream.
SessionFails(s) ==
    /\ sess' = Unpended(s)
    /\ Consumed(<<Failure(s, sess[s].pending.r)>>)

\* As IsPending, but any output completes the access unit in flight.
IsPendingUntagged(s, tag) == Pending(s)

IsPending(s, tag) == Pending(s) /\ tag = sess[s].pending.tag

\* FILL_BUFFER of the linear output.
OutputDone(p) ==
    /\ \/ \* another tag or nothing in flight, or finish_output refuses the frame
          \* or cannot snapshot it
          SessionFails(p.s)
       \/ /\ IsPending(p.s, p.tag)
          /\ sess' = Unpended(p.s)
          /\ Consumed(<<[s |-> p.s, r |-> sess[p.s].pending.r, frame |-> p.frame]>>)
    /\ messages' = Tail(messages)
    /\ UNCHANGED <<own, fw, reg>>

\* As Requeued, but READONLY is not looked at.
RequeuedReadonly(p) == p.kind = "dpb" \/ p.i \notin sess[p.s].dpb

\* As Requeued, but a release does not look at dpb_queued.
RequeuedTwice(p) == p.kind = "released" \/ ~p.readonly

\* A picture buffer is queued again when it comes back without READONLY, or when the
\* reference to one that is not queued is released.
Requeued(p) == IF p.kind = "dpb" THEN ~p.readonly ELSE p.i \notin sess[p.s].dpb

\* FILL_BUFFER of a decoded-picture buffer, or the release of a reference to it.
DpbDone(p) ==
    LET s == p.s
        back == [sess EXCEPT ![s].dpb = IF p.kind = "dpb" THEN @ \ {p.i} ELSE @]
    IN  /\ \/ /\ ~Requeued(p)
              /\ sess' = back
              /\ Consumed(<<>>) /\ UNCHANGED fw
           \/ \* queue_dpb
              /\ Requeued(p)
              /\ sess' = [back EXCEPT ![s].dpb = @ \cup {p.i}]
              /\ fw' = [fw EXCEPT ![s].dpb[p.i] = @ + 1]
              /\ Consumed(<<>>)
           \/ \* the command ring refuses it
              /\ Requeued(p) /\ "command" \in scenario.faults
              /\ sess' = [Unpended(s) EXCEPT ![s].dpb = back[s].dpb]
              /\ Consumed(<<Failure(s, sess[s].pending.r)>>) /\ UNCHANGED fw
        /\ messages' = Tail(messages)
        /\ UNCHANGED <<own, reg>>

\* SEQUENCE_CHANGED.  A system error that reconfigure reads while it waits for
\* its first response, or the timeout of that wait, fails this session only.
SequenceChanged(p) ==
    LET s == p.s
        scratch == [own EXCEPT ![s] = @ \ {"scratch"}]
        configured == [sess EXCEPT ![s].layout = TRUE, ![s].dpb = Pictures]
        With(n) == [fw EXCEPT ![s].continued = TRUE,
                              ![s].dpb = [i \in Pictures |-> IF i <= n THEN 1 ELSE 0]]
        continued == With(scenario.pictures)
    IN  \/ /\ dead
           /\ SessionFails(s)
           /\ messages' = SelectSeq(Tail(messages), LAMBDA m : m.kind # "sys")
           /\ UNCHANGED <<own, fw, reg>>
        \/ /\ ~dead
           /\ messages' = Tail(messages)
           /\ \/ \* a second sequence, or one whose crop is refused
                 /\ sess[s].layout \/ "session" \in scenario.faults
                 /\ SessionFails(s)
                 /\ UNCHANGED <<own, fw, reg>>
              \/ \* no memory for the new scratch or picture buffers
                 /\ ~sess[s].layout /\ "memory" \in scenario.faults
                 /\ SessionFails(s)
                 /\ own' = scratch
                 /\ reg' = [reg EXCEPT ![s] = @ \ {"scratch"}]
                 /\ UNCHANGED fw
              \/ \* a release fails, which drops the whole list, or a command
                 \* after the allocation of the picture buffers: CONTINUE or
                 \* the queueing of one of them
                 /\ ~sess[s].layout /\ "command" \in scenario.faults
                 /\ SessionFails(s)
                 /\ \/ own' = [own EXCEPT ![s] = {"frame"}] /\ UNCHANGED fw
                    \/ /\ own' = [own EXCEPT ![s] = Memory]
                       /\ fw' \in {fw} \cup {With(n) : n \in 0..(scenario.pictures - 1)}
                 /\ UNCHANGED reg
              \/ \* configured, but there is no frame to queue an output for or
                 \* it does not fit
                 /\ ~sess[s].layout
                 /\ ~Pending(s) \/ "memory" \in scenario.faults
                 /\ sess' = [configured EXCEPT ![s].pending = NoPending, ![s].late = FALSE,
                                               ![s].astray = @ \/ Pending(s)]
                 /\ fw' = continued
                 /\ own' = [own EXCEPT ![s] = @ \cup {"scratch", "dpb"}]
                 /\ reg' = [reg EXCEPT ![s] = @ \cup {"scratch"}]
                 /\ Consumed(<<Failure(s, sess[s].pending.r)>>)
              \/ /\ ~sess[s].layout /\ Pending(s)
                 /\ sess' = configured
                 /\ fw' = [continued EXCEPT ![s].outputs = Append(@, sess[s].pending.tag)]
                 /\ own' = [own EXCEPT ![s] = @ \cup {"scratch", "dpb"}]
                 /\ reg' = [reg EXCEPT ![s] = @ \cup {"scratch"}]
                 /\ Consumed(<<>>)

HandlePacket(p) ==
    \/ p.kind = "output" /\ OutputDone(p)
    \/ p.kind \in {"dpb", "released"} /\ DpbDone(p)
    \/ p.kind = "sequence" /\ SequenceChanged(p)
    \/ /\ p.kind = "error"
       /\ SessionFails(p.s)
       /\ messages' = Tail(messages)
       /\ UNCHANGED <<own, fw, reg>>

WorkerPacket ==
    /\ worker.pc = "packets" /\ ~failed /\ messages # <<>>
    /\ LET p == Head(messages)
       IN  \/ \* a fatal system event, or a ring that cannot be read
              /\ p.kind = "sys" \/ "command" \in scenario.faults
              /\ Quarantine
              /\ sess' = NonePending
              /\ Consumed(FailAllPending)
              /\ UNCHANGED <<own, fw, reg>>
           \/ /\ p.kind # "sys" /\ ~sess[p.s].live
              /\ messages' = Tail(messages)
              /\ Consumed(<<>>)
              /\ UNCHANGED <<sess, own, failed, irq, fw, reg>>
           \/ /\ p.kind # "sys" /\ sess[p.s].live
              /\ HandlePacket(p)
              /\ UNCHANGED <<failed, irq>>
    /\ UNCHANGED <<clientVars, core, inflight, dead, wakeVars>>

\* The deadline of a decode, then the number of decodes left in flight.
WorkerUnlock ==
    /\ worker.pc = "packets" /\ (failed \/ messages = <<>>)
    /\ IF ~failed /\ \E s \in Streams : sess[s].live /\ sess[s].late
         THEN /\ Quarantine
              /\ sess' = NonePending
              /\ inflight' = 0
              /\ worker' = Publishing([worker EXCEPT !.out = @ \o FailAllPending])
         ELSE /\ inflight' = CountInflight(sess)
              /\ worker' = Publishing(worker)
              /\ UNCHANGED <<failed, irq, messages, sess>>
    /\ UNCHANGED <<clientVars, core, own, wakeVars, dead, fw, reg>>

WorkerPublish ==
    /\ worker.pc = "publish"
    /\ UNCHANGED inflight
    /\ LET c == Head(worker.out)
       IN  /\ completions' = IF c.s \in active THEN Append(completions, c) ELSE completions
           /\ worker' = Publishing([worker EXCEPT !.out = Tail(@),
                                                  !.progress = @ \/ c.s \in active])
    /\ UNCHANGED <<client, req, active, queued, core, failed, sess, own, wakeVars, fwVars>>

WorkerWakes ==
    /\ worker.pc = "timed" \/ (worker.pc = "idle" /\ latch)
    /\ worker' = [worker EXCEPT !.pc = "swap"]
    /\ latch' = FALSE
    /\ UNCHANGED <<clientVars, stateVars, woken, fwVars>>

Worker ==
    \/ WorkerSwap \/ WorkerDrain \/ WorkerRequest \/ WorkerPacket
    \/ WorkerUnlock \/ WorkerPublish \/ WorkerWakes

ClaimInterrupt ==
    /\ irq
    /\ irq' = FALSE
    /\ QueueWorker
    /\ UNCHANGED <<clientVars, stateVars, worker, messages, dead, fw, reg>>

-----------------------------------------------------------------------------
(* The firmware (external) and the clock. *)

Send(packets) ==
    /\ ~failed /\ ~dead
    /\ Len(messages) < MessageBound
    /\ messages' = messages \o packets
    /\ irq' \in (IF "irq" \in scenario.faults THEN {irq, TRUE} ELSE {TRUE})
    /\ UNCHANGED <<clientVars, stateVars, worker, wakeVars, reg>>

Announce(s) ==
    /\ fw[s].inputs # <<>> /\ ~fw[s].continued /\ ~fw[s].announced
    /\ fw' = [fw EXCEPT ![s].announced = TRUE]
    /\ Send(<<[kind |-> "sequence", s |-> s]>>)
    /\ UNCHANGED dead

Decode(s) ==
    /\ fw[s].inputs # <<>> /\ fw[s].outputs # <<>> /\ fw[s].continued
    /\ \E i \in Pictures, readonly \in BOOLEAN :
         /\ fw[s].dpb[i] > 0
         /\ fw' = [fw EXCEPT ![s].inputs = Tail(@), ![s].outputs = Tail(@),
                             ![s].dpb[i] = @ - 1,
                             ![s].refs = IF readonly THEN @ \cup {i} ELSE @]
         /\ Send(<<[kind |-> "dpb", s |-> s, i |-> i, readonly |-> readonly],
                   [kind |-> "output", s |-> s, tag |-> Head(fw[s].outputs),
                    frame |-> Head(fw[s].inputs)]>>)
    /\ UNCHANGED dead

Release(s) ==
    /\ \E i \in IF "release" \in scenario.faults /\ fw[s].continued
                 THEN Pictures ELSE fw[s].refs :
         /\ fw' = [fw EXCEPT ![s].refs = @ \ {i}]
         /\ Send(<<[kind |-> "released", s |-> s, i |-> i]>>)
    /\ UNCHANGED dead

\* A failed access unit, whose buffer or buffers the firmware returns, or a session error.
Refuse(s) ==
    /\ "session" \in scenario.faults /\ fw[s].inputs # <<>> /\ fw[s].errors < scenario.errors
    /\ \/ fw' = [fw EXCEPT ![s].errors = @ + 1]
       \/ fw' = [fw EXCEPT ![s].inputs = Tail(@), ![s].errors = @ + 1]
       \/ /\ fw[s].outputs # <<>>
          /\ fw' = [fw EXCEPT ![s].inputs = Tail(@), ![s].outputs = Tail(@), ![s].errors = @ + 1]
    /\ Send(<<[kind |-> "error", s |-> s]>>)
    /\ UNCHANGED dead

Crash ==
    /\ "sys" \in scenario.faults /\ core
    /\ Send(<<[kind |-> "sys"]>>)
    /\ dead' = TRUE
    /\ UNCHANGED fw

TimePasses(s) ==
    /\ Pending(s) /\ ~sess[s].late
    /\ sess' = [sess EXCEPT ![s].late = TRUE]
    /\ UNCHANGED <<clientVars, core, failed, own, inflight, worker, wakeVars, fwVars>>

Client(s) ==
    \/ CreateSession(s) \/ SubmitCheck(s) \/ Submit(s) \/ DequeueFrame(s)
    \/ Deactivate(s) \/ Purge(s) \/ DestroySession(s)

Firmware(s) == Announce(s) \/ Decode(s) \/ Release(s) \/ Refuse(s)

Next ==
    /\ UNCHANGED scenario
    /\ \/ Worker \/ ClaimInterrupt \/ Crash
       \/ \E s \in Streams : Client(s) \/ Firmware(s) \/ TimePasses(s)

\* The worker is a kernel task that always gets to run; a client that waits
\* keeps polling for its frame; the clock advances.
Fairness ==
    /\ WF_vars(Worker /\ UNCHANGED scenario)
    /\ \A s \in Streams : /\ WF_vars(DequeueFrame(s) /\ UNCHANGED scenario)
                          /\ WF_vars(TimePasses(s) /\ UNCHANGED scenario)

Spec == Init /\ [][Next]_vars

FairSpec == Spec /\ Fairness

-----------------------------------------------------------------------------
(* Properties. *)

Requests == 0..scenario.requests

TypeOK ==
    /\ client \in [Streams -> {"none", "idle", "checked", "waiting", "closing",
                               "purged", "closed"}]
    /\ req \in [Streams -> Requests]
    /\ active \subseteq Streams
    /\ queued \in Seq([s : Streams, r : Requests]) /\ Len(queued) <= MaxSessions
    /\ completions \in Seq([s : Streams, r : Requests, frame : Requests])
    /\ {core, failed, woken, latch, irq, dead} \subseteq BOOLEAN
    /\ sess \in [Streams -> [live : BOOLEAN, pending : [tag : 0..MaxTag, r : Requests],
                             late : BOOLEAN, layout : BOOLEAN, next : 1..MaxTag,
                             dpb : SUBSET Pictures, astray : BOOLEAN]]
    /\ own \in [Streams -> SUBSET Memory]
    /\ reg \in [Streams -> SUBSET {"scratch", "persist"}]
    /\ inflight \in 0..MaxSessions
    /\ worker.pc \in {"swap", "drain", "requests", "packets", "publish",
                      "timed", "idle"}

\* Interrupts may be lost, the firmware may crash and repeat itself, but no command,
\* allocation or access unit fails.
Orderly == scenario.faults \subseteq {"irq", "sys", "release"}

\* A decoded frame that is delivered for an access unit is the picture of that access
\* unit: handle_packet's tag check keeps the output of an earlier one, given up after an
\* error of the session, from completing it, and the quarantine that of a timed-out one.
\* The exception is a session in which an access unit was given up before an output
\* buffer was queued for it: nothing takes it back from the firmware, whose next output
\* is its picture, and carries the tag of the next access unit.  As long as no command,
\* allocation or access unit fails, the frame also is for the request that the client
\* waits for; a stale completion otherwise adds an error that the client may take for
\* the answer to its next request.
FrameMatchesRequest ==
    TypeOK /\ \A i \in DOMAIN completions :
        LET c == completions[i]
        IN  c.frame # 0 => /\ ~sess[c.s].astray => c.frame = c.r
                           /\ Orderly => c.r = req[c.s]

\* Memory the firmware was given and has not released stays mapped and leased,
\* after a quarantine too, since asserting reset does not retire DMA.
RegisteredStaysMapped ==
    \A s \in Streams : reg[s] \subseteq own[s]

\* The buffers of a decode the firmware still holds stay mapped, whatever fails:
\* teardown drops them only behind STOP and leaks them when STOP is not
\* answered.  As long as no command fails, all its memory does.
MemoryStaysMapped ==
    /\ \A s \in Streams : fw[s].inputs # <<>> \/ fw[s].outputs # <<>> => "frame" \in own[s]
    /\ Orderly => RegisteredStaysMapped

\* A picture buffer is with the firmware once and not while the firmware refers to what
\* it holds, and it is never lost: it is queued, or in a completion on its way, or
\* referred to, or its release is on its way, and dpb_queued tells the first two from
\* the others.  This is about sessions whose commands and access units do not fail: a
\* completion with an error leaves the buffer marked as queued.
PictureBufferAccounted ==
    \A s \in Streams, i \in Pictures :
        LET inTransit(k) ==
              \E n \in DOMAIN messages :
                  messages[n].kind = k /\ messages[n].s = s /\ messages[n].i = i
        IN  Orderly /\ sess[s].live /\ sess[s].layout /\ ~failed /\ ~dead =>
              /\ fw[s].dpb[i] <= IF i \in fw[s].refs THEN 0 ELSE 1
              /\ IF i \in sess[s].dpb THEN fw[s].dpb[i] = 1 \/ inTransit("dpb")
                 ELSE i \in fw[s].refs \/ inTransit("released")

\* Every accepted access unit is answered, with its frame or with an error,
\* unless its stream is closed first.
EveryRequestAnswered ==
    \A s \in Streams : client[s] = "waiting" ~> client[s] # "waiting"

-----------------------------------------------------------------------------
(* The scenarios the model is checked for. *)

\* Two streams whose firmware may crash and whose interrupts may be lost, one stream
\* on which everything else may fail, one of three access units of which one fails, and
\* one with two picture buffers and releases that are repeated.
FaultyScenarios ==
    {[streams |-> 2, requests |-> 2, pictures |-> 1, errors |-> 0, faults |-> {"sys", "irq"}],
     [streams |-> 1, requests |-> 2, pictures |-> 1, errors |-> 2,
      faults |-> {"command", "memory", "session"}],
     [streams |-> 1, requests |-> 3, pictures |-> 1, errors |-> 1, faults |-> {"session"}],
     [streams |-> 1, requests |-> 3, pictures |-> 2, errors |-> 0, faults |-> {"release"}]}

\* Two streams and one access unit; only interrupts are lost.
InterruptsLost ==
    {[streams |-> 2, requests |-> 1, pictures |-> 1, errors |-> 0, faults |-> {"irq"}]}

\* Two streams and one access unit; a command may fail.
CommandFails ==
    {[streams |-> 2, requests |-> 1, pictures |-> 1, errors |-> 0, faults |-> {"command"}]}
=============================================================================
