------------------------------ MODULE EcInputs ------------------------------
(***************************************************************************)
(* The EC's buttons and posture switches: listeners of the EC's events     *)
(* (module CrosEcEvents), which carry the whole state.  The switches are   *)
(* also read once while their driver initializes, beside the worker that   *)
(* dispatches events: a state is compared with the tracked one under its   *)
(* lock, and the events are pushed after the lock is released.             *)
(***************************************************************************)
EXTENDS Naturals, Sequences

CONSTANTS Keys,        \* the known keys or switches
          MaxEvents,   \* bound on the events in the EC
          Nil

VARIABLES kind,        \* "switch" or "button"
          supported,   \* the keys that the EC has
          ec,          \* the EC's state: the set of keys that are on
          fifo,        \* states in the EC's event queue
          steps,       \* what is left of initialize
          listening,
          tracker,     \* ButtonTracker, SwitchTracker: the last state accepted
          snapshot,    \* initialize's state, and then its outcome
          worker,      \* the event in hand, and then its outcome
          reader,      \* the keys that a reader of the events has on
          raced        \* an event was dispatched between the snapshot and its events
vars == <<kind, supported, ec, fifo, steps, listening, tracker, snapshot, worker, reader, raced>>

switch_late == <<"supported", "current", "listen", "accept", "emit">>
switch == <<"supported", "listen", "current", "accept", "emit">>
button == <<"supported", "listen">>
NoWork == [pc |-> "idle", state |-> {}, old |-> Nil]
Init ==
    /\ kind \in {"switch", "button"} /\ supported \in SUBSET Keys /\ ec \in SUBSET supported
    /\ fifo = <<>> /\ steps = (IF kind = "switch" THEN switch ELSE button) /\ listening = FALSE
    /\ tracker = Nil /\ snapshot = NoWork /\ worker = NoWork /\ reader = {} /\ raced = FALSE

Change(state) ==
    /\ state # ec /\ Len(fifo) < MaxEvents
    /\ ec' = state /\ fifo' = Append(fifo, state)
    /\ UNCHANGED <<kind, supported, steps, listening, tracker, snapshot, worker, reader, raced>>

\* accept: what has to be emitted depends on the state before.
accept(state) == [pc |-> "emit", state |-> state, old |-> tracker]
\* The first state is emitted whole, a later one by the keys that changed.
frame_for_outcome(o) ==
    IF o.old = Nil THEN o.state
    ELSE {k \in Keys : k \in (IF (k \in o.state) # (k \in o.old) THEN o.state ELSE reader)}

\* The worker takes an event and dispatches it to the listener, if there is one.
on_cros_ec_event ==
    /\ worker.pc = "idle" /\ fifo # <<>> /\ fifo' = Tail(fifo)
    /\ worker' = IF listening THEN [NoWork EXCEPT !.pc = "accept", !.state = Head(fifo)] ELSE worker
    /\ UNCHANGED <<kind, supported, ec, steps, listening, tracker, snapshot, reader, raced>>
Racing == snapshot.pc # "idle"
accept_state ==
    /\ worker.pc = "accept" /\ tracker' = worker.state /\ worker' = accept(worker.state)
    /\ raced' = (raced \/ Racing)
    /\ UNCHANGED <<kind, supported, ec, fifo, steps, listening, snapshot, reader>>
emit_change ==
    /\ worker.pc = "emit" /\ reader' = frame_for_outcome(worker) /\ worker' = NoWork
    /\ raced' = (raced \/ Racing)
    /\ UNCHANGED <<kind, supported, ec, fifo, steps, listening, tracker, snapshot>>

-----------------------------------------------------------------------------
(* initialize *)

Enough == IF kind = "switch" THEN supported = Keys ELSE supported # {}
query_supported ==
    /\ steps # <<>> /\ Head(steps) = "supported"
    /\ \/ Enough /\ steps' = Tail(steps)
       \/ steps' = <<>>
    /\ UNCHANGED <<kind, supported, ec, fifo, listening, tracker, snapshot, worker, reader, raced>>
register_event_listener ==
    /\ steps # <<>> /\ Head(steps) = "listen" /\ steps' = Tail(steps) /\ listening' = TRUE
    /\ UNCHANGED <<kind, supported, ec, fifo, tracker, snapshot, worker, reader, raced>>
\* The boot posture: if it cannot be read the listener is taken back.
query_current ==
    /\ steps # <<>> /\ Head(steps) = "current"
    /\ \/ /\ snapshot' = [NoWork EXCEPT !.pc = "accept", !.state = ec] /\ steps' = Tail(steps)
          /\ UNCHANGED listening
       \/ listening' = FALSE /\ steps' = <<>> /\ UNCHANGED snapshot
    /\ UNCHANGED <<kind, supported, ec, fifo, tracker, worker, reader, raced>>
accept_snapshot ==
    /\ steps # <<>> /\ Head(steps) = "accept" /\ steps' = Tail(steps)
    /\ tracker' = snapshot.state /\ snapshot' = accept(snapshot.state)
    /\ UNCHANGED <<kind, supported, ec, fifo, listening, worker, reader, raced>>
emit_snapshot ==
    /\ steps # <<>> /\ Head(steps) = "emit" /\ steps' = Tail(steps)
    /\ reader' = frame_for_outcome(snapshot) /\ snapshot' = NoWork
    /\ raced' = (raced \/ worker.pc = "emit")
    /\ UNCHANGED <<kind, supported, ec, fifo, listening, tracker, worker>>

Next ==
    \/ \E state \in SUBSET supported : Change(state)
    \/ on_cros_ec_event \/ accept_state \/ emit_change
    \/ query_supported \/ register_event_listener \/ query_current \/ accept_snapshot \/ emit_snapshot
Spec == Init /\ [][Next]_vars

-----------------------------------------------------------------------------
(* Properties *)

\* A driver that is up, with every event dispatched.
Settled == listening /\ steps = <<>> /\ fifo = <<>> /\ worker.pc = "idle" /\ tracker # Nil

\* Once a driver is up and every event is dispatched, a reader has the EC's state, from
\* the boot posture on for switches and from the first event on for buttons, unless an
\* event was dispatched between the snapshot and its events: an older state may then
\* follow a newer one (RacingEventSettles).
StateShown == Settled /\ ~raced => reader = ec /\ tracker = ec

\* initialize of the switches: "An event racing the snapshot either seeds the tracker
\* first or is filtered against the snapshot as unchanged."  Either way the reader ends
\* with the EC's posture.  The code violates it: an event newer than the snapshot may seed
\* the tracker, and the snapshot then passes for a change back.
RacingEventSettles == Settled /\ kind = "switch" => reader = ec
=============================================================================
