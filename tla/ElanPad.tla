------------------------------ MODULE ElanPad ------------------------------
(***************************************************************************)
(* The Elan touchpad: an edge interrupt that sets work_pending, a worker   *)
(* that reads one report for it, and the motion and the button that it     *)
(* derives.  One axis is modelled: the other differs by being mirrored     *)
(* (MaxPos - y).                                                           *)
(***************************************************************************)
EXTENDS DriverArithmetic, Sequences, FiniteSets

CONSTANTS MaxPos,     \* the largest coordinate that the pad declares
          Reports,    \* [id, pressed, at]: a button, and the positions of the fingers
          MaxQueue,   \* reports that the pad holds
          MaxMoved,   \* bound on the motion of a contact
          Nil
POINTER_SCALE == 12

VARIABLES queue,      \* the reports in the pad: of Reports
          edge,       \* an edge that the TLMM has latched
          pending,    \* work_pending
          worker,     \* "wait", "scan", "read"
          token,      \* a wake latched in the worker's waker
          pointer,    \* [last, remainder]
          button,
          reader,     \* what a reader of the events has: [moved, button]
          origin,     \* where the contact began
          failed      \* a read failed and its report is still in the pad
vars == <<queue, edge, pending, worker, token, pointer, button, reader, origin, failed>>
State == <<pointer, button, reader, origin>>

Init ==
    /\ queue = <<>> /\ edge = FALSE /\ pending = FALSE /\ worker = "wait" /\ token = FALSE
    /\ pointer = [last |-> Nil, remainder |-> 0] /\ button = FALSE
    /\ reader = [moved |-> 0, button |-> FALSE] /\ origin = 0 /\ failed = FALSE

\* The line falls for the first report, and again after a read that leaves one.
Touch(r) ==
    /\ Len(queue) < MaxQueue /\ queue' = Append(queue, r) /\ edge' = (edge \/ queue = <<>>)
    /\ UNCHANGED <<pending, worker, token, State, failed>>
handle_interrupt ==
    /\ edge /\ edge' = FALSE /\ pending' = TRUE /\ token' = TRUE
    /\ UNCHANGED <<queue, worker, State, failed>>

Wake ==
    /\ worker = "wait" /\ token /\ token' = FALSE /\ worker' = "scan"
    /\ UNCHANGED <<queue, edge, pending, State, failed>>
irq_worker_entry ==
    /\ worker = "scan" /\ pending' = FALSE /\ worker' = (IF pending THEN "read" ELSE "wait")
    /\ UNCHANGED <<queue, edge, token, State, failed>>

\* The first finger that touches, if it lies on the pad.
contact_from_report(r) ==
    IF DOMAIN r.at = {} THEN Nil
    ELSE LET first == CHOOSE f \in DOMAIN r.at : \A g \in DOMAIN r.at : f <= g
         IN IF r.at[first] > MaxPos THEN Nil ELSE r.at[first]
motion_forgetful(contact) == [Moved(POINTER_SCALE, pointer.last, contact, 0) EXCEPT !.remainder = 0]
motion(contact) == Moved(POINTER_SCALE, pointer.last, contact, pointer.remainder)
process_report(r) ==
    IF r.id = "other" THEN UNCHANGED State
    ELSE LET contact == contact_from_report(r)
             moving == contact # Nil /\ pointer.last # Nil
             m == IF moving THEN motion(contact) ELSE [d |-> 0, remainder |-> 0]
             moved == (IF moving THEN reader.moved ELSE 0) + m.d
         IN /\ moved \in -MaxMoved .. MaxMoved
            /\ button' = r.pressed
            /\ pointer' = [last |-> contact, remainder |-> m.remainder]
            /\ origin' = (IF moving THEN origin ELSE IF contact = Nil THEN 0 ELSE contact)
            /\ reader' = [moved |-> moved, button |-> IF r.pressed # button THEN r.pressed ELSE reader.button]
read_and_process_report ==
    /\ worker = "read" /\ worker' = "scan" /\ UNCHANGED <<pending, token>>
    /\ \/ UNCHANGED <<queue, edge, State>> /\ failed' = (queue # <<>>)
       \/ /\ queue # <<>> /\ queue' = Tail(queue) /\ edge' = (edge \/ Len(queue) > 1)
          /\ process_report(Head(queue)) /\ failed' = FALSE

Next ==
    \/ \E r \in Reports : Touch(r)
    \/ handle_interrupt \/ Wake \/ irq_worker_entry \/ read_and_process_report
Spec == Init /\ [][Next]_vars

-----------------------------------------------------------------------------
(* Properties *)

\* The motion that was reported is the distance covered, up to the remainder that is
\* kept, and the button is the pad's.
MotionExact ==
    /\ pointer.last # Nil => Exact(POINTER_SCALE, origin, pointer.last, reader.moved, pointer.remainder)
    /\ reader.button = button

\* A report in the pad has its edge, or the worker has it to do and is or will be awake,
\* unless a read failed: the edge is used up then, and the line stays low.
NoReportStranded ==
    queue # <<>> /\ ~failed => edge \/ (pending /\ (token \/ worker # "wait")) \/ worker = "read"
=============================================================================
