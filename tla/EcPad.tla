------------------------------- MODULE EcPad -------------------------------
(***************************************************************************)
(* The touchpad of the detachable keyboard, on USB: contacts with          *)
(* identifiers of their own are given slots, and the first one moves the   *)
(* pointer.  The pad is unplugged and plugged in again: the same device    *)
(* serves every bind at its location.  One axis is modelled.               *)
(***************************************************************************)
EXTENDS DriverArithmetic, Sequences, SequencesExt, FiniteSets

CONSTANTS FINGER_COUNT,
          Frames,      \* sequences of contacts [id, active, at]
          MaxMoved,    \* bound on the motion of a contact
          Nil
POINTER_SCALE == 2
SlotSet == 1 .. FINGER_COUNT

VARIABLES bound,     \* the endpoint is bound
          state,     \* PointerState: [last, remainder, button, slots]
          reader,    \* what a reader of the events has: [slots, touch, button, moved]
          origin     \* where the contact that moves the pointer began
vars == <<bound, state, reader, origin>>

NoSlots == [s \in SlotSet |-> Nil]
PointerState == [last |-> Nil, remainder |-> 0, button |-> FALSE, slots |-> NoSlots]
Init ==
    /\ bound = FALSE /\ state = PointerState /\ origin = 0
    /\ reader = [slots |-> NoSlots, touch |-> FALSE, button |-> FALSE, moved |-> 0]

\* bind: a device known at this location is used again, in the state it is in.
bind == ~bound /\ bound' = TRUE /\ UNCHANGED <<state, reader, origin>>

\* A report is a frame and a button.  Reports with too many contacts or with an
\* identifier twice are refused.
decode_touch_report(cs) ==
    Len(cs) <= FINGER_COUNT /\ \A i, j \in DOMAIN cs : i # j => cs[i].id # cs[j].id
Active(cs) == SelectSeq(cs, LAMBDA c : c.active)
Lowest(S) == CHOOSE s \in S : \A t \in S : s <= t

\* Releases come first; a contact without a slot takes the first free one, and the whole
\* report is given up, its events included, when there is none.
release_nothing(slots, cs) == slots
release_first(slots, cs) ==
    [s \in SlotSet |-> IF slots[s] \in {c.id : c \in ToSet(cs)} THEN slots[s] ELSE Nil]
Place(acc, c) ==
    LET free == {s \in SlotSet : acc.slots[s] = Nil} IN
    IF ~acc.ok \/ \E s \in SlotSet : acc.slots[s] = c.id THEN acc
    ELSE IF free = {} THEN [acc EXCEPT !.ok = FALSE]
    ELSE [acc EXCEPT !.slots[Lowest(free)] = c.id]
Motion(contact) ==
    IF contact # Nil /\ state.last # Nil /\ contact.id = state.last.id
    THEN Moved(POINTER_SCALE, state.last.at, contact.at, state.remainder)
    ELSE [d |-> 0, remainder |-> 0]
events_for_report(cs, pressed) ==
    LET act == Active(cs)
        placed == FoldLeft(Place, [slots |-> release_first(state.slots, act), ok |-> TRUE], act)
        contact == IF act = <<>> THEN Nil ELSE [id |-> act[1].id, at |-> act[1].at]
        follows == contact # Nil /\ state.last # Nil /\ contact.id = state.last.id
        m == Motion(contact)
        moved == (IF follows THEN reader.moved ELSE 0) + m.d
    IN IF ~placed.ok
       THEN state' = [state EXCEPT !.slots = placed.slots] /\ UNCHANGED <<reader, origin>>
       ELSE /\ moved \in -MaxMoved .. MaxMoved
            /\ state' = [last |-> contact, remainder |-> m.remainder, button |-> pressed,
                         slots |-> placed.slots]
            /\ reader' = [slots |-> placed.slots, moved |-> moved,
                          touch |-> IF (placed.slots # NoSlots) # (state.slots # NoSlots)
                                    THEN placed.slots # NoSlots ELSE reader.touch,
                          button |-> IF pressed # state.button THEN pressed ELSE reader.button]
            /\ origin' = (IF follows THEN origin ELSE IF contact = Nil THEN 0 ELSE contact.at)
process_report(cs, pressed) ==
    /\ bound /\ UNCHANGED bound
    /\ IF decode_touch_report(cs) THEN events_for_report(cs, pressed)
       ELSE UNCHANGED <<state, reader, origin>>

\* Unplugged: every contact and the button are released.
events_for_disconnect ==
    /\ bound /\ bound' = FALSE /\ state' = PointerState /\ origin' = 0
    /\ reader' = [slots |-> [s \in SlotSet |-> IF state.slots[s] # Nil THEN Nil ELSE reader.slots[s]],
                  touch |-> reader.touch /\ state.slots = NoSlots,
                  button |-> reader.button /\ ~state.button, moved |-> 0]

Next ==
    \/ bind \/ events_for_disconnect
    \/ \E cs \in Frames, pressed \in BOOLEAN : process_report(cs, pressed)
Spec == Init /\ [][Next]_vars

-----------------------------------------------------------------------------
(* Properties *)

\* A reader of the events has the pad's slots, touch and button, also across a removal in
\* mid-touch (no finger and no button stays down), a contact in two slots never appears,
\* and the pointer has moved by what one and the same contact has covered.
ReaderAgrees ==
    /\ reader.slots = state.slots /\ reader.touch = (state.slots # NoSlots) /\ reader.button = state.button
    /\ \A s, t \in SlotSet : s # t /\ state.slots[s] # Nil => state.slots[s] # state.slots[t]
    /\ state.last # Nil =>
         Exact(POINTER_SCALE, origin, state.last.at, reader.moved, state.remainder)
    /\ ~bound => reader.slots = NoSlots /\ ~reader.touch /\ ~reader.button
=============================================================================
