--------------------------- MODULE TouchTracker ---------------------------
(***************************************************************************)
(* The tracker of the Goodix touchscreen: it maps the contacts of a report *)
(* to numbered slots, by the identifiers that the controller gives them or *)
(* else by their place in the report.  Positions and pressure are copied   *)
(* and left out.                                                           *)
(***************************************************************************)
EXTENDS Integers, Sequences, SequencesExt, FiniteSetsExt

CONSTANTS SlotCount,     \* MAX_TOUCH_SLOTS
          Tips,          \* reports: the identifiers of the records with a tip, 0 without
          MaxTracking,   \* bound on the tracking identifiers handed out
          Nil            \* an empty slot

VARIABLES idFields,  \* contact records of the layout that carry an identifier
          track,     \* SlotTracker: [slots, next]
          view,      \* the tracking identifiers of the slots, as a reader of the events has them
          seen,      \* the last two reports applied, with what was emitted: [prev, last]
          torn       \* a contact that stayed down changed its slot
vars == <<idFields, track, view, seen, torn>>

SlotSet == 1 .. SlotCount
NoReport == [contacts |-> <<>>, updates |-> <<>>]
Init ==
    /\ idFields \in 0 .. SlotCount
    /\ track = [slots |-> [s \in SlotSet |-> Nil], next |-> 1] /\ view = [s \in SlotSet |-> -1]
    /\ seen = [prev |-> NoReport, last |-> NoReport] /\ torn = FALSE

\* decode_contacts: the records with a tip, up to the contact count, which the model
\* folds into the length of tips.
decode_contacts(tips) ==
    SelectSeq([d \in DOMAIN tips |-> [slot |-> d, tip |-> tips[d] # 0,
                                      id |-> IF d <= idFields THEN tips[d] ELSE 0]],
              LAMBDA c : c.tip)
Descriptor(c) == [hardware |-> FALSE, n |-> c.slot]
contact_identity(c) == IF c.id # 0 THEN [hardware |-> TRUE, n |-> c.id] ELSE Descriptor(c)

I32Max == 2147483647
allocate_tracking_id(next) == IF next = I32Max THEN 1 ELSE next + 1

Lowest(S) == CHOOSE s \in S : \A t \in S : s <= t
Place(acc, c) ==
    LET wanted == contact_identity(c)
        named == {s \in SlotSet : acc.slots[s] # Nil /\ acc.slots[s].id = wanted}
        existing == named \ acc.seen
        free == {s \in SlotSet : acc.slots[s] = Nil}
        identity == IF existing = {} /\ named # {} THEN Descriptor(c) ELSE wanted
        began == existing = {}
        s == Lowest(IF began THEN free ELSE existing)
    IN IF existing = {} /\ free = {} THEN acc
       ELSE [slots |-> IF began THEN [acc.slots EXCEPT ![s] = [id |-> identity, tracking |-> acc.next]]
                       ELSE acc.slots,
             next |-> IF began THEN allocate_tracking_id(acc.next) ELSE acc.next,
             seen |-> acc.seen \cup {s},
             updates |-> Append(acc.updates,
                 [slot |-> s, began |-> began, contact |-> c.slot,
                  tracking |-> IF began THEN acc.next ELSE acc.slots[s].tracking])]
apply(contacts) ==
    LET acc == FoldLeft(Place, [slots |-> track.slots, next |-> track.next, seen |-> {},
                                updates |-> <<>>], contacts)
        releases == {s \in SlotSet : acc.slots[s] # Nil} \ acc.seen
    IN [slots |-> [s \in SlotSet |-> IF s \in releases THEN Nil ELSE acc.slots[s]],
        next |-> acc.next, updates |-> acc.updates, releases |-> releases]

\* The events of a frame, in their effect on a reader's slots.
Began(frame, v) ==
    FoldLeft(LAMBDA w, u : IF u.began THEN [w EXCEPT ![u.slot] = u.tracking] ELSE w, v, frame.updates)
emit_without_releases(frame, v) == Began(frame, v)
emit_touch_frame(frame, v) ==
    [s \in SlotSet |-> IF s \in frame.releases THEN -1 ELSE Began(frame, v)[s]]

\* Identifiers that occur once in a report, and the slot that their contact was given.
Once(r) == {i \in {c.id : c \in ToSet(r.contacts)} \ {0} :
               Cardinality({c \in ToSet(r.contacts) : c.id = i}) = 1}
SlotsOf(r, i) ==
    {<<u.slot, u.tracking>> : u \in {w \in ToSet(r.updates) :
        \E c \in ToSet(r.contacts) : c.id = i /\ c.slot = w.contact}}
Torn(before, after) ==
    \E i \in Once(before) \cap Once(after) :
        SlotsOf(before, i) # {} /\ SlotsOf(before, i) # SlotsOf(after, i)

Report(tips) ==
    \E contacts \in {decode_contacts(tips)} : \E frame \in {apply(contacts)} :
      /\ frame.next <= MaxTracking
      /\ track' = [slots |-> frame.slots, next |-> frame.next]
      /\ view' = emit_touch_frame(frame, view)
      /\ seen' = [prev |-> seen.last, last |-> [contacts |-> contacts, updates |-> frame.updates]]
      /\ torn' = (torn \/ Torn(seen.last, seen'.last))
      /\ UNCHANGED idFields

Next == \E tips \in Tips : Report(tips)
Spec == Init /\ [][Next]_vars

-----------------------------------------------------------------------------
(* Properties *)

\* A reader of the events has exactly the slots of the tracker, under identifiers of
\* their own; a contact that stays down keeps its slot; and two equal reports with
\* distinct identifiers that fit the slots show every contact, whatever came before.
ContactsShown ==
    /\ \A s \in SlotSet : view[s] = IF track.slots[s] = Nil THEN -1 ELSE track.slots[s].tracking
    /\ \A s, t \in SlotSet : s # t /\ view[s] # -1 => view[s] # view[t]
    /\ ~torn
    /\ LET r == seen.last.contacts IN
       r = seen.prev.contacts /\ Len(r) <= SlotCount
         /\ Cardinality({contact_identity(c) : c \in ToSet(r)}) = Len(r)
       => Cardinality({s \in SlotSet : view[s] # -1}) = Len(r)
=============================================================================
