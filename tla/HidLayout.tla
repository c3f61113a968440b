----------------------------- MODULE HidLayout -----------------------------
(***************************************************************************)
(* The HID report descriptor of the touchscreen: items set globals, name   *)
(* usages and declare input fields, and the fields of the touch collection *)
(* become the layout by which reports are decoded.  Descriptors are made   *)
(* of blocks of items that occur together.  Encodings of items and of      *)
(* values are left out.                                                    *)
(***************************************************************************)
EXTENDS Integers, Sequences, SequencesExt, FiniteSetsExt

CONSTANTS Blocks,      \* sequences of items [item, value]
          MaxBlocks,   \* bound on the blocks of a descriptor
          MaxBits,     \* MAX_INPUT_REPORT_BITS
          MaxFields,   \* MAX_INPUT_REPORT_FIELDS
          Ids,         \* report identifiers
          Nil

VARIABLES p,        \* the parser: globals, stack, local items, offsets, collections, fields,
                    \* and, for the properties, the bits declared in each report
          blocks,   \* blocks so far
          layout    \* Nil while parsing, Refused, or the layout
vars == <<p, blocks, layout>>

HidGlobals == [page |-> 0, huge |-> FALSE, size |-> 0, count |-> 0, id |-> 0]
Init ==
    /\ p = [g |-> HidGlobals, stack |-> <<>>, usages |-> <<>>, min |-> Nil, max |-> Nil,
            offsets |-> [i \in Ids |-> 0],
            declared |-> [i \in Ids |-> 0], touch |-> <<>>, fields |-> <<>>, ok |-> TRUE]
    /\ blocks = 0 /\ layout = Nil

\* Page and usage of the fields of interest.
Recognized ==
    {<<13, 66, "tip">>, <<13, 81, "contact id">>, <<1, 48, "x">>, <<1, 49, "y">>,
     <<13, 48, "pressure">>, <<13, 72, "touch major">>, <<13, 84, "contact count">>}
MAX_REPORT_FIELD_BITS == 32

Bad(q) == [q EXCEPT !.ok = FALSE]
Cleared(q) == [q EXCEPT !.usages = <<>>, !.min = Nil, !.max = Nil]
usage(q, i) ==
    CASE i <= Len(q.usages) -> q.usages[i]
      [] i > Len(q.usages) /\ q.min # Nil /\ q.max # Nil ->
           IF q.min + i - 1 <= q.max THEN q.min + i - 1 ELSE Nil
      [] OTHER -> Nil

\* Field i of an input item: fields of interest in the touch collection are recorded, and
\* every field moves the offset of its report.
advance_recorded(q, used) == IF used THEN q.g.size ELSE 0
advance(q, used) == q.g.size
Field(q, variable, i) ==
    LET g == q.g
        kinds == {r[3] : r \in {s \in Recognized : s[1] = g.page /\ s[2] = usage(q, i)}}
        used == variable /\ q.touch # <<>> /\ Last(q.touch) /\ kinds # {}
        field == [kind |-> CHOOSE k \in kinds : TRUE, id |-> g.id, at |-> q.offsets[g.id], bits |-> g.size]
    IN IF ~q.ok THEN q
       ELSE IF used /\ (g.size \notin 1 .. MAX_REPORT_FIELD_BITS \/ g.huge) THEN Bad(q)
       ELSE [q EXCEPT !.fields = IF used THEN Append(@, field) ELSE @,
                      !.offsets[g.id] = @ + advance(q, used)]
Input(q, variable) ==
    IF q.g.count > MaxFields \/ q.offsets[q.g.id] + q.g.size * q.g.count > MaxBits THEN Bad(q)
    ELSE Cleared(FoldLeft(LAMBDA r, i : Field(r, variable, i),
                          [q EXCEPT !.declared[q.g.id] = @ + q.g.size * q.g.count],
                          [i \in 1 .. q.g.count |-> i]))

Item(q, it) ==
    IF ~q.ok THEN q
    ELSE CASE it.item = "page" -> [q EXCEPT !.g.page = it.value]
           [] it.item = "huge" -> [q EXCEPT !.g.huge = it.value = 1]
           [] it.item = "size" -> [q EXCEPT !.g.size = it.value]
           [] it.item = "count" -> [q EXCEPT !.g.count = it.value]
           [] it.item = "id" -> [q EXCEPT !.g.id = it.value, !.offsets[it.value] = Max({8, @})]
           [] it.item = "push" -> [q EXCEPT !.stack = Append(@, q.g)]
           [] it.item = "pop" ->
                IF q.stack = <<>> THEN Bad(q) ELSE [q EXCEPT !.g = Last(q.stack), !.stack = Front(@)]
           [] it.item = "usage" -> [q EXCEPT !.usages = Append(@, it.value)]
           [] it.item = "min" -> [q EXCEPT !.min = it.value]
           [] it.item = "max" -> [q EXCEPT !.max = it.value]
           [] it.item = "collection" ->
                Cleared([q EXCEPT !.touch = Append(@, (@ # <<>> /\ Last(@))
                              \/ (q.g.page = 13 /\ q.usages # <<>> /\ q.usages[1] = 4))])
           [] it.item = "end" ->
                IF q.touch = <<>> THEN Bad(q) ELSE Cleared([q EXCEPT !.touch = Front(@)])
           [] it.item = "input" -> Input(q, it.value = 2)
           [] OTHER -> Cleared(q)
Block(b) ==
    /\ layout = Nil /\ p.ok /\ blocks < MaxBlocks
    /\ p' = FoldLeft(Item, p, b) /\ blocks' = blocks + 1 /\ UNCHANGED layout

\* The end of the descriptor: the fields of the report of the first x that has a y.
Of(kind, id) == SelectSeq(p.fields, LAMBDA f : f.kind = kind /\ f.id = id)
Refused == [id |-> Nil, fields |-> <<>>]
parse_touch_layout ==
    LET xs == SelectSeq(p.fields, LAMBDA f : f.kind = "x" /\ Of("y", f.id) # <<>>)
        id == xs[1].id
    IN /\ layout = Nil /\ UNCHANGED <<p, blocks>>
       /\ layout' = IF ~p.ok \/ xs = <<>> THEN Refused
                    ELSE IF Of("tip", id) = <<>> THEN Refused
                    ELSE [id |-> id, fields |-> SelectSeq(p.fields, LAMBDA f : f.id = id)]

Next == parse_touch_layout \/ \E b \in Blocks : Block(b)
Spec == Init /\ [][Next]_vars

-----------------------------------------------------------------------------
(* Properties *)

\* Fields of one report never overlap, lie behind the byte of its identifier and within
\* the largest report, however the descriptor switches between reports, saves and
\* restores globals and pads, and a report is as long as its items declare: a decoded
\* coordinate is made of its own bits only.  An accepted layout has a tip and both
\* coordinates.
LayoutIsDeclared ==
    /\ \A i, j \in DOMAIN p.fields :
         LET f == p.fields[i] g == p.fields[j] IN
         /\ f.at + f.bits <= p.offsets[f.id] /\ p.offsets[f.id] <= MaxBits
         /\ f.id # 0 => f.at >= 8
         /\ i < j /\ f.id = g.id => f.at + f.bits <= g.at
    /\ p.ok => \A i \in Ids :
         p.offsets[i] = p.declared[i] + (IF i # 0 /\ p.offsets[i] # 0 THEN 8 ELSE 0)
    /\ layout \notin {Nil, Refused} =>
         {"tip", "x", "y"} \subseteq {f.kind : f \in ToSet(layout.fields)}
=============================================================================
