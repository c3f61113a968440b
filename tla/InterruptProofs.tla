-------------------------- MODULE InterruptProofs --------------------------
(* The two interrupt paths of the system whose handler races the threads it    *)
(* serves.  The demultiplexer of the TLMM, for any pins, devices and number of *)
(* registration changes: however the calls of the drivers fall between the     *)
(* steps of the handler, a pin's interrupt is enabled as its registration      *)
(* says.  The ring of the A618, for every modulus of the sequence numbers and  *)
(* every deadline: a retired stream is flushed, and a delivered interrupt is   *)
(* not slept on.                                                               *)
EXTENDS TlmmIrq, A618Ring, FiniteSetTheorems, SequenceTheorems, TLAPS

-----------------------------------------------------------------------------
(* The TLMM. *)

Deliveries == [pin : Pins, gen : 0..MaxGen, dev : Devices]

\* A delivery in the handler is never newer than its slot; while it is of the
\* slot's generation the slot is as it was when the delivery was taken.  No later
\* generation of its pin has been left masked.
Sound(d) ==
    /\ d.gen <= slot[d.pin].gen
    /\ d.gen = slot[d.pin].gen => slot[d.pin].on /\ slot[d.pin].dev = d.dev
    /\ refused[d.pin] <= d.gen

\* Before the handler re-enables a source it has noted a callback that asked for
\* the source to stay masked.
Noted == pc = "rearm" /\ ~verdict => refused[Head(pending).pin] = Head(pending).gen

\* What the handler holds: sound deliveries, those of one pin of one generation,
\* and marks of refusal no newer than the registrations.
Handling ==
    /\ \A i \in 1..Len(pending) : Sound(pending[i])
    /\ \A i, j \in 1..Len(pending) :
          pending[i].pin = pending[j].pin => pending[i].gen = pending[j].gen
    /\ \A p \in Pins : refused[p] <= slot[p].gen
    /\ Noted

IrqInv == ArmedIffRegistered /\ Handling

\* The interrupt enable of pin p is as its registration says.
Armed(p) == IF Registered(p) THEN enabled[p] \/ InFlight(p) \/ LeftMasked(p)
                                 ELSE ~enabled[p]

\* Init.
LEMMA IrqInitInv ==
  ASSUME IrqInit
  PROVE  IrqInv
  <1>1. slot \in [Pins -> [gen : 0..MaxGen, on : BOOLEAN, dev : Devices \cup {NoDevice}]]
    BY TlmmAssumption DEF IrqInit, EmptySlot
  <1>2. pending \in Seq([pin : Pins, gen : 0..MaxGen, dev : Devices])
    BY DEF IrqInit
  <1>3. refused \in [Pins -> 0..MaxGen]
    BY TlmmAssumption DEF IrqInit
  <1>4. IrqTypeOK
    BY <1>1, <1>2, <1>3, Zenon DEF IrqInit, IrqTypeOK
  <1>5. \A p \in Pins : Armed(p)
    BY DEF IrqInit, Registered, EmptySlot, Armed
  <1> QED
    BY <1>4, <1>5 DEF IrqInv, ArmedIffRegistered, Armed, Handling, Noted, IrqInit, EmptySlot

\* The input of a pin changes.
LEMMA LineStep ==
  ASSUME IrqInv, NEW p \in Pins, Rise(p) \/ Fall(p)
  PROVE  IrqInv'
  <1> USE DEF Service, Hardware
  <1>1. IrqTypeOK
    BY DEF IrqInv, ArmedIffRegistered
  <1>2. UNCHANGED <<slot, enabled, raw, pc, pending, verdict, refused>>
    BY DEF Rise, Fall
  <1>3. status' \in [Pins -> BOOLEAN] /\ line' \in [Pins -> BOOLEAN]
    BY <1>1, Zenon DEF IrqTypeOK, Rise, Fall
  <1>4. owed' \in [Pins -> BOOLEAN]
    BY <1>1, Zenon DEF IrqTypeOK, Rise, Fall
  <1>5. IrqTypeOK'
    BY <1>1, <1>2, <1>3, <1>4 DEF IrqTypeOK
  <1>6. \A q \in Pins : Armed(q)'
    BY <1>2 DEF IrqInv, ArmedIffRegistered, Armed, Registered, InFlight,
                LeftMasked
  <1>7. Handling'
    BY <1>2 DEF IrqInv, Handling, Sound, Noted
  <1> QED
    BY <1>5, <1>6, <1>7 DEF IrqInv, ArmedIffRegistered, Armed

\* The CPU enters the handler.
LEMMA TakeInterruptStep ==
  ASSUME IrqInv, TakeInterrupt
  PROVE  IrqInv'
  <1> USE DEF Hardware
  <1>1. UNCHANGED <<slot, enabled, raw, status, line, pending, verdict, owed, refused>>
    BY DEF TakeInterrupt
  <1>2. IrqTypeOK'
    BY <1>1, Zenon DEF IrqInv, ArmedIffRegistered, IrqTypeOK, TakeInterrupt
  <1>3. \A q \in Pins : Armed(q)'
    BY <1>1 DEF IrqInv, ArmedIffRegistered, Armed, Registered, InFlight,
                LeftMasked
  <1>4. Handling'
    BY <1>1 DEF IrqInv, Handling, Sound, Noted, TakeInterrupt
  <1> QED
    BY <1>2, <1>3, <1>4 DEF IrqInv, ArmedIffRegistered, Armed

\* The part of service_pending_irqs under the lock: every live pending pin is in
\* the batch, so masking it leaves its delivery in the handler.
LEMMA SnapshotStep ==
  ASSUME IrqInv, Snapshot
  PROVE  IrqInv'
  <1> DEFINE live == {p \in Pins : status[p] /\ Registered(p)}
             D == {[pin |-> p, gen |-> slot[p].gen, dev |-> slot[p].dev] : p \in live}
             n == Cardinality(live)
  <1>1. IrqTypeOK
    BY DEF IrqInv, ArmedIffRegistered
  <1>2. pending = << >>
    BY <1>1 DEF IrqTypeOK, Snapshot
  <1>3. live = {p \in {q \in Pins : status[q]} : Registered(p)}
    OBVIOUS
  <1>4. /\ enabled' = [p \in Pins |-> enabled[p] /\ p \notin {q \in Pins : status[q]}]
        /\ raw' \in [Pins -> BOOLEAN] /\ status' \in [Pins -> BOOLEAN]
    BY <1>1, <1>3, Zenon DEF Snapshot, IrqTypeOK
  <1>5. pending' \in Snapshots(live) /\ pc' = AfterSnapshot(live)
    BY <1>3, Zenon DEF Snapshot
  <1>6. n \in Nat /\ (live = {} => n = 0)
    <2>1. IsFiniteSet(Pins) <=> IsFiniteSet(Pins)
      BY DEF IsFiniteSet, IsFiniteSet
    <2>2. IsFiniteSet(Pins)
      BY <2>1, TlmmAssumption 
    <2>3. IsFiniteSet(live)
      BY <2>2, FS_Subset
    <2>4. n = Cardinality(live)
      BY DEF Cardinality, Cardinality
    <2> QED
      BY <2>3, <2>4, FS_CardinalityType, FS_EmptySet
  <1>7. D \subseteq Deliveries
    BY <1>1 DEF IrqTypeOK, Deliveries, Registered
  <1>8. /\ pending' \in [1..n -> D]
        /\ \A p \in live : \E i \in DOMAIN pending' : pending'[i].pin = p
    BY <1>5, Zenon DEF Snapshots
  <1> HIDE DEF n, D
  <1>9. pending' \in Seq(D) /\ Len(pending') = n
    BY <1>6, <1>8
  <1>10. \A i \in 1..n : /\ pending'[i] \in Deliveries
                         /\ pending'[i].pin \in live
                         /\ pending'[i].gen = slot[pending'[i].pin].gen
                         /\ pending'[i].dev = slot[pending'[i].pin].dev
    BY <1>7, <1>8 DEF D
  <1>11. UNCHANGED <<slot, line, verdict, owed, refused>>
    BY DEF Snapshot
  <1>12. IrqTypeOK'
    <2>1. pending' \in Seq(Deliveries)
      BY <1>7, <1>9
    <2>2. live = {} <=> pending' = << >>
      BY <1>6, <1>8, <1>9
    <2>3. /\ pc' \in {"idle", "enter", "match", "call", "rearm"}
          /\ pc' \in {"idle", "enter"} <=> pending' = << >>
      BY <1>5, <2>2 DEF AfterSnapshot
    <2> QED
      BY <1>1, <1>4, <1>11, <2>1, <2>3, SMTT(40) DEF IrqTypeOK, Deliveries
  <1>13. ASSUME NEW p \in Pins PROVE Armed(p)'
    <2>0. Armed(p)
      BY DEF IrqInv, ArmedIffRegistered, Armed
    <2>1. CASE p \in live
      <3>1. PICK i \in DOMAIN pending' : pending'[i].pin = p
        BY <1>8, <2>1
      <3>2. pending'[i].gen = slot'[p].gen
        BY <1>9, <1>10, <1>11, <3>1
      <3>3. InFlight(p)'
        BY <3>1, <3>2 DEF InFlight
      <3> QED
        BY <1>11, <2>1, <3>3 DEF Armed, Registered
    <2>2. CASE p \notin live /\ Registered(p)
      <3>1. ~InFlight(p)
        BY <1>2 DEF InFlight
      <3>2. enabled[p] \/ LeftMasked(p)
        BY <2>0, <2>2, <3>1 DEF Armed
      <3> QED
        BY <1>4, <1>11, <2>2, <3>2, Zenon DEF Armed, Registered, LeftMasked
    <2>3. CASE ~Registered(p)
      BY <1>4, <1>11, <2>0, <2>3, Zenon DEF Armed, Registered
    <2> QED
      BY <2>1, <2>2, <2>3
  <1>14. \A p \in Pins : refused'[p] <= slot'[p].gen
    BY <1>11 DEF IrqInv, Handling
  <1>15. \A i \in 1..Len(pending') : Sound(pending[i])'
    BY <1>1, <1>9, <1>10, <1>11, <1>14 DEF Sound, Registered, IrqTypeOK
  <1>16. Noted'
    BY <1>5 DEF Noted, AfterSnapshot
  <1>17. Handling'
    BY <1>9, <1>10, <1>14, <1>15, <1>16 DEF Handling
  <1> QED
    BY <1>12, <1>13, <1>17 DEF IrqInv, ArmedIffRegistered, Armed

\* The handler goes on to the next delivery: what it still holds stays sound, and
\* only the delivery it drops leaves flight.
LEMMA Pop ==
  ASSUME IrqInv, pc \in {"match", "call", "rearm"}, NextDelivery,
         UNCHANGED <<slot, refused, verdict, line, owed>>,
         enabled' \in [Pins -> BOOLEAN], raw' \in [Pins -> BOOLEAN],
         status' \in [Pins -> BOOLEAN]
  PROVE  /\ IrqTypeOK' /\ Handling'
         /\ Head(pending) \in Deliveries /\ Sound(Head(pending))
         /\ \A p \in Pins : InFlight(p) =>
               \/ InFlight(p)'
               \/ Head(pending).pin = p /\ Head(pending).gen = slot[p].gen
  <1>1. IrqTypeOK
    BY DEF IrqInv, ArmedIffRegistered
  <1>2. pending \in Seq(Deliveries) /\ pending # << >>
    BY <1>1 DEF IrqTypeOK, Deliveries
  <1>3. /\ pending' \in Seq(Deliveries) /\ Len(pending') = Len(pending) - 1
        /\ \A i \in 1..Len(pending') : pending'[i] = pending[i + 1] /\ i + 1 \in 1..Len(pending)
        /\ Len(pending) \in Nat \ {0} /\ Head(pending) = pending[1]
    BY <1>2 DEF NextDelivery
  <1>4. /\ pc' \in {"idle", "match"}
        /\ pc' = "idle" <=> pending' = << >>
    <2>1. Len(pending) = 1 <=> pending' = << >>
      BY <1>3, EmptySeq
    <2> QED
      BY <2>1 DEF NextDelivery
  <1>5. IrqTypeOK'
    BY <1>1, <1>3, <1>4, Zenon DEF IrqTypeOK, Deliveries
  <1>6. \A i \in 1..Len(pending') : Sound(pending[i])'
    BY <1>3, SMTT(40) DEF IrqInv, Handling, Sound
  <1>7. Handling'
    <2>1. \A i, j \in 1..Len(pending') :
             pending'[i].pin = pending'[j].pin => pending'[i].gen = pending'[j].gen
      BY <1>3, SMTT(40) DEF IrqInv, Handling
    <2>2. \A p \in Pins : refused'[p] <= slot'[p].gen
      BY DEF IrqInv, Handling
    <2> QED
      BY <1>4, <1>6, <2>1, <2>2 DEF Handling, Noted
  <1>8. Head(pending) \in Deliveries /\ Sound(Head(pending))
    BY <1>2, <1>3 DEF IrqInv, Handling
  <1>9. ASSUME NEW p \in Pins, InFlight(p)
        PROVE  \/ InFlight(p)'
               \/ Head(pending).pin = p /\ Head(pending).gen = slot[p].gen
    <2>1. PICK i \in DOMAIN pending : pending[i].pin = p /\ pending[i].gen = slot[p].gen
      BY <1>9 DEF InFlight
    <2>2. CASE i = 1
      BY <1>3, <2>1, <2>2
    <2>3. CASE i # 1
      <3>1. i - 1 \in DOMAIN pending' /\ pending'[i - 1] = pending[i]
        BY <1>2, <1>3, <2>3
      <3> QED
        BY <2>1, <3>1 DEF InFlight
    <2> QED
      BY <2>2, <2>3
  <1> QED
    BY <1>5, <1>7, <1>8, <1>9

\* A delivery that no longer matches is of an older generation, so dropping it
\* takes no current registration out of flight.
LEMMA MatchStep ==
  ASSUME IrqInv, Match
  PROVE  IrqInv'
  <1> USE DEF Hardware
  <1>1. IrqTypeOK
    BY DEF IrqInv, ArmedIffRegistered
  <1>2. UNCHANGED <<slot, enabled, raw, status, line, verdict, owed, refused>>
    BY DEF Match
  <1>3. CASE Matches(Head(pending)) /\ pc' = "call" /\ UNCHANGED pending
    <2>1. IrqTypeOK'
      BY <1>1, <1>2, <1>3, Zenon DEF IrqTypeOK, Match
    <2>2. \A q \in Pins : Armed(q)'
      BY <1>2, <1>3 DEF IrqInv, ArmedIffRegistered, Armed, Registered,
                        InFlight, LeftMasked
    <2>3. Handling'
      BY <1>2, <1>3 DEF IrqInv, Handling, Sound, Noted
    <2> QED
      BY <2>1, <2>2, <2>3 DEF IrqInv, ArmedIffRegistered, Armed
  <1>4. CASE ~Matches(Head(pending)) /\ Skip
    <2>1. /\ IrqTypeOK' /\ Handling' /\ Sound(Head(pending)) /\ Head(pending) \in Deliveries
          /\ \A p \in Pins : InFlight(p) =>
               \/ InFlight(p)'
               \/ Head(pending).pin = p /\ Head(pending).gen = slot[p].gen
      BY <1>1, <1>2, <1>4, Pop, SMTT(40) DEF Match, Skip, IrqTypeOK
    <2>2. \A p \in Pins : ~(Head(pending).pin = p /\ Head(pending).gen = slot[p].gen)
      BY <1>4, <2>1, Zenon DEF Sound, Matches
    <2>3. \A q \in Pins : Armed(q)'
      BY <1>2, <2>1, <2>2 DEF IrqInv, ArmedIffRegistered, Armed, Registered,
                              LeftMasked
    <2> QED
      BY <2>1, <2>3 DEF IrqInv, ArmedIffRegistered, Armed
  <1> QED
    BY <1>3, <1>4 DEF Match

\* The callback runs: a refusal is noted for the generation that was delivered.
\* A newer generation of the pin cannot have been refused yet.
LEMMA CallStep ==
  ASSUME IrqInv, Call
  PROVE  IrqInv'
  <1> USE DEF Hardware
  <1> DEFINE h == Head(pending)
  <1>1. IrqTypeOK
    BY DEF IrqInv, ArmedIffRegistered
  <1>2. UNCHANGED <<slot, enabled, raw, status, line, pending>> /\ pc' = "rearm"
    BY DEF Call
  <1>3. pending \in Seq(Deliveries) /\ Len(pending) \in Nat \ {0} /\ h = pending[1]
    BY <1>1 DEF IrqTypeOK, Deliveries, Call
  <1>4. h \in Deliveries /\ Sound(h)
    BY <1>3 DEF IrqInv, Handling
  <1>5. /\ verdict' \in BOOLEAN
        /\ owed' = [owed EXCEPT ![h.pin] = FALSE]
        /\ refused' = [refused EXCEPT ![h.pin] = IF verdict' THEN @ ELSE h.gen]
    BY DEF Call
  <1> HIDE DEF h
  <1>6. /\ refused' \in [Pins -> 0..MaxGen]
        /\ \A p \in Pins : p # h.pin => refused'[p] = refused[p]
        /\ refused'[h.pin] \in {refused[h.pin], h.gen}
        /\ ~verdict' => refused'[h.pin] = h.gen
    BY <1>1, <1>4, <1>5 DEF IrqTypeOK, Deliveries
  <1>7. IrqTypeOK'
    <2>1. owed' \in [Pins -> BOOLEAN]
      BY <1>1, <1>5, Zenon DEF IrqTypeOK
    <2>2. ~(pc \in {"idle", "enter"}) /\ ~(pc' \in {"idle", "enter"})
      BY <1>2 DEF Call
    <2>3. pc' \in {"idle", "enter", "match", "call", "rearm"}
      BY <1>2
    <2> QED
      BY <1>1, <1>2, <1>5, <1>6, <2>1, <2>2, <2>3, Zenon DEF IrqTypeOK
  <1>8. ASSUME NEW p \in Pins PROVE Armed(p)'
    <2>1. Armed(p)
      BY DEF IrqInv, ArmedIffRegistered, Armed
    <2>2. LeftMasked(p) => LeftMasked(p)'
      <3>1. slot[p].gen \in Nat
        BY <1>1 DEF IrqTypeOK
      <3>2. CASE p = h.pin
        BY <1>2, <1>4, <1>6, <3>1, <3>2 DEF LeftMasked, Sound, Deliveries
      <3>3. CASE p # h.pin
        BY <1>2, <1>6, <3>3 DEF LeftMasked
      <3> QED
        BY <3>2, <3>3
    <2> QED
      BY <1>2, <2>1, <2>2 DEF Armed, Registered, InFlight
  <1>9. Handling'
    <2>1. \A p \in Pins : refused'[p] <= slot'[p].gen
      BY <1>2, <1>4, <1>6 DEF IrqInv, Handling, Sound
    <2>2. ASSUME NEW i \in 1..Len(pending) PROVE Sound(pending[i])'
      <3>1. pending[i] \in Deliveries /\ Sound(pending[i])
        BY <1>3 DEF IrqInv, Handling
      <3>2. pending[i].pin = h.pin => pending[i].gen = h.gen
        BY <1>3 DEF IrqInv, Handling
      <3>3. refused'[pending[i].pin] <= pending[i].gen
        BY <1>4, <1>6, <3>1, <3>2 DEF Sound, Deliveries
      <3> QED
        BY <1>2, <3>1, <3>3 DEF Sound
    <2>3. Noted'
      BY <1>2, <1>6 DEF Noted, h
    <2> QED
      BY <1>2, <2>1, <2>2, <2>3 DEF IrqInv, Handling
  <1> QED
    BY <1>7, <1>8, <1>9 DEF IrqInv, ArmedIffRegistered, Armed

\* The re-enable after a callback: the source of a current registration is either
\* enabled again or noted as left masked, and no other source is enabled.
LEMMA RearmStep ==
  ASSUME IrqInv, Rearm
  PROVE  IrqInv'
  <1> DEFINE h == Head(pending)
             on == verdict /\ StillRegistered(h)
  <1>1. IrqTypeOK
    BY DEF IrqInv, ArmedIffRegistered
  <1>2. /\ UNCHANGED <<slot, line, verdict, owed, refused>>
        /\ pc = "rearm" /\ NextDelivery
        /\ enabled' = [enabled EXCEPT ![h.pin] = @ \/ on]
        /\ raw' = [raw EXCEPT ![h.pin] = @ \/ on]
        /\ status' = [status EXCEPT ![h.pin] = IF on THEN Relatched(h.pin, @) ELSE @]
    BY DEF Rearm
  <1>3. h \in Deliveries
    <2>1. pending \in Seq(Deliveries) /\ pending # << >>
      BY <1>1 DEF IrqTypeOK, Deliveries, Rearm
    <2> QED
      BY <2>1
  <1> HIDE DEF h, on
  <1>4. /\ enabled' \in [Pins -> BOOLEAN] /\ raw' \in [Pins -> BOOLEAN]
        /\ status' \in [Pins -> BOOLEAN]
    BY <1>1, <1>2, <1>3 DEF IrqTypeOK, Relatched, on, StillRegistered, Deliveries
  <1>5. /\ IrqTypeOK' /\ Handling' /\ Sound(h)
        /\ \A p \in Pins : InFlight(p) =>
               \/ InFlight(p)'
               \/ h.pin = p /\ h.gen = slot[p].gen
    <2>1. /\ pc \in {"match", "call", "rearm"} /\ NextDelivery
          /\ UNCHANGED <<slot, refused, verdict, line, owed>>
      BY <1>2
    <2>2. /\ IrqTypeOK' /\ Handling' /\ Sound(Head(pending))
          /\ \A p \in Pins : InFlight(p) =>
               \/ InFlight(p)'
               \/ Head(pending).pin = p /\ Head(pending).gen = slot[p].gen
      BY <1>4, <2>1, Pop, Zenon
    <2> QED
      BY <2>2 DEF h
  <1>6. ASSUME NEW p \in Pins PROVE Armed(p)'
    <2>1. Armed(p)
      BY DEF IrqInv, ArmedIffRegistered, Armed
    <2>2. CASE p = h.pin /\ h.gen = slot[p].gen
      <3>1. StillRegistered(h)
        BY <1>5, <2>2 DEF Sound, StillRegistered
      <3>2. Registered(p)
        BY <1>3, <2>2, <3>1, TlmmAssumption
           DEF StillRegistered, Registered, Deliveries
      <3>3. CASE verdict
        BY <1>1, <1>2, <2>2, <3>1, <3>2, <3>3
           DEF Armed, on, Registered, IrqTypeOK
      <3>4. CASE ~verdict
        BY <1>2, <2>2, <3>2, <3>4, Zenon
           DEF Armed, Registered, LeftMasked, IrqInv, Handling, Noted, h
      <3> QED
        BY <3>3, <3>4
    <2>3. CASE ~(p = h.pin /\ h.gen = slot[p].gen)
      <3>1. enabled'[p] = enabled[p]
        BY <1>1, <1>2, <1>3, <2>3 DEF on, StillRegistered, IrqTypeOK, Deliveries
      <3> QED
        BY <1>2, <1>5, <2>1, <2>3, <3>1 DEF Armed, Registered, LeftMasked
    <2> QED
      BY <2>2, <2>3
  <1> QED
    BY <1>5, <1>6 DEF IrqInv, ArmedIffRegistered, Armed

\* What the four calls of a driver have in common: the slot of one pin moves to
\* its next generation and the enable of that pin follows the new slot.
LEMMA DriverFrame ==
  ASSUME IrqInv, NEW p \in Pins, UNCHANGED <<pc, pending, verdict, refused, line>>,
         NEW s \in [gen : 0..MaxGen, on : BOOLEAN, dev : Devices \cup {NoDevice}],
         s.gen = slot[p].gen + 1, slot' = [slot EXCEPT ![p] = s],
         NEW b \in BOOLEAN, enabled' = [enabled EXCEPT ![p] = b],
         b <=> s.on /\ s.dev # NoDevice,
         raw' \in [Pins -> BOOLEAN], status' \in [Pins -> BOOLEAN],
         owed' \in [Pins -> BOOLEAN]
  PROVE  IrqInv'
  <1>1. IrqTypeOK
    BY DEF IrqInv, ArmedIffRegistered
  <1>2. /\ slot' \in [Pins -> [gen : 0..MaxGen, on : BOOLEAN, dev : Devices \cup {NoDevice}]]
        /\ slot'[p] = s /\ \A q \in Pins : q # p => slot'[q] = slot[q]
        /\ slot[p].gen \in Nat
    BY <1>1 DEF IrqTypeOK
  <1>3. /\ enabled' \in [Pins -> BOOLEAN]
        /\ enabled'[p] = b /\ \A q \in Pins : q # p => enabled'[q] = enabled[q]
    BY <1>1 DEF IrqTypeOK
  <1>4. IrqTypeOK'
    BY <1>1, <1>2, <1>3, Zenon DEF IrqTypeOK
  <1>5. ASSUME NEW q \in Pins PROVE Armed(q)'
    <2>1. Armed(q)
      BY DEF IrqInv, ArmedIffRegistered, Armed
    <2>2. CASE q = p
      BY <1>2, <1>3, <2>2 DEF Armed, Registered
    <2>3. CASE q # p
      BY <1>2, <1>3, <2>1, <2>3 DEF Armed, Registered, LeftMasked, InFlight
    <2> QED
      BY <2>2, <2>3
  <1>6. ASSUME NEW i \in 1..Len(pending) PROVE Sound(pending[i])'
    <2>1. pending[i] \in Deliveries /\ Sound(pending[i])
      <3>1. pending \in Seq(Deliveries)
        BY <1>1 DEF IrqTypeOK, Deliveries
      <3> QED
        BY <3>1 DEF IrqInv, Handling
    <2>2. CASE pending[i].pin = p
      BY <1>2, <2>1, <2>2 DEF Sound, Deliveries
    <2>3. CASE pending[i].pin # p
      BY <1>2, <2>1, <2>3 DEF Sound, Deliveries
    <2> QED
      BY <2>2, <2>3
  <1>7. \A q \in Pins : refused'[q] <= slot'[q].gen
    <2>1. \A q \in Pins : refused[q] \in Nat /\ refused[q] <= slot[q].gen
      BY <1>1 DEF IrqTypeOK, IrqInv, Handling
    <2> QED
      BY <1>2, <2>1
  <1>8. Handling'
    BY <1>6, <1>7 DEF IrqInv, Handling, Noted
  <1> QED
    BY <1>4, <1>5, <1>8 DEF IrqInv, ArmedIffRegistered, Armed

\* request_irq, free_irq, enable_irq and disable_irq, between any two steps of the
\* handler.
LEMMA DriverStep ==
  ASSUME IrqInv, NEW p \in Pins, IrqDriver(p)
  PROVE  IrqInv'
  <1> USE DEF Service
  <1> DEFINE S == [gen : 0..MaxGen, on : BOOLEAN, dev : Devices \cup {NoDevice}]
             g == slot[p].gen + 1
  <1>1. IrqTypeOK
    BY DEF IrqInv, ArmedIffRegistered
  <1>2. slot[p] \in S /\ MaxGen \in Nat
    BY <1>1, TlmmAssumption DEF IrqTypeOK
  <1>3. ASSUME NEW d \in Devices, request_irq(p, d) PROVE IrqInv'
    <2> DEFINE s == [gen |-> g, on |-> TRUE, dev |-> d]
    <2>1. s \in S /\ s.gen = slot[p].gen + 1 /\ s.on /\ s.dev # NoDevice
      BY <1>2, <1>3, TlmmAssumption DEF request_irq
    <2>2. /\ slot' = [slot EXCEPT ![p] = s] /\ enabled' = [enabled EXCEPT ![p] = TRUE]
          /\ UNCHANGED <<pc, pending, verdict, refused, line>>
      BY <1>3 DEF request_irq, Arm, Bump
    <2>3. /\ raw' \in [Pins -> BOOLEAN] /\ status' \in [Pins -> BOOLEAN]
          /\ owed' \in [Pins -> BOOLEAN]
      BY <1>1, <1>3 DEF request_irq, Arm, IrqTypeOK
    <2> HIDE DEF s
    <2> QED
      BY <2>1, <2>2, <2>3, DriverFrame, Zenon
  <1>4. CASE free_irq(p)
    <2> DEFINE s == [gen |-> g, on |-> FALSE, dev |-> NoDevice]
    <2>1. s \in S /\ s.gen = slot[p].gen + 1 /\ ~s.on
      BY <1>2, <1>4 DEF free_irq
    <2>2. /\ slot' = [slot EXCEPT ![p] = s] /\ enabled' = [enabled EXCEPT ![p] = FALSE]
          /\ UNCHANGED <<pc, pending, verdict, refused, line>>
      BY <1>4 DEF free_irq, Disarm, Bump
    <2>3. /\ raw' \in [Pins -> BOOLEAN] /\ status' \in [Pins -> BOOLEAN]
          /\ owed' \in [Pins -> BOOLEAN]
      BY <1>1, <1>4 DEF free_irq, Disarm, IrqTypeOK
    <2> HIDE DEF s
    <2> QED
      BY <2>1, <2>2, <2>3, DriverFrame, Zenon
  <1>5. CASE enable_irq(p)
    <2> DEFINE s == [gen |-> g, on |-> TRUE, dev |-> slot[p].dev]
    <2>1. s \in S /\ s.gen = slot[p].gen + 1 /\ s.on /\ s.dev # NoDevice
      BY <1>2, <1>5 DEF enable_irq
    <2>2. /\ slot' = [slot EXCEPT ![p] = s] /\ enabled' = [enabled EXCEPT ![p] = TRUE]
          /\ UNCHANGED <<pc, pending, verdict, refused, line>>
      BY <1>5 DEF enable_irq, Arm, Bump
    <2>3. /\ raw' \in [Pins -> BOOLEAN] /\ status' \in [Pins -> BOOLEAN]
          /\ owed' \in [Pins -> BOOLEAN]
      BY <1>1, <1>5 DEF enable_irq, Arm, IrqTypeOK
    <2> HIDE DEF s
    <2> QED
      BY <2>1, <2>2, <2>3, DriverFrame, Zenon
  <1>6. CASE disable_irq(p)
    <2> DEFINE s == [gen |-> g, on |-> FALSE, dev |-> slot[p].dev]
    <2>1. s \in S /\ s.gen = slot[p].gen + 1 /\ ~s.on
      BY <1>2, <1>6 DEF disable_irq
    <2>2. /\ slot' = [slot EXCEPT ![p] = s] /\ enabled' = [enabled EXCEPT ![p] = FALSE]
          /\ UNCHANGED <<pc, pending, verdict, refused, line>>
      BY <1>6 DEF disable_irq, Disarm, Bump
    <2>3. /\ raw' \in [Pins -> BOOLEAN] /\ status' \in [Pins -> BOOLEAN]
          /\ owed' \in [Pins -> BOOLEAN]
      BY <1>1, <1>6 DEF disable_irq, Disarm, IrqTypeOK
    <2> HIDE DEF s
    <2> QED
      BY <2>1, <2>2, <2>3, DriverFrame, Zenon
  <1> QED
    BY <1>3, <1>4, <1>5, <1>6 DEF IrqDriver

\* Every step of the demultiplexer keeps its invariant.
LEMMA IrqNextInv ==
  ASSUME IrqInv, IrqNext
  PROVE  IrqInv'
  <1>1. CASE IrqHandler
    BY <1>1, TakeInterruptStep, SnapshotStep, MatchStep, CallStep, RearmStep DEF IrqHandler
  <1>2. ASSUME NEW p \in Pins, Rise(p) \/ Fall(p) \/ IrqDriver(p)
        PROVE  IrqInv'
    BY <1>2, LineStep, DriverStep
  <1> QED
    BY <1>1, <1>2, Zenon DEF IrqNext

\* The demultiplexer's invariant holds in every reachable state.
THEOREM IrqInvariant == IrqSpec => []IrqInv
  <1>1. IrqInit => IrqInv
    BY IrqInitInv
  <1>2. IrqInv /\ [IrqNext]_irqVars => IrqInv'
    <2>1. ASSUME IrqInv, UNCHANGED irqVars PROVE IrqInv'
      <3>1. IrqTypeOK'
        BY <2>1, Zenon DEF irqVars, IrqInv, ArmedIffRegistered, IrqTypeOK
      <3>2. ArmedIffRegistered'
        BY <2>1, <3>1, Zenon DEF irqVars, IrqInv, ArmedIffRegistered, Registered, InFlight, LeftMasked
      <3>3. Handling'
        BY <2>1, Zenon DEF irqVars, IrqInv, Handling, Sound, Noted
      <3> QED
        BY <3>2, <3>3 DEF IrqInv
    <2> QED
      BY <2>1, IrqNextInv
  <1> QED
    BY <1>1, <1>2, PTL DEF IrqSpec

\* service_pending_irqs masks a source, calls back without the lock and enables the
\* source again, while request_irq, free_irq, enable_irq and disable_irq run on other
\* CPUs: for any pins and devices no unregistered pin is ever enabled, and an enabled
\* registration is masked only while its delivery is in the handler or at its own wish.
THEOREM AlwaysArmedIffRegistered == IrqSpec => []ArmedIffRegistered
  <1>1. IrqInv => ArmedIffRegistered
    BY DEF IrqInv
  <1> QED
    BY <1>1, IrqInvariant, PTL

-----------------------------------------------------------------------------
(* The ring of the A618. *)

\* The fence word, and the copy the worker is about to compare, are non-zero
\* only after the flush: this is what clearing the word before the kick buys.
FenceInv ==
  /\ Executing /\ fence # 0 => flushed
  /\ wpc = "check" /\ fenceValue # 0 => flushed

\* From the moment the flag is armed until the wait, the flag is still armed
\* or its owner's wake is latched; a snapshot taken in between belongs to a
\* handler that has yet to look at the flag.
WakeInv ==
  /\ wpc \in {"recheck", "wait"} => armed \/ latch
  /\ wpc = "wait" /\ snapshot # {} => latch \/ hpc = "wake"

RingInv == RingTypeOK /\ FenceInv /\ WakeInv /\ RetiredIsFlushed

\* wrapping_add(1).max(1) yields a non-zero sequence number.
LEMMA NextSequenceType ==
  ASSUME NEW s \in 0..(SeqModulus - 1)
  PROVE  NextSequence(s) \in 1..(SeqModulus - 1)
BY RingAssumption DEF NextSequence

\* Every step preserves the type invariant.
LEMMA RingTypeStep == RingTypeOK /\ [RingNext]_ringVars => RingTypeOK'
<1> SUFFICES ASSUME RingTypeOK, [RingNext]_ringVars PROVE RingTypeOK'
  OBVIOUS
<1> USE RingAssumption DEF RingTypeOK, Executing, Causes
<1>1. CASE Kick
  <2>1. sequence' \in 1..(SeqModulus - 1)
    BY <1>1, NextSequenceType DEF Kick
  <2>2. turn' \in 0..Deadline /\ kicks' \in 0..MaxSubmissions /\ fence' = 0
    BY <1>1 DEF Kick
  <2>3. /\ wpc' \in {"idle", "read"} /\ result' \in {"ok", "error"}
        /\ intStatus' \subseteq Causes /\ observed' = {}
    BY <1>1, Zenon DEF Kick
  <2>4. consumed' \in BOOLEAN /\ flushed' \in BOOLEAN /\ raised' \in BOOLEAN
    BY <1>1, Zenon DEF Kick
  <2> QED BY <1>1, <2>1, <2>2, <2>3, <2>4 DEF Kick, wakeVars, handlerVars
<1>2. CASE ReadFence
  BY <1>2 DEF ReadFence, gpuVars, handlerVars
<1>3. CASE Check
  BY <1>3 DEF Check, RingReturn, gpuVars, wakeVars, handlerVars
<1>4. CASE ArmWait
  BY <1>4 DEF ArmWait, gpuVars, handlerVars
<1>5. CASE RingRecheck
  BY <1>5, ZenonT(60) DEF RingRecheck, gpuVars, handlerVars
<1>6. CASE RingWait
  <2>1. turn' \in 0..Deadline
    BY <1>6 DEF RingWait
  <2>2. armed' \in BOOLEAN /\ latch' \in BOOLEAN
    BY <1>6, Zenon DEF RingWait
  <2> QED BY <1>6, <2>1, <2>2 DEF RingWait, gpuVars, handlerVars
<1>7. CASE Gpu
  <2>1. CASE GpuConsumes
    BY <2>1 DEF GpuConsumes, workerVars, gpuVars, wakeVars, handlerVars
  <2>2. CASE GpuBusy
    BY <2>2, ZenonT(60) DEF GpuBusy, workerVars, gpuVars, wakeVars, handlerVars
  <2>3. CASE GpuIdle
    BY <2>3 DEF GpuIdle, workerVars, gpuVars, wakeVars, handlerVars
  <2>4. CASE GpuFlushes
    BY <2>4 DEF GpuFlushes, workerVars, gpuVars, wakeVars, handlerVars
  <2>5. CASE GpuWritesFence
    BY <2>5 DEF GpuWritesFence, workerVars, gpuVars, wakeVars, handlerVars
  <2>6. CASE GpuRaises
    BY <2>6 DEF GpuRaises, workerVars, gpuVars, wakeVars, handlerVars
  <2>7. CASE GpuFaults
    BY <2>7 DEF GpuFaults, workerVars, gpuVars, wakeVars, handlerVars
  <2> QED BY <1>7, <2>1, <2>2, <2>3, <2>4, <2>5, <2>6, <2>7, Zenon DEF Gpu
<1>8. CASE Handler
  <2>1. CASE HandlerTakes
    BY <2>1 DEF HandlerTakes, workerVars, gpuVars, wakeVars
  <2>2. CASE HandlerMerges
    BY <2>2 DEF HandlerMerges, workerVars, gpuVars
  <2>3. CASE HandlerWakes
    <3>1. armed' \in BOOLEAN /\ latch' \in BOOLEAN
      BY <2>3, Zenon DEF HandlerWakes
    <3> QED BY <2>3, <3>1 DEF HandlerWakes, workerVars, gpuVars
  <2> QED BY <1>8, <2>1, <2>2, <2>3 DEF Handler
<1>9. CASE UNCHANGED ringVars
  BY <1>9 DEF ringVars, workerVars, gpuVars, wakeVars, handlerVars
<1> QED BY <1>1, <1>2, <1>3, <1>4, <1>5, <1>6, <1>7, <1>8, <1>9, Zenon DEF RingNext, RingLoop

\* Every step preserves the three other conjuncts.
LEMMA RingStep == RingInv /\ [RingNext]_ringVars => RingInv'
<1> SUFFICES ASSUME RingInv, [RingNext]_ringVars PROVE RingInv'
  OBVIOUS
<1>0. RingTypeOK'
  BY RingTypeStep DEF RingInv
<1> SUFFICES FenceInv' /\ WakeInv' /\ RetiredIsFlushed'
  BY <1>0 DEF RingInv
<1> USE DEF RingInv, RingTypeOK, FenceInv, WakeInv, RetiredIsFlushed, Executing
<1>1. CASE Kick
  BY <1>1, Zenon DEF Kick, wakeVars, handlerVars
<1>2. CASE ReadFence
  BY <1>2 DEF ReadFence, gpuVars, handlerVars
<1>3. CASE Check
  BY <1>3 DEF Check, RingReturn, FenceRetired, gpuVars, wakeVars, handlerVars
<1>4. CASE ArmWait
  BY <1>4 DEF ArmWait, gpuVars, handlerVars
<1>5. CASE RingRecheck
  BY <1>5 DEF RingRecheck, gpuVars, handlerVars
<1>6. CASE RingWait
  BY <1>6 DEF RingWait, gpuVars, handlerVars
<1>7. CASE Gpu
  BY <1>7, Zenon DEF Gpu, GpuConsumes, GpuBusy, GpuIdle, GpuFlushes, GpuWritesFence,
     GpuRaises, GpuFaults, workerVars, gpuVars, wakeVars, handlerVars
<1>8. CASE Handler
  <2>1. CASE HandlerTakes
    BY <2>1 DEF HandlerTakes, workerVars, gpuVars, wakeVars
  <2>2. CASE HandlerMerges
    BY <2>2 DEF HandlerMerges, workerVars, gpuVars
  <2>3. CASE HandlerWakes
    <3>1. armed \/ latch => latch'
      BY <2>3, Zenon DEF HandlerWakes
    <3> QED BY <2>3, <3>1 DEF HandlerWakes, workerVars, gpuVars
  <2> QED BY <1>8, <2>1, <2>2, <2>3 DEF Handler
<1>9. CASE UNCHANGED ringVars
  BY <1>9 DEF ringVars, workerVars, gpuVars, wakeVars, handlerVars
<1> QED BY <1>1, <1>2, <1>3, <1>4, <1>5, <1>6, <1>7, <1>8, <1>9, Zenon DEF RingNext, RingLoop

\* The inductive invariant holds of every behaviour of the ring.
THEOREM RingInvariant == RingSpec => []RingInv
<1>1. RingInit => RingInv
  <2> SUFFICES ASSUME RingInit PROVE RingInv
    OBVIOUS
  <2>1. 0 \in 0..Deadline /\ 0 \in 0..MaxSubmissions /\ 0 \in 0..(SeqModulus - 1)
    BY RingAssumption
  <2>2. /\ consumed \in BOOLEAN /\ idle \in BOOLEAN /\ flushed \in BOOLEAN
        /\ raised \in BOOLEAN /\ armed \in BOOLEAN /\ latch \in BOOLEAN
    BY Zenon DEF RingInit
  <2>3. RingTypeOK
    BY <2>1, <2>2 DEF RingInit, RingTypeOK, Executing, Causes
  <2> QED BY <2>3 DEF RingInit, RingInv, FenceInv, WakeInv, RetiredIsFlushed, Executing
<1> QED BY <1>1, RingStep, PTL DEF RingSpec

\* execute_ring returns Ok only for a stream whose writes are in memory, for
\* every modulus of the sequence numbers (2^32 in the driver) and any number
\* of wraps.
THEOREM RetiredAlwaysFlushed == RingSpec => []RetiredIsFlushed
<1>1. RingInv => RetiredIsFlushed
  BY DEF RingInv
<1> QED BY <1>1, RingInvariant, PTL

\* The arm, recheck, wait protocol of execute_ring against claim_interrupt
\* loses no delivered interrupt.
THEOREM NoDeliveredInterruptLost == RingSpec => []DeliveredInterruptWakes
<1>1. RingInv => DeliveredInterruptWakes
  BY DEF RingInv, WakeInv, DeliveredInterruptWakes
<1> QED BY <1>1, RingInvariant, PTL

=============================================================================
