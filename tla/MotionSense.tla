---------------------------- MODULE MotionSense ----------------------------
(***************************************************************************)
(* The EC's motion sensors: an event of the EC (module CrosEcEvents)       *)
(* announces vectors in its FIFO, the driver drains them in several reads  *)
(* and turns the EC's wrapping clock into host time.  Host and EC count    *)
(* the same unit; the values of a sample are left out.                     *)
(***************************************************************************)
EXTENDS Integers, Sequences, SequencesExt, FiniteSetsExt, Functions

CONSTANTS Sensors,      \* 1 .. the number of sensors; one more is unknown
          Period,       \* between two samples, at the announced rate
          Wrap,         \* the EC's counter counts modulo Wrap
          Capacity,     \* of the EC's FIFO
          Batch,        \* CROS_EC_MAX_MOTION_FIFO_VECTORS
          Start, MaxTime,   \* the first and the last moment
          MaxVectors,   \* bound on the vectors produced
          Nil

VARIABLES present,   \* the sensors that were registered
          tight,     \* the EC sends a timestamp before every sample
          proc,      \* Processor: [last, next, lost], by sensor
          ec,        \* [fifo, total, lost, made]: vectors, and losses since the last report
          job,       \* the drain: [pc, arrival, info, left, got]
          now,       \* host time
          shown      \* the drain that just ended: [arrival, vectors, events, before, exact, broken]
vars == <<present, tight, proc, ec, job, now, shown>>

\* A sensor whose information, range, rate or kind is missing is skipped.
Discovered == SUBSET Sensors
Each(x) == [s \in Sensors |-> x]
NoInfo == [count |-> 0, at |-> 0, total |-> 0, lost |-> Each(0)]
NoJob == [pc |-> "idle", arrival |-> 0, info |-> NoInfo, left |-> 0, got |-> <<>>]
NoDrain == [arrival |-> 0, vectors |-> <<>>, events |-> <<>>, before |-> Each(Nil),
            exact |-> TRUE, broken |-> {}]
Init ==
    /\ present \in Discovered /\ tight \in BOOLEAN
    /\ proc = [last |-> Each(Nil), next |-> Each(Nil), lost |-> Each(0)]
    /\ ec = [fifo |-> <<>>, total |-> 0, lost |-> Each(0), made |-> 0] /\ job = NoJob /\ now = Start
    /\ shown = NoDrain

-----------------------------------------------------------------------------
(* The EC: it drops its oldest vectors when the FIFO is full *)

\* A sample of an unknown sensor stands for an invalid vector too: the driver discards both.
Stranger == Max(Sensors) + 1
Vectors == {"sample", "timestamp", "flush", "odr"} \X Sensors \cup {"sample", "timestamp"} \X {Stranger}
Tick ==
    /\ now < MaxTime /\ now' = now + 1
    /\ shown' = NoDrain /\ UNCHANGED <<present, tight, proc, ec, job>>
Produce(kind, s) ==
    LET v == [kind |-> kind, s |-> s, at |-> now, id |-> ec.made + 1]
        full == Len(ec.fifo) = Capacity
        old == Head(ec.fifo)
        counts == full /\ old.kind = "sample" /\ old.s \in Sensors
    IN /\ ec.made < MaxVectors
       /\ ec' = [fifo |-> Append(IF full THEN Tail(ec.fifo) ELSE ec.fifo, v), made |-> ec.made + 1,
                 total |-> IF full THEN ec.total + 1 ELSE ec.total,
                 lost |-> IF counts THEN [ec.lost EXCEPT ![old.s] = @ + 1] ELSE ec.lost]
       /\ shown' = NoDrain /\ UNCHANGED <<present, tight, proc, job, now>>
Notify ==
    /\ job.pc = "idle" /\ ec.fifo # <<>>
    /\ job' = [NoJob EXCEPT !.pc = "event", !.info = [NoInfo EXCEPT !.count = Len(ec.fifo),
                                                          !.at = now % Wrap, !.total = ec.total]]
    /\ shown' = NoDrain /\ UNCHANGED <<present, tight, proc, ec, now>>

-----------------------------------------------------------------------------
(* drain_fifo *)

on_cros_ec_event ==
    /\ job.pc = "event" /\ job' = [job EXCEPT !.pc = "info", !.arrival = now]
    /\ UNCHANGED <<present, tight, proc, ec, now, shown>>
\* The whole information is asked for when something was lost; asking resets the counts,
\* also when the answer does not arrive.
Reported == [ec EXCEPT !.total = 0, !.lost = Each(0)]
FullInfo == [count |-> Len(ec.fifo), at |-> now % Wrap, total |-> ec.total, lost |-> ec.lost]
event_fifo_info ==
    /\ job.pc = "info" /\ UNCHANGED <<present, tight, proc, now, shown>>
    /\ \/ /\ job.info.total = 0
          /\ job' = [job EXCEPT !.pc = "read", !.left = job.info.count] /\ UNCHANGED ec
       \/ /\ job.info.total # 0
          /\ job' = [job EXCEPT !.pc = "read", !.info = FullInfo, !.left = Len(ec.fifo)] /\ ec' = Reported
       \/ job.info.total # 0 /\ job' = NoJob /\ ec' \in {ec, Reported}
fifo_remaining_after_progress(n, requested) == n \in 1 .. requested /\ n <= job.left
\* A read that fails may have taken the vectors all the same.
motion_fifo_read ==
    /\ job.pc = "read" /\ job.left > 0 /\ UNCHANGED <<present, tight, proc, now, shown>>
    /\ LET requested == Min({Batch, job.left}) IN
       \E n \in 0 .. Min({requested, Len(ec.fifo)}) :
         /\ ec' = [ec EXCEPT !.fifo = SubSeq(@, n + 1, Len(@))]
         /\ \/ /\ fifo_remaining_after_progress(n, requested)
               /\ job' = [job EXCEPT !.left = @ - n, !.got = @ \o SubSeq(ec.fifo, 1, n)]
            \/ job' = NoJob

-----------------------------------------------------------------------------
(* process *)

\* The signed shortest distance between two values of the EC's counter.
plain_delta_us(sample, anchor) == sample - anchor
wrapping_delta_us(sample, anchor) ==
    LET d == (sample - anchor) % Wrap IN IF 2 * d >= Wrap THEN d - Wrap ELSE d
anchored_timestamp_ns(at) ==
    LET t == job.arrival + wrapping_delta_us(at, job.info.at)
    IN Min({Max({t, 0}), job.arrival})

normalize_timestamp(a, s, t) == IF a.last[s] = Nil THEN t ELSE Max({a.last[s], t})
Output(a, s, t, id) ==
    LET u == normalize_timestamp(a, s, t) IN
    [a EXCEPT !.last[s] = u, !.lost[s] = 0,
              !.events = Append(@, [s |-> s, at |-> u, id |-> id, lost |-> a.lost[s]])]
emit_pending(a, s, marker, approximate) ==
    LET count == Len(a.pending[s])
        before == a.last[s]
        Stamp(i) == IF approximate THEN marker
                    ELSE IF before # Nil THEN before + (Max({marker - before, 0}) * i) \div count
                    ELSE Max({marker - Period * (count - i), 0})
    IN IF count = 0
       THEN IF approximate THEN a ELSE [a EXCEPT !.last[s] = normalize_timestamp(a, s, marker)]
       ELSE [FoldLeft(LAMBDA b, i : Output(b, s, Stamp(i), a.pending[s][i]), a, [i \in 1 .. count |-> i])
               EXCEPT !.pending[s] = <<>>]
EmitAll(a, marker, approximate) ==
    FoldLeft(LAMBDA b, s : emit_pending(b, s, marker, approximate), a, SetToSortSeq(present, <))

Known(v) == v.s \in present
Vector(a, v) ==
    LET marker == anchored_timestamp_ns(v.at % Wrap) IN
    CASE v.kind = "timestamp" ->
           IF tight /\ Known(v)
           THEN [emit_pending(a, v.s, job.arrival, TRUE) EXCEPT !.next[v.s] = marker]
           ELSE EmitAll(a, marker, FALSE)
      [] v.kind = "sample" /\ Known(v) ->
           IF tight /\ a.next[v.s] # Nil
           THEN [Output(a, v.s, a.next[v.s], v.id) EXCEPT !.next[v.s] = Nil]
           ELSE [a EXCEPT !.pending[v.s] = Append(@, v.id)]
      [] v.kind = "flush" /\ Known(v) -> Output(emit_pending(a, v.s, marker, FALSE), v.s, marker, v.id)
      [] v.kind = "odr" /\ Known(v) ->
           [emit_pending(a, v.s, marker, FALSE) EXCEPT !.last[v.s] = Nil, !.next[v.s] = Nil]
      [] OTHER -> a

\* What no timestamp followed is stamped with the arrival.
EmitNothing(a) == a
EmitRest(a) == EmitAll(a, job.arrival, TRUE)
Loses(s) == job.info.lost[s] # 0 \/ job.info.total > FoldFunction(+, 0, job.info.lost)
process ==
    LET start == [last |-> [s \in Sensors |-> IF Loses(s) THEN Nil ELSE proc.last[s]],
                  next |-> [s \in Sensors |-> IF Loses(s) THEN Nil ELSE proc.next[s]],
                  lost |-> [s \in Sensors |-> proc.lost[s] + job.info.lost[s]],
                  pending |-> Each(<<>>), events |-> <<>>]
        a == EmitRest(FoldLeft(Vector, start, job.got))
    IN /\ job.pc = "read" /\ job.left = 0 /\ job' = NoJob
       /\ proc' = [last |-> a.last, next |-> a.next, lost |-> a.lost]
       /\ shown' = [arrival |-> job.arrival, vectors |-> job.got, events |-> a.events,
                    before |-> start.last, exact |-> job.info.total = 0,
                    broken |-> {v.s : v \in {w \in ToSet(job.got) : w.kind = "odr"}}]
       /\ UNCHANGED <<present, tight, ec, now>>

Next ==
    \/ Tick \/ \E v \in Vectors : Produce(v[1], v[2])
    \/ Notify \/ on_cros_ec_event \/ event_fifo_info \/ motion_fifo_read \/ process
Spec == Init /\ [][Next]_vars

-----------------------------------------------------------------------------
(* Properties *)

\* The events of one sensor.
Of(seq, s) == SelectSeq(seq, LAMBDA e : e.s = s)

\* Every sample and flush of a registered sensor that a drain took is passed on once and
\* in order, at a time that is not in the future and, as long as the sensor's rate stays
\* the same and nothing was lost, not before an earlier one; with the first of them go the
\* losses.  A flush the event itself announced is not stamped before it happened, whatever
\* the EC's counter did in between.
SamplesShown ==
    \A s \in present :
      LET es == Of(shown.events, s)
          vs == SelectSeq(shown.vectors, LAMBDA v : v.s = s /\ v.kind \in {"sample", "flush"})
      IN /\ Len(es) = Len(vs) /\ \A i \in DOMAIN vs : es[i].id = vs[i].id
         /\ \A i \in DOMAIN es : es[i].at <= shown.arrival
         /\ s \notin shown.broken =>
              /\ \A i \in 1 .. Len(es) - 1 : es[i].at <= es[i + 1].at
              /\ es # <<>> /\ shown.before[s] # Nil => es[1].at >= shown.before[s]
         /\ es # <<>> => proc.lost[s] = 0
         /\ shown.exact => \A i \in DOMAIN vs :
              vs[i].kind = "flush" => es[i].at >= Min({vs[i].at, shown.arrival})
=============================================================================
