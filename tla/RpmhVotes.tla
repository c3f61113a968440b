----------------------------- MODULE RpmhVotes -----------------------------
(***************************************************************************)
(* The votes that clocks (rpmhcc), power domains (rpmhpd) and bandwidth    *)
(* paths (qcom-sc7180 interconnect) place through the resource state       *)
(* coordinator.  A write is what module RpmhTcs shows of one: success      *)
(* means that every command was applied; a failed one left nothing behind, *)
(* or left its remaining commands in flight, and until these have been     *)
(* applied the coordinator refuses every other write.                      *)
(***************************************************************************)
EXTENDS Integers, FiniteSets, Sequences, SequencesExt

CONSTANTS
    Layouts,      \* Command DB: width and unit of the BCMs, and the clock domain of each
    MaxFaults     \* bound on the writes that fail

XO_ENABLE_LEVEL == 3
BCM_VOTE_MASK == 16383
CxoClocks == {"bi_tcxo", "bi_tcxo_ao"}

\* Resource address and parent of a power domain.
AddressOf == [mx |-> "mx.lvl", cx |-> "cx.lvl", cx_ao |-> "cx.lvl", mx_ao |-> "mx.lvl"]
ParentOf == [cx |-> {"mx"}, cx_ao |-> {"mx_ao"}, mx |-> {}, mx_ao |-> {}]
Domains == DOMAIN AddressOf

\* maximum_corner: the last level of the table before its zero padding.
maximum_corner(levels) ==
    LET ends == {i \in 2..Len(levels) : levels[i] = 0}
    IN  IF ends = {} THEN Len(levels) - 1
        ELSE (CHOOSE i \in ends : \A j \in ends : i <= j) - 2

Corner == [a \in {"cx.lvl", "mx.lvl"} |->
              IF a = "cx.lvl" THEN maximum_corner(<<0, 16, 48, 64, 0, 0>>)
                              ELSE maximum_corner(<<0, 48, 256>>)]

\* The paths and their BCMs, in the order in which the driver lists them, and
\* the peak that is voted, in MB/s.
Paths == [gfx_mem |-> <<"SH0", "MC0", "ACV">>, video_mem |-> <<"MM1", "SH0", "MC0", "ACV">>]
Peak == [gfx_mem |-> 7216, video_mem |-> 20]
Bcms == {"SH0", "MC0", "ACV", "MM1"}
node_buswidth == [SH0 |-> 16, MC0 |-> 4, MM1 |-> 32]
EnableMask == 8

VARIABLES
    level,      \* voltage and clock levels in force, per address
    staged,     \* bandwidth votes received, per BCM
    inForce,    \* bandwidth votes committed, per BCM
    inFlight,   \* commands of a failed write that are still to be applied
    enabled,    \* CxoResource.enabled and RpmhPowerDomain.enabled
    held,       \* what callers were told they hold
    lowered,    \* addresses that a release may have lowered for those who still hold them
    last_peak,  \* paths whose last_peak_kbps is set
    aux,        \* Command DB: vcd, unit and width
    faults

vars == <<level, staged, inForce, inFlight, enabled, held, lowered, last_peak, aux, faults>>
hw == <<level, staged, inForce>>

Init ==
    /\ level = [a \in {"xo.lvl", "cx.lvl", "mx.lvl"} |-> 0]
    /\ staged = [b \in Bcms |-> 0] /\ inForce = staged
    /\ inFlight = <<>> /\ enabled = {} /\ held = {} /\ lowered = {} /\ last_peak = {} /\ faults = 0
    /\ aux \in Layouts

\* What the accelerators make of one command: a bandwidth vote is staged, and
\* the commit flag puts the staged votes of its clock domain in force.
Applied(h, c) ==
    IF c.kind = "arc" THEN [h EXCEPT !.level[c.address] = c.data]
    ELSE LET s == [h.staged EXCEPT ![c.address] = c.data]
         IN  [h EXCEPT !.staged = s,
                       !.inForce = [b \in Bcms |-> IF c.commit /\ aux.vcd[b] = aux.vcd[c.address]
                                                    THEN s[b] ELSE h.inForce[b]]]

HwAfter(cmds) ==
    FoldLeft(Applied, [level |-> level, staged |-> staged, inForce |-> inForce], cmds)

SetHw(h) == level' = h.level /\ staged' = h.staged /\ inForce' = h.inForce

\* write_active_batch, as its callers see it.
WriteOk(cmds) == inFlight = <<>> /\ SetHw(HwAfter(cmds)) /\ UNCHANGED <<inFlight, faults>>

WriteFails(cmds) ==
    \/ inFlight # <<>> /\ UNCHANGED <<hw, inFlight, faults>>
    \/ /\ inFlight = <<>> /\ faults < MaxFaults /\ faults' = faults + 1
       /\ \/ UNCHANGED <<hw, inFlight>>
          \/ \E n \in 0..Len(cmds) - 1 :
               SetHw(HwAfter(SubSeq(cmds, 1, n))) /\ inFlight' = SubSeq(cmds, n + 1, Len(cmds))

\* The coordinator works off what a failed write left.
Catch ==
    /\ inFlight # <<>>
    /\ SetHw(HwAfter(<<Head(inFlight)>>)) /\ inFlight' = Tail(inFlight)
    /\ UNCHANGED <<enabled, held, lowered, last_peak, aux, faults>>

-----------------------------------------------------------------------------
Arc(a, v) == <<[kind |-> "arc", address |-> a, data |-> v, commit |-> FALSE]>>

\* Mutant: each of the two clocks votes for itself alone.
AggregateAlone(S) == S # {} /\ Cardinality(S) = 1

\* The level of the crystal: on while either clock is.
Aggregate(S) == S # {}

\* CxoResource::set_enabled, under its lock: a vote when the aggregate changes,
\* undone in the books when the write fails.
set_enabled(c, enable) ==
    LET cxo == enabled \cap CxoClocks
        after == IF enable THEN cxo \cup {c} ELSE cxo \ {c}
        lv == IF Aggregate(after) THEN XO_ENABLE_LEVEL ELSE 0
        told == IF enable THEN held \cup {c} ELSE held \ {c}
    IN  /\ IF (c \in enabled) = enable \/ Aggregate(cxo) = Aggregate(after)
             THEN /\ enabled' = (enabled \ CxoClocks) \cup after /\ held' = told
                  /\ UNCHANGED <<hw, inFlight, lowered, faults>>
             ELSE \/ /\ WriteOk(Arc("xo.lvl", lv)) /\ held' = told
                     /\ enabled' = (enabled \ CxoClocks) \cup after
                     /\ lowered' = lowered \ {"xo.lvl"}
                  \/ /\ WriteFails(Arc("xo.lvl", lv)) /\ UNCHANGED enabled
                     /\ held' = held \ {c}
                     /\ lowered' = IF enable THEN lowered ELSE lowered \cup {"xo.lvl"}
        /\ UNCHANGED <<last_peak, aux>>

\* RpmhPowerDomain::enable: the parent first, by a step of its own, then a vote
\* for the top corner; nothing but Ok when the domain is enabled.
EnableDomain(d) ==
    /\ \/ d \in enabled /\ held' = held \cup {d} /\ UNCHANGED <<hw, inFlight, enabled, lowered, faults>>
       \/ /\ d \notin enabled /\ ParentOf[d] \subseteq enabled
          /\ WriteOk(Arc(AddressOf[d], Corner[AddressOf[d]]))
          /\ enabled' = enabled \cup {d} /\ held' = held \cup {d}
          /\ lowered' = lowered \ {AddressOf[d]}
       \/ /\ d \notin enabled /\ ParentOf[d] \subseteq enabled
          /\ WriteFails(Arc(AddressOf[d], Corner[AddressOf[d]])) /\ UNCHANGED <<enabled, held, lowered>>
    /\ UNCHANGED <<last_peak, aux>>

\* RpmhPowerDomain::disable: a vote for the lowest corner.  Domains with one address are
\* not aggregated, so that it is a vote against the other one too.
DisableDomain(d) ==
    /\ d \in enabled
    /\ \/ WriteOk(Arc(AddressOf[d], 0)) /\ enabled' = enabled \ {d}
       \/ WriteFails(Arc(AddressOf[d], 0)) /\ UNCHANGED enabled
    /\ held' = held \ {d} /\ lowered' = lowered \cup {AddressOf[d]}
    /\ UNCHANGED <<last_peak, aux>>

-----------------------------------------------------------------------------
bcm_div(value, divisor) == IF value # 0 /\ value < divisor THEN 1 ELSE value \div divisor

\* Mutant: the vote of the path alone.
WithFloorNone(vote) == vote

\* boot_floor: the votes of consumers that the kernel does not manage stay covered.
WithFloor(vote) == IF vote > BCM_VOTE_MASK THEN vote ELSE BCM_VOTE_MASK

\* The vote that a peak needs at a BCM, and the vote that Bcm::votes computes.
Needed(b, peak) == bcm_div(bcm_div(peak * aux.width, node_buswidth[b]) * 1000, aux.unit)
votes(b, peak) == IF b = "ACV" THEN EnableMask
                  ELSE LET v == WithFloor(Needed(b, peak))
                       IN  IF v > BCM_VOTE_MASK THEN BCM_VOTE_MASK ELSE v

\* Mutant: one commit, at the end of the batch.
commitAtEnd(s, i) == i = Len(s)

\* The last command of each clock domain commits it.
commit(s, i) == i = Len(s) \/ aux.vcd[s[i]] # aux.vcd[s[i + 1]]

Prepared(p) ==
    LET s == SortSeq(Paths[p], LAMBDA a, b : aux.vcd[a] < aux.vcd[b])
    IN  [i \in 1..Len(s) |-> [kind |-> "bcm", address |-> s[i], data |-> votes(s[i], Peak[p]),
                              commit |-> commit(s, i)]]

\* set_peak_kbps: a batch sorted by clock domain; nothing to do once it is set.
set_peak_kbps(p) ==
    /\ p \notin last_peak
    /\ \/ WriteOk(Prepared(p)) /\ last_peak' = last_peak \cup {p}
       \/ WriteFails(Prepared(p)) /\ UNCHANGED last_peak
    /\ UNCHANGED <<enabled, held, lowered, aux>>

Next ==
    \/ Catch
    \/ \E c \in CxoClocks, enable \in BOOLEAN : set_enabled(c, enable)
    \/ \E d \in Domains : EnableDomain(d) \/ DisableDomain(d)
    \/ \E p \in DOMAIN Paths : set_peak_kbps(p)

Spec == Init /\ [][Next]_vars

-----------------------------------------------------------------------------
\* While a caller holds one of the two crystal clocks the crystal is voted on, whatever
\* the other one's user released and whichever writes failed and were applied late; only a
\* failed release leaves its level open, until a write succeeds.  A held power domain has
\* its top corner unless a domain with the same resource (cx and cx_ao, mx and mx_ao), or
\* itself, was released since: their votes are not aggregated, and the release of either
\* takes the corner from both until the next vote that succeeds.
HeldIsVoted ==
    /\ held \cap CxoClocks # {} /\ "xo.lvl" \notin lowered => level["xo.lvl"] = XO_ENABLE_LEVEL
    /\ \A d \in held \cap Domains : AddressOf[d] \notin lowered => level[AddressOf[d]] = Corner[AddressOf[d]]

\* Once set_peak_kbps returned Ok, every controller on the path has a committed
\* vote of at least what the path needs, and no other path lowers it.
PathStaysFast ==
    \A p \in last_peak : \A i \in 1..Len(Paths[p]) :
        LET b == Paths[p][i]
            need == IF b = "ACV" THEN EnableMask ELSE Needed(b, Peak[p])
        IN  inForce[b] >= (IF need > BCM_VOTE_MASK THEN BCM_VOTE_MASK ELSE need)
=============================================================================
