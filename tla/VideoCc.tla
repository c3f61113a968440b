------------------------------ MODULE VideoCc ------------------------------
(***************************************************************************)
(* The Venus clock and power-domain controller (drivers/clk/               *)
(* qcom-sc7180-videocc).  Every operation of the provider (enabling a clock *)
(* or a domain, prepare_for_video, set_rate) is a sequence of hardware      *)
(* steps, each of which waits for the hardware and may time out; a timeout  *)
(* ends the operation and leaves the steps done so far in place.  Enables   *)
(* and prepare_for_video hold the controller's lock; set_rate and the       *)
(* disables do not, so that a set_rate may run beside any other operation.  *)
(* The consumer may call the operations in any order and retry after an     *)
(* error, as a deferred probe does.                                         *)
(***************************************************************************)
EXTENDS Naturals, Sequences

CONSTANTS
    Threads,      \* callers of the operations
    MaxTimeouts   \* bound on the steps that time out

VideoCcAssumption == MaxTimeouts \in Nat

Domains  == {"venus", "vcodec0"}
Branches == {"xo", "ahb", "ctl_axi", "ctl_core", "vcodec0_axi", "vcodec0_core"}
CoreBranches == {"ctl_core", "vcodec0_core"}

VARIABLES
    on,        \* powered domains
    l,         \* the PLL's L and FRAC registers: "boot" or "1ghz"
    rate,      \* the rate the PLL's loop runs at once started
    running,   \* OPMODE is RUN
    out,       \* PLL_OUTCTRL: the output is on
    root,      \* source of the Venus RCG: "xo" or "pll"
    live,      \* branches that are enabled and not halted
    op,        \* the operation of each caller, or "none"
    todo,      \* its remaining steps
    result,    \* "none", "ok" or "err" of the last operation
    raced,     \* set_rate or a domain's disable ran beside another operation
    timeouts

vars == <<on, l, rate, running, out, root, live, op, todo, result, raced, timeouts>>

Pll == <<l, rate, running, out>>

\* probe: configure_pll0_defaults writes the boot rate; firmware may have left
\* the PLL running, and configure_domain_defaults keeps the domains' power.
Init ==
    /\ on \in {{}, {"venus"}, {"venus", "vcodec0"}}
    /\ l = "boot"
    /\ rate = "boot"
    /\ running \in BOOLEAN
    /\ out \in {FALSE, running}
    /\ root = "xo"
    /\ live = {"xo"}
    /\ op = [t \in Threads |-> "none"]
    /\ todo = [t \in Threads |-> <<>>]
    /\ result = "none"
    /\ raced = FALSE
    /\ timeouts = 0

-----------------------------------------------------------------------------
\* prepare_pll0_1ghz: set_pll0_1ghz checks and writes the registers and latches them;
\* enable_pll0 checks, restarts the PLL and waits for its lock.
PllSteps == <<"pll_set", "latch", "pll_check", "pll_start", "pll_lock">>

\* prepare_pll0_1ghz and configure_venus_root.
CoreSteps == PllSteps \o <<"root">>

\* enable_domain_locked: vcodec0 lies inside venus.
DomainSteps(d) == IF d = "vcodec0" THEN <<"venus", "vcodec0">> ELSE <<d>>

\* VideoClock::enable of a branch.
BranchSteps(b) == IF b \in CoreBranches THEN CoreSteps \o <<b>> ELSE <<b>>

\* The steps of every operation.
Steps(o) ==
    CASE o \in Domains  -> DomainSteps(o)
      [] o \in Branches -> BranchSteps(o)
      [] o = "pll0"     -> PllSteps
      [] o = "clk_src"  -> CoreSteps
      [] o = "set_rate" -> CoreSteps
      [] o = "prepare_for_video" ->
            DomainSteps("venus") \o DomainSteps("vcodec0") \o CoreSteps
            \o <<"xo", "ahb", "ctl_axi", "ctl_core", "vcodec0_axi", "vcodec0_core">>

Operations == Domains \cup Branches \cup {"pll0", "clk_src", "set_rate", "prepare_for_video"}

Busy == \E t \in Threads : op[t] # "none"

\* The controller's lock, which set_rate does not take.
Locked == \E t \in Threads : op[t] \notin {"none", "set_rate"}

\* The consumer calls an operation.  Its domains are powered before it probes,
\* so before it enables a clock of theirs.
Call(t, o) ==
    /\ op[t] = "none"
    /\ o # "set_rate" => ~Locked
    /\ o \in Branches \ {"xo"} => on = Domains
    /\ op' = [op EXCEPT ![t] = o]
    /\ todo' = [todo EXCEPT ![t] = Steps(o)]
    /\ result' = "none"
    /\ raced' = (raced \/ Busy)
    /\ UNCHANGED <<on, Pll, root, live, timeouts>>

\* The next n steps are done, or need not be done; the last one ends the operation.
Advance(t, n) ==
    LET rest == SubSeq(todo[t], n + 1, Len(todo[t])) IN
    /\ todo' = [todo EXCEPT ![t] = rest]
    /\ op' = [op EXCEPT ![t] = IF rest = <<>> THEN "none" ELSE @]
    /\ result' = IF rest = <<>> THEN "ok" ELSE result

\* The `?' of a step that timed out.
Fail(t) ==
    /\ timeouts < MaxTimeouts
    /\ timeouts' = timeouts + 1
    /\ op' = [op EXCEPT ![t] = "none"]
    /\ todo' = [todo EXCEPT ![t] = <<>>]
    /\ result' = "err"

At(t, step) == op[t] # "none" /\ Head(todo[t]) = step

-----------------------------------------------------------------------------
\* enable_domain_locked: clear the collapse bit and wait for power.
PowerUp(t, d) ==
    /\ At(t, d)
    /\ \/ on' = on \cup {d} /\ Advance(t, 1) /\ UNCHANGED timeouts
       \/ d \notin on /\ Fail(t) /\ on' \in {on, on \cup {d}}
    /\ UNCHANGED <<Pll, root, live, raced>>

\* set_pll0_1ghz: nothing when the registers already hold the value.  A
\* running PLL takes the new value when the update is acknowledged; a stopped
\* one takes it when it starts.
PllSkip == l = "1ghz"

\* Mutant: the new registers are never latched.
LatchedNever == rate

Latched == IF running THEN "1ghz" ELSE rate

SetPll(t) ==
    /\ At(t, "pll_set")
    /\ l' = "1ghz"
    /\ Advance(t, IF PllSkip THEN 2 ELSE 1)
    /\ UNCHANGED <<on, rate, running, out, root, live, raced, timeouts>>

\* latch_pll0_update.
LatchPll(t) ==
    /\ At(t, "latch")
    /\ \/ rate' = Latched /\ Advance(t, 1) /\ UNCHANGED timeouts
       \/ rate' \in {rate, Latched} /\ Fail(t)
    /\ UNCHANGED <<on, l, running, out, root, live, raced>>

\* Mutant: OPMODE alone is taken for a PLL that is on.
PllOnByOpmode == running

\* enable_pll0 returns early for a PLL that runs and drives its output.
PllOn == running /\ out

CheckPll(t) ==
    /\ At(t, "pll_check")
    /\ Advance(t, IF PllOn THEN 3 ELSE 1)
    /\ UNCHANGED <<on, Pll, root, live, raced, timeouts>>

\* enable_pll0: output off, standby, run; then wait for the lock, output on.
StartPll(t) ==
    /\ At(t, "pll_start")
    /\ running' = TRUE /\ out' = FALSE /\ rate' = l
    /\ Advance(t, 1)
    /\ UNCHANGED <<on, l, root, live, raced, timeouts>>

LockPll(t) ==
    /\ At(t, "pll_lock")
    /\ \/ out' = TRUE /\ Advance(t, 1) /\ UNCHANGED timeouts
       \/ Fail(t) /\ UNCHANGED out
    /\ UNCHANGED <<on, l, rate, running, root, live, raced>>

\* configure_venus_root: force the root on, select PLL0 / 2, update, release.
ConfigureRoot(t) ==
    /\ At(t, "root")
    /\ \/ root' = "pll" /\ Advance(t, 1) /\ UNCHANGED timeouts
       \/ Fail(t) /\ root' \in {root, "pll"}
    /\ UNCHANGED <<on, Pll, live, raced>>

\* enable_branch.  A branch without its clock stays halted.
EnableBranch(t, b) ==
    /\ At(t, b)
    /\ \/ live' = live \cup {b} /\ Advance(t, 1) /\ UNCHANGED timeouts
       \/ b \notin live /\ Fail(t) /\ live' \in {live, live \cup {b}}
    /\ UNCHANGED <<on, Pll, root, raced>>

\* VideoClock::disable takes no lock; the PLL and the source stay.  (Of a branch that is
\* off it changes nothing.)
DisableBranch(b) ==
    /\ b \in live /\ live' = live \ {b}
    /\ UNCHANGED <<on, Pll, root, op, todo, result, raced, timeouts>>

\* VideoPowerDomain::disable takes no lock either.  The consumer releases the inner
\* domain first and its clocks before it; the code does not check either.
DisableDomain(d) ==
    /\ d \in on
    /\ d = "venus" => "vcodec0" \notin on
    /\ live \subseteq {"xo"}
    /\ on' = on \ {d}
    /\ raced' = (raced \/ Busy)
    /\ UNCHANGED <<Pll, root, live, op, todo, result, timeouts>>

Step(t) ==
    \/ \E d \in Domains : PowerUp(t, d)
    \/ SetPll(t) \/ LatchPll(t) \/ CheckPll(t) \/ StartPll(t) \/ LockPll(t)
    \/ ConfigureRoot(t)
    \/ \E b \in Branches : EnableBranch(t, b)

Next ==
    \/ \E t \in Threads : Step(t) \/ \E o \in Operations : Call(t, o)
    \/ \E d \in Domains : DisableDomain(d)
    \/ \E b \in Branches : DisableBranch(b)

Spec == Init /\ [][Next]_vars

-----------------------------------------------------------------------------
TypeOK ==
    /\ on \subseteq Domains
    /\ {l, rate} \subseteq {"boot", "1ghz"}
    /\ {running, out, raced} \subseteq BOOLEAN
    /\ root \in {"xo", "pll"}
    /\ live \subseteq Branches
    /\ op \in [Threads -> Operations \cup {"none"}]
    /\ \A t \in Threads : op[t] = "none" <=> todo[t] = <<>>
    /\ result \in {"none", "ok", "err"}
    /\ timeouts \in 0..MaxTimeouts

\* Whatever step timed out before, a retried operation takes nothing down and
\* builds on nothing that is not there: an enabled core branch runs from the PLL,
\* the inner domain is powered only inside the outer one, and the root never
\* selects a PLL whose output is off.  The last two hold until a set_rate or the
\* disable of a domain, which take no lock, has run beside another operation: either
\* of two that found the PLL off restarts it, also after the other has selected it.
CoreHasSource ==
    /\ TypeOK
    /\ live \cap CoreBranches # {} => root = "pll"
    /\ ~raced => /\ "vcodec0" \in on => "venus" \in on
                 /\ root = "pll" => running /\ out

\* prepare_for_video: "Success after both GDSCs, the PLL/RCG, and all consumer
\* branches are hardware-visible."  While no step has timed out, a success of an
\* operation that programs the PLL means that its output runs at the new rate,
\* also when firmware left the PLL running at another one.  (After a latch that
\* timed out the retry takes the early return of set_pll0_1ghz instead, and so does
\* a set_rate beside an operation that has not latched yet.)
SuccessMeansRate ==
    timeouts = 0 /\ ~raced /\ result = "ok" /\ root = "pll" /\ out => rate = "1ghz"
=============================================================================
