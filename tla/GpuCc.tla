------------------------------- MODULE GpuCc -------------------------------
(***************************************************************************)
(* The GPU clock controller (qcom-sc7180-gpucc): the GMU's clock path from *)
(* its GCC parent through the root generator to the branch, the other      *)
(* branches, and the CX power domain.  prepare_for_gmu holds the           *)
(* controller's lock; the clock handles and the domain take only the lock  *)
(* around the parent, so callers interleave between the parts of an enable *)
(* and of the update that writes the wake policy into the register of the  *)
(* GMU's branch together with the enable bit that it has read.             *)
(***************************************************************************)
EXTENDS Integers, FiniteSets, Sequences

CONSTANTS
    Threads,       \* callers of clock operations and of prepare_for_gmu
    Handles,       \* the clock handles that they use
    MaxTimeouts    \* bound on the waits and parent votes that fail

VARIABLES
    cx,         \* the CX domain: "off", "rising", "on", "falling"
    parent,     \* enabled_gmu_parent holds a clock
    votes,      \* how often the GCC parent is enabled on this driver's behalf
    root,       \* the GMU root: "reset", "pending" or "200MHz"
    copy,       \* the enable bit of the GMU's branch as a policy update read it
    on,         \* branches whose enable bit is set
    halted,     \* branches that do not run
    call,       \* each caller: [parts: what is left to do, of: what the call enables]
    holder,     \* the holder of the controller's lock
    sole,       \* callers under way, by resource, that no other call has crossed
    ok,         \* resources that such a call enabled and nobody disabled since
    timeouts

vars == <<cx, parent, votes, root, copy, on, halted, call, holder, sole, ok, timeouts>>

Branches == {"cxo_aon", "cxo", "crc_ahb", "snoc_dvm", "cx_gmu"}

\* enable_branch, which waits for the start of two of them.
Runs == [cxo_runs |-> "cxo", cx_gmu_runs |-> "cx_gmu"]
branch(b) == CASE b = "cxo" -> <<"cxo", "cxo_runs">> [] b = "cx_gmu" -> <<"cx_gmu", "cx_gmu_runs">>
               [] OTHER -> <<b>>

\* GpuClock::enable: the parts of an enable, in order; PLL1 needs none.
enable(c) == CASE c = "cx_gmu" -> <<"parent", "root", "policy", "policy_write">> \o branch(c)
               [] c = "gmu_clk_src" -> <<"parent", "root">>
               [] c = "pll1" -> <<>>
               [] OTHER -> branch(c)

\* prepare_for_gmu, under the lock.
prepare_for_gmu ==
    <<"cx", "parent", "root", "policy", "policy_write">> \o branch("cxo_aon") \o branch("cxo")
    \o branch("crc_ahb") \o branch("snoc_dvm") \o branch("cx_gmu")

NoCall == [parts |-> <<>>, of |-> {}]
Idle(t) == call[t] = NoCall

\* probe enables bi_tcxo, configures PLL1 and writes the wake policy; no parent vote yet.
Init ==
    /\ cx \in {"off", "on"} /\ parent = FALSE /\ votes = 0 /\ root = "reset"
    /\ copy = [t \in Threads |-> FALSE] /\ on = {} /\ halted = Branches
    /\ call = [t \in Threads |-> NoCall] /\ holder = {} /\ sole = {} /\ ok = {} /\ timeouts = 0

\* A caller goes into a call.  Another call on the GMU's branch crosses those under way.
Enter(t, parts, of) ==
    LET busy == \E u \in Threads : "cx_gmu" \in call[u].of
        mine == {<<t, x>> : x \in of \cap {"cx", "cx_gmu"}}
        gmu == {s \in sole \cup mine : s[2] = "cx_gmu"}
    IN  /\ Idle(t) /\ call' = [call EXCEPT ![t] = [parts |-> parts, of |-> of]]
        /\ sole' = (sole \cup mine) \ (IF busy /\ "cx_gmu" \in of THEN gmu ELSE {})
        /\ UNCHANGED <<cx, parent, votes, root, copy, on, halted, ok, timeouts>>

Begin(t) ==
    \/ \E c \in Handles : Enter(t, enable(c), {c}) /\ UNCHANGED holder
    \/ holder = {} /\ holder' = {t} /\ Enter(t, prepare_for_gmu, {"cx", "cx_gmu"})

Leave(t) ==
    /\ call' = [call EXCEPT ![t] = NoCall] /\ holder' = holder \ {t}
    /\ sole' = {s \in sole : s[1] # t}

\* The rest of a call goes when a part of it fails.
Fail(t) == Leave(t) /\ timeouts < MaxTimeouts /\ timeouts' = timeouts + 1 /\ UNCHANGED ok

Go(t) == call' = [call EXCEPT ![t].parts = Tail(@)] /\ UNCHANGED <<holder, sole, ok, timeouts>>

At(t, part) == call[t].parts # <<>> /\ Head(call[t].parts) = part

\* Mutant: every enable of the GMU path votes for the parent again.
enable_gmu_parent_again(t) ==
    /\ At(t, "parent")
    /\ \/ Go(t) /\ parent' = TRUE /\ votes' = votes + 1
       \/ Fail(t) /\ UNCHANGED <<parent, votes>>
    /\ UNCHANGED <<cx, root, copy, on, halted>>

\* enable_gmu_parent: one vote for the life of the controller, under its own lock.
enable_gmu_parent(t) ==
    /\ At(t, "parent")
    /\ \/ parent /\ Go(t) /\ UNCHANGED <<parent, votes>>
       \/ ~parent /\ Go(t) /\ parent' = TRUE /\ votes' = votes + 1
       \/ ~parent /\ Fail(t) /\ UNCHANGED <<parent, votes>>
    /\ UNCHANGED <<cx, root, copy, on, halted>>

\* configure_gmu_root: GPLL0/2 divided by 1.5.
configure_gmu_root(t) ==
    /\ At(t, "root")
    /\ \/ Go(t) /\ root' = "200MHz"
       \/ Fail(t) /\ root' = "pending"
    /\ UNCHANGED <<cx, parent, votes, copy, on, halted>>

enable_cx(t) ==
    /\ At(t, "cx")
    /\ \/ Go(t) /\ cx' = "on"
       \/ cx # "on" /\ Fail(t) /\ cx' = "rising"
    /\ UNCHANGED <<parent, votes, root, copy, on, halted>>

\* The update that writes the wake policy: it reads the register and writes it back, with
\* the enable bit as it was read.
ReadPolicy(t) ==
    /\ At(t, "policy") /\ Go(t) /\ copy' = [copy EXCEPT ![t] = "cx_gmu" \in on]
    /\ UNCHANGED <<cx, parent, votes, root, on, halted>>
WritePolicy(t) ==
    /\ At(t, "policy_write") /\ Go(t) /\ copy' = [copy EXCEPT ![t] = FALSE]
    /\ on' = IF copy[t] THEN on \cup {"cx_gmu"} ELSE on \ {"cx_gmu"}
    /\ halted' = IF copy[t] THEN halted ELSE halted \cup {"cx_gmu"}
    /\ UNCHANGED <<cx, parent, votes, root>>

\* enable_branch: set the bit, and wait until the branch runs.
enable_branch(t) ==
    /\ \/ \E b \in Branches : At(t, b) /\ on' = on \cup {b} /\ Go(t)
       \/ /\ \E w \in DOMAIN Runs : At(t, w) /\ ((Runs[w] \notin halted /\ Go(t)) \/ Fail(t))
          /\ UNCHANGED on
    /\ UNCHANGED <<cx, parent, votes, root, copy, halted>>

\* The call returns Ok.
Finish(t) ==
    /\ ~Idle(t) /\ call[t].parts = <<>> /\ Leave(t)
    /\ ok' = ok \cup {x \in call[t].of : <<t, x>> \in sole}
    /\ UNCHANGED <<cx, parent, votes, root, copy, on, halted, timeouts>>

\* What a disable takes from everybody.
Lost(x) == ok' = ok \ {x} /\ sole' = {s \in sole : s[2] # x}

\* GpuClock::disable stops the branch, whoever enables it, and leaves the root and the
\* parent.
disable(t, c) ==
    /\ Idle(t) /\ c \in Handles \cap on
    /\ on' = on \ {c} /\ halted' = halted \cup {c} /\ Lost(c)
    /\ UNCHANGED <<cx, parent, votes, root, copy, call, holder, timeouts>>

\* The CX domain of the power framework, without a lock; GX is left to the GMU.
EnableDomain(t) == Enter(t, <<"cx">>, {"cx"}) /\ UNCHANGED holder
DisableDomain(t) ==
    /\ Idle(t) /\ cx' = "falling" /\ Lost("cx")
    /\ UNCHANGED <<parent, votes, root, copy, on, halted, call, holder, timeouts>>

\* What a wait gave up on may still happen.
Hardware ==
    /\ \/ root = "pending" /\ root' = "200MHz" /\ UNCHANGED <<cx, halted>>
       \/ cx = "rising" /\ cx' = "on" /\ UNCHANGED <<root, halted>>
       \/ cx = "falling" /\ cx' = "off" /\ UNCHANGED <<root, halted>>
       \/ \E b \in on \cap halted : halted' = halted \ {b} /\ UNCHANGED <<root, cx>>
    /\ UNCHANGED <<parent, votes, copy, on, call, holder, sole, ok, timeouts>>

Next ==
    \/ Hardware
    \/ \E t \in Threads :
         \/ Begin(t) \/ enable_gmu_parent(t) \/ configure_gmu_root(t) \/ enable_cx(t)
         \/ ReadPolicy(t) \/ WritePolicy(t) \/ enable_branch(t) \/ Finish(t)
         \/ EnableDomain(t) \/ DisableDomain(t) \/ \E c \in Handles : disable(t, c)

Spec == Init /\ [][Next]_vars

-----------------------------------------------------------------------------
\* Success of prepare_for_gmu comes "after CX and all GMU-visible clocks are live", and
\* of an enable of the GMU's clock after its own path: the parent is voted for exactly
\* once, whoever else enabled the path or failed half way, and branch and domain stay on
\* until somebody disables them, later enables included.  For the branch the call must not
\* have been crossed by another one on it: handles take no lock, and the policy update of
\* one caller may write back the enable bit from before another one's enable.
GmuClockFed ==
    /\ votes = (IF parent THEN 1 ELSE 0)
    /\ "cx_gmu" \in ok => parent /\ root # "reset" /\ "cx_gmu" \in on
    /\ "cx" \in ok => cx = "on"
=============================================================================
