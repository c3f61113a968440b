---------------------------- MODULE LpassClocks ----------------------------
(***************************************************************************)
(* The audio clock controller (qcom-sc7180-lpasscc): the rate generators   *)
(* of the two bit clocks, of the codec's master clock and of the core, the *)
(* audio PLL that feeds the bit clocks, the branches and the audio power   *)
(* domains.  Source and branch handles share a generator and a rate cell,  *)
(* and the state lock covers set_audio_rate, but neither the read of the   *)
(* rate that enable_clock applies again nor the branch it then starts.     *)
(***************************************************************************)
EXTENDS DriverArithmetic, FiniteSets

CONSTANTS
    Threads,       \* threads that call clock operations
    AudioRates,    \* rates in kHz that set_rate is called with
    MaxTimeouts,   \* bound on the waits that time out
    Nobody         \* no thread

PllOdd == 5        \* RCG_PLL_ODD_SOURCE, 122.88 MHz

LPAIF_RATES ==
    {Entry(256, PllOdd, 29, 1, 32), Entry(512, PllOdd, 29, 1, 16), Entry(768, PllOdd, 19, 1, 16),
     Entry(1024, PllOdd, 29, 1, 8), Entry(1536, PllOdd, 19, 1, 8), Entry(2048, PllOdd, 29, 1, 4),
     Entry(3072, PllOdd, 19, 1, 4), Entry(4096, PllOdd, 29, 1, 2), Entry(6144, PllOdd, 19, 1, 2),
     Entry(8192, PllOdd, 29, 0, 0), Entry(9600, 0, 3, 0, 0), Entry(12288, PllOdd, 19, 0, 0),
     Entry(19200, 0, 1, 0, 0), Entry(24576, PllOdd, 9, 0, 0)}

MCLK_RATES == {Entry(9600, 0, 3, 0, 0), Entry(19200, 0, 1, 0, 0)}

\* The generator behind a handle.
RcgOf == [lpaif_pri_clk_src |-> "pri", lpaif_pri_ibit_clk |-> "pri",
          ext_mclk0_clk_src |-> "mclk", ext_mclk0_clk |-> "mclk",
          sysnoc_mport_core_clk |-> "core"]
Clocks == DOMAIN RcgOf
Rcgs == {"pri", "mclk", "core"}

\* Handles of a generator have no branch of their own.
HasBranch == {"lpaif_pri_ibit_clk", "ext_mclk0_clk", "sysnoc_mport_core_clk"}

RatesOf(r) ==
    CASE r = "pri" -> LPAIF_RATES [] r = "mclk" -> MCLK_RATES [] OTHER -> {Entry(19200, 0, 1, 0, 0)}

HwRate(w) == Output(w, IF w.source = PllOdd THEN 122880 ELSE 19200, 65535)

VARIABLES
    used,       \* the handles of this behaviour; none when it is about domains
    state,      \* the holder of the state lock, or Nobody
    job,        \* what each thread is doing
    cfg, live, pending,
    cell,       \* ext_mclk_rate, pri_bit_rate and the constant core rate
    settled,    \* generators whose latest programming succeeded
    pll,        \* "off", "late" (running, output still gated) or "on"
    branches,   \* branches whose enable bit is set
    gdsc,       \* "off", "rising", "on" or "falling", per audio domain
    timeouts

vars == <<used, state, job, cfg, live, pending, cell, settled, pll, branches, gdsc, timeouts>>

Idle == [at |-> "idle"]
Domains == {"audio_hm", "pdc_hm", "core_hm"}

\* initialize configures the PLL and leaves it off; firmware may have powered domains.
Init ==
    /\ used \in {{c \in Clocks : RcgOf[c] = r} : r \in Rcgs} \cup {{}}
    /\ state = Nobody /\ job = [t \in Threads |-> Idle]
    /\ cfg = [r \in Rcgs |-> [source |-> 0, div |-> 1, dual |-> FALSE, mnd |-> <<1, 65534, 65533>>]]
    /\ live = cfg /\ pending = {} /\ settled = {}
    /\ cell = [pri |-> 1536, mclk |-> 19200, core |-> 19200]
    /\ pll = "off" /\ branches = {} /\ timeouts = 0
    /\ gdsc = [d \in Domains |-> "off"]

\* LpassClock::set_rate: round_rate refuses what the table does not hold.
CallSetRate(t, c, rate) ==
    /\ job[t].at = "idle" /\ \E e \in RatesOf(RcgOf[c]) : e.rate = rate
    /\ job' = [job EXCEPT ![t] = [at |-> "lock", clock |-> c, rate |-> rate, enable |-> FALSE]]
    /\ UNCHANGED <<used, state, cfg, live, pending, cell, settled, pll, branches, gdsc, timeouts>>

\* enable_clock reads the rate under the lock and lets the lock go.
CallEnable(t, c) ==
    /\ job[t].at = "idle" /\ state = Nobody
    /\ job' = [job EXCEPT ![t] =
                  [at |-> "lock", clock |-> c, rate |-> cell[RcgOf[c]], enable |-> TRUE]]
    /\ UNCHANGED <<used, state, cfg, live, pending, cell, settled, pll, branches, gdsc, timeouts>>

\* Mutant: set_audio_rate without the state lock.
NeedsLockNever(c) == FALSE

\* set_audio_rate runs under the state lock; the core generator is programmed
\* without it, always with the same words.
NeedsLock(c) == RcgOf[c] # "core"

\* configure_rcg up to its update bit: a rate of the PLL starts the PLL first,
\* unless it runs with its output on, and fails when the PLL does not lock.
Program(t) ==
    LET c == job[t].clock
        r == RcgOf[c]
        e == CHOOSE x \in RatesOf(r) : x.rate = job[t].rate
        starts == e.source = PllOdd /\ pll # "on"
    IN  /\ job[t].at = "lock" /\ (NeedsLock(c) => state = Nobody)
        /\ \E locked \in IF starts THEN BOOLEAN ELSE {TRUE} :
             /\ timeouts < MaxTimeouts \/ locked
             /\ timeouts' = IF locked THEN timeouts ELSE timeouts + 1
             /\ pll' = IF starts THEN (IF locked THEN "on" ELSE "late") ELSE pll
             /\ IF locked
                  THEN /\ cfg' = [cfg EXCEPT ![r] = Word(e, 65535, cfg[r])]
                       /\ pending' = pending \cup {r}
                       /\ job' = [job EXCEPT ![t].at = "wait"]
                       /\ state' = IF NeedsLock(c) THEN t ELSE state
                  ELSE /\ job' = [job EXCEPT ![t] = Idle]
                       /\ UNCHANGED <<cfg, pending, state>>
        /\ UNCHANGED <<used, live, cell, settled, branches, gdsc>>

\* The hardware takes the words in the registers, however late.
Update(r) ==
    /\ r \in pending
    /\ live' = [live EXCEPT ![r] = cfg[r]] /\ pending' = pending \ {r}
    /\ UNCHANGED <<used, state, job, cfg, cell, settled, pll, branches, gdsc, timeouts>>

\* The wait ends: the rate cell is stored on success only.
Finish(t, ok) ==
    LET r == RcgOf[job[t].clock]
    IN  /\ job[t].at = "wait"
        /\ IF ok THEN r \notin pending ELSE r \in pending /\ timeouts < MaxTimeouts
        /\ timeouts' = IF ok THEN timeouts ELSE timeouts + 1
        /\ cell' = IF ok THEN [cell EXCEPT ![r] = job[t].rate] ELSE cell
        /\ settled' = IF ok THEN settled \cup {r} ELSE settled \ {r}
        /\ state' = IF state = t THEN Nobody ELSE state
        /\ job' = [job EXCEPT ![t] =
                      IF ok /\ job[t].enable /\ job[t].clock \in HasBranch
                      THEN [@ EXCEPT !.at = "branch"] ELSE Idle]
        /\ UNCHANGED <<used, cfg, live, pending, pll, branches, gdsc>>

\* enable_clock starts the branch; a branch under hardware gating is not waited for.
StartBranch(t) ==
    /\ job[t].at = "branch"
    /\ branches' = branches \cup {job[t].clock}
    /\ job' = [job EXCEPT ![t] = Idle]
    /\ \/ UNCHANGED timeouts
       \/ timeouts < MaxTimeouts /\ timeouts' = timeouts + 1
    /\ UNCHANGED <<used, state, cfg, live, pending, cell, settled, pll, gdsc>>

disable_clock(t, c) ==
    /\ job[t].at = "idle" /\ c \in branches
    /\ branches' = branches \ {c}
    /\ UNCHANGED <<used, state, job, cfg, live, pending, cell, settled, pll, gdsc, timeouts>>

\* enable_gdsc waits for power; disable_gdsc does so too, except for the votable
\* PDC domain, which returns while the domain may still be falling.
GdscCall(d) ==
    \/ \E ok \in BOOLEAN :
         /\ ok \/ (gdsc[d] # "on" /\ timeouts < MaxTimeouts)
         /\ gdsc' = [gdsc EXCEPT ![d] = IF ok THEN "on" ELSE "rising"]
         /\ timeouts' = IF ok THEN timeouts ELSE timeouts + 1
    \/ \E ok \in BOOLEAN :
         /\ ok \/ (d # "pdc_hm" /\ timeouts < MaxTimeouts)
         /\ gdsc' = [gdsc EXCEPT ![d] = IF ok /\ d # "pdc_hm" THEN "off" ELSE "falling"]
         /\ timeouts' = IF ok THEN timeouts ELSE timeouts + 1

PowerDomain ==
    /\ used = {}
    /\ \E d \in Domains :
         \/ GdscCall(d)
         \/ /\ gdsc[d] \in {"rising", "falling"} /\ UNCHANGED timeouts
            /\ gdsc' = [gdsc EXCEPT ![d] = IF @ = "rising" THEN "on" ELSE "off"]
    /\ UNCHANGED <<used, state, job, cfg, live, pending, cell, settled, pll, branches>>

Next ==
    \/ PowerDomain
    \/ \E r \in Rcgs : Update(r)
    \/ \E t \in Threads :
         \/ Program(t) \/ StartBranch(t) \/ \E ok \in BOOLEAN : Finish(t, ok)
         \/ \E c \in used :   \/ CallEnable(t, c) \/ disable_clock(t, c)
                              \/ \E rate \in AudioRates : CallSetRate(t, c, rate)

Spec == Init /\ [][Next]_vars

-----------------------------------------------------------------------------
\* Between programmings, a generator whose latest one succeeded runs at the rate
\* that recalc_rate reports, and from a source that is running: calls through the
\* source handle and the branch handle do not mix their words and their rates.
ReportedIsLive ==
    \A r \in settled :
        (\A t \in Threads : job[t].at = "wait" => RcgOf[job[t].clock] # r) =>
            HwRate(live[r]) = cell[r] /\ (live[r].source = PllOdd => pll = "on")
=============================================================================
