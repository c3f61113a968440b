------------------------------- MODULE A618Gmu ------------------------------
(***************************************************************************)
(* The GMU of the A618: its bring-up, the votes it acknowledges out of     *)
(* band (OOB), its message queues and its shutdown (gmu.rs, hfi.rs), as    *)
(* the boot and the loss of the GPU drive them (backend.rs).  A caller     *)
(* holds the hardware lock for its whole call, so that one call is under   *)
(* way at a time, in step `pc'; the GMU's firmware runs beside it.  A poll *)
(* ends with what it waits for or, while that is missing, its timeout.     *)
(* The boot messages are numbered: message k has sequence number k.        *)
(***************************************************************************)
EXTENDS Naturals, Sequences

CONSTANTS Messages,        \* boot messages of start_legacy_sequence, 5 in the driver
          Levels,          \* performance indices; the highest is the initial one
          MaxBoots,        \* bound: bring-ups
          MaxAnswers       \* bound: answers in the response queue

GmuAssumption ==
  /\ Messages \in Nat \ {0} /\ Levels \in Nat \ {0}
  /\ MaxBoots \in Nat /\ MaxAnswers \in Nat \ {0}

VARIABLES
  active, ready, rscAsleep,     \* A618Gmu
  index,                        \* A618Gmu::current_gpu_index, 0 for None
  sequence,                     \* LegacyHfi::sequence
  boot, oobHeld, quiesceFailed, \* HardwareState
  pc,                           \* the step of the call under way
  why,                          \* what called force_shutdown
  quiesced,                     \* its local variable
  boots,
  cm3, rsc, sptprac,            \* hardware: the GMU's processor, its RSC, the shader rail
  intr,                         \* GMU2HOST_INTR_INFO
  requests, held,               \* OOB requests not yet seen, and votes the firmware holds
  vote,                         \* DCVS registers: the index asked for, the one in force, refused
  commands, answers,            \* the two queues
  firmware                      \* the message the firmware works on, and the last it finished

gmuVars == <<active, ready, rscAsleep, index>>
hardwareVars == <<boot, oobHeld, quiesceFailed>>
callVars == <<pc, why, quiesced>>
powerVars == <<cm3, rsc, sptprac>>
oobVars == <<intr, requests, held, vote>>
queueVars == <<commands, answers, firmware>>
vars == <<gmuVars, sequence, hardwareVars, callVars, boots, powerVars, oobVars, queueVars>>

Idle == [working |-> 0, finished |-> 0]

Init ==
  /\ active = FALSE /\ ready = FALSE /\ rscAsleep = FALSE /\ index = 0 /\ sequence = 0
  /\ boot = "Cold" /\ oobHeld = FALSE /\ quiesceFailed = FALSE
  /\ pc = "idle" /\ why = "none" /\ quiesced = TRUE /\ boots = 0
  /\ cm3 = "reset" /\ rsc = TRUE /\ sptprac = FALSE
  /\ intr = {} /\ requests = {} /\ held = {}
  /\ vote = [asked |-> 0, now |-> 0, refused |-> FALSE]
  /\ commands = <<>> /\ answers = <<>> /\ firmware = Idle

-----------------------------------------------------------------------------
(* OOB votes and messages *)

\* set_oob, up to its loop.
Request(o, step) == requests' = requests \cup {o} /\ pc' = step

\* The loop of set_oob finds the acknowledgement and clears it.
Acked(o) == o \in intr /\ intr' = intr \ {o}

\* force_shutdown is called; every caller has an active GMU.
Shutdown(reason) == pc' = "stop" /\ why' = reason

\* send, up to its loop.
Send ==
  /\ sequence' = sequence + 1
  /\ commands' = Append(commands, sequence')
  /\ pc' = "message"

\* ack_matches: an acknowledgement of this id and sequence; an error message
\* is nobody's.
AckMatches(answer) == answer.of = sequence

\* The answers up to the first that matches, or all of them.
Read == IF \E i \in DOMAIN answers : AckMatches(answers[i])
        THEN CHOOSE i \in DOMAIN answers : /\ AckMatches(answers[i])
                                           /\ \A j \in 1..(i - 1) : ~AckMatches(answers[j])
        ELSE Len(answers)

Found == Read # 0 /\ AckMatches(answers[Read])

-----------------------------------------------------------------------------
(* ensure_hardware_ready and A618Gmu::ensure_ready *)

\* A GMU that was not quiesced refuses (active): no step.
EnsureHardwareReady ==
  /\ pc = "idle" /\ boot = "Cold" /\ ~ready /\ ~active /\ boots < MaxBoots
  /\ pc' = "wake"
  /\ UNCHANGED <<gmuVars, sequence, hardwareVars, why, quiesced, boots, powerVars, oobVars,
                 queueVars>>

WakeRsc ==
  /\ pc = "wake"
  /\ \/ ~rscAsleep /\ pc' = "load" /\ UNCHANGED <<rscAsleep, rsc>>
     \/ rscAsleep /\ pc' = "load" /\ rscAsleep' = FALSE /\ rsc' = TRUE
     \/ rscAsleep /\ pc' = "idle" /\ rsc' \in BOOLEAN /\ UNCHANGED rscAsleep
  /\ UNCHANGED <<active, ready, index, sequence, hardwareVars, why, quiesced, boots, cm3,
                 sptprac, oobVars, queueVars>>

\* The IOMMU, the OPP table or the firmware file is not there.
LoadFails ==
  /\ pc = "load"
  /\ pc' = "idle"
  /\ UNCHANGED <<gmuVars, sequence, hardwareVars, why, quiesced, boots, powerVars, oobVars,
                 queueVars>>

\* Mutant: interrupts of the last boot are not cleared.
StartCm3KeepingInterrupts ==
  /\ pc = "load"
  /\ active' = TRUE /\ boots' = boots + 1
  /\ cm3' = "booting" /\ pc' = "cm3"
  /\ UNCHANGED <<ready, rscAsleep, index, sequence, hardwareVars, why, quiesced, rsc, sptprac,
                 oobVars, queueVars>>

\* The registers, the firmware image and the release of the processor.
StartCm3 ==
  /\ pc = "load"
  /\ active' = TRUE /\ boots' = boots + 1
  /\ intr' = {} /\ cm3' = "booting" /\ pc' = "cm3"
  /\ UNCHANGED <<ready, rscAsleep, index, sequence, hardwareVars, why, quiesced, rsc, sptprac,
                 requests, held, vote, queueVars>>

EnableGfxRail ==
  /\ pc = "cm3"
  /\ IF cm3 = "running" THEN Request("boot", "rail") /\ UNCHANGED why
                        ELSE Shutdown("bringup") /\ UNCHANGED requests
  /\ UNCHANGED <<gmuVars, sequence, hardwareVars, quiesced, boots, powerVars, intr, held, vote,
                 queueVars>>

RailAcknowledged ==
  /\ pc = "rail"
  /\ \/ Acked("boot") /\ pc' = "sptprac" /\ UNCHANGED why
     \/ "boot" \notin intr /\ Shutdown("bringup") /\ UNCHANGED intr
  /\ UNCHANGED <<gmuVars, sequence, hardwareVars, quiesced, boots, powerVars, requests, held,
                 vote, queueVars>>

\* enable_sptprac and start_hfi_transport; then the first message.
EnableSptprac ==
  /\ pc = "sptprac"
  /\ \/ sptprac' = TRUE /\ Send /\ UNCHANGED why
     \/ sptprac' \in BOOLEAN /\ Shutdown("bringup") /\ UNCHANGED <<sequence, commands>>
  /\ UNCHANGED <<gmuVars, hardwareVars, quiesced, boots, cm3, rsc, oobVars, answers, firmware>>

\* set_performance_index, up to the loop of its set_oob.
SetPerformanceIndex(i) ==
  /\ vote' = [vote EXCEPT !.asked = i]
  /\ Request("dcvs", "dcvs")

\* start_legacy_sequence: the next message; after the last, the initial index.
NextMessage ==
  \/ sequence < Messages /\ Send /\ UNCHANGED <<requests, vote>>
  \/ sequence = Messages /\ SetPerformanceIndex(Levels) /\ UNCHANGED <<sequence, commands>>

\* One interrupt of send's loop, or its timeout.
Answered ==
  /\ pc = "message"
  /\ \/ /\ "msg" \in intr /\ intr' = intr \ {"msg"}
        /\ answers' = SubSeq(answers, Read + 1, Len(answers))
        /\ \/ ~Found /\ UNCHANGED <<pc, why, sequence, commands, requests, vote>>
           \/ /\ Found /\ ~answers[Read].ok
              /\ Shutdown("bringup") /\ UNCHANGED <<sequence, commands, requests, vote>>
           \/ Found /\ answers[Read].ok /\ NextMessage /\ UNCHANGED why
     \/ /\ "msg" \notin intr
        /\ Shutdown("bringup")
        /\ UNCHANGED <<intr, answers, sequence, commands, requests, vote>>
  /\ UNCHANGED <<gmuVars, hardwareVars, quiesced, boots, powerVars, held, firmware>>

\* Mutant: the returned status is not read.
RefusedNever == FALSE

\* GMU_DCVS_RETURN is not zero.
Refused == vote.refused

\* The end of set_performance_index: in ensure_ready, which goes on with
\* begin_gpu_boot, or in set_frequency_khz on a ready GMU.
PerformanceAcknowledged ==
  /\ pc = "dcvs"
  /\ \/ /\ Acked("dcvs") /\ ~Refused /\ index' = vote.asked
        /\ \/ ready /\ pc' = "idle" /\ UNCHANGED <<ready, why, requests>>
           \/ ~ready /\ ready' = TRUE /\ Request("gpu", "gpu") /\ UNCHANGED why
     \/ /\ Acked("dcvs") /\ Refused /\ Shutdown(IF ready THEN "lost" ELSE "bringup")
        /\ UNCHANGED <<index, ready, requests>>
     \/ /\ "dcvs" \notin intr /\ Shutdown(IF ready THEN "lost" ELSE "bringup")
        /\ UNCHANGED <<intr, index, ready, requests>>
  /\ UNCHANGED <<active, rscAsleep, sequence, hardwareVars, quiesced, boots, powerVars, held,
                 vote, queueVars>>

\* begin_gpu_boot.
GpuAcknowledged ==
  /\ pc = "gpu"
  /\ \/ Acked("gpu") /\ oobHeld' = TRUE /\ pc' = "prepare" /\ UNCHANGED why
     \/ "gpu" \notin intr /\ Shutdown("oob") /\ UNCHANGED <<intr, oobHeld>>
  /\ UNCHANGED <<gmuVars, sequence, boot, quiesceFailed, quiesced, boots, powerVars, requests,
                 held, vote, queueVars>>

\* The GPU's own firmware and ring: it fails before or after the SQE starts,
\* or the boot vote is given back and the GPU is ready.
Prepare ==
  /\ pc = "prepare"
  /\ \/ \E reason \in {"prepare", "lost"} : Shutdown(reason) /\ UNCHANGED <<held, boot>>
     \/ held' = held \ {"boot"} /\ boot' = "Ready" /\ pc' = "idle" /\ UNCHANGED why
  /\ UNCHANGED <<gmuVars, sequence, oobHeld, quiesceFailed, quiesced, boots, powerVars, intr,
                 requests, vote, queueVars>>

\* set_frequency_khz of the backend.
SetFrequency(i) ==
  /\ pc = "idle" /\ boot = "Ready" /\ active
  /\ SetPerformanceIndex(i)
  /\ UNCHANGED <<gmuVars, sequence, hardwareVars, why, quiesced, boots, powerVars, intr, held,
                 queueVars>>

\* A submission fails: quiesce_lost.
RingLost ==
  /\ pc = "idle" /\ boot = "Ready"
  /\ Shutdown("lost")
  /\ UNCHANGED <<gmuVars, sequence, hardwareVars, quiesced, boots, powerVars, oobVars, queueVars>>

-----------------------------------------------------------------------------
(* force_shutdown *)

\* LegacyHfi::stop and the interrupt masks.  The firmware still runs.
StopTransport ==
  /\ pc = "stop"
  /\ commands' = <<>> /\ answers' = <<>> /\ sequence' = 0 /\ intr' = {}
  /\ pc' = "collapse"
  /\ UNCHANGED <<gmuVars, hardwareVars, why, quiesced, boots, powerVars, requests, held, vote,
                 firmware>>

\* The shader rail and the RSC's command sets, each within its time or not.
CollapseSptprac ==
  /\ pc = "collapse"
  /\ \/ sptprac' = FALSE /\ quiesced' \in BOOLEAN
     \/ quiesced' = FALSE /\ UNCHANGED sptprac
  /\ pc' = "off"
  /\ UNCHANGED <<gmuVars, sequence, hardwareVars, why, boots, cm3, rsc, oobVars, queueVars>>

\* What the caller of force_shutdown makes of its result and of force_stop_gpu.
AfterShutdown(gmuStopped) ==
  \E gpuStopped \in IF why = "lost" THEN BOOLEAN ELSE {TRUE} :
    LET stopped == gmuStopped /\ gpuStopped
    IN  IF why = "bringup" THEN UNCHANGED hardwareVars
        ELSE /\ quiesceFailed' = ~stopped
             /\ oobHeld' = (oobHeld /\ ~stopped)
             /\ boot' = IF why = "lost" \/ ~stopped THEN "Lost" ELSE "Cold"

\* The votes are cleared, the processor is put in reset and the RSC to sleep.
PowerOff ==
  /\ pc = "off"
  /\ requests' = {} /\ held' = {} /\ cm3' = "reset" /\ firmware' = Idle
  /\ ready' = FALSE
  /\ \E asleep \in BOOLEAN :
       LET gmuStopped == quiesced /\ asleep
       IN  /\ rsc' \in IF asleep THEN {FALSE} ELSE BOOLEAN
           /\ active' = ~gmuStopped
           /\ rscAsleep' = (rscAsleep \/ gmuStopped)
           /\ AfterShutdown(gmuStopped)
  /\ pc' = "idle" /\ why' = "none" /\ quiesced' = TRUE
  /\ UNCHANGED <<index, sequence, boots, sptprac, intr, vote, commands, answers>>

-----------------------------------------------------------------------------
(* The GMU's firmware: it acknowledges votes and answers messages in its   *)
(* own time, and may report an error of its own.                           *)

FwBoot ==
  /\ cm3 = "booting" /\ cm3' = "running"
  /\ UNCHANGED <<gmuVars, sequence, hardwareVars, callVars, boots, rsc, sptprac, oobVars, queueVars>>

FwAcknowledge(o) ==
  /\ cm3 = "running" /\ o \in requests
  /\ requests' = requests \ {o} /\ intr' = intr \cup {o}
  /\ IF o = "dcvs"
     THEN /\ \E ok \in BOOLEAN :
               vote' = [vote EXCEPT !.now = IF ok THEN vote.asked ELSE @, !.refused = ~ok]
          /\ UNCHANGED held
     ELSE held' = held \cup {o} /\ UNCHANGED vote
  /\ UNCHANGED <<gmuVars, sequence, hardwareVars, callVars, boots, powerVars, queueVars>>

FwTake ==
  /\ cm3 = "running" /\ firmware.working = 0 /\ commands # <<>>
  /\ firmware' = [firmware EXCEPT !.working = Head(commands)]
  /\ commands' = Tail(commands)
  /\ UNCHANGED <<gmuVars, sequence, hardwareVars, callVars, boots, powerVars, oobVars, answers>>

FwAnswer(of, ok) ==
  /\ cm3 = "running" /\ Len(answers) < MaxAnswers
  /\ answers' = Append(answers, [of |-> of, ok |-> ok])
  /\ intr' = intr \cup {"msg"}
  /\ \/ of = 0 /\ UNCHANGED firmware
     \/ of # 0 /\ of = firmware.working /\ firmware' = [working |-> 0, finished |-> of]
  /\ UNCHANGED <<gmuVars, sequence, hardwareVars, callVars, boots, powerVars, requests, held,
                 vote, commands>>

GmuFirmware ==
  \/ FwBoot
  \/ \E o \in {"boot", "dcvs", "gpu"} : FwAcknowledge(o)
  \/ FwTake
  \/ FwAnswer(0, FALSE)
  \/ \E of \in 1..Messages, ok \in BOOLEAN : FwAnswer(of, ok)

Host ==
  \/ EnsureHardwareReady \/ WakeRsc \/ LoadFails \/ StartCm3 \/ EnableGfxRail \/ RailAcknowledged
  \/ EnableSptprac \/ Answered \/ PerformanceAcknowledged \/ GpuAcknowledged \/ Prepare
  \/ (\E i \in 1..Levels : SetFrequency(i)) \/ RingLost
  \/ StopTransport \/ CollapseSptprac \/ PowerOff

Next == Host \/ GmuFirmware

Spec == Init /\ [][Next]_vars

-----------------------------------------------------------------------------
TypeOK ==
  /\ {active, ready, rscAsleep, oobHeld, quiesceFailed, quiesced, rsc, sptprac} \subseteq BOOLEAN
  /\ index \in 0..Levels /\ sequence \in 0..Messages /\ boots \in 0..MaxBoots
  /\ boot \in {"Cold", "Ready", "Lost"} /\ cm3 \in {"reset", "booting", "running"}
  /\ requests \subseteq {"boot", "dcvs", "gpu"} /\ held \subseteq {"boot", "gpu"}
  /\ intr \subseteq {"boot", "dcvs", "gpu", "msg"}
  /\ firmware.working \in 0..Messages /\ firmware.finished \in 0..Messages

\* Steps that touch registers on the GPU's own rail.
GxSteps == {"sptprac", "message", "dcvs", "gpu", "prepare"}

\* "GX MMIO is unsafe while the rail is off. If OOB is held" it is on
\* (A618Core::drop): in every step that touches it, and whenever gpu_oob_held
\* is set and the last shutdown succeeded, the firmware runs, its RSC is awake
\* and it holds a vote for the rail that was asked for in this boot.
GxPowered ==
  /\ TypeOK
  /\ pc \in GxSteps \/ (oobHeld /\ ~quiesceFailed) => cm3 = "running" /\ rsc /\ held # {}
  /\ boot = "Ready" /\ pc = "idle" =>
       cm3 = "running" /\ rsc /\ sptprac /\ "gpu" \in held /\ oobHeld /\ ready

\* A ready GMU has finished every boot message in this boot, late answers of a
\* failed one notwithstanding, and between calls the frequency it reports is
\* the one in force (current_frequency_khz, "Last firmware-acknowledged OPP").
FirmwareInStep ==
  ready => /\ firmware.finished = Messages
           /\ pc = "idle" => index = vote.now /\ boot = "Ready"
=============================================================================
