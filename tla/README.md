# A TLA+ model of the SC7180 Chromebook drivers

This directory holds a verification development for the drivers and the userspace
graphics backend of this repository: TLA+ modules that model the parts with
concurrency, hardware protocols or failure handling, TLC configurations that
check them on small instances, and TLAPS proofs, for every value of their
constants, of the invariants of the GPU queue and ring, of the userspace
dispatcher, of the TLMM's interrupts, of the RPMh command set and of the EC's
event path, and of the refinement from the GPU queue to the FIFO it promises. `PROJECT.json` is the index:
which definition models which lines, which run checks which property, which
mutation of the model breaks it, and which hazards of the code the properties
are aimed at.

Run a configuration with `tlc -config X.cfg M` and a proof with `tlapm M.tla`.

## 1. The system

The repository is a board support package for SC7180 Chromebooks: kernel drivers
of the Scarlet OS (`src/drivers`), the native graphics backend that userspace
links (`src/userspace`) and crates both sides share (`src/shared`). The kernel
itself (locks, wakers, timers, buffer objects) is not in the repository; where a
model needs it, it is modelled from its use and marked external.

### Inventory

| Part | State | Operations | What is hard about it |
|---|---|---|---|
| A618 queue and worker (`gpu/qcom-adreno-a618/src/{backend,pending}.rs`) | FIFO, slots, CPU reservation, failure, boot state, quarantine | enqueue, submit, begin/end CPU access, worker turn, boot, set_frequency, query_info | the worker drops its locks between looking at the boot state and kicking the ring; work the GPU may still reach must stay pinned when the GPU cannot be stopped |
| A618 ring (`backend.rs` execute_ring, claim_interrupt) | fence word, scratch register, interrupt snapshot, armed flag, wake latch | kick, poll, arm, recheck, timed wait; handler | early, late, lost and left-over interrupts; a sequence number that wraps |
| A618 validator (`submit.rs`) | automata over a stream | validate_pm4 | its language must contain what the code generator emits |
| A618 resources and mappings (`backend.rs`) | mapping gate, pins, contexts | attach, detach, import, plan_image | detach racing execution |
| A618 GMU (`gmu.rs`, `hfi*.rs`) | power state, message queues, OOB votes | ensure_ready, send, set_oob, force_shutdown | late answers of a failed boot, partial shutdown |
| Code generator (`userspace/sgfx-codegen-adreno-a6xx`) | retained draw state, texture prologue, pass | the compiler's operations | cache maintenance across operations |
| Dispatcher (`userspace/sgfx-backend-scarlet-adreno/src/{scheduler,dispatch,asynchronous}.rs`) | job queue, receipts, arenas, wake pipe | enqueue, advance, dispatch, wait_idle, drop | Busy, fences seen out of order, pipe writes that fail |
| Submission preparation, wire format, plugin (`userspace/...`) | none beyond a call | splitting, encoding | arithmetic limits |
| Venus backend (`video/qcom-venus-sc7180/src/backend.rs`) | sessions, buffers, queues, quarantine | create, destroy, submit, dequeue; worker; interrupt | memory the firmware holds; answers that never come |
| Venus transport (`hfi.rs`) | two word rings, deferred messages | send, read, wait for an answer | wrap-around, full rings, missed interrupts |
| TLMM (`gpio/qcom-sc7180-tlmm`) | registration slots, pin registers | request/free/enable/disable, summary handler; pin states | callbacks run without the lock; pads that share a register |
| RPMh RSC (`soc/qcom-rpmh-rsc`) | one triggered command set | write_active_batch | batches that complete after their timeout |
| Chrome EC (`platform/chromeos/cros-ec-spi`) | event FIFO, mask, work flag, listeners | handler, worker, probe, remove, listeners | a level interrupt masked by one actor and unmasked by another |
| Video clocks (`clk/qcom-sc7180-videocc`) | PLL, root, branches, domains | enable, disable, set_rate, prepare_for_video | retries after a step that timed out |
| GCC, GPU and LPASS clocks (`clk/qcom-sc7180-{gcc-display,gpucc,lpasscc}`) | rate generators, branches, votes, domains | enable, disable, set_rate, prepare | updates granted after their timeout, handles that share a generator, calls without a lock |
| RPMh clocks, power domains, interconnect (`clk/qcom-sc7180-rpmhcc`, `pmdomain`, `interconnect`) | books of what was voted | enable, disable, set_bandwidth | a write that fails half way and is applied later |
| SDHCI host (`mmc/qcom-sdhci-sc7180`) | clocks, DLL, supplies, tuning state | reset, command, voltage switch, tune | retuning, unwinding of a failed probe |
| USB host and PHYs (`usb/dwc3`, `phy`) | clocks, resets, power references | probes, power on and off | any step of several probes fails, or defers and runs again |
| Display (`display`, `clk/qcom-sc7180-dispcc`) | clock domain, DSI, bridge, DPU; scanout buffers, mapping cache | probe; present, stage, flip | hardware that firmware left running; a vsync that comes after the deadline |
| GENI I2C and SPI (`i2c`, `spi`) | one transfer, two FIFOs, latched status | transfer, abort | the engine runs between a read of the status and its clearing |
| Audio (`audio`) | DMA ring, bit clock, amplifier | start, stop, worker, handler | a position sampled late; a stop that falls into the next start |
| Touchscreen, touchpads, EC buttons and switches (`input`) | interrupt, worker, contacts, tracked state | probe, remove, report | a level interrupt masked and unmasked by two actors; a snapshot racing events |
| Motion sensors (`sensor`), Cr50 (`rng`) | wrapping clock, FIFO drain; locality, frames | drain, dispatch; get_random | losses between two reads; a chip that falls asleep between two frames |
| SPMI, CPU frequency, RTC, fuses, Command DB | per driver | one register access | nothing concurrent |

How they interact: an application's jobs pass through the dispatcher
(`SgfxScheduler`), whose chunks are streams of the code generator
(`A6xxCodegen`), accepted by the kernel validator (`A6xxStream`), queued by the
device (`A618Device`) and executed by the ring (`A618Ring`). The device's boot
and frequency requests go through the GMU (`A618Gmu`). The decoder (`Venus`) talks to its
firmware through the transport (`VenusHfi`) and is powered by `VideoCc`. Every
regulator and clock vote ends in an RPMh batch (`RpmhTcs`). EC events arrive
through a TLMM pin (`TlmmIrq`, `CrosEcEvents`) and end in the buttons, switches
(`EcInputs`) and motion samples (`MotionSense`). The clock votes of `RpmhVotes`
assume of a write what `RpmhTcs` shows of one; the I2C and SPI masters share the
engine of `GeniEngine`, and the clock controllers and touchpads the arithmetic
of `DriverArithmetic`.

## 2. Modules

| Module | Models | Role |
|---|---|---|
| `PendingQueue` | `pending.rs` | one operator per method of `PendingState`; the queue variables |
| `A618Device` | callers, worker, boot state, devfreq, query_info | one action per critical section |
| `DeviceFifo` | what the queue promises | abstract specification: bounded FIFO, answered in order, at most once |
| `A618DeviceProofs`, `A618FifoProofs` | | proofs for every capacity and set of requests: the invariants, and that `A618Device` implements `DeviceFifo` |
| `A618Ring` | execute_ring, claim_interrupt, fence_retired | worker, handler, external GPU |
| `A6xxStream` | sequence rules of `validate_pm4`; caches and registers of the GPU | operators over packet sequences |
| `A6xxCodegen` | `compiler.rs`, `emit.rs` | one action per compiler operation |
| `SgfxScheduler`, `MCSgfxScheduler` | `scheduler.rs`, `dispatch.rs`, arenas of `asynchronous.rs` | enqueuers, worker, external kernel |
| `SgfxSchedulerSteps`, `SgfxSchedulerAdvance`, `SgfxSchedulerProofs` | | proofs about the dispatcher: the invariant and the worker's loop, advance, dispatch and the theorems |
| `Venus` | `backend.rs` of the decoder | clients, worker, interrupt, external firmware |
| `VenusHfi` | `hfi.rs` and the command layer of `HfiCore` | rings word by word, external firmware |
| `TlmmIrq` | GPIO interrupt demultiplexer | handler and the owners of the pins |
| `RpmhTcs` | write_active_batch | callers under the lock, external hardware |
| `CrosEcEvents` | EC event path | handler, worker, probe, remove, listeners |
| `InterruptProofs`, `SocProofs` | | proofs about `TlmmIrq` and `A618Ring`, and about `RpmhTcs` and `CrosEcEvents` |
| `MCSoc` | | checks `TlmmIrq`, `RpmhTcs`, `CrosEcEvents` and `A618Ring`: they share no state, so that a behaviour exercises one of them, named by `unit` |
| `TlmmPinctrl` | apply_state and its register updates | concurrent callers |
| `VideoCc` | clocks, PLL and domains of Venus | two callers, of which set_rate takes no lock; steps that may time out |
| `A618Gmu` | `gmu.rs`, `hfi.rs`, the boot and loss of the GPU in `backend.rs` | one call at a time, external firmware |
| `DriverArithmetic` | root clock generators; relative motion | the words of a rate and the rate of the words; motion and its remainder |
| `GccClocks` | `clk/qcom-sc7180-gcc-display` | a call is a step; waits that time out are granted later or never |
| `LpassClocks` | `clk/qcom-sc7180-lpasscc` | two threads; the lock covers set_audio_rate only |
| `GpuCc` | `clk/qcom-sc7180-gpucc` | two threads, prepare_for_gmu beside the clock handles |
| `RpmhVotes` | rpmhcc, rpmhpd and interconnect | one call a step; a failed write leaves nothing, or commands in flight |
| `Sdhci` | `mmc/qcom-sdhci-sc7180` | probe of either controller, and the external MMC core's sequence |
| `UsbHost` | qcom-dwc3, the wrapper, QUSB2 and QMP PHYs | sequential probes, a failure at every step, deferral |
| `DisplayBoot` | dispcc, MDSS, DSI and its PHY, SN65DSI86 | two probes as sequences of steps over what firmware left; the rate arithmetic in full |
| `PageFlip` | present and stage of MDSS | one caller, vsync and deadline, copies that fail |
| `GeniEngine`, `GeniI2c`, `GeniSpi` | the serial engine; `i2c/qcom-geni`, `spi/qcom-geni` | engine and driver alternate between register accesses |
| `LpassPlayback` | `audio` | PCM calls, worker, handler, DMA |
| `TouchScreen`, `TouchTracker`, `HidLayout` | the Goodix touchscreen: `lib.rs`, the slot tracker and the descriptor parser of `hid.rs` | handler and worker; one report a step; one block of items a step |
| `ElanPad`, `EcPad` | the two touchpads | edge, worker and reports; binds and reports |
| `EcInputs` | EC buttons and switches | initialize beside the event worker |
| `MotionSense` | `sensor/chrome-ec-motion-sense` | the EC's FIFO and clock beside the drain |
| `Cr50` | `rng/google-cr50-tpm2` | one call, frame by frame, against the chip |
| `MCControllers` | | checks `TlmmPinctrl`, `VideoCc`, `A618Gmu` and the modules from `GccClocks` to `Cr50` in the same way, over generic variables |

Conventions: an action is a critical section or an atomic hardware access, as
coarse as the locks of the code and no coarser. An operation that returns an
error without a change of state is not a step. Data is reduced to what the
properties tell apart: a submission is a model value, a packet its kind, a
register field the caller that wrote it last. A driver's call that is only
interleaved with failures is a sequence of named steps that stops at the first
that fails. The plausible bugs that the `mutants` of `PROJECT.json` substitute
are operators in front of the one they replace, most of them under a comment that
begins with "Mutant:" or "As ..., but"; no specification uses them. A module that
is instantiated rather than extended states the assumptions on its constants as an
operator (`PinctrlAssumption`).

### How the state corresponds to the code

* **A618Device.** `queued`, `outstanding`, `running`, `cpuAccess` are the fields
  of `PendingState`; `failure` and `quarantine` those of the core; `boot` and
  `oobHeld` of `HardwareState`. `st[w]` is what the caller of request `w` knows;
  `gpu` is the set of requests whose memory the GPU may still reach, which no
  variable of the code records. The worker's `pc` is its place in
  `process_submission`. Execution keeps both locks and is one state.
* **A618Ring.** `fence` is the fence word, `snapshot` and `armed` are
  `interrupt_snapshot` and the waiting flag, `latch` the waker's token.
  `consumed`, `idle`, `flushed`, `raised` describe the external GPU.
* **SgfxScheduler.** `jobs`, `bytes`, `receipts`, `failure` are the fields of
  `Scheduler`; `flag` and `pipe` of `Event`; `arena` and `fence` of the upload
  arenas; `gpuq` and `retired` are the external kernel.
* **A6xxCodegen.** `words` is the stream, `lastDraw` the retained draw,
  `textureStates` and `textureWords` the prologue. `wanted` is the reference:
  what the operations asked for.
* **Venus.** `sess`, `queued`, `completions`, `active`, `core`, `failed` are the
  fields of the backend and its sessions; `own` is what is mapped for a stream,
  `reg` what the firmware was given, `fw` what it works on and which picture
  buffers it holds or refers to. `sess[s].astray` remembers an access unit that was
  given up before its output buffer was queued. `scenario` selects the numbers of
  streams, access units and picture buffers and the kinds of failure of a behaviour.
* **VenusHfi.** The rings hold one record per word. `deferred` is the queue of
  messages put aside; `own`, `handled`, `givenUp` and `taken` are history variables.
* **TlmmIrq.** `slot` is the registration table, `enabled`, `raw`, `status` the
  pin's registers, `pending` the snapshot the handler works on. `owed` remembers
  an edge no callback has seen.
* **CrosEcEvents.** `fifo` is in the EC; `irqOn`, `reg` describe the pin seen
  from its owner; `workPending`, `active` are the controller's flags. `made`,
  `garbled`, `got` count events.
* **A618Gmu.** `active`, `ready`, `rscAsleep`, `index` are the fields of `A618Gmu`,
  `boot`, `oobHeld`, `quiesceFailed` those of `HardwareState`; `pc` is the step of
  the call under way, `intr`, `requests`, `vote` are registers and `held`,
  `firmware` what the firmware knows. `A618Device` has the same boot states with a
  boot or a shutdown as one step.
* **RpmhTcs, TlmmPinctrl, VideoCc.** The registers themselves, and the place of
  each caller in its operation. The bits of a pin's field are named by the pads
  that they configure, so that the two SDC pads with one drive field share them.
* **GccClocks, LpassClocks.** `cfg` is what the registers of a generator hold,
  `live` what it runs with, `pending` its update bit; `cell` is the rate the
  driver keeps for `recalc_rate`. `settled` and `asked` remember the latest call
  that succeeded. `DriverArithmetic` computes both directions from the tables of the
  code.
* **GpuCc.** `parent` is `enabled_gmu_parent`; `votes` counts what the GCC parent
  was asked for, which no variable of this driver records. `call` is the rest of
  each caller's operation, `copy` the register that a policy update has read;
  `sole` and `ok` remember calls that no other has crossed and what they enabled.
* **RpmhVotes.** `enabled` and `last_peak` are the books of the drivers; `level`,
  `staged`, `inForce` the power controller; `held` what callers were told.
* **Sdhci, UsbHost, DisplayBoot.** One record of registers each (`h`, `core`, `hw`),
  the clocks, resets and references taken, and the steps left. `sent` (Sdhci)
  and `hw.early` (DisplayBoot) record a payload, or a start, that came too soon.
* **PageFlip.** `source`, `flush`, `enable`, `status` are registers, `live` what
  the DPU latched at its last vsync; `front`, `cached`, `active`, `staging` are
  the driver's. `lacks` is the reference: the damage a buffer has missed; `adrift`
  remembers a present that failed until the next flip that succeeds.
* **GeniI2c, GeniSpi.** `hw` is the engine, `seen` the status the driver read
  and works from. Words carry the command and the bytes they belong to, so that
  `right` can tell whether a byte went where it should.
* **LpassPlayback.** `st` is `PlaybackState`, `work` and `irq` the worker and the
  handler between their lock regions; `owed` and `fresh` count periods played.
* **Input.** `pin`, `dev`, `worker`, `token` (TouchScreen) as in `TlmmIrq` and the
  worker's waker; `track`, `state`, `tracker` are the drivers' states and `view`,
  `reader` what somebody who applies the events has.
* **MotionSense.** `proc` is `Processor`, `job` the drain, `ec` the FIFO with its
  losses; `shown` is what the last drain took and passed on.
* **Cr50.** `drv` is `Cr50State`, `call` the place in a request, `chip` the TPM; a
  byte of an answer is the command it belongs to and its place.

## 3. Runs

| Run | Instance | Shows |
|---|---|---|
| `device` | queue of two; two asynchronous submissions, a synchronous one and a CPU access | slot accounting, GPU memory pinned, CPU copies alone, nothing started after a failure; every accepted request is settled; the device implements `DeviceFifo` |
| `codegen` | lists of up to six operations (five when a pass has several draws, up to three) over two images, a depth image and a vertex buffer | every finished stream is accepted by the validator, programs what was asked, reads no stale data and leaves nothing in a cache |
| `scheduler` | two jobs of two chunks that share an arena, two in flight | arenas, wake-ups, order, signals and wait_idle; every admitted job is signalled |
| `venus` | two streams with a crash and lost interrupts; one with failing commands, memory and access units; one with three access units of which one fails; one with two picture buffers whose releases may be repeated | frames belong to their request, memory stays mapped, picture buffers are accounted for |
| `venus_live` | two streams, interrupts may be lost, decodes may hang | every accepted access unit is answered |
| `venus_hfi` | rings of five words, packets of two and three, two calls that send a command, three messages | rings intact at the wrap and when full, neither side sleeps through the other's work, answers and order |
| `soc` | one edge and one level pin, three registration changes; three RPMh batches of up to two commands; four EC events in batches of two with two failed transfers; three GPU streams with two timed waits each and sequence numbers modulo 2, so that all share one | pins armed as registered and edges served; batches intact; events drained, none withheld, freed pins masked; only a stream's own flush retires it, no delivered interrupt is slept on, every execution ends |
| `controllers` | one unit at a time, twenty-two of them; the table below | nine properties that the units share: updates survive, what is held stays fed, what is reported is live, the GMU and its firmware agree, starts are prepared, Ok is true, failures release, the scanout and the streams are intact |
| `device_stale_boot` | one submission | **violated**: the ring is kicked on a device that a failed frequency vote has just declared lost |
| `venus_stranded` | two streams, a command may fail | **violated**: a create or destroy that fails quarantines the core and leaves another stream's decode without an answer |
| `venus_release` | the same | **violated**: internal buffers the firmware still has registered are dropped after a failed command |
| `switch_boot_race` | two switches, two events | **violated**: an event that crosses the boot snapshot of the EC's switches leaves the reader with the older posture |

The units of `controllers`, and the instance of each:

| Unit | Instance |
|---|---|
| pins | any two of 64 pinctrl states at once, over two GPIOs and three pads that share a register, two of them their drive bits |
| video | two callers and a wait that times out, from each power state that firmware may leave |
| gmu | three bring-ups with three messages and two levels; answers late, after the shutdown began, or never |
| gcc | the eight groups of clocks that consumers use together, rates around the entries of the tables, two timeouts |
| lpass, gpucc | two threads; two timeouts, one timeout or refused parent |
| rpmh | two layouts of the Command DB, one write that fails |
| sdhci | both controllers, every device tree that probe tells apart, five phases of the DLL |
| usb, panel | a failure at every step; nine panels and sinks, among them ones that cannot be driven |
| flip | a screen of two tiles, four images, of which one can be neither mapped nor wholly copied, a cache of two |
| i2c, spi | FIFOs of two and four words; transfers shorter and longer than the FIFO, of up to two messages, with every failure of the engine; segments of two chips, and of speeds that differ, are left open or cannot be reached |
| audio | a ring of two periods of two units, a worker late by more than the ring |
| touch, tracker, hid | two reports in the controller and two probes; two slots and three identifiers; descriptors of up to five blocks out of thirteen |
| elan, pad, inputs | two reports in the pad; two slots and three contacts; two keys and two events |
| motion | one sensor and an unknown one, a FIFO of two, a counter that wraps around |
| cr50 | requests of one and two commands, frames of up to two bytes, three commands |

Why these bounds: a queue of two slots with three requests is full, has a
running and a waiting element, and makes one wait; modulo-2 sequence numbers make
every stream reuse its predecessor's number; three batches let a completion
arrive one and two batches late; in rings of five words the second packet of three
straddles the end, one of two and one of three fill the ring, where a full ring
must not look empty, and a second call can repeat a command that was given up. Six
operations are two passes with a draw each and a clear, copy or upload between
them. In `controllers` each instance is the smallest in which the second party
meets the first: a second thread or timeout, a buffer that is full, a message
longer than its FIFO, an answer longer than a frame, one more contact than slots,
more images than cache entries, a clock that wraps. The bounds `MaxOps`,
`MaxDraws`, `MaxSubmissions` (of `A618Ring`), `MaxCommands`, `MaxMessages`, `MaxGen`, `MaxEvents`, `MaxFaults`, `MaxTimeouts`,
`MaxBoots`, `MaxAnswers`, `MessageBound`, `MaxLag`, `MaxEnables`, `MaxProbes`,
`MaxQueue`, `MaxTracking`, `MaxBlocks`, `MaxMoved`, `MaxTime`, `MaxVectors` and
the fields of a scenario exist only in the model. Deadlock is
not checked: behaviours end when their bounds are used up, and the systems rest
when they have nothing to do.

### Fairness

Weak fairness is assumed only of steps that the kernel's scheduler, the CPU or a
timer performs by itself:

* the worker threads of the device, the dispatcher, the decoder and the EC path
  (runnable threads run), the callers' wake-ups that follow in the same call,
  and an owner of a CPU access that ends it;
* interrupt handlers of lines that are asserted and enabled (`TlmmIrq`,
  `CrosEcEvents`); in `A618Ring`, `Venus` and `VenusHfi` interrupts may be lost
  and only the timed waits of the worker are fair, as the code intends;
* the external kernel retires what it accepted (`SgfxScheduler`), which is what
  `AcceptedSettles` shows of the device; time passes for a decode (`Venus`);
* strong fairness of one EC step: the shared worker scans the controllers again
  and again and takes their locks between other users.

Nothing is assumed of hardware that answers: GPU, firmware, RPMh and transfers
may be silent for ever.

### Conditions of some properties

The comment in front of each property states its conditions; they are where the
code does not do what one would ask of it.

* `FrameMatchesRequest` holds whatever fails, except in a session in which an
  access unit was given up before its output buffer was queued (`astray`): the
  firmware keeps the input, and its picture comes with the next one's tag. That the
  frame also is for the request the client waits for, `PictureBufferAccounted` and
  the second half of `MemoryStaysMapped` speak of behaviours in which interrupts are
  lost, the firmware crashes and releases are repeated, but no command, allocation
  or access unit fails (`Orderly`); see section 5 and `venus_release`.
* `venus_live` loses interrupts only, for the same reason (`venus_stranded`).
* `EmittedIsAccepted` asks the strict validator to accept only streams whose
  passes keep one pipeline; see section 5.
* `SuccessMeansRate`, the part of `ReportedIsLive` about the video clocks, speaks
  of behaviours without a timeout in which no set_rate ran beside another operation;
  see section 5. The same race, and that of an unlocked disable of a domain, are
  excepted from `CoreHasSource` (`raced`).
* `GmuClockFed` of GpuCc is about the branch of a call that no other call on the
  same branch has crossed: the policy update reads and writes the enable bit
  without the lock.
* `MessagesTaken` assumes a decode in flight, so that the worker's wait is timed.
  `AnswerIsOwn`, a part of `MessagesMatched`, lets an answer to a command that was
  given up pass for that of the same command of the same session sent again:
  nothing in the packet tells them apart, and `reconfigure` does ask for the buffer
  requirements again after a failure.
* `UpdatesSurvive` is about bits that one caller alone programs. The drive bits of
  sdc1_rclk and sdc1_data are the same, and a state for one sets both. Two callers
  of the same GPIO may lose an update: `update` takes no lock.
* `HeldIsVoted` (RpmhVotes) leaves an address out from a release of the crystal that
  failed, or from the disable of a power domain that votes there, until its next
  successful write (`lowered`).
* `OkIsTransferred` of GeniI2c holds until a failed command leaves received words
  behind or goes on by itself (`unclean`), that of GeniSpi until an engine has
  confirmed neither a cancel nor an abort (`wedged`), and lets the bus be faster than
  asked for where the divider cannot go lower; `ChipReleased` needs a
  confirmed chip select command (`stuck`).
* `PeriodsExact` and the last part of `StreamPowered` (LpassPlayback) leave out
  streams that were started while the worker or the handler was under way
  (`overlap`).
* `LiveIsMapped`, `BackIsHidden`, `FlipHappened` (PageFlip) leave out the time from
  a flip that timed out, or a swapchain image that could not be shown, until the next
  flip that succeeds (`adrift`), `FrontIsWhole` of buffers no client drew into in
  vain (`foreign`).
* `FailedProbeReleases` of Sdhci says of a probe that found no usable command queue
  window what the code does: it keeps the clocks and the mapping of the host.
* `NoReportStranded` of ElanPad holds until a read fails (`failed`), `StateShown` of
  EcInputs unless an event was dispatched between the snapshot and its events
  (`raced`; `RacingEventSettles` drops the condition and is violated), `SamplesShown`
  of MotionSense orders timestamps only while nothing was lost and the rate did not
  change (`broken`), and bounds the time of a flush only when the event's own
  information was used (`exact`).

What happens outside these conditions is in section 5.

## 4. Proofs

`A618DeviceProofs` proves, for every capacity and all finite disjoint sets of
requests (`WorkAssumption`, `CapacityAssumption`), `Spec => []P` for the type
invariant, `SlotsCounted`, `GpuMemoryPinned`, `CpuCopyAlone` and
`ReservationOwned`. None of them is inductive alone. The inductive invariant
`IInv` adds:

* `ControlInv`, which ties the worker's place to `running`, `cur` and the states
  of the requests (each queued once, in state "queued", and nothing else is);
* `GpuInv`, that the GPU reaches only the current submission and forgotten ones,
  and nothing when the worker is between two submissions without a quarantine;
* `AccessInv`, that a CPU access which was granted has seen the queue empty and
  that the reservation keeps it so.

`SlotsCounted` needs `ControlInv` to know that a submission is not counted twice
when it moves from the queue to the worker, and the finite-set lemmas to count
the forgotten ones. The step lemmas follow the actions; actions that push share
`AcceptStep`, those that only tell a caller share `RefusedStep`, and those that
neither touch the queue nor end a turn share `TurnFrame`.

`InterruptProofs` proves, for every modulus greater than one and every deadline,
that a stream reported as retired is flushed and that the worker does not sleep
on a delivered interrupt. `FenceInv` says that the fence word and the copy the
worker is about to compare are non-zero only after the flush, which is what
clearing the word before the kick buys, so that equal sequence numbers of two
streams do no harm. `WakeInv` says that between arming the flag and the wait the
flag is armed or the wake latched.

The same module proves `ArmedIffRegistered` of `TlmmIrq` for any pins, devices and
number of registrations (`TlmmAssumption`). `Handling` adds that a delivery in the
handler is never newer than its slot, that all deliveries of a pin are of one
generation, and that a refusal noted for a pin is no newer than its registration:
without it a re-enable could be of a registration that has gone.

`A618FifoProofs` proves `Spec => ImplementsFifo` by step simulation over `IInv`. The
abstract queue is the worker's current submission in front of `queued`; the kept
ones are the forgotten ones without the current; the answered ones are those
whose caller was told. Admission is `Admit` (the slot count of `SlotsCounted` is
what bounds the abstract queue), the first failure `Break`, telling the observer
`Answer`, and the end of a turn `Release` or, under quarantine, `Keep`. Every
other step leaves the abstract state alone. `ControlInv` is needed to know that
the head of `queued` was not answered before it is taken, and that a turn ends
under quarantine exactly when its submission was forgotten.

`SocProofs` proves, for any set of calls and any number of command slots
(`TcsAssumption`), `OkMeansApplied` and `BatchNotTorn`, the two halves of
`BatchIntact`. The inductive invariant relates the place of the call that holds
the lock to the registers (`LockInv`, `PhaseInv`): nothing runs while a call
clears, programs and triggers, and the completion bit is down after the clear, so
that a completion seen while polling is the batch's own. `HwInv` says that what
runs was triggered by a call that polls or has given up. A batch whose caller
timed out keeps the set busy, and `Begin` refuses a busy set.

It also proves, for every number of events, faults and reads in a
batch (`CrosEcAssumption`), `FreedStaysMasked` and `NothingWithheld`.
`RemoveInv` says that the controller is inactive from the first step of remove_fn
on, and that once the pin is freed the registration is gone and a delivery or an
enable that was under way belongs to an earlier one, which the TLMM refuses.
`CountInv` says that every event is in the EC, corrupted, delivered or in the
worker's hands, exactly while the controller is active and at most afterwards.

`SgfxSchedulerProofs`, on the lemmas of `SgfxSchedulerSteps` and
`SgfxSchedulerAdvance`, proves `ArenaIntact`, `NoLostWake`, `InOrder` and
`IdleIsIdle` of the dispatcher for any finite set of jobs, their chunks and all
budgets (`SchedulerAssumption`). Of the inductive invariant `SchedInv`, `KernelOK`
says that what was handed over is with the kernel or retired and that the kernel's
queue keeps the order; `TrackedOK` that until a failure the kernel has nothing
without a receipt; `ArenasOK` that an arena in use carries its chunk's fence;
`WaiterOK` that a waiter stands behind everything it covers; `PipeOK` and `WakeOK`
that a set flag has its byte on the way.

Each invariant was checked by TLC on a small instance before it was proved. Only
model-checked: everything in the other modules, the codec and transport of Venus
and the controllers among them, and the liveness properties
(liveness and ENABLED are out of the prover's reach). `A6xxStream` is defined by
recursion over a stream, which the installed provers cannot do induction on.

## 5. Disagreements met while modelling

Four have a run of their own (section 3, `findings` in `PROJECT.json`). The
others are recorded here; the models follow the code.

* `process_submission` reads the quarantine flag after execution. If devfreq
  raises it after the fence retired, the finished submission is forgotten, no
  failure is recorded and its slot is kept, so that a CPU checkpoint's caller
  waits for ever; the driver's README says "Subsequent admission fails".
* `clear_ring_interrupts` says that a zero readback "makes the next observed bit
  fresh". A bit the handler has already taken is merged after the next kick.
  Retirement does not depend on it.
* `service_pending_irqs` says that "A free/re-register that happened after the
  snapshot invalidates this delivery". The check drops the lock before the
  callback, so that a `free_irq` in between does not stop it.
* With strict command validation the kernel asks for the 3D baseline before every
  full draw; `continue_draw_batch` emits it once per pass, so that a pass that
  changes its pipeline is refused by such a kernel.
* `MAX_INFLIGHT_DECODES` says "Keep one access unit in flight per session". A
  packet whose handling fails clears the pending decode although the firmware
  still holds its input; the next access unit is queued behind it.
* "A system event is the only decode-packet failure that poisons the shared HFI
  core": a completion nobody asked for lets a client submit twice, and
  `begin_submit` then quarantines the core.
* `DPB_TAG_BASE` says that capture tags live below that boundary; `next_input_tag`
  grows past it.
* `set_pll0_1ghz` writes the PLL's registers before it latches them. If the latch
  times out on a PLL that firmware left running, the retry takes the early return
  and succeeds at the old rate.

The rest are hazards that the models show and no property claims away; the
conditions of section 3 leave them out.

* **Votes.** A release of the crystal that fails stays in the books while its vote
  may be applied later, so that the next enable is granted without one
  (`rpmhcc` 67). Of two enables of the GMU's clock that cross, one may switch the
  branch off again under the other that has returned (`gpucc` 287), and a set_rate
  that crosses an enable of the video clocks restarts a PLL that is in use
  (`videocc` 250). cx and cx_ao, and mx and mx_ao, vote at one address without
  aggregation (`rpmhpd` 96); nothing in the repository disables a domain.
* **I2C, SPI.** A read that times out leaves its words in the receive FIFO, which
  the I2C driver never drains (498); a ten-bit address in a later message is
  refused with the bus still held (514). An SPI engine that confirms neither
  cancel nor abort lets its completion pass for the next command's (329); a chip
  select command that times out leaves the chip selected (507); a speed of zero
  keeps the last client's (496).
* **SD host.** The early returns for a missing command queue window release neither
  clocks nor mappings (814). `set_clock` trusts the base rate it recorded, which a
  failed set_rate may have left wrong (270).
* **USB.** `claim_transition` of the QUSB2 PHY returns the phase it loaded when its
  compare-exchange fails (362); there is one caller. Registers are mapped again by
  every deferred probe (606). The roll-back of the QMP PHY disables the pipe clock
  even when its enable failed (248, 281), and a failed wrapper leaves its power
  domain on.
* **Display.** After the DPU was started the probe can still fail, and then frees the
  buffers that are scanned out (`lib.rs` 1390). `24 - vblank + vsync_offset` wraps
  for a blanking of more than 24 lines (`dpu.rs` 216). An enable after a disable
  that timed out leaves the collapse bit set (`dispcc` 195). An unknown rate code
  of a sink is taken for 5.4 Gbit/s (`sn65dsi86` 732). A CPU present that failed
  leaves its pixels for the staged present that follows. A swapchain image that can
  be neither mapped nor copied makes the driver forget the image that is scanned
  out, whose mapping may then be dropped.
* **Audio.** The delayed stop after an underrun or an error can fall into the next
  start (575), and `stop` drops an enable that nobody took (266). The handles of
  the audio PLL take no lock.
* **Input.** A failed read of the Elan touchpad uses up the edge. Its pointer jumps
  when the first finger is lifted and another stays (151). A Goodix report that
  replaces all contacts at once, or repeats an identifier, shows some of them a
  frame later (`hid.rs` 136).
* **Motion sensors.** The samples of a drain of which one read fails are dropped.
  After a loss the anchor is read later than the arrival, and timestamps may be
  too early.

## 6. What is not modelled, and why

`PROJECT.json` lists every part with its status and the reason. Register scripts
without a protocol, table parsers, codecs and constant tables stay out, as do the
resolution of resources from the device tree and the registration with the
kernel's frameworks, which is not in the repository. Parts that could be modelled
and are not:

1. **A618 resources and mappings**: attach, detach and import against execution,
   with the mapping gate; and `A618Gmu` as an implementation of the boot actions
   of `A618Device`, whose boot is one step.
2. **Relocation and image ranges** of `submit.rs`, the layout crate and the
   preparation of submissions in userspace: arithmetic over tables, to be checked
   against reference definitions over bounded inputs.
3. **Venus**: picture layouts, the firmware loader and the memory pool.
4. **SPMI, CPU frequency, RTC, fuses, Command DB**: one access at a time under a
   lock, or read-only.

Proofs that remain: the ring arithmetic and `RingsIntact` of `VenusHfi`,
`MemoryStaysMapped` of `Venus`, and `CoreHasSource` of `VideoCc`.
