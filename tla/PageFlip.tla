----------------------------- MODULE PageFlip ------------------------------
(* Presenting frames (drivers/display/qcom-sc7180-mdss): two scanout        *)
(* buffers that the CPU fills, either for a client or by copying a GPU      *)
(* image (staging), and GPU images scanned out directly through a small     *)
(* cache of DMA mappings.  `present_lock' admits one caller at a time; the  *)
(* DPU takes a flip at its next vsync, and the caller polls until its       *)
(* deadline.  A screen is a row of Tiles; a region is an interval of it.    *)
EXTENDS Naturals, Sequences, FiniteSets, SequencesExt

CONSTANTS Tiles,      \* the screen is 1 .. Tiles
          Images,     \* GPU images with the native size and format
          Unaligned,  \* those of them that cannot be mapped for the DPU
          Short,      \* among these, those whose memory does not cover the whole image
          Capacity,   \* GPU_SCANOUT_CACHE_CAPACITY
          Nothing

PageFlipAssumption ==
    /\ Tiles \in Nat \ {0} /\ Capacity \in Nat \ {0}
    /\ Unaligned \subseteq Images /\ Short \subseteq Unaligned
    /\ Nothing \notin Images \cup {0, 1}

VARIABLES
    source,    \* SOURCE_ADDRESS0: a scanout buffer, or a GPU image
    live,      \* what the DPU reads since its last vsync
    flush,     \* CONTROL_FLUSH is pending
    enable,    \* the vsync interrupt is enabled,
    status,    \* and pending
    front,     \* `front'
    cached,    \* images with a DMA mapping, oldest first
    active,    \* the image that is believed to be scanned out, or Nothing
    staging,   \* source, initialized buffers and previous damage of the staging copy
    job,       \* the flip in progress, or Nothing; `present_pending' is job # Nothing
    lacks,     \* tiles of each buffer that miss the damage of a presented frame
    adrift,    \* since the last flip that succeeded one timed out and may still happen, or
               \* an image on the screen was forgotten for a frame that failed
    foreign    \* a client drew into the back buffer and its flip timed out
vars == <<source, live, flush, enable, status, front, cached, active, staging, job, lacks,
          adrift, foreign>>

Buffers == {0, 1}
Screen == 1 .. Tiles
Regions == {a .. b : a \in Screen, b \in Screen}   \* {} is a region off the screen
GpuStagingState_reset == [source |-> Nothing, initialized |-> {}, damage |-> Nothing]

Init ==
    /\ source = 0 /\ live = 0 /\ flush = FALSE /\ enable = FALSE /\ status = FALSE /\ front = 0
    /\ cached = <<>> /\ active = Nothing /\ staging = GpuStagingState_reset /\ job = Nothing
    /\ lacks = [b \in Buffers |-> Screen] /\ adrift = FALSE /\ foreign = FALSE

-----------------------------------------------------------------------------
(* Preparing a flip, under present_lock *)

back == 1 - front

\* One pass of the flip under interrupt_lock.  The DPU may take the flip before the lock
\* is released, upon which the interrupt is off again.
program(target, j) ==
    /\ source' = target /\ job' = [j EXCEPT !.target = target]
    /\ status' = FALSE /\ enable' = TRUE /\ flush' = TRUE
    /\ UNCHANGED <<live, front>>
Job(kind, target) == [kind |-> kind, target |-> target, image |-> Nothing, damage |-> {},
                      copied |-> {}]

\* present_framebuffer_region and present_scanout_buffer_regions: the client names the
\* buffer it drew, and anything but the back buffer is refused.
present_scanout_buffer(index) ==
    /\ job = Nothing /\ index = back
    /\ program(index, Job("scanout", index))
    /\ lacks' = [lacks EXCEPT ![index] = Screen]
    /\ UNCHANGED <<cached, active, staging, adrift, foreign>>

\* The cache makes room by dropping the first mapping that is not the active one.
Inactive == {i \in DOMAIN cached : cached[i] # active}
Full == Len(cached) >= Capacity
evict_first == IF Full THEN Tail(cached) ELSE cached
evict ==
    IF Full THEN RemoveAt(cached, CHOOSE i \in Inactive : \A k \in Inactive : i <= k) ELSE cached

present_direct_gpu_backing(image) ==
    /\ job = Nothing
    /\ \/ image \in ToSet(cached) /\ UNCHANGED cached
       \/ /\ image \notin ToSet(cached) \cup Unaligned /\ (Full => Inactive # {})
          /\ cached' = Append(evict, image)
    /\ program(image, [Job("direct", image) EXCEPT !.image = image])
    /\ UNCHANGED <<active, staging, lacks, adrift, foreign>>

\* A mapping that is not cached fails before or after making room.
mapping_fails(image) ==
    /\ image \notin ToSet(cached)
    /\ \/ UNCHANGED cached
       \/ image \notin Unaligned /\ (Full => Inactive # {}) /\ cached' = evict

\* What is copied into the back buffer: everything the first time, and then the damage
\* of this frame and of the one that it skipped.
copy_regions_once(st, damage) == IF back \in st.initialized THEN damage ELSE Screen
copy_regions(st, damage) ==
    IF back \notin st.initialized THEN Screen
    ELSE IF st.damage = Nothing THEN damage ELSE st.damage \cup damage

\* A swapchain image that cannot be mapped is staged as well; none is active then.  The
\* copy may find that the image ends early: the call fails with a part copied, and an image
\* that was scanned out directly stays on the screen without being active.
present_gpu_resource_region(image, damage, swapchain) ==
    /\ job = Nothing /\ damage # {}
    /\ IF swapchain THEN mapping_fails(image) ELSE UNCHANGED cached
    /\ LET st == IF staging.source = image THEN staging
                 ELSE [GpuStagingState_reset EXCEPT !.source = image]
           copied == copy_regions(st, damage)
           Copied(part) == lacks' = [b \in Buffers |->
                             (IF staging.source = image THEN lacks[b] ELSE Screen)
                               \ (IF b = back THEN part ELSE {})]
       IN /\ staging' = st
          /\ \/ /\ Copied(copied)
                /\ program(back, [Job("staged", back) EXCEPT !.image = image, !.damage = damage,
                                                             !.copied = copied])
                /\ UNCHANGED adrift
             \/ /\ image \in Short /\ \E part \in (SUBSET copied) \ {copied} : Copied(part)
                /\ adrift' = (adrift \/ (swapchain /\ active # Nothing))
                /\ UNCHANGED <<source, job, status, enable, flush, live, front>>
    /\ active' = IF swapchain THEN Nothing ELSE active
    /\ UNCHANGED foreign

-----------------------------------------------------------------------------
(* The flip *)

\* The caller finds the flush consumed, in any of the polls: right after programming,
\* after an interrupt, or at the last look after its deadline.
mark_staged == active' = Nothing
Succeed ==
    /\ job # Nothing /\ ~flush
    /\ enable' = FALSE /\ status' = FALSE /\ job' = Nothing /\ adrift' = FALSE
    /\ CASE job.kind = "direct" ->
              /\ active' = job.image /\ staging' = GpuStagingState_reset
              /\ foreign' = FALSE /\ UNCHANGED <<front, lacks>>
         [] job.kind = "scanout" ->
              /\ mark_staged /\ staging' = GpuStagingState_reset /\ front' = job.target
              /\ foreign' = FALSE /\ UNCHANGED lacks
         [] OTHER ->
              /\ mark_staged /\ front' = job.target
              /\ staging' = [source |-> job.image, damage |-> job.damage,
                             initialized |-> staging.initialized \cup {job.target}]
              /\ lacks' = [lacks EXCEPT ![1 - job.target] = @ \cup job.damage]
              /\ UNCHANGED foreign
    /\ UNCHANGED <<source, live, flush, cached>>

\* The deadline passes with the flush pending: the call fails, and the DPU keeps the flip.
TimeoutLoud ==
    /\ job # Nothing /\ flush
    /\ job' = Nothing /\ adrift' = TRUE
    /\ foreign' = (foreign \/ job.kind = "scanout")
    /\ UNCHANGED <<source, live, flush, enable, status, front, cached, active, staging, lacks>>
Timeout ==
    /\ job # Nothing /\ flush
    /\ enable' = FALSE /\ status' = FALSE /\ job' = Nothing /\ adrift' = TRUE
    /\ foreign' = (foreign \/ job.kind = "scanout")
    /\ UNCHANGED <<source, live, flush, front, cached, active, staging, lacks>>

\* Hardware.
Vsync ==
    /\ live' = IF flush THEN source ELSE live
    /\ flush' = FALSE /\ status' = TRUE
    /\ UNCHANGED <<source, enable, front, cached, active, staging, job, lacks, adrift, foreign>>

\* The handler leaves the interrupt on only while the flip is pending.
claim_vsync_interrupt ==
    /\ enable /\ status
    /\ status' = FALSE /\ enable' = flush
    /\ UNCHANGED <<source, live, flush, front, cached, active, staging, job, lacks, adrift, foreign>>

Next ==
    \/ \E index \in Buffers : present_scanout_buffer(index)
    \/ \E image \in Images :
          \/ present_direct_gpu_backing(image)
          \/ \E damage \in Regions, swapchain \in BOOLEAN :
                present_gpu_resource_region(image, damage, swapchain)
    \/ Succeed \/ Timeout \/ Vsync \/ claim_vsync_interrupt

Spec == Init /\ [][Next]_vars

-----------------------------------------------------------------------------
(* Properties *)

\* What the DPU reads is mapped: an image's mapping is dropped only when another frame
\* has replaced it on the screen.  Not so from a present that failed to the next flip that
\* succeeds, in two cases (adrift): the flip timed out, and the DPU may take it unnoticed;
\* or a swapchain image could be neither mapped nor copied, for which the driver has
\* already forgotten that another image is scanned out.
LiveIsMapped == live \in Images /\ ~adrift => live \in ToSet(cached)

\* A staged frame is whole: the front buffer has the damage of every frame of its image
\* that was presented, also of those that went to the other buffer.  This does not hold
\* once a client has drawn into a scanout buffer and its flip has timed out (foreign): the
\* staging copy takes the buffer for its own until another flip resets it.
FrontIsWhole ==
    job = Nothing /\ active = Nothing /\ staging.source # Nothing /\ ~foreign
      => (front \in staging.initialized => lacks[front] = {})

\* The buffer that is copied into is not the one on the screen, unless a flip that timed
\* out has put it there (adrift).
BackIsHidden == job # Nothing /\ job.kind # "direct" /\ flush /\ ~adrift => live # job.target

\* A flip that is reported has happened, and vsync interrupts are off between flips.
\* What is on the screen is what the driver believes, except after a present that failed
\* as described for LiveIsMapped (adrift).
FlipHappened ==
    /\ job = Nothing => ~enable
    /\ job = Nothing /\ ~adrift => live = (IF active # Nothing THEN active ELSE front)
=============================================================================
