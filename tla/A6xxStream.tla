----------------------------- MODULE A6xxStream -----------------------------
(***************************************************************************)
(* The PM4 command streams that the userspace code generator emits, the    *)
(* sequence rules the kernel validator applies to them (submit.rs), and    *)
(* what the GPU's caches and registers do when it runs them.  A packet is  *)
(* a tuple headed by its kind; register writes that the generator always   *)
(* emits together are one packet.                                          *)
(***************************************************************************)
EXTENDS Naturals, Sequences, FiniteSets

CONSTANTS None     \* no object, no state

ColorFlush == <<"color_flush">>
DepthFlush == <<"depth_flush">>
ColorInvalidate == <<"color_inv">>
DepthInvalidate == <<"depth_inv">>
CacheInvalidate == <<"cache_inv">>
WaitForIdle == <<"wfi">>
WaitMemWrites == <<"wait_mem">>
Blit == <<"blit">>
Marker(mode) == <<"marker", mode>>

\* Runs an automaton over a stream: Step(state, i) for each index in turn.
Scan(Step(_, _), start, s) ==
  LET RECURSIVE Run(_, _, _)
      Run(lo, hi, st) ==
        CASE lo > hi -> st
          [] lo = hi -> Step(st, lo)
          [] lo < hi -> LET mid == (lo + hi) \div 2
                        IN  CHOOSE r \in {Run(mid + 1, hi, m) : m \in {Run(lo, mid, st)}} : TRUE
  IN  Run(1, Len(s), start)

-----------------------------------------------------------------------------
(* validate_memcpy_barriers: a CP memory write is followed by its wait. *)
MemcpyBarriers(s) ==
  \A i \in DOMAIN s : s[i][1] \in {"memcpy", "mem_write"}
                         => i < Len(s) /\ s[i + 1] = WaitMemWrites

(* validate_ccu_transitions: the four cache events in one of two orders,   *)
(* with nothing between them.                                              *)
CcuNext(st, p) ==
  CASE st = "idle"  /\ p = ColorFlush      -> "color"
    [] st = "color" /\ p = DepthFlush      -> "both"
    [] st = "color" /\ p = ColorInvalidate -> "idle"
    [] st = "both"  /\ p = ColorInvalidate -> "depth"
    [] st = "depth" /\ p = DepthInvalidate -> "idle"
    [] st = "idle"  /\ p \notin {DepthFlush, ColorInvalidate, DepthInvalidate} -> "idle"
    [] OTHER -> "bad"

CcuTransitions(s) == Scan(LAMBDA st, i : CcuNext(st, s[i]), "idle", s) = "idle"

(* validate_render_retirement *)
SysmemRetirement == <<ColorFlush, DepthFlush, ColorInvalidate, DepthInvalidate, WaitForIdle>>

RetiresAt(s, i) == i + 4 <= Len(s) /\ SubSeq(s, i, i + 4) = SysmemRetirement

\* What may follow a clear that is not retired yet.
ClearSetup == {"a2d_rect", "a2d_color", "a2d_control", "a2d_dest", "wfi", "blit"}

RetireNext(s, st, i) ==
  LET p == s[i]
      solid == IF p[1] = "a2d_control" THEN p[2] ELSE st.solid
      idleNext == i < Len(s) /\ s[i + 1] = WaitForIdle
  IN  CASE st.skip > 0 -> [st EXCEPT !.skip = @ - 1]
        [] st.skip = 0 /\ (st.draw \/ st.clear) /\ RetiresAt(s, i) ->
             [st EXCEPT !.draw = FALSE, !.clear = FALSE, !.skip = 4]
        [] OTHER ->
             IF \/ st.clear /\ p[1] \notin ClearSetup
                \/ p = Blit /\ (st.draw \/ ~idleNext)
                \/ p = Blit /\ ~solid /\ (st.clear \/ ~RetiresAt(s, i + 2))
             THEN [st EXCEPT !.ok = FALSE]
             ELSE [st EXCEPT !.solid = solid,
                             !.draw = @ \/ p[1] = "draw",
                             !.clear = @ \/ (p = Blit /\ solid),
                             !.skip = IF p # Blit THEN 0 ELSE IF solid THEN 1 ELSE 6]

RenderRetirement(s) ==
  LET end == Scan(LAMBDA st, i : RetireNext(s, st, i),
                  [draw |-> FALSE, clear |-> FALSE, solid |-> FALSE, skip |-> 0, ok |-> TRUE], s)
  IN  end.ok /\ ~end.draw /\ ~end.clear

(* validate_a2d_sequences: every blit has its own complete set-up in the   *)
(* 2D render mode, and every A2D address belongs to exactly one blit.      *)
LastOf(s, from, to, kinds) == {j \in from..to : s[j][1] \in kinds}

PrevBlit(s, i) ==
  LET before == {j \in 1..(i - 1) : s[j] = Blit}
  IN  IF before = {} THEN 0 ELSE CHOOSE j \in before : \A k \in before : k <= j

BlitIsComplete(s, i) ==
  LET kinds == {s[j][1] : j \in (PrevBlit(s, i) + 1)..(i - 1)}
      control == LastOf(s, PrevBlit(s, i) + 1, i - 1, {"a2d_control"})
      markers == LastOf(s, 1, i - 1, {"marker"})
  IN  /\ \E j \in markers : s[j] = Marker(12) /\ \A k \in markers : k <= j
      /\ {"a2d_rect", "a2d_control", "a2d_dest"} \subseteq kinds
      /\ \E j \in control : /\ \A k \in control : k <= j
                            /\ s[j][3] = s[CHOOSE d \in LastOf(s, PrevBlit(s, i) + 1, i - 1,
                                                                {"a2d_dest"}) : TRUE][3]
                            /\ IF s[j][2] THEN "a2d_color" \in kinds ELSE "a2d_source" \in kinds

\* The address at j is consumed by the first blit after it.
AddressConsumed(s, j) ==
  \E i \in (j + 1)..Len(s) :
     /\ s[i] = Blit
     /\ \A k \in (j + 1)..(i - 1) : s[k] # Blit /\ s[k][1] # s[j][1]

A2dSequences(s) ==
  /\ \A i \in DOMAIN s : s[i] = Blit => BlitIsComplete(s, i)
  /\ \A j \in DOMAIN s : s[j][1] \in {"a2d_dest", "a2d_source"} => AddressConsumed(s, j)

(* validate_texture_initialization: a lookup refers to a texture state     *)
(* that an earlier packet of the submit wrote.                             *)
TextureInitialization(s) ==
  \A i \in DOMAIN s : s[i][1] = "texture_base" =>
     \E j \in 1..(i - 1) : s[j][1] = "mem_write" /\ s[j][2] = s[i][2]

(* validate_3d_sequences; strict is the strict-command-validation feature *)
RetainedKinds ==
  {"target", "window", "vertex", "texture_base", "const", "mem_write", "wfi", "wait_mem", "cache_inv"}

\* A segment of packets up to a draw, with the number of packets of a kind.
Segment(s, from, to) == {s[j][1] : j \in from..to}
Times(s, from, to, kind) == Cardinality({j \in from..to : s[j][1] = kind})

\* segment_matches_pipeline: the 3D baseline and everything a draw programs,
\* each once, and a texture exactly when the shader samples one.
CanonicalSegment(s, from, to) ==
  LET markers == {j \in from..to : s[j][1] = "marker"}
      sampled == \E j \in from..to : s[j][1] = "shader" /\ s[j][3]
  IN  /\ \A kind \in {"sp_update", "baseline", "program_config", "target", "fixed", "depth",
                       "window", "vertex", "const", "shader"} : Times(s, from, to, kind) = 1
      /\ \E j \in markers : s[j] = Marker(1) /\ \A k \in markers \ {j} : k < j /\ s[k] # s[j]
      /\ Times(s, from, to, "texture_base") = IF sampled THEN 1 ELSE 0

\* Shaders and the target are programmed completely or inherited by a delta.
ShaderTransition(s, from, to, known) ==
  \/ Times(s, from, to, "shader") = 1
  \/ known /\ "shader" \notin Segment(s, from, to) /\ Segment(s, from, to) \subseteq RetainedKinds

TargetTransition(s, from, to, known) ==
  \/ Times(s, from, to, "target") = 1 /\ Times(s, from, to, "fixed") = 1
  \/ known /\ "target" \notin Segment(s, from, to) /\ Segment(s, from, to) \subseteq RetainedKinds

DepthTransition(s, from, to, known) ==
  \/ Times(s, from, to, "depth") = 1
  \/ known /\ Segment(s, from, to) \subseteq RetainedKinds

\* The scissor and the vertex buffer belong to each draw.
DynamicState(s, from, to) == Times(s, from, to, "window") = 1 /\ Times(s, from, to, "vertex") = 1

DrawNext(s, strict, st, i) ==
  LET from == st.from + 1
      to == i - 1
      canonical == CanonicalSegment(s, from, to)
  IN  IF s[i][1] # "draw" THEN st
      ELSE [ok |-> /\ st.ok
                   /\ \/ ~strict \/ canonical
                      \/ st.canonical /\ Segment(s, from, to) \subseteq RetainedKinds
                   /\ ShaderTransition(s, from, to, st.shader)
                   /\ TargetTransition(s, from, to, st.target)
                   /\ DepthTransition(s, from, to, st.depth)
                   /\ DynamicState(s, from, to),
            from |-> i,
            canonical |-> st.canonical \/ canonical,
            shader |-> st.shader \/ Times(s, from, to, "shader") = 1,
            target |-> st.target \/ Times(s, from, to, "target") = 1,
            depth |-> st.depth \/ Times(s, from, to, "depth") = 1]

DrawSequences(s, strict) ==
  Scan(LAMBDA st, i : DrawNext(s, strict, st, i),
       [ok |-> TRUE, from |-> 0, canonical |-> FALSE, shader |-> FALSE,
        target |-> FALSE, depth |-> FALSE], s).ok

(* validate_pm4 *)
Accepted(s, strict) ==
  /\ MemcpyBarriers(s)
  /\ CcuTransitions(s)
  /\ RenderRetirement(s)
  /\ A2dSequences(s)
  /\ TextureInitialization(s)
  /\ DrawSequences(s, strict)

-----------------------------------------------------------------------------
(* The GPU, as the comments of emit.rs describe it.  Colour and depth      *)
(* writes stay in their CCU (dirty) until it is flushed; a cache may hold  *)
(* an old copy (stale) of an object written by another path until it is    *)
(* invalidated; a CP write is in flight until it is waited for; a blit is  *)
(* running until the GPU idles, and no flush covers it before that.        *)
\* One record per operation the GPU performed, in order.
GpuReset(objects) ==
  [reg |-> [k \in {"shader", "fixed", "target", "depth", "window", "vertex", "texture_base",
                   "a2d_control", "a2d_source", "a2d_dest", "marker"} |-> <<k, None, None>>],
   descriptor |-> {}, colorDirty |-> {}, depthDirty |-> {}, blitting |-> FALSE,
   colorStale |-> {}, depthStale |-> {}, textureStale |-> objects, inFlight |-> {},
   done |-> <<>>, ok |-> TRUE]

\* Reads through the texture cache, the colour CCU and the depth CCU.
TextureReadOk(g, x) == x \notin g.textureStale \cup g.colorDirty \cup g.depthDirty \cup g.inFlight
ColorReadOk(g, x) == x \notin g.colorStale \cup g.depthDirty \cup g.inFlight
DepthReadOk(g, x) == x \notin g.depthStale \cup g.colorDirty \cup g.inFlight

\* The image and sampler a texture state describes, from the latest write to that state.
Described(g, state) ==
  LET ds == {d \in g.descriptor : d[1] = state}
  IN  IF ds = {} THEN None ELSE (CHOOSE d \in ds : TRUE)[2]

GpuDraw(g) ==
  LET target == g.reg["target"][2]
      depth == g.reg["depth"][2]
      sampled == g.reg["shader"][3] = TRUE
      state == g.reg["texture_base"][2]
      texture == IF sampled THEN Described(g, state) ELSE None
      hasDepth == depth # None
  IN  [g EXCEPT
        !.ok = /\ @ /\ ~g.blitting /\ ColorReadOk(g, target)
               /\ TextureReadOk(g, g.reg["vertex"][2])
               /\ sampled => texture # None /\ TextureReadOk(g, state) /\ TextureReadOk(g, texture[1])
               /\ hasDepth => DepthReadOk(g, depth),
        !.colorDirty = @ \cup {target},
        !.depthDirty = IF hasDepth THEN @ \cup {depth} ELSE @,
        !.textureStale = @ \cup {target} \cup (IF hasDepth THEN {depth} ELSE {}),
        !.colorStale = IF hasDepth THEN @ \cup {depth} ELSE @,
        !.depthStale = @ \cup {target},
        !.done = Append(@, <<"draw", Tail(g.reg["shader"]), g.reg["fixed"][2], Tail(g.reg["target"]),
                             depth, g.reg["window"][2], texture>>)]

GpuBlit(g) ==
  LET dest == g.reg["a2d_dest"][2]
      solid == g.reg["a2d_control"][2] = TRUE
      source == IF solid THEN None ELSE g.reg["a2d_source"][2]
  IN  [g EXCEPT
        !.ok = /\ @ /\ g.reg["marker"][2] = 12 /\ ColorReadOk(g, dest)
               /\ ~solid => TextureReadOk(g, source),
        !.blitting = TRUE,
        !.colorDirty = @ \cup {dest},
        !.textureStale = @ \cup {dest},
        !.depthStale = @ \cup {dest},
        !.done = Append(@, <<"blit", source, dest>>)]

GpuRun(g, p) ==
  CASE p = ColorFlush -> IF g.blitting THEN g
                         ELSE [g EXCEPT !.colorDirty = {}, !.textureStale = @ \cup g.colorDirty]
    [] p = DepthFlush -> [g EXCEPT !.depthDirty = {}, !.textureStale = @ \cup g.depthDirty]
    [] p = ColorInvalidate -> [g EXCEPT !.colorStale = {}, !.ok = @ /\ g.colorDirty = {}]
    [] p = DepthInvalidate -> [g EXCEPT !.depthStale = {}, !.ok = @ /\ g.depthDirty = {}]
    [] p = CacheInvalidate -> [g EXCEPT !.textureStale = {}]
    [] p = WaitForIdle -> [g EXCEPT !.blitting = FALSE]
    [] p = WaitMemWrites -> [g EXCEPT !.inFlight = {}]
    [] p = Blit -> GpuBlit(g)
    [] p[1] = "draw" -> GpuDraw(g)
    [] p[1] = "sp_update" ->
         [g EXCEPT !.reg["shader"] = <<"shader", None, None>>,
                   !.reg["texture_base"] = <<"texture_base", None>>]
    [] p[1] \in {"memcpy", "mem_write"} ->
         [g EXCEPT !.inFlight = @ \cup {p[2]}, !.ok = @ /\ g.inFlight = {},
                   !.textureStale = @ \cup {p[2]}, !.colorStale = @ \cup {p[2]},
                   !.depthStale = @ \cup {p[2]},
                   !.descriptor = IF p[1] = "memcpy" THEN @
                                  ELSE {d \in @ : d[1] # p[2]} \cup {<<p[2], p[3]>>},
                   !.done = IF p[1] = "memcpy" THEN Append(@, <<"memcpy", p[2]>>) ELSE @]
    [] OTHER -> [g EXCEPT !.reg = [k \in DOMAIN @ |-> IF k = p[1] THEN p ELSE @[k]]]

Executed(s, objects) == Scan(LAMBDA g, i : GpuRun(g, s[i]), GpuReset(objects), s)
=============================================================================
