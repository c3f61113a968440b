----------------------------- MODULE A6xxCodegen ----------------------------
(***************************************************************************)
(* The userspace code generator (compiler.rs, emit.rs): one compile() call *)
(* turns a list of SGFX operations into one PM4 stream.  Operations arrive *)
(* one at a time, in any order the compiler accepts; an operation it       *)
(* refuses ends the call with an error and without a stream, and is not a  *)
(* step.  The finished stream is judged by the kernel's validator and run  *)
(* by the GPU of A6xxStream.                                               *)
(***************************************************************************)
EXTENDS A6xxStream, TLC

CONSTANTS Images,     \* colour images, each a render target, texture and copy end
          DepthImage, \* the depth attachment
          Vertices,   \* the vertex buffer
          MaxOps,     \* bound: operations in one list
          MaxDraws    \* bound: draws in one list

ASSUME CodegenAssumption ==
  /\ MaxOps \in Nat
  /\ MaxDraws \in Nat
  /\ {DepthImage, Vertices, None} \cap Images = {}

Pipelines == {"solid", "textured", "mesh"}
Sampled(p) == p = "textured"
DepthTested(p) == p = "mesh"
Samplers == {"nearest", "linear"}
\* A viewport and a scissor; the first pair is the default of a pass.
Regions == {<<"full", "full">>, <<"full", "part">>, <<"half", "full">>}

VARIABLES ops,          \* operations compiled so far
          pass,         \* State::pass: the open render pass or None
          batchActive,  \* draw_batch_active (and State::draw_batch_started)
          lastDraw,     \* Emitter::last_draw
          words,        \* Emitter::words
          textureWords, \* Emitter::texture_words, the descriptor prologue
          textureStates,\* Emitter::texture_states, the k-th made is state k
          wanted,       \* what the operations ask the GPU to do, in order
          finished      \* compile() returned the stream

vars == <<ops, pass, batchActive, lastDraw, words, textureWords, textureStates, wanted, finished>>

Objects == Images \cup {DepthImage, Vertices} \cup 1..MaxDraws

-----------------------------------------------------------------------------
(* The emitter *)
\* Mutant: texture caches survive the start of a submission.
KeepTextureCaches == <<ColorFlush, ColorInvalidate>>

InvalidateSubmissionCaches == <<ColorFlush, ColorInvalidate, CacheInvalidate>>

SubmissionBegin2d == InvalidateSubmissionCaches \o <<WaitForIdle, Marker(12)>>

SubmissionBegin3d ==
  InvalidateSubmissionCaches \o <<<<"sp_update">>, WaitForIdle, <<"baseline">>, Marker(1)>>

SubmissionEnd == <<ColorFlush, DepthFlush, ColorInvalidate, DepthInvalidate, WaitForIdle>>

\* Mutant: the blit is not waited for.
EmitBlitNoWait == <<WaitForIdle, Blit>>

EmitBlit == <<WaitForIdle, Blit, WaitForIdle>>

SolidBlit(image, format) ==
  <<<<"a2d_rect">>, <<"a2d_color">>, <<"a2d_control", TRUE, format>>,
    <<"a2d_dest", image, format>>>> \o EmitBlit

SampledBlit(source, image) ==
  <<<<"a2d_rect">>, <<"a2d_control", FALSE, "color">>, <<"a2d_source", source>>,
    <<"a2d_dest", image, "color">>>> \o EmitBlit

\* clear, clear_depth and clear_color_and_depth
Clear(image, format) ==
  SubmissionBegin2d \o <<WaitForIdle>> \o SolidBlit(image, format) \o SubmissionEnd

ClearColorAndDepth(image, depth) ==
  SubmissionBegin2d \o SolidBlit(depth, "depth") \o SolidBlit(image, "color") \o SubmissionEnd

BlitImage(source, image) ==
  SubmissionBegin2d \o <<WaitForIdle>> \o SampledBlit(source, image) \o SubmissionEnd

\* One CP_MEMCPY chunk; copy_upload repeats it.
Upload(object) == <<<<"memcpy", object>>, WaitMemWrites>>

FixedDrawStateMatches(d) ==
  /\ lastDraw # None
  /\ lastDraw.pipeline = d.pipeline
  /\ lastDraw.target = d.target
  /\ lastDraw.viewport = d.viewport
  /\ lastDraw.depth = d.depth

\* texture_state_backing: the state of an equal texture and sampler, or a new one.
StateOf(states, texture) ==
  IF \E k \in DOMAIN states : states[k] = texture
  THEN CHOOSE k \in DOMAIN states : states[k] = texture
  ELSE Len(states) + 1

TextureStateBacking(texture) ==
  IF StateOf(textureStates, texture) \in DOMAIN textureStates
  THEN UNCHANGED <<textureWords, textureStates>>
  ELSE /\ textureStates' = Append(textureStates, texture)
       /\ textureWords' = textureWords \o
            <<<<"mem_write", Len(textureStates) + 1, texture>>, WaitMemWrites>>

\* Mutant: a change of sampler alone does not bind again.
RebindsImageOnly(d) ==
  /\ d.texture # None
  /\ FixedDrawStateMatches(d) => d.texture[1] # lastDraw.texture[1]

\* Whether a draw programs its texture: draw_with_retained_fixed_state skips
\* the binding the last draw left.
RebindsTexture(d) ==
  /\ d.texture # None
  /\ FixedDrawStateMatches(d) => d.texture # lastDraw.texture

TextureBinding(d) ==
  IF RebindsTexture(d) THEN <<<<"texture_base", StateOf(textureStates, d.texture)>>>> ELSE <<>>

\* Shader and program registers, fixed-function state and the depth state.
ProgramState(d) == <<<<"program_config">>, <<"shader", d.pipeline, Sampled(d.pipeline)>>>>
TargetState(d) == <<<<"fixed", d.pipeline>>, <<"target", d.target, d.viewport>>>>
DepthState(d) == <<<<"depth", d.depth>>>>
DrawDynamics(d) ==
  <<<<"window", d.scissor>>, <<"vertex", Vertices>>, <<"const">>>> \o TextureBinding(d) \o <<<<"draw">>>>

RetainedDraw(d) == DrawDynamics(d)

FullDraw(d) == TargetState(d) \o DepthState(d) \o ProgramState(d) \o DrawDynamics(d)

-----------------------------------------------------------------------------
(* compile(): one action per operation *)
Init ==
  /\ ops = 0 /\ pass = None /\ batchActive = FALSE /\ lastDraw = None
  /\ words = <<>> /\ textureWords = <<>> /\ textureStates = <<>>
  /\ wanted = <<>> /\ finished = FALSE

DrawCount == Cardinality({i \in DOMAIN wanted : wanted[i][1] = "draw"})

\* Bound: a list in which a pass has several draws is one operation shorter.
Bound == IF DrawCount = Times(words, 1, Len(words), "baseline") THEN MaxOps ELSE MaxOps - 1

\* One more operation, with room left for `more' that must follow it.
Operation(more) == ~finished /\ ops + more < Bound /\ ops' = ops + 1 /\ UNCHANGED finished

Emit(packets, request) ==
  /\ words' = words \o packets
  /\ wanted' = wanted \o request

OutsidePass(packets, request) ==
  /\ Operation(0) /\ pass = None
  /\ Emit(packets, request)
  /\ UNCHANGED <<pass, batchActive, lastDraw, textureWords, textureStates>>

WriteBuffer == OutsidePass(Upload(Vertices), <<<<"memcpy", Vertices>>>>)

WriteTexture(image) == OutsidePass(Upload(image), <<<<"memcpy", image>>>>)

BlitTexture(source, image) ==
  source # image /\ OutsidePass(BlitImage(source, image), <<<<"blit", source, image>>>>)

BeginRenderPass(target, depth, clear, depthClear) ==
  /\ Operation(1) /\ pass = None
  /\ depthClear => depth # None
  /\ CASE clear /\ depthClear -> Emit(ClearColorAndDepth(target, depth),
                                      <<<<"blit", None, depth>>, <<"blit", None, target>>>>)
       [] clear /\ ~depthClear -> Emit(Clear(target, "color"), <<<<"blit", None, target>>>>)
       [] ~clear /\ depthClear -> Emit(Clear(depth, "depth"), <<<<"blit", None, depth>>>>)
       [] OTHER -> Emit(<<>>, <<>>)
  /\ pass' = [target |-> target, depth |-> depth]
  /\ UNCHANGED <<batchActive, lastDraw, textureWords, textureStates>>

EndRenderPass ==
  /\ Operation(0) /\ pass # None
  /\ pass' = None
  /\ Emit(IF batchActive THEN SubmissionEnd ELSE <<>>, <<>>)
  /\ batchActive' = FALSE /\ lastDraw' = None
  /\ UNCHANGED <<textureWords, textureStates>>

\* emit_draw: the DrawState of the bindings and the pass.
DrawStateOf(pipeline, texture, region) ==
  [pipeline |-> pipeline, target |-> pass.target, texture |-> texture,
   viewport |-> region[1], scissor |-> region[2],
   depth |-> IF DepthTested(pipeline) THEN pass.depth ELSE None]

\* A draw with the pipeline, texture, sampler, viewport and scissor that Set
\* operations of the same pass bound before it.
Draw(pipeline, texture, region) ==
  /\ Operation(IF batchActive /\ Bound = MaxOps THEN 2 ELSE 1) /\ pass # None
  /\ DrawCount < MaxDraws
  /\ DepthTested(pipeline) => pass.depth # None
  /\ Sampled(pipeline) <=> texture # None
  /\ texture # None => texture[1] # pass.target    \* the frontend's rule, not checked here
  /\ LET d == DrawStateOf(pipeline, texture, region)
     IN  /\ Emit((IF batchActive THEN <<>> ELSE SubmissionBegin3d)
                   \o (IF FixedDrawStateMatches(d) THEN RetainedDraw(d) ELSE FullDraw(d)),
                 <<<<"draw", <<pipeline, Sampled(pipeline)>>, pipeline, <<d.target, d.viewport>>,
                     d.depth, d.scissor, texture>>>>)
         /\ lastDraw' = d
         /\ IF RebindsTexture(d) THEN TextureStateBacking(texture)
            ELSE UNCHANGED <<textureWords, textureStates>>
  /\ batchActive' = TRUE
  /\ UNCHANGED pass

\* finish: the descriptor prologue goes in front of the stream.
Finish ==
  /\ ~finished /\ pass = None /\ ~batchActive
  /\ finished' = TRUE
  /\ words' = IF textureWords = <<>> THEN words
              ELSE textureWords \o <<CacheInvalidate, WaitForIdle>> \o words
  /\ UNCHANGED <<ops, pass, batchActive, lastDraw, textureWords, textureStates, wanted>>

Next ==
  \/ WriteBuffer
  \/ \E i \in Images : WriteTexture(i)
  \/ \E i, j \in Images : BlitTexture(i, j)
  \/ \E t \in Images, d \in {DepthImage, None}, c, dc \in BOOLEAN : BeginRenderPass(t, d, c, dc)
  \/ EndRenderPass
  \/ \E p \in Pipelines, t \in (Images \X Samplers) \cup {None}, r \in Regions : Draw(p, t, r)
  \/ Finish

Spec == Init /\ [][Next]_vars

-----------------------------------------------------------------------------
(* The stream built so far is made of known packets, and the retained draw *)
(* belongs to the open batch of the open pass.                             *)
TypeOK ==
  /\ ops \in 0..MaxOps
  /\ pass \in [target : Images, depth : {DepthImage, None}] \cup {None}
  /\ batchActive \in BOOLEAN /\ finished \in BOOLEAN
  /\ batchActive <=> lastDraw # None
  /\ batchActive => pass # None /\ lastDraw.target = pass.target
  /\ Len(textureStates) <= MaxDraws
  /\ Len(textureWords) = 2 * Len(textureStates)

\* Every full draw of the stream starts a batch: no pass changes its pipeline,
\* viewport or depth state between two draws.
UniformPasses ==
  Times(words, 1, Len(words), "fixed") = Times(words, 1, Len(words), "baseline")

(* Every stream the generator finishes passes the kernel's sequence rules: *)
(* retained draws, shared clear retirement and the descriptor prologue are *)
(* inside the language validate_pm4 accepts.  A kernel built with strict-  *)
(* command-validation also asks for the 3D baseline in front of every full *)
(* draw, and continue_draw_batch emits it once per pass: that kernel       *)
(* accepts the streams of uniform passes (what it accepts, the other does).*)
EmittedIsAccepted == TypeOK /\ (finished => Accepted(words, UniformPasses))

(* The GPU does what the operations asked, in their order: each draw runs  *)
(* with its own pipeline, target, viewport, scissor, depth buffer and      *)
(* texture, although a retained draw re-programs only what changed and     *)
(* the texture states are written long before.                             *)
RegistersAreRequested == finished => Executed(words, Objects).done = wanted

(* No read meets stale or unfinished data: every target load, depth test,  *)
(* texture, descriptor, vertex and blit source read sees the latest write, *)
(* and no cache is invalidated while it holds the only copy.               *)
(* submission_end leaves no data in a CCU and no CP write in flight for    *)
(* the trusted ring that takes over.                                       *)
CachesCoherent ==
  finished => LET g == Executed(words, Objects)
              IN  /\ g.ok
                  /\ g.colorDirty = {} /\ g.depthDirty = {} /\ g.inFlight = {} /\ ~g.blitting

\* The colour images are interchangeable.
ImageSymmetry == Permutations(Images)
=============================================================================
