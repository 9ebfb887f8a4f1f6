--------------------------- MODULE SwapchainRenderer --------------------------
(***************************************************************************)
(* renderer-core's SwapchainRenderer (src/renderer/core/src/                *)
(* swapchain_renderer.rs), called as renderer-android's render loop does:   *)
(* which GPU objects exist, which of them the struct's fields name, and     *)
(* what the one frame in flight uses while the GPU executes it.             *)
(*                                                                         *)
(* The calls are made by one thread, so a call is one step; the GPU ends a  *)
(* submission, and the window changes size, between any two calls.  Every   *)
(* fallible call of the source may fail if Failures names it, and leaves    *)
(* what the code leaves at that point.  An object is its kind, the call     *)
(* that created it and the extent it was created for.  Objects which live   *)
(* and die together are one kind: "chain" is the swapchain with its views   *)
(* and framebuffers, "image" the output image with its view and memory.     *)
(***************************************************************************)
EXTENDS Naturals, Sequences, FiniteSets

CONSTANTS
  Extents,    \* sizes the window takes
  Failures,   \* the fallible calls that fail in this model
  MaxCalls,   \* bound: calls that create objects
  MaxResizes  \* bound: changes of the window's size

FallibleCalls ==
  {"acquire", "record", "surface", "chainImages", "views", "direct",
   "image", "sampler", "blitSets", "blitPipe", "uniform", "compPipe", "compSets"}

ASSUME FailuresAssumption == Failures \subseteq FallibleCalls
ASSUME BoundsAssumption == MaxCalls \in Nat /\ MaxResizes \in Nat

VARIABLES
  live,     \* the objects that exist
  chain,    \* fields swapchain, swapchain_image_views, framebuffers (and extent)
  direct,   \* fields pipeline, pipeline_layout
  compute,  \* field compute: the objects of the stage, {} for None
  fence,    \* in_flight is signalled
  pending,  \* the command buffer is executing
  uses,     \* the objects the executing frame uses
  window,   \* the native window's size
  stage,    \* what the render loop calls next
  calls,    \* how many calls have created objects
  resizes,
  failed    \* history: the fallible calls that have failed

vars == <<live, chain, direct, compute, fence, pending, uses, window, stage,
          calls, resizes, failed>>

Kinds == {"chain", "direct", "image", "sampler", "blitSets", "blitPipe",
          "uniform", "compPipe", "compSets"}

Objects == [kind : Kinds, call : 0 .. MaxCalls, extent : Extents]

\* A ComputeStage: one object of each kind, with or without a uniform buffer.
CompleteStage(objects) ==
  /\ objects \subseteq Objects
  /\ \A o1, o2 \in objects : o1.kind = o2.kind => o1 = o2
  /\ {o.kind : o \in objects} \cup {"uniform"} = Kinds \ {"chain", "direct"}

TypeOK ==
  /\ live \subseteq Objects
  /\ chain \in Objects /\ chain.kind = "chain"
  /\ direct \in Objects /\ direct.kind = "direct"
  /\ compute = {} \/ CompleteStage(compute)
  /\ fence \in BOOLEAN /\ pending \in BOOLEAN
  /\ uses \subseteq Objects
  /\ window \in Extents
  /\ stage \in {"frame", "recreate", "retry", "dropped"}
  /\ calls \in 0 .. MaxCalls
  /\ resizes \in 0 .. MaxResizes
  /\ failed \subseteq Failures

\* The state SwapchainRenderer::new returns.
Init ==
  /\ window \in Extents
  /\ chain = [kind |-> "chain", call |-> 0, extent |-> window]
  /\ direct = [kind |-> "direct", call |-> 0, extent |-> window]
  /\ live = {chain, direct}
  /\ compute = {}
  /\ fence = TRUE
  /\ pending = FALSE
  /\ uses = {}
  /\ stage = "frame"
  /\ calls = 0
  /\ resizes = 0
  /\ failed = {}

-----------------------------------------------------------------------------

Fresh(kind, extent) == [kind |-> kind, call |-> calls + 1, extent |-> extent]

OfKinds(objects, kinds) == {o \in objects : o.kind \in kinds}

\* What the struct's fields name.
Owned == IF stage = "dropped" THEN {} ELSE {chain, direct} \cup compute

\* device_wait_idle and queue_wait_idle: the submitted frame has ended.
WaitIdle ==
  /\ pending' = FALSE
  /\ fence' = (fence \/ pending)
  /\ uses' = {}

NewCall == calls < MaxCalls /\ calls' = calls + 1

Fails(call) == call \in Failures /\ failed' = failed \cup {call}

\* The parts of the blit pass, which no later update replaces.
BlitKinds == {"image", "sampler", "blitSets", "blitPipe"}

\* The objects set_compute_shader creates and forgets, in order.
PartsToCreate(withUniforms) ==
  (IF compute = {} THEN <<"image", "sampler", "blitSets", "blitPipe">> ELSE <<>>)
  \o (IF withUniforms THEN <<"uniform">> ELSE <<>>)
  \o <<"compPipe", "compSets">>

Created(parts, n) == {Fresh(parts[i], chain.extent) : i \in 1 .. n}

\* create_blit_resources records and submits a layout transition once it has
\* the image and the sampler, and waits for the queue.
TransitionReached(parts, n) == parts[1] = "image" /\ n >= 2

-----------------------------------------------------------------------------
(* The environment                                                          *)

GpuFinishes ==
  /\ pending
  /\ WaitIdle
  /\ UNCHANGED <<live, chain, direct, compute, window, stage, calls, resizes, failed>>

Resize(extent) ==
  /\ resizes < MaxResizes
  /\ extent # window
  /\ window' = extent
  /\ resizes' = resizes + 1
  /\ UNCHANGED <<live, chain, direct, compute, fence, pending, uses, stage, calls,
                 failed>>

-----------------------------------------------------------------------------
(* set_compute_shader and set_shaders                                       *)

\* Mutant: destroys the old stage while a frame may still be using it.
SetComputeShaderNoWait(withUniforms) ==
  /\ stage = "frame"
  /\ NewCall
  /\ LET parts == PartsToCreate(withUniforms)
         new == Created(parts, Len(parts))
         kept == OfKinds(compute, BlitKinds)
     IN /\ compute' = kept \cup new
        /\ live' = (live \cup new) \ (compute \ kept)
  /\ UNCHANGED <<chain, direct, fence, pending, uses, window, stage, resizes, failed>>

SetComputeShader(withUniforms) ==
  /\ stage = "frame"
  /\ NewCall
  /\ LET parts == PartsToCreate(withUniforms)
         new == Created(parts, Len(parts))
         kept == OfKinds(compute, BlitKinds)
     IN /\ compute' = kept \cup new
        /\ live' = (live \cup new) \ (compute \ kept)
  /\ WaitIdle
  /\ UNCHANGED <<chain, direct, window, stage, resizes, failed>>

\* An early `?`: what was created so far is forgotten, nothing is stored.
SetComputeShaderFails(withUniforms) ==
  /\ stage = "frame"
  /\ NewCall
  /\ LET parts == PartsToCreate(withUniforms) IN
     \E n \in 0 .. Len(parts) - 1 :
       /\ Fails(parts[n + 1])
       /\ live' = live \cup Created(parts, n)
       /\ IF TransitionReached(parts, n) THEN WaitIdle
                                         ELSE UNCHANGED <<fence, pending, uses>>
  /\ UNCHANGED <<chain, direct, compute, window, stage, resizes>>

SetShaders ==
  /\ stage = "frame"
  /\ NewCall
  /\ direct' = Fresh("direct", chain.extent)
  /\ live' = (live \cup {direct'}) \ {direct}
  /\ WaitIdle
  /\ UNCHANGED <<chain, compute, window, stage, resizes, failed>>

-----------------------------------------------------------------------------
(* recreate, at the window's current size                                   *)

RecreateBegins == stage = "recreate" /\ NewCall /\ WaitIdle

\* Mutant: leaves the compute stage as it was.
RecreateChainOnly ==
  /\ RecreateBegins
  /\ chain' = Fresh("chain", window)
  /\ direct' = Fresh("direct", window)
  /\ live' = (live \cup {chain', direct'}) \ {chain, direct}
  /\ stage' = "retry"
  /\ UNCHANGED <<compute, window, resizes, failed>>

\* Mutant: does not destroy the output image it replaces.
RecreateKeepingImage ==
  /\ RecreateBegins
  /\ chain' = Fresh("chain", window)
  /\ direct' = Fresh("direct", window)
  /\ LET old == OfKinds(compute, {"image", "blitPipe"})
         new == {Fresh(o.kind, window) : o \in old}
     IN /\ compute' = (compute \ old) \cup new
        /\ live' = (live \cup {chain', direct'} \cup new)
                     \ ({chain, direct} \cup OfKinds(old, {"blitPipe"}))
  /\ stage' = "retry"
  /\ UNCHANGED <<window, resizes, failed>>

\* The parts of the compute stage which depend on the size; all others stay.
ResizedParts == OfKinds(compute, {"image", "blitPipe"})

Recreate ==
  /\ RecreateBegins
  /\ chain' = Fresh("chain", window)
  /\ direct' = Fresh("direct", window)
  /\ LET new == {Fresh(o.kind, window) : o \in ResizedParts}
     IN /\ compute' = (compute \ ResizedParts) \cup new
        /\ live' = (live \cup {chain', direct'} \cup new)
                     \ ({chain, direct} \cup ResizedParts)
  /\ stage' = "retry"
  /\ UNCHANGED <<window, resizes, failed>>

\* Its early returns, and what each leaves behind: on the way to a swapchain with
\* its views and framebuffers,
RebuildChainFails ==
  /\ RecreateBegins
  /\ stage' = "frame"
  /\ \/ \* before there is a new swapchain
        /\ Fails("surface")
        /\ UNCHANGED live
     \/ \* get_swapchain_images: the new swapchain is forgotten
        /\ Fails("chainImages")
        /\ live' = live \cup {Fresh("chain", window)}
     \/ \* image views or framebuffers: the old ones are destroyed already
        /\ Fails("views")
        /\ live' = (live \cup {Fresh("chain", window)}) \ {chain}
  /\ UNCHANGED <<chain, direct, compute, window, resizes>>

\* and with the fields naming a new swapchain, but not all of what is of its size.
RebuildPipelinesFail ==
  /\ RecreateBegins
  /\ stage' = "frame"
  /\ chain' = Fresh("chain", window)
  /\ \/ \* the direct pipeline
        /\ Fails("direct")
        /\ live' = (live \cup {chain'}) \ {chain}
        /\ UNCHANGED direct
     \/ \* the output image, or the blit pipeline: the new image is forgotten
        /\ compute # {}
        /\ direct' = Fresh("direct", window)
        /\ \E forgotten \in {{}, {Fresh("image", window)}} :
             /\ Fails(IF forgotten = {} THEN "image" ELSE "blitPipe")
             /\ live' = (live \cup {chain', direct'} \cup forgotten) \ {chain, direct}
  /\ UNCHANGED <<compute, window, resizes>>

-----------------------------------------------------------------------------
(* render_frame: it begins by waiting for the fence.  What a frame on a      *)
(* destroyed swapchain does is undefined, and followed no further: when     *)
(* there is one is the second part of OwnsWhatIsLive.                       *)

CanRender == stage \in {"frame", "retry"} /\ fence /\ chain \in live

\* Ok(false) makes the render loop recreate and retry, once per frame.
AfterFrame(ok) ==
  stage' = IF ~ok /\ stage = "frame" THEN "recreate" ELSE "frame"

\* A swapchain handed to create_swapchain as old_swapchain yields no image.
Retired == \E o \in live : o.kind = "chain" /\ o.call > chain.call

OutOfDate == window # chain.extent \/ Retired

\* Mutant: resets the fence before it acquires an image.
FrameSkippedLate ==
  /\ CanRender
  /\ OutOfDate
  /\ fence' = FALSE
  /\ AfterFrame(FALSE)
  /\ UNCHANGED <<live, chain, direct, compute, pending, uses, window, calls, resizes, failed>>

\* Mutant: reports the skipped frame as a rendered one.
FrameSkippedSilently ==
  /\ CanRender
  /\ OutOfDate
  /\ AfterFrame(TRUE)
  /\ UNCHANGED <<live, chain, direct, compute, fence, pending, uses, window,
                 calls, resizes, failed>>

\* acquire_next_image answers OUT_OF_DATE.
FrameSkipped ==
  /\ CanRender
  /\ OutOfDate
  /\ AfterFrame(FALSE)
  /\ UNCHANGED <<live, chain, direct, compute, fence, pending, uses, window,
                 calls, resizes, failed>>

\* acquire_next_image fails otherwise.
FrameNotAcquired ==
  /\ CanRender
  /\ Fails("acquire")
  /\ AfterFrame(TRUE)
  /\ UNCHANGED <<live, chain, direct, compute, fence, pending, uses, window,
                 calls, resizes>>

\* A `?` between reset_fences and the end of queue_submit.
FrameNotSubmitted ==
  /\ CanRender
  /\ Fails("record")
  /\ fence' = FALSE
  /\ AfterFrame(TRUE)
  /\ UNCHANGED <<live, chain, direct, compute, pending, uses, window, calls, resizes>>

\* What a frame draws with.
FrameUses == {chain} \cup (IF compute = {} THEN {direct} ELSE compute)

\* Submitted.  The presentation succeeds (or is merely suboptimal), fails, or
\* answers OUT_OF_DATE.
FrameSubmitted ==
  /\ CanRender
  /\ ~Retired
  /\ fence' = FALSE
  /\ pending' = TRUE
  /\ uses' = FrameUses
  /\ \/ AfterFrame(TRUE)
     \/ window # chain.extent /\ AfterFrame(FALSE)
  /\ UNCHANGED <<live, chain, direct, compute, window, calls, resizes, failed>>

\* nativeDestroyRenderer: Drop waits, then destroys what the fields name.
DropRenderer ==
  /\ stage = "frame"
  /\ stage' = "dropped"
  /\ WaitIdle
  /\ live' = live \ Owned
  /\ UNCHANGED <<chain, direct, compute, window, calls, resizes, failed>>

-----------------------------------------------------------------------------

Frame == FrameSkipped \/ FrameNotAcquired \/ FrameNotSubmitted \/ FrameSubmitted

Next ==
  \/ GpuFinishes
  \/ \E extent \in Extents : Resize(extent)
  \/ \E withUniforms \in BOOLEAN : \/ SetComputeShader(withUniforms)
                                   \/ SetComputeShaderFails(withUniforms)
  \/ SetShaders
  \/ Recreate
  \/ RebuildChainFails \/ RebuildPipelinesFail
  \/ Frame
  \/ DropRenderer

Spec == Init /\ [][Next]_vars

\* The GPU ends what it executes, the render loop keeps calling, a call which
\* can succeed does not fail for ever, and a driver that is given a stale
\* swapchain over and over eventually answers OUT_OF_DATE.  (The code ignores
\* SUBOPTIMAL: under a driver that never says more nothing is recreated.)
FairSpec == /\ Spec
            /\ WF_vars(GpuFinishes)
            /\ WF_vars(Frame)
            /\ SF_vars(Recreate)
            /\ WF_vars(Recreate \/ RebuildChainFails \/ RebuildPipelinesFail)
            /\ SF_vars(FrameSkipped)

-----------------------------------------------------------------------------
(* Properties                                                               *)
(*                                                                         *)
(* The comments of the source promise most of these without a condition;    *)
(* each holds until one of the calls that it names has failed.              *)

\* Nothing the GPU is using has been destroyed, whichever calls have failed.
PendingFrameAlive == pending => uses \subseteq live

\* A submitted frame draws with objects of one size: the compute output, the
\* blit and the swapchain image it is drawn to were made for the same extent,
\* as long as no recreate has failed between the chain and the blit pass.
\* (Only the parts whose extent matters: views, viewports, the image.)
FrameOfOneExtent ==
  /\ pending
  /\ failed \cap {"direct", "image", "blitPipe"} = {}
  => Cardinality({o.extent : o \in OfKinds(uses,
                    {"chain", "direct", "image", "blitPipe"})}) = 1

\* The failures that leave an object which nothing names: all but the first
\* call of a sequence, whatever swapchain_renderer.rs:824-827 says of those
\* that are "torn down on failure automatically".
Leaking == FallibleCalls \ {"acquire", "record", "surface"}

\* Every object is named by a field until it is destroyed: neither leaked nor
\* destroyed twice, across updates, resizes and the final drop.  And what a field
\* names exists, so that the next frame binds no destroyed object, even after a
\* leak: swapchain_renderer.rs:1351 has "`self.swapchain` is live", and it is not
\* only once recreate, which has destroyed it by then, fails to make the views or
\* framebuffers of the next one.
OwnsWhatIsLive ==
  /\ failed \cap Leaking = {} => live \subseteq Owned
  /\ Owned \ live \subseteq IF "views" \in failed THEN {chain} ELSE {}

\* The fence that the next frame waits on is one that gets signalled: the
\* renderer hangs after a frame fails between its reset and the submission,
\* and after nothing else.
FenceWillSignal == "record" \notin failed => fence \/ pending

\* A stale swapchain is replaced by one of the window's size (`recreate` and
\* the retry in renderer-android's render_frame), unless the bound on calls or
\* the destruction of the renderer comes first, or a frame hangs.
SizeCatchesUp ==
  stage # "dropped" /\ chain.extent # window
    ~> \/ stage = "dropped" \/ chain.extent = window \/ calls = MaxCalls
       \/ "record" \in failed \/ chain \notin live

\* swapchain_renderer.rs:673-676, the command buffer is "idle at this point"
\* when create_blit_resources resets it: the last frame may still be executing,
\* since only the next render_frame waits for its fence.
TransitionResetsIdleBuffer ==
  [][\A o \in live' \ live : o.kind = "blitSets" => ~pending]_vars
=============================================================================
