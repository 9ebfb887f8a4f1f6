----------------------------- MODULE DeviceObjects -----------------------------
(***************************************************************************)
(* Who destroys the Vulkan objects that renderer-core makes                 *)
(* (src/renderer/core/src/lib.rs), when any call on the way may fail: the   *)
(* wrappers Instance, Device, Buffer, ShaderModule and so on, which destroy *)
(* what they own when they are dropped, and the raw handles, which somebody *)
(* has to destroy by hand.  The programs that use them are the compute      *)
(* sample of renderer-capi, the headless rendering of                       *)
(* core/tests/graphics_pipeline.rs, and the life of renderer-android's      *)
(* Renderer around a SwapchainRenderer (whose calls in between are the      *)
(* module SwapchainRenderer).                                               *)
(*                                                                         *)
(* A program is a sequence of steps, in the order of the source.  An error  *)
(* (or the panic of a test) drops the wrappers that are in scope, the       *)
(* newest first, and so does the end of a program that succeeds.  The       *)
(* programs are a constant: any which follow the rules of ownership below,  *)
(* as those of the source do.                                               *)
(***************************************************************************)
EXTENDS Naturals, Sequences, Functions

-----------------------------------------------------------------------------
(* Steps                                                                    *)

Step(does, objects) == <<[does |-> does, objects |-> objects]>>

\* A call which may fail, and what it makes.
Call     == Step("call", <<>>)
Make(o)  == Step("make", <<o>>)

\* One object for each image: some of them may have been made when it fails.
MakeEach(o) == Step("makeEach", <<o>>)

\* The wrapper that owns these is constructed.  It destroys them in that order.
Own(os) == Step("own", os)

\* A wrapper's objects are no longer its own: it was moved, or std::mem::forget.
Forget(os) == Step("forget", os)

\* drop(wrapper), or the destruction of raw handles.
Destroy(os) == Step("destroy", os)

\* The queue executes a command buffer that uses these; the host waits for it.
Submit(os) == Step("submit", os)
Wait       == Step("wait", <<>>)

\* The frames that are drawn, the last of which may still be executing.
Frames(os) == Step("frames", os)

-----------------------------------------------------------------------------
(* renderer-core                                                            *)

\* The wrappers: what the drop of each destroys, in that order.
Instance         == <<"instance">>
Device           == <<"device">>
Buffer           == <<"buffer", "memory">>
ShaderModule(module) == <<module>>
ComputePipeline  == <<"pipeline", "pipelineLayout", "setLayout">>
Image            == <<"imageView", "image", "imageMemory">>
RenderPass       == <<"renderPass">>
Framebuffer      == <<"framebuffer">>
GraphicsPipeline == <<"pipeline", "pipelineLayout">>

NewInstance == Call \o Make("instance") \o Own(Instance)

CreateDevice == Call \o Call \o Make("device") \o Own(Device)

CreateBuffer ==
  Make("buffer") \o Call \o Make("memory") \o Call \o Own(Buffer)

CreateShaderModule(module) == Call \o Make(module) \o Own(ShaderModule(module))

CreateComputePipeline ==
  Make("setLayout") \o Make("pipelineLayout") \o Call \o Make("pipeline") \o Own(ComputePipeline)

CreateColorImage ==
  Make("image") \o Call \o Make("imageMemory") \o Call \o Make("imageView") \o Own(Image)

CreateRenderPass == Make("renderPass") \o Own(RenderPass)

CreatePresentRenderPass == Make("renderPass") \o Own(RenderPass)

CreateFramebuffer == Make("framebuffer") \o Own(Framebuffer)

CreateGraphicsPipeline ==
  Make("pipelineLayout") \o Make("pipeline") \o Own(GraphicsPipeline)

\* SwapchainRenderer::new.  `device` and `instance` are its parameters, which are
\* dropped the last first.
NewSwapchain ==
  Forget(Device) \o Forget(Instance) \o Own(Device) \o Own(Instance)
  \o Call \o Call \o Call \o Make("swapchain") \o Call \o MakeEach("views")

NewDirectPipeline ==
  CreatePresentRenderPass
  \o MakeEach("framebuffers")
  \o CreateShaderModule("vertex") \o CreateShaderModule("fragment")
  \o CreateGraphicsPipeline

ForgetWrappers ==
  Forget(GraphicsPipeline) \o Forget(RenderPass)
  \o Destroy(ShaderModule("vertex")) \o Destroy(ShaderModule("fragment"))

NewCommands ==
  Make("commandPool") \o Call
  \o Make("imageAvailable") \o Make("renderFinished") \o Make("inFlight")
  \o Make("queryPool")

\* What SwapchainRenderer's drop does, and the drop of its fields after that.
DropSwapchainRenderer ==
  <<"wait", "queryPool", "inFlight", "renderFinished", "imageAvailable",
    "commandPool", "pipeline", "pipelineLayout", "framebuffers", "renderPass",
    "views", "swapchain", "surface", "device", "instance">>

-----------------------------------------------------------------------------
(* The programs                                                             *)

\* renderer-capi's dispatch_and_wait.
DispatchAndWait ==
  Make("descriptorPool") \o Call \o Make("commandPool") \o Call \o Call \o Call
  \o Submit(<<"descriptorPool", "commandPool", "pipeline", "pipelineLayout",
              "buffer", "memory">>)
  \o Wait
  \o Destroy(<<"commandPool">>) \o Destroy(<<"descriptorPool">>)

RunComputeSample ==
  Call \o NewInstance \o CreateDevice
  \o CreateShaderModule("shader") \o CreateComputePipeline \o CreateBuffer
  \o DispatchAndWait \o Call

RenderTriangle ==
  NewInstance \o CreateDevice
  \o CreateColorImage \o CreateRenderPass \o CreateFramebuffer
  \o CreateShaderModule("vertex") \o CreateShaderModule("fragment")
  \o CreateGraphicsPipeline \o CreateBuffer
  \o Make("commandPool") \o Call \o Call \o Call
  \o Submit(<<"commandPool", "image", "imageMemory", "imageView", "renderPass",
              "framebuffer", "pipeline", "buffer", "memory">>)
  \o Wait
  \o Destroy(<<"commandPool">>) \o Call

\* Renderer::new, and the native window that its caller has acquired, and
\* releases again if it fails.
CreateRenderer ==
  Make("window") \o Own(<<"window">>)
  \o NewInstance \o CreateDevice \o Make("surface")
  \o NewSwapchain \o NewDirectPipeline \o ForgetWrappers \o NewCommands

\* Renderer's fields are dropped by nativeDestroyRenderer, the window last.
RunRenderer ==
  CreateRenderer
  \o Forget(<<"instance", "device">>) \o Forget(<<"window">>)
  \o Own(Append(DropSwapchainRenderer, "window"))
  \o Frames(<<"swapchain", "views", "renderPass", "framebuffers", "pipeline",
              "commandPool", "imageAvailable", "renderFinished", "inFlight",
              "queryPool">>)

-----------------------------------------------------------------------------
(* The rules of ownership, each a rule for the next step of a program that  *)
(* has not failed yet.  What then happens when it fails is not part of them. *)

\* What an object was made from, and needs as long as it exists.
Parents(object) ==
  CASE object \in {"instance", "window"} -> {}
    [] object = "device"    -> {"instance"}
    [] object = "surface"   -> {"instance", "window"}
    [] object = "swapchain" -> {"device", "surface"}
    [] object = "views"     -> {"device", "swapchain"}
    [] OTHER                -> {"device"}

\* A parent is dropped after its children, unless it is the Instance of a Device,
\* which has an Arc of it.
MustOutlive(parent, child) ==
  parent \in Parents(child) /\ ~(parent = "instance" /\ child = "device")

Making   == {"make", "makeEach"}
Fallible == {"call", "make", "makeEach", "submit", "wait"}
Revoking == {"forget", "destroy"}
Steps    == [does : Fallible \cup Revoking \cup {"own", "frames"}, objects : Seq(STRING)]

OwnedBy(wrappers) == UNION {Range(wrappers[i]) : i \in DOMAIN wrappers}

\* The wrapper that is dropped next.
IsNewest(i, wrappers) ==
  /\ i \in DOMAIN wrappers /\ wrappers[i] # <<>>
  /\ \A j \in DOMAIN wrappers : j > i => wrappers[j] = <<>>

\* What exists when the first n steps of a program have succeeded,
AliveAfter(p, n) ==
  UNION {{o \in Range(p[i].objects) :
            \A j \in (i + 1) .. n :
              p[j].does = "destroy" => o \notin Range(p[j].objects)} :
         i \in {k \in 1 .. n : p[k].does \in Making}}

\* and the wrappers in scope: what the one constructed in step i will destroy.
OwnersAfter(p, n) ==
  [i \in DOMAIN p |->
     IF /\ i <= n /\ p[i].does = "own"
        /\ \A j \in (i + 1) .. n :
             p[j].does \in Revoking =>
               Range(p[i].objects) \cap Range(p[j].objects) = {}
     THEN p[i].objects
     ELSE <<>>]

\* Nothing is made of what is not there, or made twice.
MakesSoundly(objects, existing) ==
  /\ objects \cap (existing \cup {"wait"}) = {}
  /\ \A o \in objects : Parents(o) \subseteq existing

\* A wrapper takes what has no owner.  It destroys nothing before what needs it, be
\* that its own or an older wrapper's, which is dropped later.
OwnsSoundly(objects, existing, owned) ==
  /\ Range(objects) \subseteq (existing \cup {"wait"}) \ owned
  /\ \A m, n \in DOMAIN objects :
       /\ objects[m] = objects[n] => m = n
       /\ MustOutlive(objects[m], objects[n]) => n < m
  /\ \A o \in Range(objects), child \in owned : ~MustOutlive(o, child)

DestroysSoundly(objects, existing) ==
  /\ objects \subseteq existing
  /\ \A o \in existing \ objects : Parents(o) \cap objects = {}

\* Where a call may fail no Device is without its wrapper, nor its Instance.
DeviceInScope(existing, owned) == "device" \in existing => {"device", "instance"} \subseteq owned

FollowsRules(p, n) ==
  LET does     == p[n].does
      objects  == Range(p[n].objects)
      existing == AliveAfter(p, n - 1)
      wrappers == OwnersAfter(p, n - 1)
      owned    == OwnedBy(wrappers)
  IN  /\ does \in Making => MakesSoundly(objects, existing)
      /\ does = "own" => OwnsSoundly(p[n].objects, existing, owned)
      /\ does = "destroy" => DestroysSoundly(objects, existing)
      /\ does \in {"submit", "frames"} => objects \subseteq existing
      /\ does = "submit" => n < Len(p) /\ p[n + 1].does = "wait"
      /\ does = "frames" =>
           /\ n = Len(p)
           /\ \E i \in DOMAIN wrappers : IsNewest(i, wrappers) /\ Head(wrappers[i]) = "wait"
      /\ does \in Fallible =>
           DeviceInScope(existing \cup (IF does = "makeEach" THEN objects ELSE {}), owned)

\* No raw handle is left when a program has succeeded.
LeavesNothingRaw(p) ==
  AliveAfter(p, Len(p)) \subseteq OwnedBy(OwnersAfter(p, Len(p)))

CONSTANT Programs

ASSUME ProgramsAssumption ==
  /\ Programs \subseteq Seq(Steps)
  /\ \A program \in Programs :
       /\ \A n \in DOMAIN program : FollowsRules(program, n)
       /\ LeavesNothingRaw(program)

-----------------------------------------------------------------------------

VARIABLES
  program, \* that runs
  taken,   \* how many of its steps were
  alive,   \* the objects that exist
  owners,  \* what the wrapper constructed in step i will still destroy, in order
  gpu,     \* what the executing command buffer uses
  failure, \* what failed: "none", or what the step does
  leaked   \* the raw handles that were lost when it failed

objectVars == <<program, taken, alive, owners, gpu, failure, leaked>>

Ended == taken = Len(program) \/ failure # "none"

Wrapped == OwnedBy(owners)

ProgramInit ==
  /\ program \in Programs /\ taken = 0
  /\ alive = {} /\ gpu = {}
  /\ owners = [i \in DOMAIN program |-> <<>>]
  /\ failure = "none" /\ leaked = {}

-----------------------------------------------------------------------------

Current == program[taken + 1]

Handled == Range(Current.objects)

Does(what) ==
  /\ ~Ended
  /\ Current.does = what
  /\ taken' = taken + 1
  /\ UNCHANGED <<program, failure, leaked>>

Succeed == Does("call") /\ UNCHANGED <<alive, owners, gpu>>

Create ==
  /\ Does("make") \/ Does("makeEach")
  /\ alive' = alive \cup Handled
  /\ UNCHANGED <<owners, gpu>>

TakeOver ==
  /\ Does("own")
  /\ owners' = [owners EXCEPT ![taken + 1] = Current.objects]
  /\ UNCHANGED <<alive, gpu>>

WithoutOwner(objects) ==
  [i \in DOMAIN owners |-> IF Range(owners[i]) \cap objects = {} THEN owners[i] ELSE <<>>]

\* Mutant: what was moved out is dropped all the same.
KeepWrappers == Does("forget") /\ UNCHANGED <<alive, owners, gpu>>

GiveUp ==
  /\ Does("forget")
  /\ owners' = WithoutOwner(Handled)
  /\ UNCHANGED <<alive, gpu>>

DestroyNow ==
  /\ Does("destroy")
  /\ alive' = alive \ Handled
  /\ owners' = WithoutOwner(Handled)
  /\ UNCHANGED gpu

SubmitWork ==
  /\ Does("submit")
  /\ gpu' = Handled
  /\ UNCHANGED <<alive, owners>>

AwaitWork ==
  /\ Does("wait")
  /\ gpu' = {}
  /\ UNCHANGED <<alive, owners>>

DrawFrames ==
  /\ Does("frames")
  /\ gpu' \in {{}, Handled}
  /\ UNCHANGED <<alive, owners>>

WorkCompletes ==
  /\ gpu # {}
  /\ gpu' = {}
  /\ UNCHANGED <<program, taken, alive, owners, failure, leaked>>

\* A call returns an error, which `?` passes on.
Fail ==
  /\ ~Ended
  /\ Current.does \in Fallible
  /\ failure' = Current.does
  /\ alive' \in {alive, alive \cup (IF Current.does = "makeEach" THEN Handled ELSE {})}
  /\ leaked' = alive' \ Wrapped
  /\ UNCHANGED <<program, taken, owners, gpu>>

-----------------------------------------------------------------------------
(* The wrappers in scope are dropped.                                       *)

\* Mutant: a drop which destroys the first object only.
DropFirstOnly(i) == [owners EXCEPT ![i] = <<>>]

OwnersLeft(i) == [owners EXCEPT ![i] = Tail(owners[i])]

\* Mutant: an Instance which is not shared by its Device.
LetGoAtOnce(object, left) == {object}

\* Arc<Instance> is held by its owner and by the Device.
LetGo(object, left) ==
  CASE object = "instance" -> IF "device" \in alive THEN {} ELSE {"instance"}
    [] object = "device"   -> {"device"} \cup ({"instance"} \ OwnedBy(left))
    [] OTHER               -> {object}

DropNext(i) ==
  /\ Ended /\ IsNewest(i, owners) /\ Head(owners[i]) # "wait"
  /\ owners' = OwnersLeft(i)
  /\ alive' = alive \ LetGo(Head(owners[i]), owners')
  /\ UNCHANGED <<program, taken, gpu, failure, leaked>>

\* device_wait_idle, whose error is ignored.
DropWaits(i) ==
  /\ Ended /\ IsNewest(i, owners) /\ Head(owners[i]) = "wait"
  /\ owners' = OwnersLeft(i)
  /\ \/ gpu' = {} /\ UNCHANGED failure
     \/ failure' = "wait" /\ UNCHANGED gpu
  /\ UNCHANGED <<program, taken, alive, leaked>>

Unwind == \E i \in DOMAIN owners : DropNext(i) \/ DropWaits(i)

-----------------------------------------------------------------------------

ProgramNext ==
  \/ Succeed \/ Create \/ TakeOver \/ GiveUp \/ DestroyNow
  \/ SubmitWork \/ AwaitWork \/ DrawFrames
  \/ Fail \/ Unwind
  \/ WorkCompletes

ProgramSpec == ProgramInit /\ [][ProgramNext]_objectVars

-----------------------------------------------------------------------------
(* Properties                                                               *)

\* "Destroying an instance while a device derived from it is still alive is
\* undefined behavior" (lib.rs:284-286), and so is all destruction of what
\* something else still needs: whatever fails, in whichever order the wrappers go
\* out of scope.  Exempt are the raw handles that a failure lost, and a command
\* buffer for which the host could not wait.
NothingNeededIsDestroyed ==
  /\ \A object \in alive \ leaked : Parents(object) \subseteq alive
  /\ gpu \subseteq alive \/ failure = "wait"

\* No two owners will destroy an object, nor one an object that is gone: not even
\* after SwapchainRenderer::new has taken the handles out of their wrappers.
DestroyedOnce ==
  /\ Wrapped \subseteq alive \cup {"wait"}
  /\ \A i, j \in DOMAIN owners :
       Range(owners[i]) \cap Range(owners[j]) # {} => i = j

\* A program that succeeds leaves nothing behind, and one that fails only what it
\* had in raw handles: a wrapper's objects never.
EndsClean == Ended /\ Wrapped = {} => alive = leaked

=============================================================================
