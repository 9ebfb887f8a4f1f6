----------------------------- MODULE RenderCanvas -----------------------------
(***************************************************************************)
(* The page's renderer (engine/playground-render-canvas, RenderCanvas.vue): *)
(* withRenderLock's hand-over from one run's render loop to the next, what  *)
(* onRun, setFrame and the ResizeObserver do while an asynchronous setup or *)
(* frame of another run is suspended at an await.                           *)
(*                                                                         *)
(* JavaScript runs one task at a time: an action is what runs between two   *)
(* awaits.  A CompiledPlayground is the number of the onRun call that       *)
(* brought it; the module-level variables compiledCode, computePipelines    *)
(* and allocatedResources hold such a number (0: not set, or incomplete).   *)
(* The promise callback which follows releaseRenderLock is part of the step *)
(* that releases: no other task can come in between.                        *)
(***************************************************************************)
EXTENDS Integers, FiniteSets

CONSTANTS
  MaxRuns,    \* bound: calls of onRun
  MaxSteps,   \* bound: calls of setFrame
  MaxFrames,  \* bound: value of frameID at which the loop is followed no further
  Sizes,      \* sizes the canvas element takes, in pixels of either side
  MaxTexture, \* maxTextureDimension2D of the device
  OnceRuns,   \* runs all of whose call commands are CALL::ONCE
  ImageRuns   \* runs which draw to outputTexture (others print, and may
              \* have other screen-sized textures)

Runs == 1 .. MaxRuns

ASSUME BoundsAssumption ==
  MaxRuns \in Nat /\ MaxSteps \in Nat /\ MaxFrames \in Nat

ASSUME KindsAssumption == OnceRuns \subseteq Runs /\ ImageRuns \subseteq Runs

ASSUME SizesAssumption == Sizes \subseteq Nat /\ MaxTexture \in Nat

\* The size resizeCanvas gives the canvas.
Clamped(size) ==
  LET limited == IF size < MaxTexture THEN size ELSE MaxTexture
  IN  IF limited < 2 THEN 2 ELSE limited

WindowSizes == {Clamped(size) : size \in Sizes}

VARIABLES
  requested,    \* how often onRun was called: the newest run
  phase,        \* phase[k]: where run k's setup or render loop is
  firstFrame,   \* firstFrame[k]: the variable of onRun's closure
  renderThread, \* the run whose promise is pending, or 0
  waiting,      \* onRenderAborted: the run it would start, or 0
  abortRender,
  pauseRender,
  frameID,
  code,         \* compiledCode
  pipelines,    \* computePipelines
  resources,    \* allocatedResources
  bound,        \* the bind groups name the textures in allocatedResources
  window,       \* currentWindowSize
  screen,       \* the sizes of the BLACK_SCREEN textures in allocatedResources
  allocating,   \* their size in the map processResourceCommands is filling
  passThrough,  \* passThroughPipeline exists
  stepping,     \* frames of setFrame waiting for the GPU
  steps,        \* calls of setFrame so far
  missed,       \* history: the last resize since the textures of the newest
                \* setup were sized came before that setup had installed them
  torn          \* history: a resize of the textures installed last threw before
                \* it had replaced them all, and none went through since

vars == <<requested, phase, firstFrame, renderThread, waiting, abortRender,
          pauseRender, frameID, code, pipelines, resources, bound, window,
          screen, allocating, passThrough, stepping, steps, missed, torn>>

canvas  == <<window, screen, allocating, missed, torn>>
drawing == <<code, pipelines, resources, bound, canvas, passThrough>>
lock    == <<requested, phase, firstFrame, renderThread, waiting, abortRender>>
stepper == <<stepping, steps>>

Active == {"pipelines", "resources", "loop", "frame"}

TypeOK ==
  /\ requested \in 0 .. MaxRuns
  /\ phase \in [Runs -> Active \cup {"none", "over"}]
  /\ \A k \in Runs : k > requested => phase[k] = "none"
  /\ firstFrame \in [Runs -> BOOLEAN]
  /\ renderThread \in 0 .. requested
  /\ waiting \in 0 .. requested
  /\ abortRender \in BOOLEAN /\ pauseRender \in BOOLEAN
  /\ frameID \in Nat \cup {-1}
  /\ code \in 0 .. requested /\ pipelines \in 0 .. requested
  /\ resources \in 0 .. requested
  /\ bound \in BOOLEAN /\ passThrough \in BOOLEAN
  /\ window \in WindowSizes /\ allocating \in WindowSizes
  /\ screen \subseteq WindowSizes
  /\ stepping \in 0 .. steps /\ steps \in 0 .. MaxSteps
  /\ missed \in BOOLEAN /\ torn \in BOOLEAN

Init ==
  /\ requested = 0
  /\ phase = [k \in Runs |-> "none"]
  /\ firstFrame = [k \in Runs |-> TRUE]
  /\ renderThread = 0
  /\ waiting = 0
  /\ abortRender = FALSE
  /\ pauseRender = FALSE
  /\ frameID = 0
  /\ code = 0 /\ pipelines = 0 /\ resources = 0
  /\ bound = TRUE
  /\ window \in WindowSizes
  /\ screen = {} /\ allocating = window
  /\ passThrough = FALSE
  /\ stepping = 0
  /\ steps = 0
  /\ missed = FALSE /\ torn = FALSE

-----------------------------------------------------------------------------
(* withRenderLock                                                           *)

\* The body of onRenderAborted for run k: setupFn runs up to its first await.
Begin(k, phases) ==
  /\ phase' = [phases EXCEPT ![k] = "pipelines"]
  /\ renderThread' = k
  /\ waiting' = 0
  /\ abortRender' = FALSE
  /\ code' = k
  /\ pipelines' = 0

\* releaseRenderLock, and the callback of renderThread.then.
Release(k) ==
  \/ /\ waiting = 0
     /\ phase' = [phase EXCEPT ![k] = "over"]
     /\ renderThread' = 0
     /\ UNCHANGED <<waiting, abortRender, code, pipelines>>
  \/ /\ waiting # 0
     /\ Begin(waiting, [phase EXCEPT ![k] = "over"])

ResetRun ==
  /\ requested' = requested + 1
  /\ frameID' = 0
  /\ pauseRender' = FALSE

\* Mutant: starts the new run without waiting for the old one to let go.
OnRunAtOnce ==
  /\ requested < MaxRuns
  /\ ResetRun
  /\ Begin(requested', phase)
  /\ UNCHANGED <<firstFrame, resources, bound, canvas,
                 passThrough, stepping, steps>>

\* Mutant: leaves the old loop to end by itself.
OnRunWithoutAbort ==
  /\ requested < MaxRuns
  /\ ResetRun
  /\ \/ renderThread = 0 /\ Begin(requested', phase)
     \/ /\ renderThread # 0
        /\ waiting' = requested'
        /\ UNCHANGED <<phase, renderThread, abortRender, code, pipelines>>
  /\ UNCHANGED <<firstFrame, resources, bound, canvas,
                 passThrough, stepping, steps>>

\* onRun: a run already waiting is overwritten and never begins.
OnRun ==
  /\ requested < MaxRuns
  /\ ResetRun
  /\ \/ renderThread = 0 /\ Begin(requested', phase)
     \/ /\ renderThread # 0
        /\ waiting' = requested'
        /\ abortRender' = TRUE
        /\ UNCHANGED <<phase, renderThread, code, pipelines>>
  /\ UNCHANGED <<firstFrame, resources, bound, canvas,
                 passThrough, stepping, steps>>

-----------------------------------------------------------------------------
(* setupFn, from await to await                                             *)

\* The pipelines exist; processResourceCommands has made the screen-sized
\* textures and waits for an image or a download.
PipelinesReady(k) ==
  /\ phase[k] = "pipelines"
  /\ phase' = [phase EXCEPT ![k] = "resources"]
  /\ pipelines' = k
  /\ allocating' = window
  /\ missed' = FALSE
  /\ UNCHANGED <<requested, firstFrame, renderThread, waiting, abortRender,
                 pauseRender, frameID, code, resources, bound, window, screen,
                 passThrough, torn, stepper>>

\* allocatedResources is the new map.  The textures listed after an image or a
\* download were sized after it.
Installed(k) ==
  /\ resources' = k
  /\ screen' \in {{allocating}, {window}, {allocating, window}}
  /\ torn' = FALSE

\* Mutant: leaves the bind groups to the next resize.
ResourcesReadyUnbound(k) ==
  /\ phase[k] = "resources"
  /\ phase' = [phase EXCEPT ![k] = "loop"]
  /\ Installed(k)
  /\ passThrough' = TRUE
  /\ UNCHANGED <<requested, firstFrame, renderThread, waiting, abortRender,
                 pauseRender, frameID, code, pipelines, bound, window,
                 allocating, missed, stepper>>

ResourcesReady(k) ==
  /\ phase[k] = "resources"
  /\ phase' = [phase EXCEPT ![k] = "loop"]
  /\ Installed(k)
  /\ bound' = TRUE
  /\ passThrough' = TRUE
  /\ UNCHANGED <<requested, firstFrame, renderThread, waiting, abortRender,
                 pauseRender, frameID, code, pipelines, window, allocating,
                 missed, stepper>>

\* An invalid pipeline, or a resource that cannot be made; or, with the new map
\* in place, a uniform that cannot be written or a resource not bound.
SetupFails(k) ==
  /\ phase[k] \in {"pipelines", "resources"}
  /\ Release(k)
  /\ \/ UNCHANGED <<resources, bound, screen, passThrough, torn>>
     \/ /\ phase[k] = "resources"
        /\ Installed(k)
        /\ bound' \in BOOLEAN
        /\ passThrough' \in {passThrough, TRUE}
  /\ UNCHANGED <<requested, firstFrame, pauseRender, frameID, window, allocating,
                 missed, stepper>>

-----------------------------------------------------------------------------
(* newRenderLoop: an animation frame of run k                               *)

LoopAborted(k) ==
  /\ phase[k] = "loop"
  /\ abortRender
  /\ Release(k)
  /\ UNCHANGED <<requested, firstFrame, pauseRender, frameID, resources, bound,
                 canvas, passThrough, stepper>>

\* execFrame up to its await.  (A paused frame changes nothing.)
LoopFrame(k) ==
  /\ phase[k] = "loop"
  /\ ~abortRender
  /\ ~pauseRender
  /\ frameID < MaxFrames
  /\ phase' = [phase EXCEPT ![k] = "frame"]
  /\ pauseRender' = (k \in OnceRuns /\ ~firstFrame[k])
  /\ UNCHANGED <<requested, firstFrame, renderThread, waiting, abortRender,
                 frameID, drawing, stepper>>

\* The GPU is done: go on, or let go of the lock if aborted meanwhile.
LoopFrameDone(k) ==
  /\ phase[k] = "frame"
  /\ frameID' = frameID + 1
  /\ firstFrame' = [firstFrame EXCEPT ![k] = FALSE]
  /\ \/ /\ ~abortRender
        /\ phase' = [phase EXCEPT ![k] = "loop"]
        /\ UNCHANGED <<renderThread, waiting, abortRender, code, pipelines>>
     \/ /\ abortRender
        /\ Release(k)
  /\ UNCHANGED <<requested, pauseRender, resources, bound, canvas, passThrough, stepper>>

\* Mutant: an error ends the loop with the lock still held.
LoopFrameDies(k) ==
  /\ phase[k] = "frame"
  /\ phase' = [phase EXCEPT ![k] = "over"]
  /\ UNCHANGED <<requested, firstFrame, renderThread, waiting, abortRender,
                 pauseRender, frameID, drawing, stepper>>

\* execFrame throws, or answers false for a command it cannot dispatch.
LoopFrameFails(k) ==
  /\ phase[k] = "frame"
  /\ Release(k)
  /\ \/ UNCHANGED firstFrame
     \/ firstFrame' = [firstFrame EXCEPT ![k] = FALSE]
  /\ UNCHANGED <<requested, pauseRender, frameID, resources, bound, canvas,
                 passThrough, stepper>>

-----------------------------------------------------------------------------
(* The user: the control bar and the window                                 *)

TogglePause ==
  /\ pauseRender' = ~pauseRender
  /\ UNCHANGED <<lock, frameID, drawing, stepper>>

\* execFrame finds its uniforms, and the pipeline of each call command which it
\* does not skip.
FrameCanStart(target) ==
  /\ resources # 0
  /\ pipelines = code \/ (code \in OnceRuns /\ target # 0)

\* setFrame, outside the lock.  Its execFrame throws at once or waits for the GPU.
SetFrame(target) ==
  /\ code # 0
  /\ steps < MaxSteps
  /\ steps' = steps + 1
  /\ pauseRender' = TRUE
  /\ frameID' = target - 1
  /\ \/ ~FrameCanStart(target) /\ UNCHANGED stepping
     \/ FrameCanStart(target) /\ stepping' = stepping + 1
  /\ UNCHANGED <<lock, drawing>>

\* The three buttons, clamped.
StepTargets == {0, frameID + 1, IF frameID > 0 THEN frameID - 1 ELSE 0}

StepDone ==
  /\ stepping > 0
  /\ stepping' = stepping - 1
  /\ frameID' = frameID + 1
  /\ UNCHANGED <<lock, pauseRender, drawing, steps>>

StepFails ==
  /\ stepping > 0
  /\ stepping' = stepping - 1
  /\ UNCHANGED <<lock, pauseRender, frameID, drawing, steps>>

\* handleResize on the textures of the compiled code replaces every one.  With
\* an outputTexture it then renews the bind groups, without one it throws first.
ResizeRuns ==
  /\ screen' = {window'}
  /\ torn' = FALSE
  /\ bound' = (code \in ImageRuns)

\* It throws at a texture that cannot be made (its scaled size is too large, or
\* no integer) or copied: those before it are replaced, and the ones the bind
\* groups name destroyed.
ResizeThrows ==
  /\ torn' = TRUE
  /\ \/ UNCHANGED <<screen, bound>>
     \/ /\ \E kept \in SUBSET screen : screen' = kept \cup {window'}
        /\ bound' = FALSE

\* While compiledCode is already the next run's it goes through the wrong map,
\* and throws wherever a texture is missing.
ResizeOfOtherRun ==
  /\ \/ UNCHANGED screen
     \/ \E kept \in SUBSET screen : screen' = kept \cup {window'}
  /\ bound' \in BOOLEAN
  /\ UNCHANGED torn

\* Mutant: leaves out the resize while a frame is awaited.
ResizeWhenIdle(size) ==
  /\ size # window
  /\ window' = Clamped(size)
  /\ missed' = ~(passThrough /\ resources = code)
  /\ \/ /\ ~passThrough \/ stepping > 0 \/ \E k \in Runs : phase[k] = "frame"
        /\ UNCHANGED <<screen, bound, torn>>
     \/ passThrough /\ resources = code /\ (ResizeRuns \/ ResizeThrows)
     \/ passThrough /\ resources # code /\ ResizeOfOtherRun
  /\ UNCHANGED <<lock, pauseRender, frameID, code, pipelines, resources,
                 allocating, passThrough, stepper>>

\* resizeCanvas, and handleResize with its outcomes.
Resize(size) ==
  /\ size # window
  /\ window' = Clamped(size)
  /\ missed' = ~(passThrough /\ resources = code)
  /\ \/ ~passThrough /\ UNCHANGED <<screen, bound, torn>>
     \/ passThrough /\ resources = code /\ (ResizeRuns \/ ResizeThrows)
     \/ passThrough /\ resources # code /\ ResizeOfOtherRun
  /\ UNCHANGED <<lock, pauseRender, frameID, code, pipelines, resources,
                 allocating, passThrough, stepper>>

-----------------------------------------------------------------------------

Setup(k) == PipelinesReady(k) \/ ResourcesReady(k) \/ SetupFails(k)

Loop(k) == LoopAborted(k) \/ LoopFrame(k) \/ LoopFrameDone(k) \/ LoopFrameFails(k)

Next ==
  \/ OnRun
  \/ \E k \in Runs : Setup(k) \/ Loop(k)
  \/ TogglePause
  \/ \E target \in StepTargets : SetFrame(target)
  \/ StepDone
  \/ StepFails
  \/ \E size \in Sizes : Resize(size)

Spec == Init /\ [][Next]_vars

\* Promises settle and the browser calls animation frames (the page is
\* visible); what the user does is up to the user.
Fairness == \A k \in Runs : WF_vars(Setup(k)) /\ WF_vars(Loop(k))

FairSpec == Spec /\ Fairness

-----------------------------------------------------------------------------
(* Properties                                                               *)

\* The render lock: at most one run is being set up or rendered, and it is the
\* one renderThread stands for.
OneRenderer == \A k \in Runs : phase[k] \in Active => renderThread = k

\* Once a newer run was asked for, no frame of an older one is begun, although
\* the older loop goes on being called.
NoFrameOfSupersededRun ==
  [][\A k \in Runs : phase[k] # "frame" /\ phase'[k] = "frame" => k = requested]_vars

\* A frame of the loop draws one program: code, pipelines and resources are those
\* of its run, however setups, failures, steps and resizes went before.  For a
\* program that draws an image, no texture it binds was destroyed, unless a
\* resize of its textures threw half way and none went through since.
LoopDrawsOneRun ==
  \A k \in Runs : phase[k] \in {"loop", "frame"} =>
    /\ code = k /\ pipelines = k /\ resources = k
    /\ k \in ImageRuns /\ ~torn => bound

\* The newest run gets the lock from whichever run is being set up, drawing or
\* failing, and is drawn, unless its own setup fails or the user pauses it.
NewestRunDrawn ==
  \A k \in Runs : requested = k ~>
    \/ requested # k
    \/ phase[k] \in {"frame", "over"}
    \/ pauseRender
    \/ frameID >= MaxFrames

\* Help.vue:70, BLACK_SCREEN makes textures "proportional to the screen size":
\* while a run draws, whatever ran, failed or was resized before, its textures
\* have the size of the window, unless the last resize came during its setup or
\* threw half way: the next one that goes through makes up for either.
ScreenTexturesFollowWindow ==
  (\E k \in Runs : phase[k] \in {"loop", "frame"}) /\ ~missed /\ ~torn
    => screen = {window}
=============================================================================
