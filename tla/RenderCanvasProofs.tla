-------------------------- MODULE RenderCanvasProofs --------------------------
(***************************************************************************)
(* For any number of runs, steps and sizes, and whichever programs the runs *)
(* bring: the render lock admits one renderer, which draws one program, no  *)
(* frame of a superseded run is begun, and screen-sized textures follow the *)
(* window.                                                                  *)
(***************************************************************************)
EXTENDS RenderCanvas, TLAPS

USE BoundsAssumption, KindsAssumption, SizesAssumption

-----------------------------------------------------------------------------
(* Type correctness                                                         *)

LEMMA InitType == Init => TypeOK
<1> SUFFICES ASSUME Init PROVE TypeOK
  OBVIOUS
<1>1. /\ abortRender \in BOOLEAN /\ pauseRender \in BOOLEAN
      /\ bound \in BOOLEAN /\ passThrough \in BOOLEAN
      /\ missed \in BOOLEAN /\ torn \in BOOLEAN
      /\ firstFrame \in [Runs -> BOOLEAN]
  BY DEF Init
<1> QED BY <1>1 DEF Init, TypeOK

\* Run k, which has been asked for, takes the lock.
LEMMA BeginType ==
  ASSUME TypeOK, NEW k \in 1 .. requested,
         NEW phases \in [Runs -> Active \cup {"none", "over"}],
         \A j \in Runs : j > requested => phases[j] = "none",
         Begin(k, phases)
  PROVE  /\ phase' \in [Runs -> Active \cup {"none", "over"}]
         /\ \A j \in Runs : j > requested => phase'[j] = "none"
         /\ renderThread' \in 0 .. requested /\ waiting' \in 0 .. requested
         /\ abortRender' \in BOOLEAN
         /\ code' \in 0 .. requested /\ pipelines' \in 0 .. requested
<1>1. abortRender' \in BOOLEAN
  BY DEF Begin
<1> QED BY <1>1 DEF Begin, TypeOK, Active, Runs

LEMMA ReleaseType ==
  ASSUME TypeOK, NEW k \in Runs, phase[k] # "none", Release(k)
  PROVE  /\ phase' \in [Runs -> Active \cup {"none", "over"}]
         /\ \A j \in Runs : j > requested => phase'[j] = "none"
         /\ renderThread' \in 0 .. requested /\ waiting' \in 0 .. requested
         /\ abortRender' \in BOOLEAN
         /\ code' \in 0 .. requested /\ pipelines' \in 0 .. requested
<1> DEFINE released == [phase EXCEPT ![k] = "over"]
<1>1. /\ released \in [Runs -> Active \cup {"none", "over"}]
      /\ \A j \in Runs : j > requested => released[j] = "none"
  BY DEF TypeOK
<1>2. CASE waiting = 0
  BY <1>1, <1>2 DEF Release, TypeOK
<1>3. CASE waiting # 0
  <2>1. waiting \in 1 .. requested /\ Begin(waiting, released)
    BY <1>3 DEF Release, TypeOK
  <2> HIDE DEF released
  <2> QED BY <1>1, <2>1, BeginType
<1> QED BY <1>2, <1>3

LEMMA OnRunType == TypeOK /\ OnRun => TypeOK'
<1> SUFFICES ASSUME TypeOK, OnRun PROVE TypeOK'
  OBVIOUS
<1>1. /\ requested' = requested + 1 /\ requested' \in 0 .. MaxRuns
      /\ requested' \in Runs /\ phase[requested'] = "none"
      /\ frameID' = 0 /\ pauseRender' = FALSE
  BY DEF OnRun, ResetRun, TypeOK, Runs
<1>a. abortRender' \in BOOLEAN /\ pauseRender' \in BOOLEAN
  BY DEF OnRun, ResetRun, Begin, TypeOK
<1>2. CASE renderThread = 0 /\ Begin(requested', phase)
  BY <1>1, <1>a, <1>2 DEF OnRun, Begin, TypeOK, Active, canvas
<1>3. CASE renderThread # 0
  BY <1>1, <1>a, <1>3 DEF OnRun, TypeOK, canvas
<1> QED BY <1>2, <1>3 DEF OnRun

LEMMA InstalledType ==
  ASSUME TypeOK, NEW k \in 1 .. requested, Installed(k)
  PROVE  resources' \in 0 .. requested /\ screen' \subseteq WindowSizes /\ torn' \in BOOLEAN
<1>1. torn' \in BOOLEAN
  BY DEF Installed
<1> QED BY <1>1 DEF Installed, TypeOK

LEMMA SetupType ==
  ASSUME TypeOK, NEW k \in Runs, Setup(k)
  PROVE  TypeOK'
<1>0. k \in 1 .. requested
  <2>1. phase[k] # "none"
    BY DEF Setup, PipelinesReady, ResourcesReady, SetupFails
  <2> QED BY <2>1 DEF TypeOK, Runs
<1>1. CASE PipelinesReady(k)
  <2>1. missed' \in BOOLEAN
    BY <1>1 DEF PipelinesReady
  <2> QED BY <1>0, <1>1, <2>1 DEF PipelinesReady, TypeOK, Active, stepper
<1>2. CASE ResourcesReady(k)
  <2>1. bound' \in BOOLEAN /\ passThrough' \in BOOLEAN
    BY <1>2 DEF ResourcesReady
  <2>2. resources' \in 0 .. requested /\ screen' \subseteq WindowSizes /\ torn' \in BOOLEAN
    BY <1>0, <1>2, InstalledType DEF ResourcesReady
  <2> QED BY <1>2, <2>1, <2>2 DEF ResourcesReady, TypeOK, Active, stepper
<1>3. CASE SetupFails(k)
  <2>1. bound' \in BOOLEAN /\ passThrough' \in BOOLEAN
    BY <1>3 DEF SetupFails, TypeOK
  <2>2. resources' \in 0 .. requested /\ screen' \subseteq WindowSizes /\ torn' \in BOOLEAN
    BY <1>0, <1>3, InstalledType DEF SetupFails, TypeOK
  <2> QED BY <1>3, <2>1, <2>2, ReleaseType DEF SetupFails, TypeOK, stepper
<1> QED BY <1>1, <1>2, <1>3 DEF Setup

LEMMA LoopType ==
  ASSUME TypeOK, NEW k \in Runs, Loop(k)
  PROVE  TypeOK'
<1>1. CASE LoopAborted(k)
  BY <1>1, ReleaseType DEF LoopAborted, TypeOK, canvas, stepper
<1>2. CASE LoopFrame(k)
  BY <1>2 DEF LoopFrame, TypeOK, Active, drawing, canvas, stepper
<1>3. CASE LoopFrameDone(k)
  <2>1. frameID' \in Nat \cup {-1} /\ firstFrame' \in [Runs -> BOOLEAN]
    BY <1>3 DEF LoopFrameDone, TypeOK
  <2>2. CASE Release(k)
    BY <1>3, <2>1, <2>2, ReleaseType DEF LoopFrameDone, TypeOK, canvas, stepper
  <2>3. CASE ~Release(k)
    BY <1>3, <2>1, <2>3 DEF LoopFrameDone, TypeOK, Active, canvas, stepper
  <2> QED BY <2>2, <2>3
<1>4. CASE LoopFrameFails(k)
  <2>1. firstFrame' \in [Runs -> BOOLEAN]
    BY <1>4 DEF LoopFrameFails, TypeOK
  <2> QED BY <1>4, <2>1, ReleaseType DEF LoopFrameFails, TypeOK, canvas, stepper
<1> QED BY <1>1, <1>2, <1>3, <1>4 DEF Loop

LEMMA UserType ==
  ASSUME TypeOK,
         \/ TogglePause \/ StepDone \/ StepFails
         \/ \E target \in StepTargets : SetFrame(target)
         \/ \E size \in Sizes : Resize(size)
  PROVE  TypeOK'
<1> USE DEF TypeOK, lock, drawing, canvas, stepper
<1>1. CASE TogglePause
  BY <1>1 DEF TogglePause
<1>2. CASE StepDone
  BY <1>2 DEF StepDone
<1>3. CASE StepFails
  BY <1>3 DEF StepFails
<1>4. ASSUME NEW target \in StepTargets, SetFrame(target) PROVE TypeOK'
  <2>1. target \in Nat
    BY DEF StepTargets
  <2>2. frameID' \in Nat \cup {-1} /\ steps' \in 0 .. MaxSteps /\ stepping' \in 0 .. steps'
    BY <1>4, <2>1 DEF SetFrame
  <2> QED BY <1>4, <2>2 DEF SetFrame
<1>5. ASSUME NEW size \in Sizes, Resize(size) PROVE TypeOK'
  <2>1. window' \in WindowSizes
    BY <1>5 DEF Resize, WindowSizes
  <2>2. screen' \subseteq WindowSizes
    BY <1>5, <2>1 DEF Resize, ResizeRuns, ResizeThrows, ResizeOfOtherRun
  <2>3. missed' \in BOOLEAN
    BY <1>5 DEF Resize
  <2>4. torn' \in BOOLEAN
    BY <1>5 DEF Resize, ResizeRuns, ResizeThrows, ResizeOfOtherRun
  <2>5. bound' \in BOOLEAN
    <3>1. \/ bound' = bound \/ bound' \in BOOLEAN
          \/ bound' = (code \in ImageRuns)
      BY <1>5 DEF Resize, ResizeRuns, ResizeThrows, ResizeOfOtherRun
    <3>2. bound \in BOOLEAN /\ (code \in ImageRuns) \in BOOLEAN
      OBVIOUS
    <3>3. CASE bound' = (code \in ImageRuns)
      BY <3>2, <3>3
    <3>4. CASE bound' = bound
      BY <3>2, <3>4
    <3>5. CASE bound' \in BOOLEAN
      BY <3>5
    <3> QED BY <3>1, <3>3, <3>4, <3>5
  <2> QED BY <1>5, <2>1, <2>2, <2>3, <2>4, <2>5 DEF Resize
<1> QED BY <1>1, <1>2, <1>3, <1>4, <1>5

LEMMA NextType == TypeOK /\ [Next]_vars => TypeOK'
<1> SUFFICES ASSUME TypeOK, [Next]_vars PROVE TypeOK'
  OBVIOUS
<1>1. CASE UNCHANGED vars
  BY <1>1 DEF vars, TypeOK
<1> QED BY <1>1, OnRunType, SetupType, LoopType, UserType DEF Next

\* Every variable keeps its type, for any number of runs, steps and sizes.
THEOREM TypeCorrect == Spec => []TypeOK
<1> QED BY InitType, NextType, PTL DEF Spec

-----------------------------------------------------------------------------
(* The render lock                                                          *)

\* The run that waits is the newest, and has not begun.
WaitsOnce == waiting # 0 => waiting = requested /\ phase[waiting] = "none"

\* A renderer which was not told to abort is that of the newest run.
NewestUnlessAborted == renderThread # 0 /\ ~abortRender => renderThread = requested

LockInv == TypeOK /\ OneRenderer /\ WaitsOnce /\ NewestUnlessAborted

\* Who lets go of the lock had it, and so nobody else renders.
LEMMA ReleaseLock ==
  ASSUME LockInv, NEW k \in Runs, phase[k] \in Active, Release(k), requested' = requested
  PROVE  OneRenderer' /\ WaitsOnce' /\ NewestUnlessAborted'
<1> USE DEF LockInv, TypeOK, OneRenderer, WaitsOnce, NewestUnlessAborted, Active, Runs
<1>1. CASE waiting = 0
  BY <1>1 DEF Release
<1>2. CASE waiting # 0
  BY <1>2 DEF Release, Begin
<1> QED BY <1>1, <1>2

LEMMA NextLock == LockInv /\ [Next]_vars => LockInv'
<1> SUFFICES ASSUME LockInv, [Next]_vars PROVE OneRenderer' /\ WaitsOnce' /\ NewestUnlessAborted'
  BY NextType DEF LockInv
<1> USE DEF LockInv, OneRenderer, WaitsOnce, NewestUnlessAborted
<1>1. CASE OnRun
  <2>1. requested' = requested + 1 /\ requested' \in Runs /\ phase[requested'] = "none"
    BY <1>1 DEF OnRun, ResetRun, TypeOK, Runs
  <2>2. CASE renderThread = 0 /\ Begin(requested', phase)
    BY <2>1, <2>2 DEF Begin, TypeOK, Runs
  <2>3. CASE renderThread # 0
    BY <1>1, <2>1, <2>3 DEF OnRun, TypeOK
  <2> QED BY <1>1, <2>2, <2>3 DEF OnRun
<1>2. ASSUME NEW k \in Runs, SetupFails(k) \/ LoopAborted(k) \/ LoopFrameFails(k)
                             \/ (LoopFrameDone(k) /\ Release(k))
      PROVE  OneRenderer' /\ WaitsOnce' /\ NewestUnlessAborted'
  BY <1>2, ReleaseLock DEF SetupFails, LoopAborted, LoopFrameFails, LoopFrameDone, Active
<1>3. ASSUME NEW k \in Runs, PipelinesReady(k) \/ ResourcesReady(k) \/ LoopFrame(k)
                             \/ (LoopFrameDone(k) /\ ~Release(k))
      PROVE  OneRenderer' /\ WaitsOnce' /\ NewestUnlessAborted'
  <2>1. UNCHANGED <<requested, renderThread, waiting, abortRender>>
    BY <1>3 DEF PipelinesReady, ResourcesReady, LoopFrame, LoopFrameDone
  <2>2. PICK to \in Active : phase[k] \in Active /\ phase' = [phase EXCEPT ![k] = to]
    BY <1>3 DEF PipelinesReady, ResourcesReady, LoopFrame, LoopFrameDone, Active
  <2> QED BY <2>1, <2>2 DEF TypeOK, Active
<1>4. CASE \/ TogglePause \/ StepDone \/ StepFails \/ UNCHANGED vars
           \/ \E target \in StepTargets : SetFrame(target)
           \/ \E size \in Sizes : Resize(size)
  BY <1>4 DEF TogglePause, StepDone, StepFails, SetFrame, Resize, vars, lock
<1> QED BY <1>1, <1>2, <1>3, <1>4 DEF Next, Setup, Loop

LEMMA LockInvariant == Spec => []LockInv
<1>1. Init => LockInv
  BY InitType DEF Init, LockInv, OneRenderer, WaitsOnce, NewestUnlessAborted, Active
<1> QED BY <1>1, NextLock, PTL DEF Spec

\* However runs are asked for, fail, or are aborted, one at most is set up or
\* drawn, under the lock.
THEOREM LockAdmitsOne == Spec => []OneRenderer
<1> QED BY LockInvariant, PTL DEF LockInv

\* The frames that are begun are those of the newest run.
THEOREM SupersededStaysIdle == Spec => NoFrameOfSupersededRun
<1>1. LockInv /\ [Next]_vars =>
        [\A k \in Runs : phase[k] # "frame" /\ phase'[k] = "frame" => k = requested]_vars
  <2> SUFFICES ASSUME LockInv, Next, NEW k \in Runs, phase[k] # "frame", phase'[k] = "frame"
               PROVE  k = requested
    OBVIOUS
  <2> USE DEF LockInv, TypeOK
  <2>1. ASSUME NEW j \in Runs, NEW phases, phases \in {phase, [phase EXCEPT ![j] = "over"]},
               NEW r, Begin(r, phases)
        PROVE  FALSE
    BY <2>1 DEF Begin
  <2>2. ASSUME NEW j \in Runs, Release(j) PROVE FALSE
    BY <2>1, <2>2 DEF Release
  <2>3. ~OnRun
    BY <2>1 DEF OnRun
  <2>4. ASSUME NEW j \in Runs, Setup(j) PROVE FALSE
    BY <2>2, <2>4 DEF Setup, PipelinesReady, ResourcesReady, SetupFails
  <2>5. ASSUME NEW j \in Runs, Loop(j) PROVE k = requested
    <3>1. LoopFrame(j)
      BY <2>2, <2>5 DEF Loop, LoopAborted, LoopFrameDone, LoopFrameFails
    <3>2. j = k
      BY <3>1 DEF LoopFrame
    <3> QED BY <3>1, <3>2 DEF LoopFrame, OneRenderer, NewestUnlessAborted, Active, Runs
  <2> QED BY <2>3, <2>4, <2>5 DEF Next, TogglePause, StepDone, StepFails, SetFrame, Resize, lock
<1> QED BY <1>1, LockInvariant, PTL DEF Spec, NoFrameOfSupersededRun

-----------------------------------------------------------------------------
(* What is drawn                                                            *)

\* compiledCode is the renderer's, its pipelines once they exist, and resources
\* are those of a run that has come as far as its loop.
CodeOfRenderer ==
  \A k \in Runs : /\ phase[k] \in Active => code = k
                  /\ phase[k] \in {"resources", "loop", "frame"} => pipelines = k
                  /\ phase[k] \in {"loop", "frame"} =>
                       resources = k /\ (k \in ImageRuns /\ ~torn => bound)
ResourcesOfLoop ==
  resources # 0 => phase[resources] \in {"loop", "frame", "over"}

\* A resize that was not missed has reached the textures there are, unless it
\* threw, or the size that those under way are made with.
TexturesOfWindow ==
  ~missed => \A k \in Runs : /\ phase[k] = "resources" => allocating = window
                             /\ phase[k] \in {"loop", "frame"} /\ ~torn => screen = {window}

DrawInv == LockInv /\ CodeOfRenderer /\ ResourcesOfLoop /\ TexturesOfWindow

\* Whoever gets the lock next has not come to its resources.
LEMMA ReleaseDraw ==
  ASSUME DrawInv, NEW k \in Runs, phase[k] \in Active, Release(k),
         resources' \in {resources, k}
  PROVE  CodeOfRenderer' /\ ResourcesOfLoop' /\ TexturesOfWindow'
<1> USE DEF DrawInv, LockInv, TypeOK, OneRenderer, WaitsOnce, Active, Runs,
            CodeOfRenderer, ResourcesOfLoop, TexturesOfWindow
<1>1. CASE waiting = 0
  BY <1>1 DEF Release
<1>2. CASE waiting # 0
  BY <1>2 DEF Release, Begin
<1> QED BY <1>1, <1>2

LEMMA OnRunDraw ==
  ASSUME DrawInv, OnRun
  PROVE  CodeOfRenderer' /\ ResourcesOfLoop' /\ TexturesOfWindow'
<1> USE DEF DrawInv, LockInv, OneRenderer, CodeOfRenderer, ResourcesOfLoop, TexturesOfWindow
<1>1. requested' = requested + 1 /\ requested' \in Runs /\ phase[requested'] = "none"
      /\ resources # requested'
  BY DEF OnRun, ResetRun, TypeOK, Runs
<1>2. CASE renderThread = 0 /\ Begin(requested', phase)
  BY <1>1, <1>2 DEF OnRun, Begin, TypeOK, Active, Runs, canvas
<1>3. CASE renderThread # 0
  BY <1>1, <1>3 DEF OnRun, canvas
<1> QED BY <1>2, <1>3 DEF OnRun

LEMMA RunDraw ==
  ASSUME DrawInv, NEW k \in Runs, Setup(k) \/ Loop(k)
  PROVE  CodeOfRenderer' /\ ResourcesOfLoop' /\ TexturesOfWindow'
<1>1. CASE SetupFails(k) \/ LoopAborted(k) \/ LoopFrameFails(k)
           \/ (LoopFrameDone(k) /\ Release(k))
  <2>1. resources' \in {resources, k}
    BY <1>1 DEF SetupFails, Installed, LoopAborted, LoopFrameFails, LoopFrameDone
  <2> QED BY <1>1, <2>1, ReleaseDraw DEF SetupFails, LoopAborted, LoopFrameFails,
                                         LoopFrameDone, Active
<1> USE DEF DrawInv, LockInv, OneRenderer, CodeOfRenderer, ResourcesOfLoop,
            TexturesOfWindow, TypeOK, Active, Runs
<1>2. CASE PipelinesReady(k)
  BY <1>2 DEF PipelinesReady
<1>3. CASE ResourcesReady(k)
  BY <1>3 DEF ResourcesReady, Installed
<1>4. CASE LoopFrame(k)
  BY <1>4 DEF LoopFrame, drawing, canvas
<1>5. CASE LoopFrameDone(k) /\ ~Release(k)
  BY <1>5 DEF LoopFrameDone, canvas
<1> QED BY <1>1, <1>2, <1>3, <1>4, <1>5 DEF Setup, Loop

LEMMA ResizeDraw ==
  ASSUME DrawInv, NEW size \in Sizes, Resize(size)
  PROVE  CodeOfRenderer' /\ ResourcesOfLoop' /\ TexturesOfWindow'
<1>1. UNCHANGED <<phase, code, pipelines, resources>>
  BY DEF Resize, lock
<1>2. CodeOfRenderer'
  <2>1. ASSUME NEW k \in Runs, phase[k] \in {"loop", "frame"}, k \in ImageRuns, ~torn'
        PROVE  bound'
    <3>1. code = k /\ resources = k /\ (~torn => bound)
      BY <2>1 DEF DrawInv, CodeOfRenderer, Active
    <3>2. CASE passThrough
      BY <2>1, <3>1, <3>2 DEF Resize, ResizeRuns, ResizeThrows
    <3>3. CASE ~passThrough
      BY <2>1, <3>1, <3>3 DEF Resize
    <3> QED BY <3>2, <3>3
  <2> QED BY <1>1, <2>1 DEF DrawInv, CodeOfRenderer, Active
<1>3. ResourcesOfLoop'
  BY <1>1 DEF DrawInv, ResourcesOfLoop
<1>4. ASSUME ~missed', NEW k \in Runs
      PROVE  /\ phase[k] # "resources"
             /\ phase[k] \in {"loop", "frame"} /\ ~torn' => screen' = {window'}
  <2>1. passThrough /\ resources = code /\ (torn' \/ screen' = {window'})
    BY <1>4 DEF Resize, ResizeRuns, ResizeThrows
  <2>2. phase[k] = "resources" => resources = k
    BY <2>1 DEF DrawInv, CodeOfRenderer, Active
  <2> QED BY <2>1, <2>2 DEF DrawInv, ResourcesOfLoop, Runs
<1>5. TexturesOfWindow'
  BY <1>1, <1>4 DEF TexturesOfWindow
<1> QED BY <1>2, <1>3, <1>5

LEMMA DrawInvariant == Spec => []DrawInv
<1>1. Init => CodeOfRenderer /\ ResourcesOfLoop /\ TexturesOfWindow
  BY DEF Init, CodeOfRenderer, ResourcesOfLoop, TexturesOfWindow, Active
<1>2. DrawInv /\ [Next]_vars => CodeOfRenderer' /\ ResourcesOfLoop' /\ TexturesOfWindow'
  <2> SUFFICES ASSUME DrawInv, [Next]_vars
               PROVE  CodeOfRenderer' /\ ResourcesOfLoop' /\ TexturesOfWindow'
    OBVIOUS
  <2>1. CASE \/ TogglePause \/ StepDone \/ StepFails \/ UNCHANGED vars
             \/ \E target \in StepTargets : SetFrame(target)
    BY <2>1 DEF TogglePause, StepDone, StepFails, SetFrame, vars, lock, drawing, canvas,
                DrawInv, CodeOfRenderer, ResourcesOfLoop, TexturesOfWindow
  <2> QED BY <2>1, OnRunDraw, RunDraw, ResizeDraw DEF Next
<1> QED BY <1>1, <1>2, LockInvariant, PTL DEF Spec, DrawInv

\* A frame of the loop draws one program, with textures that exist unless a
\* resize of them threw, whatever went before.
THEOREM OneRunDrawn == Spec => []LoopDrawsOneRun
<1>1. DrawInv => LoopDrawsOneRun
  BY DEF DrawInv, CodeOfRenderer, LoopDrawsOneRun, Active
<1> QED BY <1>1, DrawInvariant, PTL

\* Textures have the window's size while a run draws, if the last resize did not
\* fall into its setup and none threw since the last that went through.
THEOREM TexturesFollow == Spec => []ScreenTexturesFollowWindow
<1>1. DrawInv => ScreenTexturesFollowWindow
  BY DEF DrawInv, TexturesOfWindow, ScreenTexturesFollowWindow
<1> QED BY <1>1, DrawInvariant, PTL
=============================================================================
