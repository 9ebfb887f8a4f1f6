------------------------------- MODULE TargetApp -----------------------------
(***************************************************************************)
(* The Android target around its SwapchainRenderer: the UI thread           *)
(* (RenderSurfaceView.kt), the render thread (RenderThread.kt and           *)
(* Renderer::render_frame), the bridge thread's connection loop (bridge.rs) *)
(* and the global mailboxes they share, each behind a mutex of its own      *)
(* (pending_shader.rs, pending_perf.rs, touch_input.rs).                    *)
(*                                                                         *)
(* A step is what a thread does up to its next access of a mailbox.  One    *)
(* Activity; how connections begin and end is BridgeClient's, what the      *)
(* renderer does with the GPU SwapchainRenderer's.                          *)
(***************************************************************************)
EXTENDS Naturals, Sequences

CONSTANTS
  Sizes,       \* sizes of the surface
  None,        \* no DeviceInfo, no frame
  MaxShaders,  \* bound: ShaderUpdates received, numbered from 1
  Rejected,    \* those set_compute_shader fails on, for any reason
  MaxTouches   \* bound: touch events queued

ASSUME SizesAssumption == None \notin Sizes \cup Nat
ASSUME BoundsAssumption ==
  /\ {MaxShaders, MaxTouches} \subseteq Nat
  /\ Rejected \subseteq 1 .. MaxShaders

VARIABLES
  ui,        \* the UI thread
  surface,   \* RenderSurfaceView.renderThread is set
  running,   \* RenderThread.running
  finger,    \* a finger is on the view
  window,    \* the native window's size
  rt,        \* where the render thread is
  renderer,  \* the Renderer's fields, and runLoop's DeviceInfo
  shader,    \* pending_shader, 0 when empty
  info,      \* PENDING_DEVICE_INFO: the surface size it tells
  sample,    \* PENDING_PERF_SAMPLE is full
  touches,   \* touch_input's QUEUE
  link,      \* the connection to the daemon, "lost" while unnoticed
  tick,      \* the bridge thread is between the sends of a perf_poll tick
  received,  \* ghost: the last ShaderUpdate received
  taken,     \* ghost: the last one taken from the mailbox
  reported,  \* ghost: the size the last DeviceInfo told that it brought to the daemon
  dropped    \* ghost: the release of the last press was dropped

vars == <<ui, surface, running, finger, window, rt, renderer, shader, info,
          sample, touches, link, tick, received, taken, reported, dropped>>

\* shader: the one set, 0 for the fixed triangle.  drawn: that of the last frame
\* submitted.  unsignalled: in_flight was reset for a frame that failed before
\* its submission, so that nothing will signal it.  pointerDown: TouchState.
\* measured: last_gpu_frame_time_ms is that of a frame.  info: the size told by
\* the DeviceInfo that runLoop has read and not queued yet.
Renderers ==
  [shader : 0 .. MaxShaders, drawn : 0 .. MaxShaders \cup {None},
   unsignalled : BOOLEAN, pointerDown : BOOLEAN, measured : BOOLEAN,
   info : Sizes \cup {None}]

\* Renderer::new.
NewRenderer ==
  [shader |-> 0, drawn |-> None, unsignalled |-> FALSE,
   pointerDown |-> FALSE, measured |-> FALSE, info |-> None]

TypeOK ==
  /\ ui \in {"free", "joining"}
  /\ surface \in BOOLEAN /\ running \in BOOLEAN /\ finger \in BOOLEAN
  /\ window \in Sizes
  /\ rt \in {"none", "creating", "reporting", "loop", "draw", "sampling",
           "blocked"}
  /\ renderer \in Renderers
  /\ shader \in 0 .. MaxShaders
  /\ info \in Sizes \cup {None}
  /\ sample \in BOOLEAN
  /\ touches \in Seq({"down", "up"})
  /\ link \in {"none", "up", "lost"}
  /\ tick \in BOOLEAN
  /\ tick => link # "none"
  /\ rt = "reporting" => renderer.info \in Sizes
  /\ received \in 0 .. MaxShaders /\ taken \in 0 .. MaxShaders
  /\ reported \in Sizes \cup {None}
  /\ dropped \in BOOLEAN

Init ==
  /\ ui = "free" /\ surface = FALSE /\ running = FALSE /\ finger = FALSE
  /\ window \in Sizes
  /\ rt = "none"
  /\ renderer = NewRenderer
  /\ shader = 0 /\ info = None /\ sample = FALSE /\ touches = <<>>
  /\ link = "none" /\ tick = FALSE
  /\ received = 0 /\ taken = 0 /\ reported = None /\ dropped = FALSE

screen == <<ui, surface, running, finger, dropped>>
bridge == <<link, tick, received, reported>>

-----------------------------------------------------------------------------
(* The UI thread                                                            *)

SurfaceCreated ==
  /\ ui = "free" /\ ~surface
  /\ surface' = TRUE
  /\ running' = TRUE
  /\ rt' = "creating"
  /\ UNCHANGED <<ui, finger, dropped, window, renderer, shader, info, sample, touches,
                 bridge, taken>>

\* Mutant: does not join the thread.
SurfaceDestroyedAtOnce ==
  /\ ui = "free" /\ surface
  /\ running' = FALSE
  /\ surface' = FALSE
  /\ UNCHANGED <<ui, finger, dropped, window, rt, renderer, shader, info, sample, touches,
                 bridge, taken>>

SurfaceDestroyed ==
  /\ ui = "free" /\ surface
  /\ running' = FALSE
  /\ ui' = "joining"
  /\ UNCHANGED <<surface, finger, dropped, window, rt, renderer, shader, info, sample,
                 touches, bridge, taken>>

Joined ==
  /\ ui = "joining" /\ rt = "none"
  /\ ui' = "free"
  /\ surface' = FALSE
  /\ UNCHANGED <<running, finger, dropped, window, rt, renderer, shader, info, sample,
                 touches, bridge, taken>>

\* Without a render thread the event is dropped.
PushTouch(event) ==
  touches' = IF surface THEN Append(touches, event) ELSE touches

\* Mutant: the release is not queued.
TouchDownOnly ==
  /\ ui = "free"
  /\ Len(touches) < MaxTouches
  /\ finger' = ~finger
  /\ IF finger THEN UNCHANGED touches ELSE surface /\ PushTouch("down")
  /\ dropped' = (finger /\ ~surface)
  /\ UNCHANGED <<ui, surface, running, window, rt, renderer, shader, info, sample,
                 bridge, taken>>

\* A press of the view, its release, or the cancellation of the gesture: moves
\* change coordinates only.
Touch ==
  /\ ui = "free"
  /\ Len(touches) < MaxTouches
  /\ finger' = ~finger
  /\ IF finger THEN PushTouch("up") ELSE surface /\ PushTouch("down")
  /\ dropped' = (finger /\ ~surface)
  /\ UNCHANGED <<ui, surface, running, window, rt, renderer, shader, info, sample,
                 bridge, taken>>

WindowResized(size) ==
  /\ surface
  /\ size # window
  /\ window' = size
  /\ UNCHANGED <<screen, rt, renderer, shader, info, sample, touches, bridge, taken>>

-----------------------------------------------------------------------------
(* The render thread                                                        *)

\* The thread ends at once when the renderer cannot be created.
CreateRenderer ==
  /\ rt = "creating"
  /\ \/ rt' = "reporting" /\ renderer' = [NewRenderer EXCEPT !.info = window]
     \/ rt' = "none" /\ UNCHANGED renderer
  /\ UNCHANGED <<screen, window, shader, info, sample, touches, bridge, taken>>

QueueDeviceInfo ==
  /\ rt = "reporting"
  /\ rt' = "loop"
  /\ info' = renderer.info
  /\ renderer' = [renderer EXCEPT !.info = None]
  /\ UNCHANGED <<screen, window, shader, sample, touches, bridge, taken>>

\* What set_compute_shader leaves of the renderer.  It fails before the pointer
\* is reset only where the blit pass is created, for the first shader; the
\* shader set is kept whenever it fails.
Updated(s) ==
  LET reset == [renderer EXCEPT !.pointerDown = FALSE]
  IN IF s \notin Rejected THEN {[reset EXCEPT !.shader = s]}
     ELSE {reset} \cup (IF renderer.shader = 0 THEN {renderer} ELSE {})

\* Mutant: the mailbox is emptied before the renderer is known to be there.
TakeShaderInTwo ==
  /\ rt \in {"reporting", "loop"} /\ running
  /\ rt' = IF rt = "loop" THEN "draw" ELSE rt
  /\ shader' = 0
  /\ taken' = IF shader = 0 THEN taken ELSE shader
  /\ renderer' \in IF shader = 0 \/ rt = "reporting" THEN {renderer}
                  ELSE Updated(shader)
  /\ UNCHANGED <<screen, window, info, sample, touches, bridge>>

\* pending_shader::take and set_compute_shader, whose failure is ignored.
TakeShader ==
  /\ rt = "loop" /\ running
  /\ rt' = "draw"
  /\ shader' = 0
  /\ taken' = IF shader = 0 THEN taken ELSE shader
  /\ renderer' \in IF shader = 0 THEN {renderer} ELSE Updated(shader)
  /\ UNCHANGED <<screen, window, info, sample, touches, bridge>>

\* The pointer after the queued events.
Pointer == IF touches = <<>> THEN renderer.pointerDown
           ELSE touches[Len(touches)] = "down"

\* SwapchainRenderer::render_frame measures the frame before, if there was one,
Measured(r) == [r EXCEPT !.measured = @ \/ r.drawn # None]

\* and submits one,
Submitted(r) == [Measured(r) EXCEPT !.drawn = r.shader]

\* or fails: before it measures, before the fence is reset, after.
Tried(r) ==
  {r, Measured(r), [Measured(r) EXCEPT !.unsignalled = TRUE], Submitted(r)}

\* A swapchain found out of date, as an image is acquired or presented, is
\* recreated and the frame tried again, once.
Rendered(r) ==
  Tried(r) \cup
  UNION {Tried(q) : q \in {Measured(r), Submitted(r)}}

\* The queued touches are applied first.  The frame after one that failed with
\* the fence reset waits for that fence, without a timeout.
Draw ==
  /\ rt = "draw"
  /\ touches' = <<>>
  /\ LET r == [renderer EXCEPT !.pointerDown = Pointer]
     IN IF renderer.unsignalled THEN rt' = "blocked" /\ renderer' = r
        ELSE rt' = "sampling" /\ renderer' \in Rendered(r)
  /\ UNCHANGED <<screen, window, shader, info, sample, bridge, taken>>

\* A frame with the shader set is submitted.
DrawsShader == Draw /\ rt' = "sampling" /\ renderer'.drawn = renderer.shader

PutSample ==
  /\ rt = "sampling"
  /\ rt' = "loop"
  /\ sample' = (sample \/ renderer.measured)
  /\ UNCHANGED <<screen, window, renderer, shader, info, touches, bridge, taken>>

\* Mutant: goes on for as long as there is a shader to draw.
StopWhenIdle ==
  /\ rt = "loop" /\ ~running
  /\ renderer.shader = 0
  /\ rt' = "none"
  /\ renderer' = NewRenderer
  /\ UNCHANGED <<screen, window, shader, info, sample, touches, bridge, taken>>

\* The loop ends, and nativeDestroyRenderer: nothing of the renderer is left.
Stop ==
  /\ rt = "loop" /\ ~running
  /\ rt' = "none"
  /\ renderer' = NewRenderer
  /\ UNCHANGED <<screen, window, shader, info, sample, touches, bridge, taken>>

-----------------------------------------------------------------------------
(* The bridge thread                                                        *)

Connected ==
  /\ link = "none"
  /\ link' = "up"
  /\ UNCHANGED <<screen, window, rt, renderer, shader, info, sample, touches, tick,
                 received, taken, reported>>

\* The network, or the daemon, is gone; this end has still to notice.
LinkLost ==
  /\ link = "up"
  /\ link' = "lost"
  /\ reported' = None
  /\ UNCHANGED <<screen, window, rt, renderer, shader, info, sample, touches, tick,
                 received, taken>>

\* recv returns None, or the call is cancelled.
Disconnected ==
  /\ link # "none"
  /\ link' = "none"
  /\ tick' = FALSE
  /\ reported' = None
  /\ UNCHANGED <<screen, window, rt, renderer, shader, info, sample, touches,
                 received, taken>>

\* Mutant: keeps an update the render loop has not taken yet.
ReceiveShaderIfEmpty ==
  /\ link = "up" /\ ~tick
  /\ received < MaxShaders
  /\ received' = received + 1
  /\ shader' = IF shader = 0 THEN received' ELSE shader
  /\ UNCHANGED <<screen, window, rt, renderer, info, sample, touches, link, tick,
                 taken, reported>>

ReceiveShader ==
  /\ link = "up" /\ ~tick
  /\ received < MaxShaders
  /\ received' = received + 1
  /\ shader' = received'
  /\ UNCHANGED <<screen, window, rt, renderer, info, sample, touches, link, tick,
                 taken, reported>>

\* Mutant: looks for a DeviceInfo only while there is no sample to send.
SendInfoWhenIdle ==
  /\ link # "none" /\ ~tick
  /\ tick' = TRUE
  /\ IF info = None \/ sample THEN UNCHANGED <<info, reported>>
     ELSE /\ info' = None
          /\ reported' = IF link = "up" THEN info ELSE reported
  /\ UNCHANGED <<screen, window, rt, renderer, shader, sample, touches, link,
                 received, taken>>

\* A perf_poll tick: the DeviceInfo is taken, and sent if the connection holds.
SendInfo ==
  /\ link # "none" /\ ~tick
  /\ tick' = TRUE
  /\ IF info = None THEN UNCHANGED <<info, reported>>
     ELSE /\ info' = None
          /\ reported' = IF link = "up" THEN info ELSE reported
  /\ UNCHANGED <<screen, window, rt, renderer, shader, sample, touches, link,
                 received, taken>>

\* Then the sample.
SendSample ==
  /\ tick
  /\ tick' = FALSE
  /\ sample' = FALSE
  /\ UNCHANGED <<screen, window, rt, renderer, shader, info, touches, link,
                 received, taken, reported>>

-----------------------------------------------------------------------------

RenderStep == CreateRenderer \/ QueueDeviceInfo \/ TakeShader \/ Draw \/ PutSample \/ Stop
BridgeStep == ReceiveShader \/ SendInfo \/ SendSample

Next ==
  \/ SurfaceCreated \/ SurfaceDestroyed \/ Joined \/ Touch
  \/ \E size \in Sizes : WindowResized(size)
  \/ RenderStep
  \/ Connected \/ LinkLost \/ Disconnected
  \/ BridgeStep

Spec == Init /\ [][Next]_vars

\* The render thread runs until it is blocked, not every frame of it fails, join
\* returns once it has ended, and the poll ticks.
FairSpec == /\ Spec
            /\ WF_vars(RenderStep)
            /\ SF_vars(DrawsShader)
            /\ WF_vars(Joined)
            /\ WF_vars(SendInfo)
            /\ WF_vars(SendSample)

-----------------------------------------------------------------------------
(* Properties                                                               *)

\* surfaceDestroyed does not return while the render thread may still touch the
\* surface, whatever that thread was doing when it came.
NoRenderingWithoutSurface == rt # "none" => surface

\* The mailbox keeps the newest update: whenever the render loop takes one, it is
\* the last that was received, and none is handed out a second time.
NewestShaderKept == received = IF shader = 0 THEN taken ELSE shader

\* A frame with the pending shader comes to be submitted, unless setting it
\* fails, a newer one comes, the render thread ends, or it is blocked for good
\* by a frame that failed after swapchain_renderer.rs:1370.
PendingShaderDrawn ==
  \A s \in (1 .. MaxShaders) \ Rejected :
    shader = s /\ rt # "none"
      ~> renderer.drawn = s \/ received > s \/ rt \in {"none", "blocked"}

\* A queued DeviceInfo is the last one the daemon comes to have, unless the
\* connection goes or a new renderer has queued its own.
DeviceInfoReported ==
  \A z \in Sizes :
    info = z /\ link = "up" ~> reported = z \/ link # "up" \/ info \notin {z, None}

\* The UI thread is not left waiting in surfaceDestroyed, whatever the render
\* thread was doing and whichever frames failed, unless that thread is blocked
\* at swapchain_renderer.rs:1324: a fence is waited for that was reset for a
\* frame never submitted.
SurfaceDestroyedReturns == ui = "joining" ~> ui = "free" \/ rt = "blocked"

\* swapchain_renderer.rs:103-105, MOUSE_POSITION encodes "currently down": once
\* every queued event is applied a shader sees a press only while a finger is
\* down, whatever surfaces, renderers and shaders came and went.  The one
\* exception is a press whose release came while there was no surface.
PointerDownMeansFinger ==
  rt \notin {"none", "creating"} /\ touches = <<>> /\ renderer.pointerDown
    => finger \/ dropped
=============================================================================
