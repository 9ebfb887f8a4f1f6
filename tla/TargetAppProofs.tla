--------------------------- MODULE TargetAppProofs ---------------------------
(***************************************************************************)
(* For any surface sizes and bounds: the types of TargetApp, that no thread *)
(* renders once its surface is gone, that the shader mailbox keeps the      *)
(* newest update, and that a press which a shader sees is that of a finger  *)
(* that is down, or whose release was dropped.                              *)
(***************************************************************************)
EXTENDS TargetApp, TLAPS

USE SizesAssumption

LEMMA ShaderNumbers == MaxShaders \in Nat /\ 0 \in 0 .. MaxShaders
BY BoundsAssumption

\* Whatever render_frame does, it changes these fields only.
LEMMA RenderedType ==
  ASSUME NEW r \in Renderers, NEW s \in Rendered(r)
  PROVE  /\ s \in Renderers
         /\ s.pointerDown = r.pointerDown
         /\ s.info = r.info
<1> DEFINE Same(q, t) == /\ t \in Renderers
                        /\ t.pointerDown = q.pointerDown
                        /\ t.info = q.info
<1>1. ASSUME NEW q \in Renderers
      PROVE  Same(q, Measured(q)) /\ Same(q, Submitted(q))
  BY DEF Measured, Submitted, Renderers
<1>2. ASSUME NEW q \in Renderers, NEW t \in Tried(q)
      PROVE  Same(q, t)
  <2>1. Same(Measured(q), [Measured(q) EXCEPT !.unsignalled = TRUE])
    BY <1>1 DEF Renderers
  <2> QED BY <1>1, <2>1 DEF Tried
<1>3. s \in Tried(r) \/ s \in Tried(Measured(r)) \/ s \in Tried(Submitted(r))
  BY DEF Rendered
<1>4. Same(r, s)
  <2> HIDE DEF Same
  <2>1. CASE s \in Tried(r)
    BY <1>2, <2>1
  <2>2. CASE s \in Tried(Measured(r))
    BY <1>1, <1>2, <2>2 DEF Same
  <2>3. CASE s \in Tried(Submitted(r))
    BY <1>1, <1>2, <2>3 DEF Same
  <2> QED BY <1>3, <2>1, <2>2, <2>3
<1> QED BY <1>4

\* The shader, the pointer, and what stays when an update fails.
LEMMA UpdatedType ==
  ASSUME renderer \in Renderers, NEW s \in 0 .. MaxShaders, NEW t \in Updated(s)
  PROVE  /\ t \in Renderers
         /\ t.pointerDown => renderer.pointerDown
         /\ t.info = renderer.info
BY DEF Updated, Renderers

LEMMA NewRendererType == NewRenderer \in Renderers /\ ~NewRenderer.pointerDown
BY ShaderNumbers DEF NewRenderer, Renderers

LEMMA InitType == Init => TypeOK
<1>1. Init => renderer \in Renderers
  BY NewRendererType DEF Init
<1>2. <<>> \in Seq({"down", "up"})
  OBVIOUS
<1> QED BY <1>1, <1>2, ShaderNumbers DEF Init, TypeOK

LEMMA ScreenStepType ==
  ASSUME TypeOK,
         \/ SurfaceCreated \/ SurfaceDestroyed \/ Joined \/ Touch
         \/ \E size \in Sizes : WindowResized(size)
  PROVE  TypeOK'
<1> USE DEF TypeOK, bridge, screen
<1>1. CASE SurfaceCreated
  BY <1>1 DEF SurfaceCreated
<1>2. CASE SurfaceDestroyed
  BY <1>2 DEF SurfaceDestroyed
<1>3. CASE Joined
  BY <1>3 DEF Joined
<1>4. CASE Touch
  BY <1>4 DEF Touch, PushTouch
<1>5. CASE \E size \in Sizes : WindowResized(size)
  BY <1>5 DEF WindowResized
<1> QED BY <1>1, <1>2, <1>3, <1>4, <1>5

LEMMA RenderStepType ==
  ASSUME TypeOK, RenderStep
  PROVE  TypeOK'
<1> USE DEF TypeOK, bridge, screen
<1>1. CASE CreateRenderer
  <2>1. NewRenderer \in Renderers /\ window \in Sizes
    BY NewRendererType
  <2>2. [NewRenderer EXCEPT !.info = window] \in Renderers
    BY <2>1 DEF Renderers
  <2>3. [NewRenderer EXCEPT !.info = window].info = window
    BY <2>1 DEF Renderers
  <2> QED BY <1>1, <2>1, <2>2, <2>3 DEF CreateRenderer
<1>2. CASE QueueDeviceInfo
  BY <1>2 DEF QueueDeviceInfo, Renderers
<1>3. CASE TakeShader
  <2>1. renderer' \in Renderers
    BY <1>3, UpdatedType DEF TakeShader
  <2>2. shader' \in 0 .. MaxShaders /\ taken' \in 0 .. MaxShaders
    BY <1>3, ShaderNumbers DEF TakeShader
  <2> QED BY <1>3, <2>1, <2>2 DEF TakeShader
<1>4. CASE Draw
  <2> DEFINE r == [renderer EXCEPT !.pointerDown = Pointer]
  <2>1. Pointer \in BOOLEAN
    BY DEF Pointer, Renderers
  <2>2. r \in Renderers
    BY <2>1 DEF Renderers
  <2>3. renderer' = r \/ renderer' \in Rendered(r)
    BY <1>4 DEF Draw
  <2> HIDE DEF r
  <2>4. renderer' \in Renderers
    BY <2>2, <2>3, RenderedType
  <2> QED BY <1>4, <2>4 DEF Draw
<1>5. CASE PutSample
  BY <1>5 DEF PutSample, Renderers
<1>6. CASE Stop
  BY <1>6, NewRendererType DEF Stop
<1> QED BY <1>1, <1>2, <1>3, <1>4, <1>5, <1>6 DEF RenderStep

LEMMA BridgeStepType ==
  ASSUME TypeOK, Connected \/ LinkLost \/ Disconnected \/ BridgeStep
  PROVE  TypeOK'
<1> USE DEF TypeOK, bridge, screen
<1>1. CASE Connected
  BY <1>1 DEF Connected
<1>2. CASE LinkLost
  BY <1>2 DEF LinkLost
<1>3. CASE Disconnected
  BY <1>3 DEF Disconnected
<1>4. CASE ReceiveShader
  BY <1>4, ShaderNumbers DEF ReceiveShader
<1>5. CASE SendInfo
  BY <1>5 DEF SendInfo
<1>6. CASE SendSample
  BY <1>6 DEF SendSample
<1> QED BY <1>1, <1>2, <1>3, <1>4, <1>5, <1>6 DEF BridgeStep

LEMMA NextType == TypeOK /\ [Next]_vars => TypeOK'
<1> SUFFICES ASSUME TypeOK, [Next]_vars PROVE TypeOK'
  OBVIOUS
<1>1. CASE Next
  BY <1>1, ScreenStepType, RenderStepType, BridgeStepType DEF Next
<1>2. CASE UNCHANGED vars
  BY <1>2 DEF vars, TypeOK
<1> QED BY <1>1, <1>2

\* The threads, the mailboxes, the renderer and the connection keep their types.
THEOREM TypeCorrect == Spec => []TypeOK
<1> QED BY InitType, NextType, PTL DEF Spec

-----------------------------------------------------------------------------

LEMMA SurfaceKept ==
  ASSUME NoRenderingWithoutSurface, [Next]_vars
  PROVE  NoRenderingWithoutSurface'
<1> USE DEF NoRenderingWithoutSurface, screen
<1>1. CASE SurfaceCreated \/ SurfaceDestroyed \/ Joined \/ Touch
  BY <1>1 DEF SurfaceCreated, SurfaceDestroyed, Joined, Touch
<1>2. CASE \E size \in Sizes : WindowResized(size)
  BY <1>2 DEF WindowResized
<1>3. CASE RenderStep
  BY <1>3 DEF RenderStep, CreateRenderer, QueueDeviceInfo, TakeShader, Draw,
              PutSample, Stop
<1>4. CASE Connected \/ LinkLost \/ Disconnected \/ BridgeStep
  BY <1>4 DEF Connected, LinkLost, Disconnected, BridgeStep, ReceiveShader,
              SendInfo, SendSample
<1>5. CASE UNCHANGED vars
  BY <1>5 DEF vars
<1> QED BY <1>1, <1>2, <1>3, <1>4, <1>5 DEF Next

\* surfaceDestroyed does not return before the render thread has ended, so that
\* no call of the renderer touches a surface that is gone.
THEOREM SurfaceOutlivesRendering == Spec => []NoRenderingWithoutSurface
<1>1. Init => NoRenderingWithoutSurface
  BY DEF Init, NoRenderingWithoutSurface
<1> QED BY <1>1, SurfaceKept, PTL DEF Spec

-----------------------------------------------------------------------------

LEMMA NewestKept ==
  ASSUME TypeOK, NewestShaderKept, [Next]_vars
  PROVE  NewestShaderKept'
<1> USE DEF NewestShaderKept, screen, bridge
<1>1. CASE SurfaceCreated \/ SurfaceDestroyed \/ Joined \/ Touch
  BY <1>1 DEF SurfaceCreated, SurfaceDestroyed, Joined, Touch
<1>2. CASE \E size \in Sizes : WindowResized(size)
  BY <1>2 DEF WindowResized
<1>3. CASE RenderStep
  BY <1>3 DEF RenderStep, CreateRenderer, QueueDeviceInfo, TakeShader, Draw,
              PutSample, Stop
<1>4. CASE ReceiveShader
  BY <1>4 DEF ReceiveShader, TypeOK
<1>5. CASE Connected \/ LinkLost \/ Disconnected \/ SendInfo \/ SendSample
  BY <1>5 DEF Connected, LinkLost, Disconnected, SendInfo, SendSample
<1>6. CASE UNCHANGED vars
  BY <1>6 DEF vars
<1> QED BY <1>1, <1>2, <1>3, <1>4, <1>5, <1>6 DEF Next, BridgeStep

\* The update the render loop takes out of pending_shader is the last received,
\* and no update is taken twice.
THEOREM NewestTaken == Spec => []NewestShaderKept
<1>1. Init => NewestShaderKept
  BY DEF Init, NewestShaderKept
<1> QED BY <1>1, TypeCorrect, NewestKept, PTL DEF Spec

-----------------------------------------------------------------------------

\* The pointer as it will be once the queued events are applied, while a
\* renderer is there or after the next event.
Pressed == IF touches = <<>> THEN rt \notin {"none", "creating"} /\ renderer.pointerDown
           ELSE touches[Len(touches)] = "down"

\* The inductive form of PointerDownMeansFinger: it looks past the queue.
PointerInv == Pressed => finger \/ dropped

LEMMA PointerKept ==
  ASSUME TypeOK, PointerInv, [Next]_vars
  PROVE  PointerInv'
<1> USE DEF PointerInv, Pressed, screen, bridge
<1>1. CASE SurfaceCreated \/ SurfaceDestroyed \/ Joined
  BY <1>1 DEF SurfaceCreated, SurfaceDestroyed, Joined
<1>2. CASE Touch
  <2>1. \A e \in {"down", "up"} :
           /\ Append(touches, e) # <<>>
           /\ Append(touches, e)[Len(Append(touches, e))] = e
    BY DEF TypeOK
  <2>2. CASE finger /\ surface
    BY <1>2, <2>1, <2>2 DEF Touch, PushTouch
  <2>3. CASE finger /\ ~surface
    BY <1>2, <2>3 DEF Touch
  <2>4. CASE ~finger
    BY <1>2, <2>4 DEF Touch
  <2> QED BY <2>2, <2>3, <2>4
<1>3. CASE \E size \in Sizes : WindowResized(size)
  BY <1>3 DEF WindowResized
<1>4. CASE CreateRenderer
  <2>1. ~[NewRenderer EXCEPT !.info = window].pointerDown
    BY NewRendererType DEF Renderers
  <2> QED BY <1>4, <2>1 DEF CreateRenderer
<1>5. CASE TakeShader
  <2>1. renderer'.pointerDown => renderer.pointerDown
    BY <1>5, UpdatedType DEF TakeShader, TypeOK
  <2> QED BY <1>5, <2>1 DEF TakeShader
<1>6. CASE Draw
  <2> DEFINE r == [renderer EXCEPT !.pointerDown = Pointer]
  <2>1. Pointer \in BOOLEAN
    BY DEF Pointer, TypeOK, Renderers
  <2>2. r \in Renderers /\ r.pointerDown = Pointer
    BY <2>1 DEF TypeOK, Renderers
  <2>3. renderer' = r \/ renderer' \in Rendered(r)
    BY <1>6 DEF Draw
  <2> HIDE DEF r
  <2>4. renderer'.pointerDown = Pointer
    BY <2>2, <2>3, RenderedType
  <2>5. Pointer => Pressed
    BY <1>6 DEF Draw, Pointer
  <2> QED BY <1>6, <2>4, <2>5 DEF Draw
<1>7. CASE QueueDeviceInfo
  <2>1. renderer'.pointerDown = renderer.pointerDown
    BY <1>7 DEF QueueDeviceInfo, TypeOK, Renderers
  <2> QED BY <1>7, <2>1 DEF QueueDeviceInfo
<1>8. CASE PutSample \/ Stop
  BY <1>8 DEF PutSample, Stop
<1>9. CASE Connected \/ LinkLost \/ Disconnected \/ BridgeStep
  BY <1>9 DEF Connected, LinkLost, Disconnected, BridgeStep, ReceiveShader,
              SendInfo, SendSample
<1>10. CASE UNCHANGED vars
  BY <1>10 DEF vars
<1> QED BY <1>1, <1>2, <1>3, <1>4, <1>5, <1>6, <1>7, <1>8, <1>9,
           <1>10
        DEF Next, RenderStep

\* swapchain_renderer.rs:103-105: MOUSE_POSITION tells of a press only while a
\* finger is down, except for a press whose release came without a surface.
THEOREM PointerFollowsFinger == Spec => []PointerDownMeansFinger
<1>1. Init => PointerInv
  BY DEF Init, PointerInv, Pressed
<1>2. PointerInv => PointerDownMeansFinger
  BY DEF PointerInv, Pressed, PointerDownMeansFinger
<1> QED BY <1>1, <1>2, TypeCorrect, PointerKept, PTL DEF Spec
=============================================================================
