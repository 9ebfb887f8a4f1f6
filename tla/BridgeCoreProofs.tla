-------------------------- MODULE BridgeCoreProofs ---------------------------
(***************************************************************************)
(* Proofs about BridgeCore for any sets of peers, any channel capacity and  *)
(* any bounds: the registry is sound, no newest shader and no announcement  *)
(* is lost, and the daemon implements Relay.  The last rests on three       *)
(* facts: registered targets hold different sessions; what a target can     *)
(* still read is in order and newer than what it was sent; and a ring that  *)
(* loses something had something in it.                                     *)
(***************************************************************************)
EXTENDS BridgeCore, SequenceTheorems, TLAPS

-----------------------------------------------------------------------------
(* The ring: what its operators return, for every message type and capacity *)

\* A receiver stays one whatever is queued, taken or skipped.
LEMMA ReceiverTypes ==
  ASSUME NEW M, NEW rx \in Receivers(M)
  PROVE  /\ \A m \in M : Enqueue(rx, m) \in Receivers(M)
         /\ rx.queue # <<>> => Taken(rx) \in Receivers(M) /\ Head(rx.queue) \in M
         /\ SkipLag(rx) \in Receivers(M)
         /\ NoReceiver \in Receivers(M)
         /\ Subscribed \in Receivers(M)
<1>1. \A m \in M : Enqueue(rx, m) \in Receivers(M)
  <2> TAKE m \in M
  <2>1. CASE Len(rx.queue) < Capacity
    BY <2>1 DEF Enqueue, Receivers
  <2>2. CASE ~(Len(rx.queue) < Capacity)
    <3>1. rx.queue # <<>>
      BY <2>2, CapacityAssumption DEF Receivers
    <3>2. Append(Tail(rx.queue), m) \in Seq(M)
      BY <3>1 DEF Receivers
    <3> QED BY <2>2, <3>2 DEF Enqueue, Receivers
  <2> QED BY <2>1, <2>2
<1>2. rx.queue # <<>> => Taken(rx) \in Receivers(M) /\ Head(rx.queue) \in M
  BY DEF Taken, Receivers
<1>3. /\ SkipLag(rx) \in Receivers(M)
      /\ NoReceiver \in Receivers(M)
      /\ Subscribed \in Receivers(M)
  <2>1. <<>> \in Seq(M)
    OBVIOUS
  <2>2. SkipLag(rx) \in Receivers(M)
    BY DEF SkipLag, Receivers
  <2> QED BY <2>1, <2>2 DEF NoReceiver, Subscribed, Receivers
<1> QED BY <1>1, <1>2, <1>3

\* Sending keeps a channel a channel.
LEMMA PublishType ==
  ASSUME NEW M, NEW R, NEW ch \in [R -> Receivers(M)], NEW m \in M
  PROVE  Publish(ch, m) \in [R -> Receivers(M)]
<1>1. \A r \in R : Enqueue(ch[r], m) \in Receivers(M)
  BY ReceiverTypes
<1> QED BY <1>1 DEF Publish

\* Lagging or not, the message just sent is the last one an open receiver
\* will read, and there is something to read.
LEMMA LastIsNewest ==
  ASSUME NEW M, NEW rx \in Receivers(M), NEW m \in M
  PROVE  LET q == Enqueue(rx, m).queue IN q # <<>> /\ q[Len(q)] = m
<1>1. CASE Len(rx.queue) < Capacity
  BY <1>1 DEF Enqueue, Receivers
<1>2. CASE ~(Len(rx.queue) < Capacity)
  <2>1. rx.queue # <<>>
    BY <1>2, CapacityAssumption DEF Receivers
  <2>2. Tail(rx.queue) \in Seq(M)
    BY <2>1 DEF Receivers
  <2>3. Enqueue(rx, m).queue = Append(Tail(rx.queue), m)
    BY <1>2 DEF Enqueue, Receivers
  <2> QED BY <2>2, <2>3
<1> QED BY <1>1, <1>2

\* The last element of a sequence is its head or the last of its tail.
LEMMA LastOfTail ==
  ASSUME NEW M, NEW s \in Seq(M), s # <<>>
  PROVE  IF Tail(s) = <<>> THEN Head(s) = s[Len(s)]
                           ELSE Tail(s)[Len(Tail(s))] = s[Len(s)]
<1>1. /\ Len(s) \in Nat \ {0}
      /\ Tail(s) \in Seq(M)
      /\ Len(Tail(s)) = Len(s) - 1
      /\ Head(s) = s[1]
      /\ \A i \in 1 .. Len(Tail(s)) : Tail(s)[i] = s[i + 1]
  BY HeadTailProperties
<1>2. CASE Tail(s) = <<>>
  BY <1>1, <1>2
<1>3. CASE Tail(s) # <<>>
  <2>1. Len(Tail(s)) \in 1 .. Len(Tail(s))
    BY <1>1, <1>3
  <2> QED BY <1>1, <1>3, <2>1
<1> QED BY <1>2, <1>3

\* Taking a message leaves the newest in place, unless it was that one.
LEMMA TakenKeepsLast ==
  ASSUME NEW M, NEW rx \in Receivers(M), rx.queue # <<>>
  PROVE  LET q == Taken(rx).queue IN
           IF q = <<>> THEN Head(rx.queue) = rx.queue[Len(rx.queue)]
                       ELSE q[Len(q)] = rx.queue[Len(rx.queue)]
<1>1. Taken(rx).queue = Tail(rx.queue) /\ rx.queue \in Seq(M)
  BY DEF Taken, Receivers
<1> QED BY <1>1, LastOfTail

-----------------------------------------------------------------------------
(* Type correctness                                                         *)

LEMMA InitTypeOK == Init => TypeOK
<1> SUFFICES ASSUME Init PROVE TypeOK
  OBVIOUS
<1>1. NoReceiver \in Receivers(SessionIds) /\ NoReceiver \in Receivers(1 .. MaxShaders)
  <2>1. \A M : <<>> \in Seq(M)
    OBVIOUS
  <2> QED BY <2>1 DEF NoReceiver, Receivers
<1> QED BY <1>1, PeersAssumption, BoundsAssumption DEF Init, TypeOK, Peers, UiPcs, TargetPcs, SessionIds, NoTarget

\* The steps of handle_socket and of the environment.
LEMMA PeerTypeOK ==
  ASSUME TypeOK, NEW p \in Peers,
         Connect(p) \/ Disconnect(p) \/ ReceiveHello(p) \/ Handshake(p)
  PROVE  TypeOK'
<1> USE PeersAssumption, BoundsAssumption
    DEF TypeOK, Peers, UiPcs, TargetPcs, SessionIds, channels, history, Goto
<1>1. CASE Connect(p)
  BY <1>1 DEF Connect
<1>2. CASE Disconnect(p)
  BY <1>2 DEF Disconnect
<1>3. CASE ReceiveHello(p)
  BY <1>3 DEF ReceiveHello
<1>4. CASE RejectHello(p)
  BY <1>4 DEF RejectHello, Return
<1>5. CASE SendHelloAck(p)
  BY <1>5 DEF SendHelloAck
<1>6. CASE RefusePeer(p)
  BY <1>6 DEF RefusePeer, Return
<1> QED BY <1>1, <1>2, <1>3, <1>4, <1>5, <1>6 DEF Handshake

LEMMA UiTypeOK ==
  ASSUME TypeOK, NEW u \in UIs, UiTask(u) \/ RelayShader(u)
  PROVE  TypeOK'
<1>1. /\ presence[u] \in Receivers(SessionIds)
      /\ perf[u] \in Receivers(SessionIds)
  BY DEF TypeOK
<1>2. /\ NoReceiver \in Receivers(SessionIds)
      /\ Subscribed \in Receivers(SessionIds)
      /\ SkipLag(perf[u]) \in Receivers(SessionIds)
      /\ perf[u].queue # <<>> => Taken(perf[u]) \in Receivers(SessionIds)
      /\ presence[u].queue # <<>> => /\ Taken(presence[u]) \in Receivers(SessionIds)
                                     /\ Head(presence[u].queue) \in SessionIds
  BY <1>1, ReceiverTypes
<1>3. CASE RelayShader(u)
  <2>1. shaders + 1 \in 1 .. MaxShaders
    BY <1>3, BoundsAssumption DEF RelayShader, TypeOK
  <2>2. Publish(shader, shaders + 1) \in [Targets -> Receivers(1 .. MaxShaders)]
    BY <2>1, PublishType DEF TypeOK
  <2> QED BY <1>3, <2>1, <2>2 DEF RelayShader, TypeOK
<1> USE PeersAssumption DEF TypeOK, Peers, UiPcs, TargetPcs, channels, history, Goto
<1>4. CASE SubscribeUi(u)
  BY <1>2, <1>4 DEF SubscribeUi
<1>5. CASE ReadCurrent(u)
  BY <1>5 DEF ReadCurrent
<1>6. CASE SendCurrent(u)
  BY <1>6 DEF SendCurrent
<1>7. CASE ForwardPresence(u)
  BY <1>2, <1>7 DEF ForwardPresence, Ready
<1>8. CASE ForwardPerf(u)
  BY <1>2, <1>8 DEF ForwardPerf, Ready
<1>9. CASE PresenceLagged(u) \/ UiGone(u)
  <2>1. 0 \in SessionIds
    BY BoundsAssumption DEF SessionIds
  <2>2. ReturnUi(u)
    BY <1>9 DEF PresenceLagged, UiGone
  <2> QED BY <1>2, <2>1, <2>2 DEF ReturnUi, Return, NoTarget
<1> QED BY <1>3, <1>4, <1>5, <1>6, <1>7, <1>8, <1>9 DEF UiTask

LEMMA TargetTypeOK ==
  ASSUME TypeOK, NEW t \in Targets, TargetTask(t) \/ RelayPerf(t)
  PROVE  TypeOK'
<1>1. shader[t] \in Receivers(1 .. MaxShaders) /\ session[t] \in SessionIds
  BY DEF TypeOK, Peers
<1>2. /\ NoReceiver \in Receivers(1 .. MaxShaders)
      /\ Subscribed \in Receivers(1 .. MaxShaders)
      /\ SkipLag(shader[t]) \in Receivers(1 .. MaxShaders)
      /\ shader[t].queue # <<>> => /\ Taken(shader[t]) \in Receivers(1 .. MaxShaders)
                                   /\ Head(shader[t].queue) \in 1 .. MaxShaders
  BY <1>1, ReceiverTypes
<1>3. 0 \in SessionIds
  BY BoundsAssumption DEF SessionIds
<1>4. /\ Publish(presence, session[t]) \in [UIs -> Receivers(SessionIds)]
      /\ Publish(perf, session[t]) \in [UIs -> Receivers(SessionIds)]
      /\ Publish(presence, NoTarget) \in [UIs -> Receivers(SessionIds)]
  BY <1>1, <1>3, PublishType DEF TypeOK, NoTarget
<1> USE PeersAssumption DEF TypeOK, Peers, UiPcs, TargetPcs, channels, history, Goto
<1>5. CASE Register(t)
  BY <1>1, <1>5 DEF Register
<1>6. CASE Announce(t)
  BY <1>1, <1>4, <1>6 DEF Announce, PublishPresence
<1>7. CASE SubscribeTarget(t)
  BY <1>2, <1>7 DEF SubscribeTarget
<1>8. CASE ForwardShader(t)
  <2>1. CASE Ready(shader[t])
    <3>1. /\ got' = [got EXCEPT ![t] = Head(shader[t].queue)]
          /\ shader' = [shader EXCEPT ![t] = Taken(@)]
      BY <1>8, <2>1 DEF ForwardShader, Ready, Lags
    <3>2. got' \in [Targets -> 0 .. MaxShaders]
      BY <1>2, <2>1, <3>1 DEF Ready
    <3>3. shader' \in [Targets -> Receivers(1 .. MaxShaders)]
      BY <1>2, <2>1, <3>1 DEF Ready
    <3> QED BY <1>8, <3>2, <3>3 DEF ForwardShader
  <2>2. CASE Lags(shader[t])
    BY <1>2, <1>8, <2>2 DEF ForwardShader, Ready, Lags
  <2> QED BY <1>8, <2>1, <2>2 DEF ForwardShader
<1>9. CASE TargetGone(t)
  BY <1>9 DEF TargetGone
<1>10. CASE Unregister(t)
  BY <1>3, <1>10 DEF Unregister, NoTarget
<1>11. CASE LeaveSuperseded(t)
  BY <1>2, <1>3, <1>11, BoundsAssumption DEF LeaveSuperseded, ReturnTarget, Return
<1>12. CASE AnnounceGone(t)
  BY <1>2, <1>3, <1>4, <1>12, BoundsAssumption
     DEF AnnounceGone, ReturnTarget, Return, PublishPresence, NoTarget
<1>13. CASE RelayPerf(t)
  BY <1>4, <1>13, BoundsAssumption DEF RelayPerf
<1> QED BY <1>5, <1>6, <1>7, <1>8, <1>9, <1>10, <1>11, <1>12, <1>13 DEF TargetTask

LEMMA NextTypeOK == TypeOK /\ [Next]_vars => TypeOK'
<1> SUFFICES ASSUME TypeOK, [Next]_vars PROVE TypeOK'
  OBVIOUS
<1>1. CASE UNCHANGED vars
  BY <1>1 DEF vars, TypeOK
<1>2. CASE Next
  BY <1>2, PeerTypeOK, UiTypeOK, TargetTypeOK DEF Next
<1> QED BY <1>1, <1>2

\* Every variable keeps its type, whatever the peers do.
THEOREM TypeCorrect == Spec => []TypeOK
<1> QED BY InitTypeOK, NextTypeOK, PTL DEF Spec

-----------------------------------------------------------------------------
(* The registry                                                             *)

\* A task holds a session id from Hello until it returns.
SessionHeld == \A p \in Peers : session[p] = 0 <=> pc[p] \in {"closed", "hello"}

\* Inductive: the entry is the id of a task which has yet to clean up, and a
\* task past its handshake does hold an id, so 0 means nobody.
RegistryInv == TypeOK /\ SessionHeld /\ RegistryNamesLiveTarget

LEMMA PeerRegistryInv ==
  ASSUME RegistryInv, NEW p \in Peers,
         Connect(p) \/ Disconnect(p) \/ ReceiveHello(p) \/ Handshake(p)
  PROVE  SessionHeld' /\ RegistryNamesLiveTarget'
<1> USE DEF RegistryInv, TypeOK, SessionHeld, RegistryNamesLiveTarget, Goto,
            Peers, NoTarget
<1>1. CASE Connect(p)
  BY <1>1 DEF Connect
<1>2. CASE Disconnect(p)
  BY <1>2 DEF Disconnect
<1>3. CASE ReceiveHello(p)
  BY <1>3 DEF ReceiveHello
<1>4. CASE RejectHello(p)
  BY <1>4 DEF RejectHello, Return
<1>5. CASE SendHelloAck(p)
  BY <1>5 DEF SendHelloAck
<1>6. CASE RefusePeer(p)
  BY <1>6 DEF RefusePeer, Return
<1> QED BY <1>1, <1>2, <1>3, <1>4, <1>5, <1>6 DEF Handshake

LEMMA UiRegistryInv ==
  ASSUME RegistryInv, NEW u \in UIs, UiTask(u) \/ RelayShader(u)
  PROVE  SessionHeld' /\ RegistryNamesLiveTarget'
<1>1. u \in Peers /\ u \notin Targets /\ Targets \subseteq Peers
  BY PeersAssumption DEF Peers
<1>2. currentTarget' = currentTarget
  BY DEF UiTask, RelayShader, SubscribeUi, ReadCurrent, SendCurrent,
         ForwardPresence, PresenceLagged, ForwardPerf, UiGone, ReturnUi
<1>3. \A q \in Peers \ {u} : pc'[q] = pc[q] /\ session'[q] = session[q]
  BY DEF UiTask, RelayShader, SubscribeUi, ReadCurrent, SendCurrent, Goto,
         ForwardPresence, PresenceLagged, ForwardPerf, UiGone, ReturnUi, Return,
         RegistryInv, TypeOK
<1>4. \/ pc'[u] = "closed" /\ session'[u] = 0
      \/ pc'[u] \notin {"closed", "hello"} /\ pc[u] \notin {"closed", "hello"}
         /\ session'[u] = session[u]
  BY <1>1 DEF UiTask, RelayShader, SubscribeUi, ReadCurrent, SendCurrent, Goto,
         ForwardPresence, PresenceLagged, ForwardPerf, UiGone, ReturnUi, Return,
         RegistryInv, TypeOK
<1>5. SessionHeld'
  BY <1>1, <1>3, <1>4 DEF RegistryInv, SessionHeld
<1>6. RegistryNamesLiveTarget'
  BY <1>1, <1>2, <1>3 DEF RegistryInv, RegistryNamesLiveTarget
<1> QED BY <1>5, <1>6

LEMMA TargetRegistryInv ==
  ASSUME RegistryInv, NEW t \in Targets, TargetTask(t) \/ RelayPerf(t)
  PROVE  SessionHeld' /\ RegistryNamesLiveTarget'
<1> USE DEF RegistryInv, TypeOK, SessionHeld, RegistryNamesLiveTarget, Goto,
            Peers, NoTarget
<1>1. CASE Register(t)
  BY <1>1 DEF Register
<1>2. CASE Announce(t)
  BY <1>2 DEF Announce
<1>3. CASE SubscribeTarget(t)
  BY <1>3 DEF SubscribeTarget
<1>4. CASE ForwardShader(t)
  BY <1>4 DEF ForwardShader
<1>5. CASE TargetGone(t)
  BY <1>5 DEF TargetGone
<1>6. CASE Unregister(t)
  BY <1>6 DEF Unregister
<1>7. CASE LeaveSuperseded(t)
  BY <1>7 DEF LeaveSuperseded, ReturnTarget, Return
<1>8. CASE AnnounceGone(t)
  BY <1>8 DEF AnnounceGone, ReturnTarget, Return
<1>9. CASE RelayPerf(t)
  BY <1>9 DEF RelayPerf
<1> QED BY <1>1, <1>2, <1>3, <1>4, <1>5, <1>6, <1>7, <1>8, <1>9 DEF TargetTask

LEMMA RegistryInvariant == Spec => []RegistryInv
<1>1. Init => RegistryInv
  BY InitTypeOK DEF Init, RegistryInv, SessionHeld, RegistryNamesLiveTarget
<1>2. RegistryInv /\ [Next]_vars => RegistryInv'
  <2> SUFFICES ASSUME RegistryInv, [Next]_vars PROVE RegistryInv'
    OBVIOUS
  <2>1. TypeOK'
    BY NextTypeOK DEF RegistryInv
  <2>2. CASE UNCHANGED vars
    BY <2>1, <2>2 DEF vars, RegistryInv, SessionHeld, RegistryNamesLiveTarget
  <2>3. CASE Next
    BY <2>1, <2>3, PeerRegistryInv, UiRegistryInv, TargetRegistryInv
       DEF Next, RegistryInv
  <2> QED BY <2>2, <2>3
<1> QED BY <1>1, <1>2, PTL DEF Spec

\* Whatever peers come and go, in whatever order their tasks run, the registry
\* names a target whose task is still to clean up after it, or nobody.
THEOREM RegistrySound == Spec => []RegistryNamesLiveTarget
<1> QED BY RegistryInvariant, PTL DEF RegistryInv

\* No target's departure clears the registration of another.
THEOREM RegistryOwned == Spec => RegistryClearedByOwner
<1>1. RegistryInv /\ [Next]_vars =>
        [currentTarget # NoTarget /\ currentTarget' = NoTarget =>
           \E t \in Targets : session[t] = currentTarget /\ pc[t] = "cleanup"]_vars
  <2> SUFFICES ASSUME RegistryInv, Next, currentTarget # NoTarget, currentTarget' = NoTarget
               PROVE  \E t \in Targets : session[t] = currentTarget /\ pc[t] = "cleanup"
    OBVIOUS
  <2>1. ASSUME NEW t \in Targets, Register(t) PROVE FALSE
    BY <2>1 DEF Register, RegistryInv, SessionHeld, Peers, NoTarget
  <2>2. PICK t \in Targets : Unregister(t)
    BY <2>1 DEF Next, Connect, Disconnect, ReceiveHello, Handshake, RejectHello,
         SendHelloAck, RefusePeer, UiTask, RelayShader, SubscribeUi, ReadCurrent,
         SendCurrent, ForwardPresence, PresenceLagged, ForwardPerf, UiGone, ReturnUi,
         TargetTask, RelayPerf, Announce, SubscribeTarget, ForwardShader, TargetGone,
         LeaveSuperseded, AnnounceGone
  <2> QED BY <2>2 DEF Unregister
<1> QED BY <1>1, RegistryInvariant, PTL DEF Spec, RegistryClearedByOwner

-----------------------------------------------------------------------------
(* Shaders                                                                  *)

\* A target holds a receiver from its subscription until its task returns.
ShaderOpen ==
  \A t \in Targets :
    shader[t].open <=> pc[t] \in {"loop", "cleanup", "announceGone"}

\* The newest update is the last one waiting, or has been written; a lag
\* leaves something to read.
ShaderNewestLast ==
  \A t \in Targets : shader[t].open =>
    LET q == shader[t].queue IN
      /\ q # <<>> => q[Len(q)] = shaders
      /\ q = <<>> => ~shader[t].lagged /\ got[t] = shaders

ShaderInv == TypeOK /\ ShaderOpen /\ ShaderNewestLast

\* Every step but these four leaves shader, got and shaders alone.
LEMMA ShaderFrame ==
  ASSUME TypeOK, Next,
         \A u \in UIs : ~RelayShader(u),
         \A t \in Targets : ~SubscribeTarget(t) /\ ~ForwardShader(t)
                            /\ ~LeaveSuperseded(t) /\ ~AnnounceGone(t)
  PROVE  /\ UNCHANGED <<shader, got, shaders>>
         /\ \A t \in Targets :
              pc'[t] \in {"loop", "cleanup", "announceGone"}
                <=> pc[t] \in {"loop", "cleanup", "announceGone"}
<1> USE DEF TypeOK, Peers, Goto, channels, history
<1>1. ASSUME NEW p \in Peers,
             Connect(p) \/ Disconnect(p) \/ ReceiveHello(p) \/ Handshake(p)
      PROVE  /\ UNCHANGED <<shader, got, shaders>>
             /\ \A t \in Targets :
                  pc'[t] \in {"loop", "cleanup", "announceGone"}
                    <=> pc[t] \in {"loop", "cleanup", "announceGone"}
  BY <1>1 DEF Connect, Disconnect, ReceiveHello, Handshake, RejectHello,
              SendHelloAck, RefusePeer, Return
<1>2. ASSUME NEW u \in UIs, UiTask(u)
      PROVE  UNCHANGED <<shader, got, shaders>> /\ \A t \in Targets : pc'[t] = pc[t]
  BY <1>2, PeersAssumption DEF UiTask, SubscribeUi, ReadCurrent, SendCurrent, ForwardPresence,
              PresenceLagged, ForwardPerf, UiGone, ReturnUi, Return
<1>3. ASSUME NEW s \in Targets,
             Register(s) \/ Announce(s) \/ TargetGone(s) \/ Unregister(s) \/ RelayPerf(s)
      PROVE  /\ UNCHANGED <<shader, got, shaders>>
             /\ \A t \in Targets :
                  pc'[t] \in {"loop", "cleanup", "announceGone"}
                    <=> pc[t] \in {"loop", "cleanup", "announceGone"}
  BY <1>3 DEF Register, Announce, TargetGone, Unregister, RelayPerf
<1> QED BY <1>1, <1>2, <1>3 DEF Next, TargetTask

LEMMA RelayShaderInv ==
  ASSUME ShaderInv, NEW u \in UIs, RelayShader(u)
  PROVE  ShaderOpen' /\ ShaderNewestLast'
<1>1. /\ shaders' = shaders + 1
      /\ shaders + 1 \in 1 .. MaxShaders
      /\ UNCHANGED <<pc, got>>
  BY BoundsAssumption DEF RelayShader, ShaderInv, TypeOK
<1>2. \A t \in Targets : /\ shader[t] \in Receivers(1 .. MaxShaders)
                         /\ shader'[t] = IF shader[t].open THEN Enqueue(shader[t], shaders + 1)
                                                           ELSE shader[t]
  BY DEF RelayShader, Publish, ShaderInv, TypeOK
<1>3. \A t \in Targets : shader'[t].open <=> shader[t].open
  BY <1>2 DEF Enqueue, Receivers
<1>4. \A t \in Targets : shader[t].open =>
        LET q == shader'[t].queue IN q # <<>> /\ q[Len(q)] = shaders + 1
  BY <1>1, <1>2, BoundsAssumption, LastIsNewest
<1> QED BY <1>1, <1>3, <1>4 DEF ShaderInv, ShaderOpen, ShaderNewestLast

LEMMA TargetShaderInv ==
  ASSUME ShaderInv, NEW t \in Targets,
         \/ SubscribeTarget(t) \/ ForwardShader(t)
         \/ LeaveSuperseded(t) \/ AnnounceGone(t)
  PROVE  ShaderOpen' /\ ShaderNewestLast'
<1> USE DEF ShaderInv, ShaderOpen, ShaderNewestLast, TypeOK, Peers
<1>1. shader[t] \in Receivers(1 .. MaxShaders)
  OBVIOUS
<1>2. CASE SubscribeTarget(t)
  BY <1>2 DEF SubscribeTarget, Subscribed, Goto
<1>3. CASE LeaveSuperseded(t) \/ AnnounceGone(t)
  <2>1. /\ shader' = [shader EXCEPT ![t] = NoReceiver]
        /\ pc' = [pc EXCEPT ![t] = "closed"]
        /\ got' = [got EXCEPT ![t] = 0]
        /\ shaders' = shaders
    BY <1>3 DEF LeaveSuperseded, AnnounceGone, ReturnTarget, Return, Goto
  <2> QED BY <2>1 DEF NoReceiver
<1>4. CASE ForwardShader(t) /\ Lags(shader[t])
  <2>1. shader' = [shader EXCEPT ![t] = SkipLag(@)] /\ UNCHANGED <<pc, got, shaders>>
    BY <1>4 DEF ForwardShader, Ready, Lags
  <2>2. /\ SkipLag(shader[t]).open = shader[t].open
        /\ SkipLag(shader[t]).queue = shader[t].queue
        /\ ~SkipLag(shader[t]).lagged
    BY <1>1 DEF SkipLag, Receivers
  <2> QED BY <2>1, <2>2
<1>5. CASE ForwardShader(t) /\ Ready(shader[t])
  <2>1. /\ shader' = [shader EXCEPT ![t] = Taken(@)]
        /\ got' = [got EXCEPT ![t] = Head(shader[t].queue)]
        /\ UNCHANGED <<pc, shaders>>
        /\ shader[t].open /\ ~shader[t].lagged /\ shader[t].queue # <<>>
    BY <1>5 DEF ForwardShader, Ready, Lags
  <2>2. /\ Taken(shader[t]).open = shader[t].open
        /\ Taken(shader[t]).lagged = shader[t].lagged
    BY <1>1 DEF Taken, Receivers
  <2>3. LET q == Taken(shader[t]).queue IN
          /\ q = <<>> => Head(shader[t].queue) = shaders
          /\ q # <<>> => q[Len(q)] = shaders
    BY <1>1, <2>1, TakenKeepsLast
  <2> QED BY <2>1, <2>2, <2>3
<1> QED BY <1>2, <1>3, <1>4, <1>5 DEF ForwardShader

LEMMA ShaderInvariant == Spec => []ShaderInv
<1>1. Init => ShaderInv
  BY InitTypeOK DEF Init, ShaderInv, ShaderOpen, ShaderNewestLast, NoReceiver, Peers
<1>2. ShaderInv /\ [Next]_vars => ShaderInv'
  <2> SUFFICES ASSUME ShaderInv, [Next]_vars PROVE ShaderInv'
    OBVIOUS
  <2>1. TypeOK'
    BY NextTypeOK DEF ShaderInv
  <2>2. CASE UNCHANGED vars
    BY <2>1, <2>2 DEF vars, ShaderInv, ShaderOpen, ShaderNewestLast
  <2>3. CASE \E u \in UIs : RelayShader(u)
    BY <2>1, <2>3, RelayShaderInv DEF ShaderInv
  <2>4. CASE \E t \in Targets : \/ SubscribeTarget(t) \/ ForwardShader(t)
                                \/ LeaveSuperseded(t) \/ AnnounceGone(t)
    BY <2>1, <2>4, TargetShaderInv DEF ShaderInv
  <2>5. CASE Next /\ ~(\E u \in UIs : RelayShader(u))
                  /\ ~(\E t \in Targets : \/ SubscribeTarget(t) \/ ForwardShader(t)
                                           \/ LeaveSuperseded(t) \/ AnnounceGone(t))
    <3>1. /\ UNCHANGED <<shader, got, shaders>>
          /\ \A t \in Targets :
               pc'[t] \in {"loop", "cleanup", "announceGone"}
                 <=> pc[t] \in {"loop", "cleanup", "announceGone"}
      BY <2>5, ShaderFrame DEF ShaderInv
    <3> QED BY <2>1, <3>1 DEF ShaderInv, ShaderOpen, ShaderNewestLast
  <2> QED BY <2>2, <2>3, <2>4, <2>5
<1> QED BY <1>1, <1>2, PTL DEF Spec

\* However far a target falls behind, once it has read what it can it has been
\* sent the newest shader that arrived since it subscribed.
THEOREM NewestShaderDelivered == Spec => []ShaderUpToDate
<1>1. ShaderInv => ShaderUpToDate
  BY DEF ShaderInv, ShaderOpen, ShaderNewestLast, ShaderUpToDate, CaughtUp
<1> QED BY <1>1, ShaderInvariant, PTL

-----------------------------------------------------------------------------
(* Ended connections                                                        *)

\* The daemon gives up a served connection only when the peer is gone, or
\* when a UI fell behind on presence.
THEOREM ServedUntilLost == Spec => SessionEndsOnlyOnLoss
<1>1. TypeOK /\ [Next]_vars =>
        [\A p \in Peers : pc[p] = "loop" /\ pc'[p] # "loop" =>
           socket[p] = "broken" \/ (p \in UIs /\ presence[p].lagged)]_vars
  <2> SUFFICES ASSUME TypeOK, Next, NEW p \in Peers, pc[p] = "loop", pc'[p] # "loop"
               PROVE  socket[p] = "broken" \/ (p \in UIs /\ presence[p].lagged)
    OBVIOUS
  <2> USE DEF TypeOK, Peers, Goto, Return
  <2>1. ASSUME NEW q \in Peers,
               Connect(q) \/ Disconnect(q) \/ ReceiveHello(q) \/ Handshake(q)
        PROVE  FALSE
    BY <2>1 DEF Connect, Disconnect, ReceiveHello, Handshake, RejectHello,
                SendHelloAck, RefusePeer
  <2>2. ASSUME NEW u \in UIs, UiTask(u) \/ RelayShader(u)
        PROVE  p = u /\ (socket[u] = "broken" \/ presence[u].lagged)
    BY <2>2 DEF UiTask, RelayShader, SubscribeUi, ReadCurrent, SendCurrent,
                ForwardPresence, PresenceLagged, ForwardPerf, UiGone, ReturnUi, Lags
  <2>3. ASSUME NEW t \in Targets, TargetTask(t) \/ RelayPerf(t)
        PROVE  p = t /\ socket[t] = "broken"
    BY <2>3 DEF TargetTask, RelayPerf, Register, Announce, SubscribeTarget,
                ForwardShader, TargetGone, Unregister, LeaveSuperseded,
                AnnounceGone, ReturnTarget
  <2> QED BY <2>1, <2>2, <2>3 DEF Next
<1> QED BY <1>1, TypeCorrect, PTL DEF Spec, SessionEndsOnlyOnLoss

-----------------------------------------------------------------------------
(* Presence                                                                 *)

\* What u shows, or is about to show once the snapshot is written.
Shows(u) == IF pc[u] = "sendSnapshot" THEN snapshot[u] ELSE view[u]

\* A UI holds a receiver from its subscription until its task returns.
PresenceOpen ==
  \A u \in UIs :
    presence[u].open <=> pc[u] \in {"snapshot", "sendSnapshot", "loop"}

\* What a UI will read last is the newest announcement.
NewestAnnouncedLast ==
  \A u \in UIs : LET q == presence[u].queue IN
    presence[u].open /\ q # <<>> => q[Len(q)] = announced

\* A UI with nothing to read shows the newest announcement or, where none came
\* since it subscribed, the registry as it still is: the registry has not
\* changed since the snapshot, unless a target has yet to announce the change.
ShownIsRecent ==
  NoAnnouncementPending =>
    \A u \in UIs : pc[u] \in {"sendSnapshot", "loop"} /\ presence[u].queue = <<>> =>
                     Shows(u) \in {announced, currentTarget}

ViewInv == TypeOK /\ PresenceOpen /\ NewestAnnouncedLast /\ ShownIsRecent

\* The steps that neither publish, nor change the registry, nor belong to a UI.
LEMMA ViewFrame ==
  ASSUME TypeOK, Next,
         \A u \in UIs : ~UiTask(u),
         \A t \in Targets : ~Register(t) /\ ~Announce(t) /\ ~Unregister(t) /\ ~AnnounceGone(t)
  PROVE  /\ UNCHANGED <<presence, snapshot, view, currentTarget, announced>>
         /\ \A u \in UIs : \/ pc'[u] = pc[u]
                           \/ {pc[u], pc'[u]} \cap {"snapshot", "sendSnapshot", "loop"} = {}
         /\ NoAnnouncementPending' => NoAnnouncementPending
<1> USE DEF TypeOK, Peers, Goto, channels, history, NoAnnouncementPending
<1>1. ASSUME NEW p \in Peers,
             Connect(p) \/ Disconnect(p) \/ ReceiveHello(p) \/ Handshake(p)
      PROVE  /\ UNCHANGED <<presence, snapshot, view, currentTarget, announced>>
             /\ \A q \in Peers : \/ pc'[q] = pc[q]
                                 \/ /\ pc[q] \in {"closed", "hello", "ack"}
                                    /\ pc'[q] \in {"closed", "hello", "ack", "subscribe", "register"}
  BY <1>1 DEF Connect, Disconnect, ReceiveHello, Handshake, RejectHello,
              SendHelloAck, RefusePeer, Return
<1>2. ASSUME NEW u \in UIs, RelayShader(u)
      PROVE  UNCHANGED <<pc, presence, snapshot, view, currentTarget, announced>>
  BY <1>2 DEF RelayShader
<1>3. ASSUME NEW t \in Targets, \/ SubscribeTarget(t) \/ ForwardShader(t) \/ TargetGone(t)
                                \/ LeaveSuperseded(t) \/ RelayPerf(t)
      PROVE  /\ UNCHANGED <<presence, snapshot, view, currentTarget, announced>>
             /\ \A q \in Peers \ {t} : pc'[q] = pc[q]
             /\ pc[t] \notin {"announce", "announceGone"}
  BY <1>3 DEF SubscribeTarget, ForwardShader, TargetGone, LeaveSuperseded,
              ReturnTarget, Return, RelayPerf
<1>4. CASE \E p \in Peers : Connect(p) \/ Disconnect(p) \/ ReceiveHello(p) \/ Handshake(p)
  BY <1>1, <1>4
<1>5. CASE \E u \in UIs : RelayShader(u)
  BY <1>2, <1>5
<1>6. CASE \E t \in Targets : \/ SubscribeTarget(t) \/ ForwardShader(t) \/ TargetGone(t)
                              \/ LeaveSuperseded(t) \/ RelayPerf(t)
  BY <1>3, <1>6, PeersAssumption
<1> QED BY <1>4, <1>5, <1>6 DEF Next, TargetTask

LEMMA UiViewInv ==
  ASSUME ViewInv, NEW u \in UIs, UiTask(u)
  PROVE  PresenceOpen' /\ NewestAnnouncedLast' /\ ShownIsRecent'
<1> USE DEF ViewInv, TypeOK, Peers, PresenceOpen, NewestAnnouncedLast, ShownIsRecent,
            Shows, NoAnnouncementPending, Goto, history, channels
<1>1. /\ presence[u] \in Receivers(SessionIds)
      /\ \A t \in Targets : pc'[t] = pc[t]
      /\ UNCHANGED <<currentTarget, announced>>
  BY PeersAssumption DEF UiTask, SubscribeUi, ReadCurrent, SendCurrent, ForwardPresence,
         PresenceLagged, ForwardPerf, UiGone, ReturnUi, Return
<1>2. CASE SubscribeUi(u)
  BY <1>1, <1>2 DEF SubscribeUi, Subscribed
<1>3. CASE ReadCurrent(u)
  BY <1>1, <1>3 DEF ReadCurrent
<1>4. CASE SendCurrent(u)
  BY <1>1, <1>4 DEF SendCurrent
<1>5. CASE ForwardPresence(u)
  <2>1. /\ pc[u] = "loop" /\ presence[u].queue # <<>>
        /\ presence' = [presence EXCEPT ![u] = Taken(@)]
        /\ view' = [view EXCEPT ![u] = Head(presence[u].queue)]
        /\ UNCHANGED <<pc, snapshot>>
    BY <1>5 DEF ForwardPresence, Ready
  <2>2. Taken(presence[u]).open = presence[u].open
    BY <1>1 DEF Taken, Receivers
  <2>3. LET q == Taken(presence[u]).queue IN
          /\ q = <<>> => Head(presence[u].queue) = announced
          /\ q # <<>> => q[Len(q)] = announced
    <3>1. presence[u].queue[Len(presence[u].queue)] = announced
      BY <2>1
    <3> QED BY <1>1, <2>1, <3>1, TakenKeepsLast
  <2>4. PresenceOpen' /\ NewestAnnouncedLast'
    <3>1. presence'[u] = Taken(presence[u])
          /\ \A v \in UIs \ {u} : presence'[v] = presence[v]
      BY <2>1
    <3>2. PresenceOpen'
      BY <2>1, <2>2, <3>1
    <3>3. NewestAnnouncedLast'
      BY <1>1, <2>3, <3>1
    <3> QED BY <3>2, <3>3
  <2>5. ShownIsRecent'
    BY <1>1, <2>1, <2>3
  <2> QED BY <2>4, <2>5
<1>6. CASE PresenceLagged(u) \/ UiGone(u)
  <2>1. /\ presence' = [presence EXCEPT ![u] = NoReceiver]
        /\ pc' = [pc EXCEPT ![u] = "closed"]
        /\ view' = [view EXCEPT ![u] = NoTarget]
        /\ snapshot' = [snapshot EXCEPT ![u] = NoTarget]
    BY <1>6 DEF PresenceLagged, UiGone, ReturnUi, Return
  <2> QED BY <1>1, <2>1 DEF NoReceiver
<1>7. CASE ForwardPerf(u)
  BY <1>1, <1>7 DEF ForwardPerf
<1> QED BY <1>2, <1>3, <1>4, <1>5, <1>6, <1>7 DEF UiTask

\* Until it is announced, a change of the registry is pending.
LEMMA ChangeViewInv ==
  ASSUME ViewInv, NEW t \in Targets, Register(t) \/ Unregister(t)
  PROVE  PresenceOpen' /\ NewestAnnouncedLast' /\ ShownIsRecent'
<1>1. /\ UNCHANGED <<presence, announced>>
      /\ \A u \in UIs : pc'[u] = pc[u]
      /\ pc'[t] \in {"announce", "announceGone"}
  BY PeersAssumption DEF Register, Unregister, Goto, channels, history, ViewInv, TypeOK, Peers
<1> QED BY <1>1 DEF ViewInv, PresenceOpen, NewestAnnouncedLast, ShownIsRecent,
                    NoAnnouncementPending

\* An announcement leaves every subscribed UI something to read.
LEMMA AnnounceViewInv ==
  ASSUME ViewInv, NEW t \in Targets, Announce(t) \/ AnnounceGone(t)
  PROVE  PresenceOpen' /\ NewestAnnouncedLast' /\ ShownIsRecent'
<1>1. PICK target \in SessionIds : PublishPresence(target)
  <2>1. session[t] \in SessionIds /\ NoTarget \in SessionIds
    BY BoundsAssumption DEF ViewInv, TypeOK, Peers, SessionIds, NoTarget
  <2> QED BY <2>1 DEF Announce, AnnounceGone
<1>2. \A u \in UIs : /\ presence[u] \in Receivers(SessionIds)
                     /\ presence'[u] = IF presence[u].open THEN Enqueue(presence[u], target)
                                                           ELSE presence[u]
  BY <1>1 DEF PublishPresence, Publish, ViewInv, TypeOK
<1>3. \A u \in UIs : pc'[u] = pc[u]
  BY PeersAssumption DEF Announce, AnnounceGone, ReturnTarget, Return, Goto, ViewInv, TypeOK, Peers
<1>4. \A u \in UIs : presence'[u].open <=> presence[u].open
  BY <1>2 DEF Enqueue, Receivers
<1>5. \A u \in UIs : presence[u].open =>
        LET q == presence'[u].queue IN q # <<>> /\ q[Len(q)] = target
  BY <1>2, LastIsNewest
<1>6. announced' = target
  BY <1>1 DEF PublishPresence
<1> QED BY <1>3, <1>4, <1>5, <1>6
        DEF ViewInv, PresenceOpen, NewestAnnouncedLast, ShownIsRecent

LEMMA ViewInvariant == Spec => []ViewInv
<1>1. Init => ViewInv
  BY InitTypeOK DEF Init, ViewInv, PresenceOpen, NewestAnnouncedLast, ShownIsRecent,
                    NoReceiver, Peers
<1>2. ViewInv /\ [Next]_vars => ViewInv'
  <2> SUFFICES ASSUME ViewInv, [Next]_vars PROVE ViewInv'
    OBVIOUS
  <2>1. TypeOK'
    BY NextTypeOK DEF ViewInv
  <2>2. CASE UNCHANGED vars
    BY <2>1, <2>2 DEF vars, ViewInv, PresenceOpen, NewestAnnouncedLast, ShownIsRecent,
                      Shows, NoAnnouncementPending
  <2>3. CASE \E u \in UIs : UiTask(u)
    BY <2>1, <2>3, UiViewInv DEF ViewInv
  <2>4. CASE \E t \in Targets : Register(t) \/ Unregister(t)
    BY <2>1, <2>4, ChangeViewInv DEF ViewInv
  <2>5. CASE \E t \in Targets : Announce(t) \/ AnnounceGone(t)
    BY <2>1, <2>5, AnnounceViewInv DEF ViewInv
  <2>6. CASE /\ Next
             /\ \A u \in UIs : ~UiTask(u)
             /\ \A t \in Targets : /\ ~Register(t) /\ ~Announce(t)
                                   /\ ~Unregister(t) /\ ~AnnounceGone(t)
    <3>1. /\ UNCHANGED <<presence, snapshot, view, currentTarget, announced>>
          /\ \A u \in UIs : \/ pc'[u] = pc[u]
                            \/ {pc[u], pc'[u]} \cap {"snapshot", "sendSnapshot", "loop"} = {}
          /\ NoAnnouncementPending' => NoAnnouncementPending
      BY <2>6, ViewFrame DEF ViewInv
    <3>2. \A u \in UIs : \A at \in {"snapshot", "sendSnapshot", "loop"} :
            pc'[u] = at <=> pc[u] = at
      BY <3>1
    <3> QED BY <2>1, <3>1, <3>2 DEF ViewInv, PresenceOpen, NewestAnnouncedLast,
                                    ShownIsRecent, Shows
  <2> QED BY <2>2, <2>3, <2>4, <2>5, <2>6
<1> QED BY <1>1, <1>2, PTL DEF Spec

\* Subscribing before reading the registry loses nothing, with any number of
\* UIs and targets and however short the ring is: a UI with nothing left to
\* read shows the registry, if the last announcement describes it.
THEOREM ViewsAreCurrent == Spec => []ViewsFollowAnnouncements
<1>1. ViewInv => ViewsFollowAnnouncements
  BY DEF ViewInv, ShownIsRecent, ViewsFollowAnnouncements, UiUpToDate, CaughtUp, Shows
<1> QED BY <1>1, ViewInvariant, PTL

-----------------------------------------------------------------------------
(* Sequences of shader numbers                                              *)

\* q lists, in increasing order, numbers above low and up to high.
InOrder(q, low, high) ==
  /\ \A i \in 1 .. Len(q) : low < q[i] /\ q[i] <= high
  /\ \A i, j \in 1 .. Len(q) : i < j => q[i] < q[j]

\* The number that follows all others can be appended.
LEMMA AppendInOrder ==
  ASSUME NEW low \in Nat, NEW high \in Nat, NEW q \in Seq(Nat),
         low <= high, InOrder(q, low, high)
  PROVE  InOrder(Append(q, high + 1), low, high + 1)
<1> DEFINE r == Append(q, high + 1)
<1>1. Len(r) = Len(q) + 1 /\ r[Len(q) + 1] = high + 1
      /\ \A i \in 1 .. Len(q) : r[i] = q[i]
  BY AppendProperties
<1>2. \A i \in 1 .. Len(q) : q[i] \in Nat
  BY ElementOfSeq
<1>3. Len(q) \in Nat
  BY LenProperties
<1>4. \A i \in 1 .. Len(r) : i \in 1 .. Len(q) \/ i = Len(q) + 1
  BY <1>1, <1>3
<1> HIDE DEF r
<1>5. \A i \in 1 .. Len(r) : low < r[i] /\ r[i] <= high + 1
  BY <1>1, <1>2, <1>4 DEF InOrder
<1>6. \A i, j \in 1 .. Len(r) : i < j => r[i] < r[j]
  <2> TAKE i \in 1 .. Len(r), j \in 1 .. Len(r)
  <2> HAVE i < j
  <2>1. i \in 1 .. Len(q)
    BY <1>1, <1>3
  <2>2. q[i] <= high
    BY <2>1 DEF InOrder
  <2>3. CASE j = Len(q) + 1
    BY <1>1, <1>2, <2>1, <2>2, <2>3
  <2>4. CASE j \in 1 .. Len(q)
    BY <1>1, <2>1, <2>4 DEF InOrder
  <2> QED BY <1>4, <2>3, <2>4
<1>7. InOrder(r, low, high + 1)
  BY <1>5, <1>6 DEF InOrder
<1> QED BY <1>7 DEF r

\* A ring of shader numbers is one of numbers.
LEMMA ShaderQueue ==
  ASSUME NEW rx \in Receivers(1 .. MaxShaders)
  PROVE  rx.queue \in Seq(1 .. MaxShaders) /\ rx.queue \in Seq(Nat)
<1>1. rx.queue \in Seq(1 .. MaxShaders)
  BY DEF Receivers
<1>2. (1 .. MaxShaders) \subseteq Nat
  OBVIOUS
<1> QED BY <1>1, <1>2, SeqMonotonic

\* What follows the head is newer than the head.
LEMMA TailInOrder ==
  ASSUME NEW low \in Nat, NEW high \in Nat, NEW q \in Seq(Nat), q # <<>>,
         InOrder(q, low, high)
  PROVE  /\ Head(q) \in Nat
         /\ low < Head(q)
         /\ Head(q) <= high
         /\ InOrder(Tail(q), low, high)
         /\ InOrder(Tail(q), Head(q), high)
<1>1. /\ Len(q) \in Nat \ {0}
      /\ Len(Tail(q)) = Len(q) - 1
      /\ Head(q) = q[1]
      /\ \A i \in 1 .. Len(Tail(q)) : Tail(q)[i] = q[i + 1]
  BY HeadTailProperties
<1>2. 1 \in 1 .. Len(q) /\ \A i \in 1 .. Len(Tail(q)) : i + 1 \in 1 .. Len(q) /\ 1 < i + 1
  BY <1>1
<1>3. \A i \in 1 .. Len(q) : q[i] \in Nat
  BY ElementOfSeq
<1>4. \A i \in 1 .. Len(Tail(q)) :
        low < Tail(q)[i] /\ Tail(q)[i] <= high /\ Head(q) < Tail(q)[i]
  BY <1>1, <1>2 DEF InOrder
<1>5. \A i, j \in 1 .. Len(Tail(q)) : i < j => Tail(q)[i] < Tail(q)[j]
  <2> TAKE i \in 1 .. Len(Tail(q)), j \in 1 .. Len(Tail(q))
  <2> HAVE i < j
  <2>1. q[i + 1] < q[j + 1]
    BY <1>1, <1>2 DEF InOrder
  <2> QED BY <1>1, <2>1
<1>6. low < Head(q) /\ Head(q) <= high /\ Head(q) \in Nat
  BY <1>1, <1>2, <1>3 DEF InOrder
<1> QED BY <1>4, <1>5, <1>6 DEF InOrder

-----------------------------------------------------------------------------
(* The inductive invariant                                                  *)

\* Ids are handed out once: two tasks never hold the same one.
SessionsDistinct ==
  /\ \A p \in Peers : session[p] < nextSession
  /\ \A p, q \in Peers : session[p] = session[q] /\ session[p] # 0 => p = q

\* What waits for a target is in order, and newer than what it was given.
ShadersInOrder ==
  \A t \in Targets :
    /\ got[t] <= shaders
    /\ shader[t].open => InOrder(shader[t].queue, got[t], shaders)

RelayInv == /\ TypeOK /\ SessionHeld /\ SessionsDistinct
            /\ ShaderOpen /\ ShadersInOrder /\ PresenceOpen

LEMMA NextSessionsDistinct ==
  ASSUME TypeOK, SessionsDistinct, [Next]_vars
  PROVE  SessionsDistinct'
<1> USE DEF TypeOK, SessionsDistinct, SessionIds
<1>1. ASSUME \A p \in Peers : session'[p] \in {session[p], 0}, nextSession' = nextSession
      PROVE  SessionsDistinct'
  <2>1. \A p \in Peers : 0 < nextSession /\ session[p] < nextSession
    BY BoundsAssumption
  <2>2. \A p \in Peers : session'[p] < nextSession'
    BY <1>1, <2>1
  <2>3. \A p, q \in Peers : session'[p] = session'[q] /\ session'[p] # 0 => p = q
    BY <1>1
  <2> QED BY <2>2, <2>3
<1>2. CASE \E p \in Peers : ReceiveHello(p)
  BY <1>2 DEF ReceiveHello
<1>3. CASE \E p \in Peers : Connect(p) \/ Disconnect(p) \/ Handshake(p)
  <2>1. \A p \in Peers : session'[p] \in {session[p], 0}
    BY <1>3 DEF Connect, Disconnect, Handshake, RejectHello, SendHelloAck, RefusePeer, Return
  <2>2. nextSession' = nextSession
    BY <1>3 DEF Connect, Disconnect, Handshake, RejectHello, SendHelloAck, RefusePeer
  <2> QED BY <1>1, <2>1, <2>2
<1>4. CASE \E u \in UIs : UiTask(u) \/ RelayShader(u)
  <2>1. \A p \in Peers : session'[p] \in {session[p], 0}
    BY <1>4 DEF UiTask, RelayShader, SubscribeUi, ReadCurrent, SendCurrent,
         ForwardPresence, PresenceLagged, ForwardPerf, UiGone, ReturnUi, Return
  <2>2. nextSession' = nextSession
    BY <1>4 DEF UiTask, RelayShader, SubscribeUi, ReadCurrent, SendCurrent,
         ForwardPresence, PresenceLagged, ForwardPerf, UiGone, ReturnUi
  <2> QED BY <1>1, <2>1, <2>2
<1>5. CASE \E t \in Targets : TargetTask(t) \/ RelayPerf(t)
  <2>1. \A p \in Peers : session'[p] \in {session[p], 0}
    BY <1>5 DEF TargetTask, RelayPerf, Register, Announce, SubscribeTarget,
         ForwardShader, TargetGone, Unregister, LeaveSuperseded, AnnounceGone,
         ReturnTarget, Return
  <2>2. nextSession' = nextSession
    BY <1>5 DEF TargetTask, RelayPerf, Register, Announce, SubscribeTarget,
         ForwardShader, TargetGone, Unregister, LeaveSuperseded, AnnounceGone,
         ReturnTarget
  <2> QED BY <1>1, <2>1, <2>2
<1>6. CASE UNCHANGED vars
  BY <1>6 DEF vars
<1> QED BY <1>2, <1>3, <1>4, <1>5, <1>6 DEF Next

\* The ring keeps its order: an update is appended, and the head is dropped to
\* make room for it.
LEMMA EnqueueInOrder ==
  ASSUME NEW rx \in Receivers(1 .. MaxShaders), NEW low \in Nat, NEW high \in Nat,
         low <= high, InOrder(rx.queue, low, high)
  PROVE  InOrder(Enqueue(rx, high + 1).queue, low, high + 1)
<1>1. rx.queue \in Seq(1 .. MaxShaders) /\ rx.queue \in Seq(Nat)
  BY ShaderQueue
<1>2. CASE Len(rx.queue) < Capacity
  <2>1. Enqueue(rx, high + 1).queue = Append(rx.queue, high + 1)
    BY <1>2 DEF Enqueue, Receivers
  <2> QED BY <1>1, <2>1, AppendInOrder
<1>3. CASE ~(Len(rx.queue) < Capacity)
  <2>1. rx.queue # <<>>
    BY <1>1, <1>3, CapacityAssumption
  <2>2. Enqueue(rx, high + 1).queue = Append(Tail(rx.queue), high + 1)
    BY <1>3 DEF Enqueue, Receivers
  <2>3. Tail(rx.queue) \in Seq(Nat) /\ InOrder(Tail(rx.queue), low, high)
    BY <1>1, <2>1, TailInOrder, HeadTailProperties
  <2> QED BY <2>2, <2>3, AppendInOrder
<1> QED BY <1>2, <1>3

LEMMA NextShadersInOrder ==
  ASSUME TypeOK, ShaderOpen, ShadersInOrder, [Next]_vars
  PROVE  ShadersInOrder'
<1> USE DEF TypeOK, Peers, ShadersInOrder
<1>1. \A t \in Targets : /\ shader[t] \in Receivers(1 .. MaxShaders)
                         /\ got[t] \in Nat /\ shaders \in Nat
  OBVIOUS
<1>2. CASE \E u \in UIs : RelayShader(u)
  <2>1. /\ shaders' = shaders + 1 /\ got' = got
        /\ \A t \in Targets :
             shader'[t] = IF shader[t].open THEN Enqueue(shader[t], shaders + 1)
                                            ELSE shader[t]
    BY <1>2 DEF RelayShader, Publish
  <2>2. \A t \in Targets : shader[t].open =>
          InOrder(Enqueue(shader[t], shaders + 1).queue, got[t], shaders + 1)
    BY <1>1, EnqueueInOrder
  <2> QED BY <1>1, <2>1, <2>2
<1>3. ASSUME NEW t \in Targets, SubscribeTarget(t) PROVE ShadersInOrder'
  <2>1. /\ shader' = [shader EXCEPT ![t] = Subscribed]
        /\ got' = [got EXCEPT ![t] = shaders] /\ shaders' = shaders
    BY <1>3 DEF SubscribeTarget
  <2>2. InOrder(Subscribed.queue, shaders, shaders)
    BY DEF InOrder, Subscribed
  <2> QED BY <1>1, <2>1, <2>2
<1>4. ASSUME NEW t \in Targets, LeaveSuperseded(t) \/ AnnounceGone(t) PROVE ShadersInOrder'
  <2>1. /\ shader' = [shader EXCEPT ![t] = NoReceiver]
        /\ got' = [got EXCEPT ![t] = 0] /\ shaders' = shaders
    BY <1>4 DEF LeaveSuperseded, AnnounceGone, ReturnTarget
  <2>2. ~NoReceiver.open
    BY DEF NoReceiver
  <2> QED BY <1>1, <2>1, <2>2
<1>5. ASSUME NEW t \in Targets, ForwardShader(t) PROVE ShadersInOrder'
  <2>1. CASE Lags(shader[t])
    <3>1. shader' = [shader EXCEPT ![t] = SkipLag(@)] /\ UNCHANGED <<got, shaders>>
      BY <1>5, <2>1 DEF ForwardShader, Ready, Lags
    <3>2. SkipLag(shader[t]).queue = shader[t].queue /\ SkipLag(shader[t]).open = shader[t].open
      BY <1>1 DEF SkipLag, Receivers
    <3> QED BY <1>1, <3>1, <3>2
  <2>2. CASE Ready(shader[t])
    <3>1. /\ shader' = [shader EXCEPT ![t] = Taken(@)]
          /\ got' = [got EXCEPT ![t] = Head(shader[t].queue)]
          /\ shaders' = shaders
          /\ shader[t].open /\ shader[t].queue # <<>>
      BY <1>5, <2>2 DEF ForwardShader, Ready, Lags
    <3>2. Taken(shader[t]).queue = Tail(shader[t].queue) /\ shader[t].queue \in Seq(Nat)
      BY <1>1, ShaderQueue DEF Taken, Receivers
    <3>3. /\ Head(shader[t].queue) <= shaders
          /\ InOrder(Tail(shader[t].queue), Head(shader[t].queue), shaders)
      BY <1>1, <3>1, <3>2, TailInOrder
    <3> QED BY <1>1, <3>1, <3>2, <3>3
  <2> QED BY <1>5, <2>1, <2>2 DEF ForwardShader
<1>6. CASE UNCHANGED vars
  BY <1>6 DEF vars
<1>7. CASE Next /\ (\A u \in UIs : ~RelayShader(u))
           /\ \A t \in Targets : /\ ~SubscribeTarget(t) /\ ~ForwardShader(t)
                                 /\ ~LeaveSuperseded(t) /\ ~AnnounceGone(t)
  <2>1. UNCHANGED <<shader, got, shaders>>
    BY <1>7, ShaderFrame
  <2> QED BY <2>1
<1> QED BY <1>2, <1>3, <1>4, <1>5, <1>6, <1>7

LEMMA RelayInvariant == Spec => []RelayInv
<1>1. Init => SessionsDistinct /\ ShadersInOrder
  BY DEF Init, SessionsDistinct, ShadersInOrder, NoReceiver, Peers
<1>2. TypeOK /\ ShaderOpen /\ SessionsDistinct /\ ShadersInOrder /\ [Next]_vars
        => SessionsDistinct' /\ ShadersInOrder'
  BY NextSessionsDistinct, NextShadersInOrder
<1> QED BY <1>1, <1>2, RegistryInvariant, ShaderInvariant, ViewInvariant, PTL
       DEF Spec, RelayInv, RegistryInv, ShaderInv, ViewInv

-----------------------------------------------------------------------------
(* The refinement                                                           *)

LEMMA InitImplements == Init => Promise!Init
<1> SUFFICES ASSUME Init PROVE Promise!Init
  OBVIOUS
<1>1. /\ Lease = [t \in Targets |-> 0]
      /\ Due = [t \in Targets |-> {}]
      /\ Served = {}
      /\ Sent = [t \in Targets |-> 0]
  BY DEF Init, Lease, Due, Served, Sent, Peers
<1>2. \A u \in UIs : u \notin Following
  BY DEF Init, Following, NoReceiver
<1>3. /\ Following = {}
      /\ Coming = [u \in UIs |-> <<>>]
      /\ Shown = [u \in UIs |-> {}]
  BY <1>2 DEF Following, Coming, Shown
<1> QED BY <1>1, <1>3 DEF Init, Promise!Init, NoTarget

\* Where a target stands for Relay.
Registered(t) == pc[t] \in {"announce", "subscribe", "loop", "cleanup"}

\* Relay sees no more of a target than this,
LEMMA SameTargets ==
  ASSUME \A t \in Targets :
           /\ Registered(t)' <=> Registered(t)
           /\ Registered(t) => session'[t] = session[t]
           /\ \A at \in {"announce", "announceGone", "loop"} : pc'[t] = at <=> pc[t] = at
           /\ pc[t] = "loop" => got'[t] = got[t]
  PROVE  UNCHANGED <<Lease, Due, Served, Sent>>
<1>1. Lease' = Lease /\ Served' = Served /\ Sent' = Sent
  BY DEF Lease, Served, Sent, Registered
<1>2. Due' = Due
  BY DEF Due, Registered
<1> QED BY <1>1, <1>2

\* and no more of a tab than this.
LEMMA SameTabs ==
  ASSUME presence' = presence, PresenceOpen,
         \A u \in UIs : presence[u].open =>
           pc'[u] = pc[u] /\ snapshot'[u] = snapshot[u] /\ view'[u] = view[u]
  PROVE  UNCHANGED <<Following, Coming, Shown>>
<1>1. Following' = Following /\ Coming' = Coming
  BY DEF Following, Coming
<1>2. Shown' = Shown
  BY <1>1 DEF Shown, Following
<1> QED BY <1>1, <1>2

\* A step that keeps everybody in place changes nothing Relay sees.
LEMMA Stutters ==
  ASSUME UNCHANGED <<currentTarget, shaders, Lease, Due, Served, Sent>>,
         UNCHANGED <<Following, Coming, Shown>>
  PROVE  UNCHANGED Promise!vars
<1> QED BY DEF Promise!vars, Promise!targetVars, Promise!tabVars

LEMMA PeerStutters ==
  ASSUME RelayInv, NEW p \in Peers,
         Connect(p) \/ Disconnect(p) \/ ReceiveHello(p) \/ Handshake(p)
  PROVE  UNCHANGED Promise!vars
<1> USE DEF Connect, Disconnect, ReceiveHello, Handshake, RejectHello, SendHelloAck, RefusePeer
<1>1. /\ currentTarget' = currentTarget /\ shaders' = shaders /\ got' = got
      /\ presence' = presence /\ snapshot' = snapshot /\ view' = view
  BY DEF channels, history
<1>2. \A q \in Peers : \/ pc'[q] = pc[q]
                       \/ /\ pc[q] \in {"closed", "hello", "ack"}
                          /\ pc'[q] \in {"closed", "hello", "ack", "subscribe", "register"}
  BY DEF Return, Goto, RelayInv, TypeOK, Peers
<1>3. \A t \in Targets :
        /\ Registered(t)' <=> Registered(t)
        /\ Registered(t) => session'[t] = session[t]
        /\ \A at \in {"announce", "announceGone", "loop"} : pc'[t] = at <=> pc[t] = at
  BY PeersAssumption DEF Return, Goto, Registered, RelayInv, TypeOK, Peers
<1>4. \A u \in UIs : presence[u].open => pc'[u] = pc[u]
  BY <1>2 DEF RelayInv, PresenceOpen, Peers
<1>5. UNCHANGED <<Lease, Due, Served, Sent>>
  BY <1>1, <1>3, SameTargets
<1>6. UNCHANGED <<Following, Coming, Shown>>
  BY <1>1, <1>4, SameTabs DEF RelayInv
<1> QED BY <1>1, <1>5, <1>6, Stutters

LEMMA UiImplements ==
  ASSUME RelayInv, NEW u \in UIs, UiTask(u)
  PROVE  Promise!Next \/ UNCHANGED Promise!vars
<1> USE DEF RelayInv, TypeOK, Peers, Goto, PresenceOpen
<1>1. UNCHANGED Promise!targetVars
  <2>1. currentTarget' = currentTarget /\ shaders' = shaders /\ got' = got
    BY DEF UiTask, SubscribeUi, ReadCurrent, SendCurrent, ForwardPresence,
           PresenceLagged, ForwardPerf, UiGone, ReturnUi, channels, history
  <2>2. \A t \in Targets : pc'[t] = pc[t] /\ session'[t] = session[t]
    BY PeersAssumption DEF UiTask, SubscribeUi, ReadCurrent, SendCurrent, ForwardPresence,
           PresenceLagged, ForwardPerf, UiGone, ReturnUi, Return
  <2>3. \A t \in Targets : Registered(t)' <=> Registered(t)
    BY <2>2 DEF Registered
  <2> QED BY <2>1, <2>2, <2>3, SameTargets DEF Promise!targetVars
<1>2. presence[u] \in Receivers(SessionIds) /\ pc \in [Peers -> UiPcs \cup TargetPcs]
  OBVIOUS
<1>3. CASE SubscribeUi(u)
  <2>1. /\ pc[u] = "subscribe" /\ pc' = [pc EXCEPT ![u] = "snapshot"]
        /\ presence' = [presence EXCEPT ![u] = Subscribed]
        /\ UNCHANGED <<snapshot, view>>
    BY <1>3 DEF SubscribeUi, history
  <2>2. u \notin Following /\ Following' = Following \cup {u}
    BY <1>2, <2>1 DEF Following, Subscribed
  <2>3. Coming' = Coming
    BY <1>2, <2>1, <2>2 DEF Coming, Subscribed
  <2>4. Shown' = Shown
    BY <1>2, <2>1, <2>2 DEF Shown
  <2>5. Promise!Follow(u)
    BY <1>1, <2>2, <2>3, <2>4 DEF Promise!Follow
  <2> QED BY <2>5 DEF Promise!Next
<1>4. CASE ReadCurrent(u)
  <2>1. /\ pc[u] = "snapshot" /\ pc' = [pc EXCEPT ![u] = "sendSnapshot"]
        /\ snapshot' = [snapshot EXCEPT ![u] = currentTarget]
        /\ UNCHANGED <<presence, view>>
    BY <1>4 DEF ReadCurrent, channels
  <2>2. Following' = Following /\ Coming' = Coming
    BY <2>1 DEF Following, Coming
  <2>3. CASE u \in Following
    <3>1. Shown[u] = {} /\ Shown' = [Shown EXCEPT ![u] = {currentTarget}]
      BY <1>2, <2>1, <2>2, <2>3 DEF Shown
    <3>2. Promise!ShowCurrent(u)
      BY <1>1, <2>2, <2>3, <3>1 DEF Promise!ShowCurrent
    <3> QED BY <3>2 DEF Promise!Next
  <2>4. CASE u \notin Following
    <3>1. Shown' = Shown
      BY <1>2, <2>1, <2>2, <2>4 DEF Shown
    <3> QED BY <1>1, <2>2, <3>1 DEF Promise!vars, Promise!tabVars
  <2> QED BY <2>3, <2>4
<1>5. CASE SendCurrent(u)
  <2>1. /\ pc[u] = "sendSnapshot" /\ pc' = [pc EXCEPT ![u] = "loop"]
        /\ view' = [view EXCEPT ![u] = snapshot[u]]
        /\ UNCHANGED <<presence, snapshot>>
    BY <1>5 DEF SendCurrent, channels
  <2>2. Following' = Following /\ Coming' = Coming
    BY <2>1 DEF Following, Coming
  <2>3. Shown' = Shown
    BY <1>2, <2>1, <2>2 DEF Shown
  <2> QED BY <1>1, <2>2, <2>3 DEF Promise!vars, Promise!tabVars
<1>6. CASE ForwardPresence(u)
  <2>1. /\ pc[u] = "loop" /\ UNCHANGED <<pc, snapshot>>
        /\ presence' = [presence EXCEPT ![u] = Taken(@)]
        /\ view' = [view EXCEPT ![u] = Head(presence[u].queue)]
        /\ presence[u].open /\ ~presence[u].lagged /\ presence[u].queue # <<>>
    BY <1>6 DEF ForwardPresence, Ready
  <2>2. /\ presence'[u].open = presence[u].open /\ presence'[u].lagged = presence[u].lagged
        /\ presence'[u].queue = Tail(presence[u].queue)
        /\ \A v \in UIs \ {u} : presence'[v] = presence[v]
    BY <1>2, <2>1 DEF Taken, Receivers
  <2>3. u \in Following /\ Following' = Following
    BY <2>1, <2>2 DEF Following
  <2>4. Coming[u] = presence[u].queue /\ Coming' = [Coming EXCEPT ![u] = Tail(@)]
    BY <2>2, <2>3 DEF Coming
  <2>5. Shown[u] # {} /\ Shown' = [Shown EXCEPT ![u] = {Head(presence[u].queue)}]
    BY <2>1, <2>3 DEF Shown
  <2>6. Promise!ShowNext(u)
    BY <1>1, <2>1, <2>3, <2>4, <2>5 DEF Promise!ShowNext
  <2> QED BY <2>6 DEF Promise!Next
<1>7. CASE PresenceLagged(u) \/ UiGone(u)
  <2>1. /\ presence' = [presence EXCEPT ![u] = NoReceiver]
        /\ pc' = [pc EXCEPT ![u] = "closed"]
        /\ view' = [view EXCEPT ![u] = NoTarget]
        /\ snapshot' = [snapshot EXCEPT ![u] = NoTarget]
    BY <1>7 DEF PresenceLagged, UiGone, ReturnUi, Return
  <2>2. Following' = Following \ {u}
    BY <1>2, <2>1 DEF Following, NoReceiver
  <2>3. Coming' = [Coming EXCEPT ![u] = <<>>]
    BY <1>2, <2>1, <2>2 DEF Coming
  <2>4. Shown' = [Shown EXCEPT ![u] = {}]
    BY <1>2, <2>1, <2>2 DEF Shown
  <2>5. CASE u \in Following
    <3>1. Promise!Forget(u)
      BY <1>1, <2>2, <2>3, <2>4, <2>5 DEF Promise!Forget
    <3> QED BY <3>1 DEF Promise!Next
  <2>6. CASE u \notin Following
    <3>1. Following' = Following
      BY <2>2, <2>6
    <3>2. Coming' = Coming
      BY <1>2, <2>1, <2>6, <3>1 DEF Coming
    <3>3. Shown' = Shown
      BY <1>2, <2>1, <2>6, <3>1 DEF Shown
    <3> QED BY <1>1, <3>1, <3>2, <3>3 DEF Promise!vars, Promise!tabVars
  <2> QED BY <2>5, <2>6
<1>8. CASE ForwardPerf(u)
  <2>1. UNCHANGED <<pc, presence, snapshot, view>>
    BY <1>8 DEF ForwardPerf, history
  <2>2. UNCHANGED <<Following, Coming, Shown>>
    BY <2>1, SameTabs
  <2> QED BY <1>1, <2>2 DEF Promise!vars, Promise!tabVars
<1> QED BY <1>3, <1>4, <1>5, <1>6, <1>7, <1>8 DEF UiTask

LEMMA RelayShaderArrives ==
  ASSUME RelayInv, NEW u \in UIs, RelayShader(u)
  PROVE  Promise!Arrive
<1>1. /\ UNCHANGED <<pc, session, got, presence, snapshot, view, currentTarget>>
      /\ shaders' = shaders + 1
  BY DEF RelayShader
<1>2. \A t \in Targets : Registered(t)' <=> Registered(t)
  BY <1>1 DEF Registered
<1>3. UNCHANGED <<Lease, Due, Served, Sent>>
  BY <1>1, <1>2, SameTargets
<1>4. UNCHANGED <<Following, Coming, Shown>>
  BY <1>1, SameTabs DEF RelayInv
<1> QED BY <1>1, <1>3, <1>4 DEF Promise!Arrive, Promise!tabVars

\* A receiver that does not lag has been given every message, the last one too; one
\* that begins to had something to read.
LEMMA EnqueueOrLag ==
  ASSUME NEW M, NEW rx \in Receivers(M), NEW m \in M
  PROVE  LET next == Enqueue(rx, m)
         IN  /\ next.open = rx.open
             /\ rx.lagged => next.lagged
             /\ ~rx.lagged /\ next.lagged => rx.queue # <<>>
             /\ ~next.lagged => next.queue = Append(rx.queue, m)
<1>1. CASE Len(rx.queue) < Capacity
  BY <1>1 DEF Enqueue, Receivers
<1>2. CASE ~(Len(rx.queue) < Capacity)
  <2>1. rx.queue # <<>>
    BY <1>2, CapacityAssumption DEF Receivers
  <2>2. Enqueue(rx, m).lagged = TRUE /\ Enqueue(rx, m).open = rx.open
    BY <1>2 DEF Enqueue, Receivers
  <2> QED BY <2>1, <2>2
<1> QED BY <1>1, <1>2

\* A broadcast is an announcement of Relay, which gives up the tabs that lag.
LEMMA PublishAnnounces ==
  ASSUME RelayInv, NEW what \in SessionIds, PublishPresence(what),
         \A u \in UIs : pc'[u] = pc[u], UNCHANGED <<snapshot, view>>
  PROVE  \E slow \in SUBSET {u \in Following : Coming[u] # <<>>} :
           /\ Following' = Following \ slow
           /\ Coming' = [u \in UIs |-> IF u \in Following \ slow THEN Append(Coming[u], what)
                                                                 ELSE <<>>]
           /\ Shown' = [u \in UIs |-> IF u \in slow THEN {} ELSE Shown[u]]
<1> DEFINE slow == Following \ Following'
<1>1. \A u \in UIs : /\ presence[u] \in Receivers(SessionIds)
                     /\ presence'[u] = IF presence[u].open THEN Enqueue(presence[u], what)
                                                           ELSE presence[u]
  BY DEF PublishPresence, Publish, RelayInv, TypeOK
<1>2. \A u \in UIs : u \in Following => /\ presence'[u].open
                                        /\ presence'[u].lagged => presence[u].queue # <<>>
                                        /\ ~presence'[u].lagged =>
                                             presence'[u].queue = Append(presence[u].queue, what)
  BY <1>1, EnqueueOrLag DEF Following
<1>3. \A u \in UIs : u \in Following' => u \in Following
  <2> SUFFICES ASSUME NEW u \in UIs, u \in Following' PROVE u \in Following
    OBVIOUS
  <2>1. presence'[u].open /\ ~presence'[u].lagged
    BY DEF Following
  <2> QED BY <1>1, <2>1, EnqueueOrLag DEF Following
<1>4. Following \subseteq UIs /\ Following' \subseteq UIs
  BY DEF Following
<1>5. Following' = Following \ slow
  BY <1>3, <1>4
<1>6. slow \in SUBSET {u \in Following : Coming[u] # <<>>}
  <2> SUFFICES ASSUME NEW u \in slow PROVE u \in Following /\ Coming[u] # <<>>
    OBVIOUS
  <2>1. u \in UIs /\ u \in Following /\ u \notin Following'
    BY <1>4
  <2>2. presence'[u].lagged
    BY <1>2, <2>1 DEF Following
  <2> QED BY <1>2, <2>1, <2>2 DEF Coming
<1>7. \A u \in UIs : u \in Following' => presence'[u].queue = Append(Coming[u], what)
  <2> SUFFICES ASSUME NEW u \in UIs, u \in Following'
               PROVE  presence'[u].queue = Append(Coming[u], what)
    OBVIOUS
  <2>1. u \in Following /\ ~presence'[u].lagged
    BY <1>3 DEF Following
  <2> QED BY <1>2, <2>1 DEF Coming
<1>8. Coming' = [u \in UIs |-> IF u \in Following \ slow THEN Append(Coming[u], what) ELSE <<>>]
  BY <1>5, <1>7 DEF Coming
<1>9. Shown' = [u \in UIs |-> IF u \in slow THEN {} ELSE Shown[u]]
  <2>1. \A u \in UIs : u \in Following' <=> u \in Following /\ u \notin slow
    BY <1>5
  <2> HIDE DEF slow
  <2> QED BY <2>1 DEF Shown
<1> QED BY <1>5, <1>6, <1>8, <1>9

LEMMA TargetImplements ==
  ASSUME RelayInv, NEW t \in Targets, TargetTask(t) \/ RelayPerf(t)
  PROVE  Promise!Next \/ UNCHANGED Promise!vars
<1> USE DEF RelayInv, TypeOK, Peers, Goto
<1>1. t \in Peers /\ session[t] \in SessionIds
  OBVIOUS
<1>2. /\ \A u \in UIs : pc'[u] = pc[u]
      /\ snapshot' = snapshot /\ view' = view
  BY PeersAssumption DEF TargetTask, RelayPerf, Register, Announce, SubscribeTarget,
         ForwardShader, TargetGone, Unregister, LeaveSuperseded, AnnounceGone,
         ReturnTarget, Return, history
<1>3. presence' = presence => UNCHANGED Promise!tabVars
  BY <1>2, SameTabs DEF Promise!tabVars
<1>4. CASE Register(t)
  <2>1. /\ pc[t] = "register" /\ pc' = [pc EXCEPT ![t] = "announce"]
        /\ currentTarget' = session[t] /\ UNCHANGED <<session, got, shaders, presence>>
    BY <1>4 DEF Register, history, channels
  <2>2. session[t] \in 1 .. MaxSessions
    <3>1. session[t] # 0
      BY <1>1, <2>1 DEF SessionHeld
    <3> QED BY <1>1, <3>1 DEF SessionIds
  <2>3. Lease[t] = 0 /\ Due[t] = {} /\ \A other \in Targets : Lease[other] # session[t]
    BY <2>1, <2>2 DEF Lease, Due, SessionsDistinct
  <2>4. /\ Lease' = [Lease EXCEPT ![t] = session[t]]
        /\ Served' = Served /\ Sent' = Sent
    BY <2>1 DEF Lease, Served, Sent
  <2>5. Due' = [Due EXCEPT ![t] = {session[t]}]
    BY <2>1 DEF Due
  <2>6. Promise!Register(t)
    BY <1>3, <2>1, <2>2, <2>3, <2>4, <2>5 DEF Promise!Register
  <2> QED BY <2>6 DEF Promise!Next
<1>5. CASE Announce(t)
  <2>1. /\ pc[t] = "announce" /\ pc' = [pc EXCEPT ![t] = "subscribe"]
        /\ UNCHANGED <<session, got, currentTarget, shaders>>
        /\ PublishPresence(session[t])
    BY <1>5 DEF Announce
  <2>2. Due[t] = {session[t]} /\ Due' = [Due EXCEPT ![t] = {}]
    BY <2>1 DEF Due
  <2>3. Lease' = Lease /\ Served' = Served /\ Sent' = Sent
    BY <2>1 DEF Lease, Served, Sent
  <2>4. /\ Due' = [Due EXCEPT ![t] = {}]
        /\ UNCHANGED <<Lease, currentTarget, shaders, Served, Sent>>
    BY <2>1, <2>2, <2>3
  <2>5. PICK slow \in SUBSET {u \in Following : Coming[u] # <<>>} :
          /\ Following' = Following \ slow
          /\ Coming' = [u \in UIs |-> IF u \in Following \ slow
                                      THEN Append(Coming[u], session[t]) ELSE <<>>]
          /\ Shown' = [u \in UIs |-> IF u \in slow THEN {} ELSE Shown[u]]
    BY <1>1, <1>2, <2>1, PublishAnnounces
  <2>6. Promise!Announce(t)
    <3>1. session[t] \in Due[t]
      BY <2>2
    <3> QED BY <2>4, <2>5, <3>1 DEF Promise!Announce
  <2> QED BY <2>6 DEF Promise!Next
<1>6. CASE SubscribeTarget(t)
  <2>1. /\ pc[t] = "subscribe" /\ pc' = [pc EXCEPT ![t] = "loop"]
        /\ got' = [got EXCEPT ![t] = shaders]
        /\ UNCHANGED <<session, currentTarget, shaders, presence>>
    BY <1>6 DEF SubscribeTarget
  <2>2. Lease[t] # 0 /\ Due[t] = {} /\ t \notin Served
    BY <2>1 DEF Lease, Due, Served, SessionHeld
  <2>3. /\ Lease' = Lease
        /\ Served' = Served \cup {t}
        /\ Sent' = [Sent EXCEPT ![t] = shaders]
    BY <2>1 DEF Lease, Served, Sent
  <2>4. Due' = Due
    BY <2>1 DEF Due
  <2>5. Promise!Serve(t)
    BY <1>3, <2>1, <2>2, <2>3, <2>4 DEF Promise!Serve
  <2> QED BY <2>5 DEF Promise!Next
<1>7. CASE ForwardShader(t) /\ Ready(shader[t])
  <2> DEFINE n == Head(shader[t].queue)
  <2>1. /\ pc[t] = "loop" /\ got' = [got EXCEPT ![t] = n]
        /\ UNCHANGED <<pc, session, currentTarget, shaders, presence>>
        /\ shader[t].open /\ shader[t].queue # <<>>
    BY <1>7 DEF ForwardShader, Ready, Lags
  <2>2. shader[t].queue \in Seq(Nat) /\ got[t] \in Nat /\ shaders \in Nat
    <3>1. shader[t] \in Receivers(1 .. MaxShaders)
      OBVIOUS
    <3> QED BY <3>1, ShaderQueue
  <2>3. n \in got[t] + 1 .. shaders
    BY <2>1, <2>2, TailInOrder DEF ShadersInOrder
  <2>4. t \in Served /\ Sent[t] = got[t]
    BY <2>1 DEF Served, Sent
  <2>5. /\ Lease' = Lease /\ Due' = Due
        /\ Served' = Served
        /\ Sent' = [Sent EXCEPT ![t] = n]
    BY <2>1 DEF Lease, Due, Served, Sent
  <2>6. Promise!Send(t)
    BY <1>3, <2>1, <2>3, <2>4, <2>5 DEF Promise!Send
  <2> QED BY <2>6 DEF Promise!Next
<1>8. CASE TargetGone(t)
  <2>1. /\ pc[t] = "loop" /\ pc' = [pc EXCEPT ![t] = "cleanup"]
        /\ UNCHANGED <<session, got, currentTarget, shaders, presence>>
    BY <1>8 DEF TargetGone, history, channels
  <2>2. /\ Lease' = Lease /\ t \in Served
        /\ Served' = Served \ {t}
        /\ Sent' = [Sent EXCEPT ![t] = 0]
    BY <2>1 DEF Lease, Served, Sent
  <2>3. Due' = Due
    BY <2>1 DEF Due
  <2>4. Promise!StopServing(t)
    BY <1>3, <2>1, <2>2, <2>3 DEF Promise!StopServing
  <2> QED BY <2>4 DEF Promise!Next
<1>9. CASE Unregister(t) \/ LeaveSuperseded(t)
  <2>1. /\ pc[t] = "cleanup"
        /\ pc'[t] = IF currentTarget = session[t] THEN "announceGone" ELSE "closed"
        /\ \A s \in Targets \ {t} : /\ pc'[s] = pc[s] /\ session'[s] = session[s]
                                    /\ got'[s] = got[s]
        /\ shaders' = shaders /\ presence' = presence
        /\ currentTarget' = IF currentTarget = session[t] THEN 0 ELSE currentTarget
    BY <1>9 DEF Unregister, LeaveSuperseded, ReturnTarget, Return, history, channels, NoTarget
  <2>2. Lease[t] = session[t] /\ session[t] # 0 /\ Due[t] = {} /\ t \notin Served
    BY <2>1 DEF Lease, Due, Served, SessionHeld
  <2>3. /\ Lease' = [Lease EXCEPT ![t] = 0]
        /\ Served' = Served /\ Sent' = Sent
    BY <2>1 DEF Lease, Served, Sent
  <2>4. Due' = [Due EXCEPT ![t] = IF currentTarget = Lease[t] THEN {0} ELSE {}]
    BY <2>1, <2>2 DEF Due, NoTarget
  <2>5. Promise!Leave(t)
    BY <1>3, <2>1, <2>2, <2>3, <2>4 DEF Promise!Leave
  <2> QED BY <2>5 DEF Promise!Next
<1>10. CASE AnnounceGone(t)
  <2>1. /\ pc[t] = "announceGone" /\ pc'[t] = "closed"
        /\ \A s \in Targets \ {t} : /\ pc'[s] = pc[s] /\ session'[s] = session[s]
                                    /\ got'[s] = got[s]
        /\ UNCHANGED <<currentTarget, shaders>>
        /\ PublishPresence(NoTarget)
    BY <1>10 DEF AnnounceGone, ReturnTarget, Return
  <2>2. Due[t] = {NoTarget} /\ Due' = [Due EXCEPT ![t] = {}]
    BY <2>1 DEF Due
  <2>3. Lease' = Lease /\ Served' = Served /\ Sent' = Sent
    BY <2>1 DEF Lease, Served, Sent
  <2>4. NoTarget \in SessionIds
    BY BoundsAssumption DEF NoTarget, SessionIds
  <2>5. /\ Due' = [Due EXCEPT ![t] = {}]
        /\ UNCHANGED <<Lease, currentTarget, shaders, Served, Sent>>
    BY <2>1, <2>2, <2>3
  <2>6. PICK slow \in SUBSET {u \in Following : Coming[u] # <<>>} :
          /\ Following' = Following \ slow
          /\ Coming' = [u \in UIs |-> IF u \in Following \ slow
                                      THEN Append(Coming[u], NoTarget) ELSE <<>>]
          /\ Shown' = [u \in UIs |-> IF u \in slow THEN {} ELSE Shown[u]]
    BY <1>2, <2>1, <2>4, PublishAnnounces
  <2>7. Promise!Announce(t)
    <3>1. NoTarget \in Due[t]
      BY <2>2
    <3> QED BY <2>5, <2>6, <3>1 DEF Promise!Announce
  <2> QED BY <2>7 DEF Promise!Next
<1>11. CASE RelayPerf(t) \/ (ForwardShader(t) /\ ~Ready(shader[t]))
  <2>1. UNCHANGED <<currentTarget, shaders, pc, session, got, presence>>
    BY <1>11 DEF RelayPerf, ForwardShader
  <2>2. \A s \in Targets : Registered(s)' <=> Registered(s)
    BY <2>1 DEF Registered
  <2>3. UNCHANGED <<Lease, Due, Served, Sent>>
    BY <2>1, <2>2, SameTargets
  <2> QED BY <1>3, <2>1, <2>3, Stutters DEF Promise!tabVars
<1> QED BY <1>4, <1>5, <1>6, <1>7, <1>8, <1>9, <1>10, <1>11 DEF TargetTask

LEMMA StepImplements == RelayInv /\ [Next]_vars => [Promise!Next]_(Promise!vars)
<1> SUFFICES ASSUME RelayInv, [Next]_vars
             PROVE  Promise!Next \/ UNCHANGED Promise!vars
  OBVIOUS
<1>1. CASE UNCHANGED vars
  <2>1. UNCHANGED <<Lease, Due, Served, Sent>>
    BY <1>1 DEF vars, Lease, Due, Served, Sent
  <2>2. UNCHANGED <<Following, Coming, Shown>>
    BY <1>1 DEF vars, Following, Coming, Shown
  <2> QED BY <1>1, <2>1, <2>2, Stutters DEF vars
<1>2. CASE \E p \in Peers : Connect(p) \/ Disconnect(p) \/ ReceiveHello(p) \/ Handshake(p)
  BY <1>2, PeerStutters
<1>3. CASE \E u \in UIs : UiTask(u)
  BY <1>3, UiImplements
<1>4. CASE \E u \in UIs : RelayShader(u)
  BY <1>4, RelayShaderArrives DEF Promise!Next
<1>5. CASE \E t \in Targets : TargetTask(t) \/ RelayPerf(t)
  BY <1>5, TargetImplements
<1> QED BY <1>1, <1>2, <1>3, <1>4, <1>5 DEF Next

\* The daemon keeps the promise it makes to render targets and tabs, with any number
\* of peers coming, going and falling behind.
THEOREM DaemonImplementsRelay == Spec => ImplementsRelay
<1> QED BY InitImplements, StepImplements, RelayInvariant, PTL
       DEF Spec, ImplementsRelay, Promise!Spec
=============================================================================
