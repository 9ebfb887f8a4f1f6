------------------------------ MODULE BridgeCore -----------------------------
(***************************************************************************)
(* The bridge daemon (src/bridge/core): the single-target registry of       *)
(* lib.rs and the per-connection tasks of ws.rs, one task per accepted      *)
(* WebSocket.  A task is interruptible wherever it awaits or gives up the   *)
(* registry lock, so taking the lock, publishing, subscribing and writing   *)
(* to the socket are steps of their own.                                    *)
(*                                                                         *)
(* A peer is a connection slot: it may connect again after its task ended,  *)
(* under a fresh session id.  TargetInfo is abstracted to its session id    *)
(* (0: no target), a ShaderUpdate to its number of arrival, a DeviceInfo or *)
(* PerfSample to the session it came from.                                  *)
(***************************************************************************)
EXTENDS Broadcast

CONSTANTS
  UIs,          \* connection slots of browser tabs
  Targets,      \* connection slots of render targets
  MaxSessions,  \* bound: session ids handed out (u64 in the code)
  MaxShaders,   \* bound: ShaderUpdates that arrive
  MaxPerf       \* bound: DeviceInfo and PerfSample messages that arrive

ASSUME PeersAssumption == UIs \cap Targets = {}
ASSUME BoundsAssumption == /\ MaxSessions \in Nat
                           /\ MaxShaders \in Nat
                           /\ MaxPerf \in Nat

VARIABLES
  pc,            \* pc[p]: where the task of p's connection is
  socket,        \* socket[p]: "none", "open", or "broken" once the peer is gone
  session,       \* session[p]: the id the task holds; 0 before Hello
  nextSession,   \* NEXT_SESSION_ID
  currentTarget, \* AppState.current_target: a session id, or 0
  presence,      \* presence_tx: the receiver of every UI
  perf,          \* perf_tx: the receiver of every UI
  shader,        \* shader_tx: the receiver of every target
  snapshot,      \* snapshot[u]: the value run_ui_peer cloned out of the lock
  view,          \* view[u]: the last PresenceUpdate written to u's socket, while open
  got,           \* got[t]: the number of shaders t is up to date with, while open
  shaders,       \* how many ShaderUpdates have arrived
  perfs,         \* how many DeviceInfo/PerfSample messages have arrived
  announced      \* history: the last PresenceUpdate published, 0 before any

vars == <<pc, socket, session, nextSession, currentTarget, presence, perf,
          shader, snapshot, view, got, shaders, perfs, announced>>

Peers == UIs \cup Targets
NoTarget == 0
SessionIds == 0 .. MaxSessions

UiPcs == {"closed", "hello", "ack", "subscribe", "snapshot", "sendSnapshot",
          "loop"}
TargetPcs == {"closed", "hello", "ack", "register", "announce", "subscribe",
              "loop", "cleanup", "announceGone"}

TypeOK ==
  /\ pc \in [Peers -> UiPcs \cup TargetPcs]
  /\ \A u \in UIs : pc[u] \in UiPcs
  /\ \A t \in Targets : pc[t] \in TargetPcs
  /\ socket \in [Peers -> {"none", "open", "broken"}]
  /\ session \in [Peers -> SessionIds]
  /\ nextSession \in 1 .. MaxSessions + 1
  /\ currentTarget \in SessionIds
  /\ presence \in [UIs -> Receivers(SessionIds)]
  /\ perf \in [UIs -> Receivers(SessionIds)]
  /\ shader \in [Targets -> Receivers(1 .. MaxShaders)]
  /\ snapshot \in [UIs -> SessionIds]
  /\ view \in [UIs -> SessionIds]
  /\ got \in [Targets -> 0 .. MaxShaders]
  /\ shaders \in 0 .. MaxShaders
  /\ perfs \in 0 .. MaxPerf
  /\ announced \in SessionIds

Init ==
  /\ pc = [p \in Peers |-> "closed"]
  /\ socket = [p \in Peers |-> "none"]
  /\ session = [p \in Peers |-> 0]
  /\ nextSession = 1
  /\ currentTarget = NoTarget
  /\ presence = [u \in UIs |-> NoReceiver]
  /\ perf = [u \in UIs |-> NoReceiver]
  /\ shader = [t \in Targets |-> NoReceiver]
  /\ snapshot = [u \in UIs |-> NoTarget]
  /\ view = [u \in UIs |-> NoTarget]
  /\ got = [t \in Targets |-> 0]
  /\ shaders = 0
  /\ perfs = 0
  /\ announced = NoTarget

channels == <<presence, perf, shader>>
history  == <<view, snapshot, got, shaders, perfs, announced>>

-----------------------------------------------------------------------------
(* Helpers: how a task moves on, publishes and ends.                        *)

Goto(p, to) == pc' = [pc EXCEPT ![p] = to]

\* The task returns: the socket and the session id go with it.
Return(p) ==
  /\ Goto(p, "closed")
  /\ socket' = [socket EXCEPT ![p] = "none"]
  /\ session' = [session EXCEPT ![p] = 0]

\* run_ui_peer returns: presence_rx and perf_rx are dropped.
ReturnUi(u) ==
  /\ Return(u)
  /\ presence' = [presence EXCEPT ![u] = NoReceiver]
  /\ perf' = [perf EXCEPT ![u] = NoReceiver]
  /\ snapshot' = [snapshot EXCEPT ![u] = NoTarget]
  /\ view' = [view EXCEPT ![u] = NoTarget]
  /\ UNCHANGED <<nextSession, currentTarget, shader, got, shaders, perfs, announced>>

PublishPresence(target) ==
  /\ presence' = Publish(presence, target)
  /\ announced' = target

-----------------------------------------------------------------------------
(* The environment: a peer opens a connection, or disappears.               *)

Connect(p) ==
  /\ pc[p] = "closed"
  /\ Goto(p, "hello")
  /\ socket' = [socket EXCEPT ![p] = "open"]
  /\ UNCHANGED <<session, nextSession, currentTarget, channels, history>>

Disconnect(p) ==
  /\ socket[p] = "open"
  /\ socket' = [socket EXCEPT ![p] = "broken"]
  /\ UNCHANGED <<pc, session, nextSession, currentTarget, channels, history>>

-----------------------------------------------------------------------------
(* handle_socket                                                            *)

\* The connection ends, or its first frame is not a decodable Hello.
RejectHello(p) ==
  /\ pc[p] = "hello"
  /\ Return(p)
  /\ UNCHANGED <<nextSession, currentTarget, channels, history>>

ReceiveHello(p) ==
  /\ pc[p] = "hello"
  /\ socket[p] = "open"
  /\ nextSession <= MaxSessions
  /\ session' = [session EXCEPT ![p] = nextSession]
  /\ nextSession' = nextSession + 1
  /\ Goto(p, "ack")
  /\ UNCHANGED <<socket, currentTarget, channels, history>>

\* The ack goes out and the role selects run_ui_peer or run_target_peer.
SendHelloAck(p) ==
  /\ pc[p] = "ack"
  /\ socket[p] = "open"
  /\ Goto(p, IF p \in UIs THEN "subscribe" ELSE "register")
  /\ UNCHANGED <<socket, session, nextSession, currentTarget, channels, history>>

\* The ack cannot be written, or Hello.role was UNSPECIFIED.
RefusePeer(p) ==
  /\ pc[p] = "ack"
  /\ Return(p)
  /\ UNCHANGED <<nextSession, currentTarget, channels, history>>

-----------------------------------------------------------------------------
(* run_ui_peer                                                              *)

SubscribeUi(u) ==
  /\ pc[u] = "subscribe"
  /\ Goto(u, "snapshot")
  /\ presence' = [presence EXCEPT ![u] = Subscribed]
  /\ perf' = [perf EXCEPT ![u] = Subscribed]
  /\ UNCHANGED <<socket, session, nextSession, currentTarget, shader, history>>

ReadCurrent(u) ==
  /\ pc[u] = "snapshot"
  /\ Goto(u, "sendSnapshot")
  /\ snapshot' = [snapshot EXCEPT ![u] = currentTarget]
  /\ UNCHANGED <<socket, session, nextSession, currentTarget, channels, view,
                 got, shaders, perfs, announced>>

\* Mutant: subscribes only after the snapshot was written.
SendCurrentThenSubscribe(u) ==
  /\ pc[u] = "sendSnapshot"
  /\ socket[u] = "open"
  /\ Goto(u, "loop")
  /\ view' = [view EXCEPT ![u] = snapshot[u]]
  /\ presence' = [presence EXCEPT ![u] = Subscribed]
  /\ UNCHANGED <<socket, session, nextSession, currentTarget, perf, shader,
                 snapshot, got, shaders, perfs, announced>>

SendCurrent(u) ==
  /\ pc[u] = "sendSnapshot"
  /\ socket[u] = "open"
  /\ Goto(u, "loop")
  /\ view' = [view EXCEPT ![u] = snapshot[u]]
  /\ UNCHANGED <<socket, session, nextSession, currentTarget, channels,
                 snapshot, got, shaders, perfs, announced>>

\* presence_rx.recv() answers Ok and the write succeeds.
ForwardPresence(u) ==
  /\ pc[u] = "loop"
  /\ Ready(presence[u])
  /\ socket[u] = "open"
  /\ view' = [view EXCEPT ![u] = Head(presence[u].queue)]
  /\ presence' = [presence EXCEPT ![u] = Taken(@)]
  /\ UNCHANGED <<pc, socket, session, nextSession, currentTarget, perf, shader,
                 snapshot, got, shaders, perfs, announced>>

\* presence_rx.recv() answers Err(Lagged): the connection is given up.
PresenceLagged(u) ==
  /\ pc[u] = "loop"
  /\ Lags(presence[u])
  /\ ReturnUi(u)

\* Mutant: treats a lag on perf_rx like one on presence_rx.
ForwardPerfOrQuit(u) ==
  /\ pc[u] = "loop"
  /\ \/ /\ Ready(perf[u])
        /\ socket[u] = "open"
        /\ perf' = [perf EXCEPT ![u] = Taken(@)]
        /\ UNCHANGED <<pc, socket, session, nextSession, currentTarget,
                       presence, shader, history>>
     \/ Lags(perf[u]) /\ ReturnUi(u)

\* perf_rx.recv(): a message is written, a lag is skipped.
ForwardPerf(u) ==
  /\ pc[u] = "loop"
  /\ \/ /\ Ready(perf[u])
        /\ socket[u] = "open"
        /\ perf' = [perf EXCEPT ![u] = Taken(@)]
     \/ /\ Lags(perf[u])
        /\ perf' = [perf EXCEPT ![u] = SkipLag(@)]
  /\ UNCHANGED <<pc, socket, session, nextSession, currentTarget, presence,
                 shader, history>>

\* socket.recv() yields a ShaderUpdate, relayed to shader_tx.  With no
\* receiver the send fails and the update is dropped.
RelayShader(u) ==
  /\ pc[u] = "loop"
  /\ socket[u] = "open"
  /\ shaders < MaxShaders
  /\ shaders' = shaders + 1
  /\ shader' = Publish(shader, shaders + 1)
  /\ UNCHANGED <<pc, socket, session, nextSession, currentTarget, presence,
                 perf, snapshot, view, got, perfs, announced>>

\* A write fails or socket.recv() ends.
UiGone(u) ==
  /\ pc[u] \in {"sendSnapshot", "loop"}
  /\ socket[u] = "broken"
  /\ ReturnUi(u)

-----------------------------------------------------------------------------
(* run_target_peer                                                          *)

Register(t) ==
  /\ pc[t] = "register"
  /\ Goto(t, "announce")
  /\ currentTarget' = session[t]
  /\ UNCHANGED <<socket, session, nextSession, channels, history>>

Announce(t) ==
  /\ pc[t] = "announce"
  /\ Goto(t, "subscribe")
  /\ PublishPresence(session[t])
  /\ UNCHANGED <<socket, session, nextSession, currentTarget, perf, shader,
                 snapshot, view, got, shaders, perfs>>

SubscribeTarget(t) ==
  /\ pc[t] = "subscribe"
  /\ Goto(t, "loop")
  /\ shader' = [shader EXCEPT ![t] = Subscribed]
  /\ got' = [got EXCEPT ![t] = shaders]
  /\ UNCHANGED <<socket, session, nextSession, currentTarget, presence, perf,
                 snapshot, view, shaders, perfs, announced>>

\* Mutant: subscribes again after a lag, losing what was retained.
ForwardShaderOrResubscribe(t) ==
  /\ pc[t] = "loop"
  /\ \/ /\ Ready(shader[t])
        /\ socket[t] = "open"
        /\ got' = [got EXCEPT ![t] = Head(shader[t].queue)]
        /\ shader' = [shader EXCEPT ![t] = Taken(@)]
     \/ /\ Lags(shader[t])
        /\ shader' = [shader EXCEPT ![t] = Subscribed]
        /\ UNCHANGED got
  /\ UNCHANGED <<pc, socket, session, nextSession, currentTarget, presence,
                 perf, snapshot, view, shaders, perfs, announced>>

\* shader_rx.recv(): an update is written, a lag is skipped.
ForwardShader(t) ==
  /\ pc[t] = "loop"
  /\ \/ /\ Ready(shader[t])
        /\ socket[t] = "open"
        /\ got' = [got EXCEPT ![t] = Head(shader[t].queue)]
        /\ shader' = [shader EXCEPT ![t] = Taken(@)]
     \/ /\ Lags(shader[t])
        /\ shader' = [shader EXCEPT ![t] = SkipLag(@)]
        /\ UNCHANGED got
  /\ UNCHANGED <<pc, socket, session, nextSession, currentTarget, presence,
                 perf, snapshot, view, shaders, perfs, announced>>

\* socket.recv() yields a DeviceInfo or PerfSample, relayed to perf_tx.
RelayPerf(t) ==
  /\ pc[t] = "loop"
  /\ socket[t] = "open"
  /\ perfs < MaxPerf
  /\ perfs' = perfs + 1
  /\ perf' = Publish(perf, session[t])
  /\ UNCHANGED <<pc, socket, session, nextSession, currentTarget, presence,
                 shader, snapshot, view, got, shaders, announced>>

\* shader_rx is dropped with the task.
ReturnTarget(t) ==
  /\ Return(t)
  /\ shader' = [shader EXCEPT ![t] = NoReceiver]
  /\ got' = [got EXCEPT ![t] = 0]
  /\ UNCHANGED <<nextSession, perf, snapshot, view, shaders, perfs>>

\* Mutant: returns where the code breaks, skipping the cleanup.
TargetGoneAtOnce(t) ==
  /\ pc[t] = "loop"
  /\ socket[t] = "broken"
  /\ ReturnTarget(t)
  /\ UNCHANGED <<currentTarget, presence, announced>>

\* A write fails or socket.recv() ends: break out of the loop.
TargetGone(t) ==
  /\ pc[t] = "loop"
  /\ socket[t] = "broken"
  /\ Goto(t, "cleanup")
  /\ UNCHANGED <<socket, session, nextSession, currentTarget, channels, history>>

\* Mutant: clears whatever is registered.
UnregisterAny(t) ==
  /\ pc[t] = "cleanup"
  /\ currentTarget' = NoTarget
  /\ Goto(t, "announceGone")
  /\ UNCHANGED <<socket, session, nextSession, channels, history>>

\* The registry is cleared only by the session it names.
Unregister(t) ==
  /\ pc[t] = "cleanup"
  /\ currentTarget = session[t]
  /\ currentTarget' = NoTarget
  /\ Goto(t, "announceGone")
  /\ UNCHANGED <<socket, session, nextSession, channels, history>>

LeaveSuperseded(t) ==
  /\ pc[t] = "cleanup"
  /\ currentTarget # session[t]
  /\ ReturnTarget(t)
  /\ UNCHANGED <<currentTarget, presence, announced>>

AnnounceGone(t) ==
  /\ pc[t] = "announceGone"
  /\ ReturnTarget(t)
  /\ PublishPresence(NoTarget)
  /\ UNCHANGED currentTarget

-----------------------------------------------------------------------------

Handshake(p) == RejectHello(p) \/ SendHelloAck(p) \/ RefusePeer(p)

UiTask(u) == \/ SubscribeUi(u) \/ ReadCurrent(u) \/ SendCurrent(u)
             \/ ForwardPresence(u) \/ PresenceLagged(u) \/ ForwardPerf(u)
             \/ UiGone(u)

TargetTask(t) == \/ Register(t) \/ Announce(t) \/ SubscribeTarget(t)
                 \/ ForwardShader(t) \/ TargetGone(t) \/ Unregister(t)
                 \/ LeaveSuperseded(t) \/ AnnounceGone(t)

Next ==
  \/ \E p \in Peers : Connect(p) \/ Disconnect(p) \/ ReceiveHello(p)
                      \/ Handshake(p)
  \/ \E u \in UIs : UiTask(u) \/ RelayShader(u)
  \/ \E t \in Targets : TargetTask(t) \/ RelayPerf(t)

Spec == Init /\ [][Next]_vars

\* tokio polls every woken task and select! picks among its ready arms at
\* random: each arm that stays ready is taken.  Peers owe nothing.
Fairness ==
  /\ \A p \in Peers : WF_vars(Handshake(p))
  /\ \A u \in UIs : /\ WF_vars(SubscribeUi(u) \/ ReadCurrent(u) \/ SendCurrent(u))
                    /\ WF_vars(ForwardPresence(u) \/ PresenceLagged(u))
                    /\ WF_vars(ForwardPerf(u))
                    /\ WF_vars(UiGone(u))
  /\ \A t \in Targets : /\ WF_vars(Register(t) \/ Announce(t) \/ SubscribeTarget(t))
                        /\ WF_vars(ForwardShader(t))
                        /\ WF_vars(TargetGone(t))
                        /\ WF_vars(Unregister(t) \/ LeaveSuperseded(t) \/ AnnounceGone(t))

FairSpec == Spec /\ Fairness

-----------------------------------------------------------------------------
(* Properties                                                               *)

\* The registry never outlives the connection it names: its session is that
\* of a target task which has registered and has not yet run its cleanup
\* (run_target_peer's `was_current` block is reached on every way out).
RegistryNamesLiveTarget ==
  currentTarget # NoTarget =>
    \E t \in Targets : /\ session[t] = currentTarget
                       /\ pc[t] \in {"announce", "subscribe", "loop", "cleanup"}

\* A leaving target clears the registry only when the entry is its own: a
\* device which took over in the meantime keeps its registration.
RegistryClearedByOwner ==
  [][currentTarget # NoTarget /\ currentTarget' = NoTarget =>
       \E t \in Targets : session[t] = currentTarget /\ pc[t] = "cleanup"]_vars

\* The daemon as Relay sees it: a target is registered from the change of the
\* registry to its cleanup, and served while its task is in the loop.
Lease  == [t \in Targets |->
             IF pc[t] \in {"announce", "subscribe", "loop", "cleanup"}
               THEN session[t] ELSE 0]
Due    == [t \in Targets |->
             CASE pc[t] = "announce"     -> {session[t]}
               [] pc[t] = "announceGone" -> {NoTarget}
               [] OTHER                  -> {}]
Served == {t \in Targets : pc[t] = "loop"}
Sent   == [t \in Targets |-> IF pc[t] = "loop" THEN got[t] ELSE 0]

\* A tab follows from its subscription until its ring has lost something; it is
\* shown the registry from the moment that is read.
Following == {u \in UIs : presence[u].open /\ ~presence[u].lagged}
Coming    == [u \in UIs |-> IF u \in Following THEN presence[u].queue ELSE <<>>]
Shown     == [u \in UIs |->
                CASE u \in Following /\ pc[u] = "sendSnapshot" -> {snapshot[u]}
                  [] u \in Following /\ pc[u] = "loop"         -> {view[u]}
                  [] OTHER                                     -> {}]

Promise == INSTANCE Relay WITH
  Sessions <- 1 .. MaxSessions, Tabs <- UIs, lease <- Lease, current <- currentTarget,
  due <- Due, arrived <- shaders, served <- Served, sent <- Sent,
  following <- Following, coming <- Coming, shown <- Shown

\* The tasks, however they interleave and whatever their channels drop, keep the
\* relay's promise: the registry follows the order of registration, only its owner
\* clears it and each change is broadcast; a tab is shown the registry as it was
\* when it subscribed or later and every broadcast since, in order, or loses its
\* connection; and no target is sent a shader twice, out of order or from before it
\* was served (run_ui_peer, and run_target_peer's select! loop and cleanup).
ImplementsRelay == Promise!Spec

\* No target is between changing the registry and broadcasting the change.
NoAnnouncementPending == \A t \in Targets : pc[t] \notin {"announce", "announceGone"}

UiUpToDate(u) == pc[u] = "loop" /\ CaughtUp(presence[u])

\* Subscribing before reading the registry loses nothing: when the last
\* broadcast describes the registry, so does every UI with nothing left to
\* read, whenever it connected (the comment at the head of run_ui_peer).
ViewsFollowAnnouncements ==
  NoAnnouncementPending /\ announced = currentTarget =>
    \A u \in UIs : UiUpToDate(u) => view[u] = currentTarget

\* A target which has read all it can has been given the newest shader that
\* arrived since it subscribed: a lag loses older updates, never the last.
ShaderUpToDate ==
  \A t \in Targets :
    pc[t] = "loop" /\ CaughtUp(shader[t]) => got[t] = shaders

\* The daemon ends a connection on its own in one case only, a UI which fell
\* behind on presence; lagging on shaders or on perf samples ends none.
SessionEndsOnlyOnLoss ==
  [][\A p \in Peers :
       pc[p] = "loop" /\ pc'[p] # "loop" =>
         socket[p] = "broken" \/ (p \in UIs /\ presence[p].lagged)]_vars

\* A UI which stays connected comes to show the registry's target.  Exempt is a
\* registry that the last broadcast does not describe: two targets which take
\* the lock in one order and broadcast in the other leave it so for good.
ViewsConverge ==
  \A u \in UIs : pc[u] = "loop" /\ view[u] # currentTarget
                   ~> \/ pc[u] # "loop" \/ view[u] = currentTarget
                      \/ announced # currentTarget

\* A target whose connection broke does not stay in the registry, whether its
\* task is still there or has ended.
DeadTargetUnregistered ==
  \A s \in 1 .. MaxSessions :
    /\ currentTarget = s
    /\ \A t \in Targets : session[t] = s => socket[t] = "broken"
    ~> currentTarget # s

(* What the repository's documents say and the daemon does not do.          *)

\* v1.proto:31-34, "Sent to every UI peer whenever the connected target
\* changes": once the broadcasts are made and read, UIs show the registry.
\* Two targets which take the lock in one order and broadcast in the other
\* leave every UI with the wrong device for good.
NoStaleView ==
  NoAnnouncementPending =>
    \A u \in UIs : UiUpToDate(u) => view[u] = currentTarget
=============================================================================
