------------------------------ MODULE BrowserTab -----------------------------
(***************************************************************************)
(* A browser tab's end of the bridge: the BridgeClient class of             *)
(* src/src/bridge/bridge-client.ts and the perf readout that App.vue makes   *)
(* of it.                                                                   *)
(*                                                                         *)
(* JavaScript runs one task at a time: every event handler is a step.  A    *)
(* WebSocket object is a slot which is used again once it is closed, and so *)
(* is the session of a target.  The daemon is an environment which keeps to *)
(* ws.rs: HelloAck; the subscription, the read of the registry, which is    *)
(* sent first; then presence updates in order and the targets' reports in   *)
(* order, merged at random.  A target changes the registry in one step and  *)
(* announces it in another, and two targets may do so in crossing order.    *)
(***************************************************************************)
EXTENDS Naturals, Sequences, FiniteSets

CONSTANTS
  Sockets,        \* WebSocket objects
  Devices,        \* targets the daemon may have attached
  NoSocket, NoDevice,
  MaxConnects,    \* bound: calls of connect() (App.vue makes one)
  MaxDisconnects, \* bound: calls of disconnect() (App.vue makes none)
  MaxQueued,      \* bound: updates, and reports, under way on a connection
  MaxDue          \* bound: departures still to be announced

ASSUME NamesAssumption == NoSocket \notin Sockets /\ NoDevice \notin Devices
ASSUME BoundsAssumption ==
  /\ MaxConnects \in Nat /\ MaxDisconnects \in Nat
  /\ MaxQueued \in Nat /\ MaxDue \in Nat

VARIABLES
  conn,        \* conn[s]: readyState of s, OPEN split by what s has received
  socket,      \* BridgeClient.socket
  timer,       \* BridgeClient.reconnectTimer is set
  stopped,     \* BridgeClient.stopped
  status,      \* BridgeClient.status.state
  device,      \* BridgeClient.status.device
  readout,     \* App.vue: which of latestDeviceInfo and latestPerfSample are set
  attached,    \* the daemon's registry: the current target
  due,         \* due[d]: announcements of d which tasks have still to make
  announced,   \* the last target, or absence of one, that was announced
  peer,        \* peer[s]: how far the daemon's task for s is
  presence,    \* presence[s]: updates under way to s
  reports,     \* reports[s]: DeviceInfo and PerfSample messages under way to s
  connects, disconnects

vars == <<conn, socket, timer, stopped, status, device, readout, attached, due,
          announced, peer, presence, reports, connects, disconnects>>

Kinds == {"info", "perf"}
MaybeDevice == Devices \cup {NoDevice}

TypeOK ==
  /\ conn \in [Sockets -> {"closed", "connecting", "open", "acked", "present", "closing"}]
  /\ socket \in Sockets \cup {NoSocket}
  /\ timer \in BOOLEAN /\ stopped \in BOOLEAN
  /\ status \in {"disconnected", "connecting", "connected"}
  /\ device \in MaybeDevice
  /\ device # NoDevice => status = "connected"
  /\ readout \subseteq Kinds
  /\ attached \in MaybeDevice /\ announced \in MaybeDevice
  /\ due \in [MaybeDevice -> Nat]
  /\ peer \in [Sockets -> {"none", "subscribed", "served"}]
  /\ presence \in [Sockets -> Seq(MaybeDevice)]
  /\ reports \in [Sockets -> Seq(Kinds)]
  /\ connects \in 0 .. MaxConnects /\ disconnects \in 0 .. MaxDisconnects

Init ==
  /\ conn = [s \in Sockets |-> "closed"]
  /\ socket = NoSocket
  /\ timer = FALSE
  /\ stopped = FALSE
  /\ status = "disconnected" /\ device = NoDevice
  /\ readout = {}
  /\ attached \in MaybeDevice /\ announced = attached
  /\ due = [d \in MaybeDevice |-> 0]
  /\ peer = [s \in Sockets |-> "none"]
  /\ presence = [s \in Sockets |-> <<>>]
  /\ reports = [s \in Sockets |-> <<>>]
  /\ connects = 0 /\ disconnects = 0

client   == <<socket, timer, stopped>>
shown    == <<status, device, readout>>
registry == <<attached, due, announced>>
daemon   == <<registry, peer, presence, reports>>
budget   == <<connects, disconnects>>

-----------------------------------------------------------------------------
(* BridgeClient                                                             *)

\* setStatus, with App.vue's onStatusChange.
SetStatus(state, dev) ==
  /\ status' = state
  /\ device' = dev
  /\ readout' = IF dev = NoDevice THEN {} ELSE readout

\* new WebSocket, in a free slot, whichever that is.
NewSocket ==
  LET free == {s \in Sockets : conn[s] = "closed"} IN
  /\ free # {}
  /\ socket' = CHOOSE s \in free : TRUE
  /\ conn' = [conn EXCEPT ![socket'] = "connecting"]

OpenSocket == NewSocket /\ SetStatus("connecting", NoDevice)

Connect ==
  /\ connects < MaxConnects
  /\ connects' = connects + 1
  /\ stopped' = FALSE
  /\ OpenSocket
  /\ UNCHANGED <<timer, daemon, disconnects>>

\* The status is left as it is.
Disconnect ==
  /\ disconnects < MaxDisconnects
  /\ disconnects' = disconnects + 1
  /\ stopped' = TRUE
  /\ timer' = FALSE
  /\ socket' = NoSocket
  /\ conn' = [s \in Sockets |-> IF s = socket THEN "closing" ELSE conn[s]]
  /\ UNCHANGED <<shown, daemon, connects>>

\* onopen sends Hello.
SocketOpens(s) ==
  /\ conn[s] = "connecting"
  /\ conn' = [conn EXCEPT ![s] = "open"]
  /\ UNCHANGED <<client, shown, daemon, budget>>

\* onmessage, whichever socket it came over.
ReceiveHelloAck(s) ==
  /\ conn[s] = "open"
  /\ conn' = [conn EXCEPT ![s] = "acked"]
  /\ SetStatus("connected", NoDevice)
  /\ UNCHANGED <<client, daemon, budget>>

\* Mutant: an update without a target is taken for one that says nothing.
ReceivePresenceOfTarget(s) ==
  /\ conn[s] \in {"acked", "present"} /\ peer[s] = "served"
  /\ presence[s] # <<>>
  /\ conn' = [conn EXCEPT ![s] = "present"]
  /\ presence' = [presence EXCEPT ![s] = Tail(@)]
  /\ IF Head(presence[s]) = NoDevice THEN UNCHANGED shown
                                     ELSE SetStatus("connected", Head(presence[s]))
  /\ UNCHANGED <<client, registry, peer, reports, budget>>

ReceivePresence(s) ==
  /\ conn[s] \in {"acked", "present"} /\ peer[s] = "served"
  /\ presence[s] # <<>>
  /\ conn' = [conn EXCEPT ![s] = "present"]
  /\ presence' = [presence EXCEPT ![s] = Tail(@)]
  /\ SetStatus("connected", Head(presence[s]))
  /\ UNCHANGED <<client, registry, peer, reports, budget>>

\* onDeviceInfo and onPerfSample.
ReceiveReport(s) ==
  /\ conn[s] = "present"
  /\ reports[s] # <<>>
  /\ reports' = [reports EXCEPT ![s] = Tail(@)]
  /\ readout' = readout \cup {Head(reports[s])}
  /\ UNCHANGED <<conn, client, status, device, registry, peer, presence, budget>>

\* The connection is gone, with what was under way on it.
Closed(s) ==
  /\ conn[s] # "closed"
  /\ conn' = [conn EXCEPT ![s] = "closed"]
  /\ peer' = [peer EXCEPT ![s] = "none"]
  /\ presence' = [presence EXCEPT ![s] = <<>>]
  /\ reports' = [reports EXCEPT ![s] = <<>>]
  /\ UNCHANGED <<registry, budget>>

\* Mutant: tells nobody before the reconnection.
SocketClosesSilently(s) ==
  /\ Closed(s)
  /\ \/ /\ socket = s
        /\ socket' = NoSocket
        /\ timer' = (timer \/ ~stopped)
     \/ socket # s /\ UNCHANGED <<socket, timer>>
  /\ UNCHANGED <<stopped, shown>>

\* Mutant: reconnects after a connection that was up only.
SocketClosesForGood(s) ==
  /\ Closed(s)
  /\ \/ /\ socket = s
        /\ socket' = NoSocket
        /\ SetStatus("disconnected", NoDevice)
        /\ timer' = (timer \/ (~stopped /\ conn[s] # "connecting"))
     \/ socket # s /\ UNCHANGED <<socket, timer, shown>>
  /\ UNCHANGED stopped

\* onerror and onclose, with scheduleReconnect.
SocketCloses(s) ==
  /\ Closed(s)
  /\ \/ /\ socket = s
        /\ socket' = NoSocket
        /\ SetStatus("disconnected", NoDevice)
        /\ timer' = (timer \/ ~stopped)
     \/ socket # s /\ UNCHANGED <<socket, timer, shown>>
  /\ UNCHANGED stopped

\* Mutant: setInterval in place of setTimeout.
TimerFiresAgain ==
  /\ timer
  /\ ~stopped
  /\ OpenSocket
  /\ UNCHANGED <<timer, stopped, daemon, budget>>

TimerFires ==
  /\ timer
  /\ timer' = FALSE
  /\ IF stopped THEN UNCHANGED <<conn, socket, shown>> ELSE OpenSocket
  /\ UNCHANGED <<stopped, daemon, budget>>

-----------------------------------------------------------------------------
(* The daemon                                                               *)

Subscribed == {s \in Sockets : peer[s] # "none"}

Room(queues) == \A s \in Subscribed : Len(queues[s]) < MaxQueued

Relay(queues, m) ==
  [s \in Sockets |-> IF s \in Subscribed THEN Append(queues[s], m) ELSE queues[s]]

\* run_ui_peer, after HelloAck was sent: the subscriptions.
PeerSubscribes(s) ==
  /\ peer[s] = "none" /\ conn[s] \in {"open", "acked"}
  /\ peer' = [peer EXCEPT ![s] = "subscribed"]
  /\ UNCHANGED <<conn, client, shown, registry, presence, reports, budget>>

\* It reads the registry, which goes out before what was announced meanwhile.
PeerReads(s) ==
  /\ peer[s] = "subscribed"
  /\ peer' = [peer EXCEPT ![s] = "served"]
  /\ presence' = [presence EXCEPT ![s] = <<attached>> \o @]
  /\ UNCHANGED <<conn, client, shown, registry, reports, budget>>

\* A target is attached, in place of the last one or not.
TargetRegisters(dev) ==
  /\ dev # attached /\ due[dev] = 0
  /\ attached' = dev
  /\ due' = [due EXCEPT ![dev] = 1]
  /\ UNCHANGED <<conn, client, shown, announced, peer, presence, reports, budget>>

\* The current target leaves.  (One that was superseded leaves without a trace.)
TargetLeaves ==
  /\ attached # NoDevice /\ due[attached] = 0
  /\ due[NoDevice] < MaxDue
  /\ attached' = NoDevice
  /\ due' = [due EXCEPT ![NoDevice] = @ + 1]
  /\ UNCHANGED <<conn, client, shown, announced, peer, presence, reports, budget>>

Announce(dev) ==
  /\ due[dev] > 0
  /\ Room(presence)
  /\ due' = [due EXCEPT ![dev] = @ - 1]
  /\ announced' = dev
  /\ presence' = Relay(presence, dev)
  /\ UNCHANGED <<conn, client, shown, attached, peer, reports, budget>>

\* DeviceInfo or a PerfSample of a target that is connected, superseded or not.
TargetReports(kind) ==
  /\ Room(reports)
  /\ reports' = Relay(reports, kind)
  /\ UNCHANGED <<conn, client, shown, registry, peer, presence, budget>>

-----------------------------------------------------------------------------

Receive(s) == ReceiveHelloAck(s) \/ ReceivePresence(s) \/ ReceiveReport(s)

Next ==
  \/ Connect \/ Disconnect
  \/ \E s \in Sockets : SocketOpens(s) \/ Receive(s) \/ SocketCloses(s)
  \/ TimerFires
  \/ \E s \in Sockets : PeerSubscribes(s) \/ PeerReads(s)
  \/ \E dev \in Devices : TargetRegisters(dev)
  \/ TargetLeaves
  \/ \E dev \in MaybeDevice : Announce(dev)
  \/ \E kind \in Kinds : TargetReports(kind)

Spec == Init /\ [][Next]_vars

\* Timers fire, what has arrived is handled, and a connection attempt that
\* finds the daemon again and again succeeds.
FairSpec == /\ Spec
            /\ WF_vars(TimerFires)
            /\ SF_vars(\E s \in Sockets : SocketOpens(s))
            /\ SF_vars(\E s \in Sockets : ReceiveHelloAck(s))

-----------------------------------------------------------------------------
(* Properties                                                               *)

\* App.vue's use of the class: one connect() and no disconnect().  A connect()
\* while the timer is set opens a second connection, and disconnect() leaves a
\* status which says that there is one, whatever bridge-client.ts:5-6 says of
\* "a single always-current connection state".
ConnectedOnce == connects <= 1 /\ disconnects = 0

\* With one connect(), there is one connection at a time.
OneConnection ==
  ConnectedOnce => \A s \in Sockets : conn[s] # "closed" => s = socket

\* What the status says is true of the connection: "connected" once it has
\* answered, and then, when nothing is under way or still to be announced, the
\* device is the one the daemon has attached or the last it announced.  (Where
\* two targets announce in the order opposite to that in which they registered,
\* these differ, and the tab shows the one announced: BridgeCoreStaleView.)
StatusOfConnection ==
  ConnectedOnce /\ status = "connected" =>
    /\ socket # NoSocket /\ conn[socket] \in {"acked", "present"}
    /\ /\ conn[socket] = "present" /\ presence[socket] = <<>>
       /\ \A d \in MaybeDevice : due[d] = 0
       => device \in {attached, announced}

\* App.vue:110-113, a readout "from a device that's no longer attached" is
\* cleared.  None survives the connection it came over, nor precedes the first
\* presence update of the next one.  (It does survive the replacement of its
\* device by another, and a sample which the daemon had still to relay when its
\* target left is shown all the same.)
ReadoutOfConnection ==
  ConnectedOnce /\ readout # {} =>
    socket # NoSocket /\ conn[socket] = "present"

\* After the daemon, or the network, was lost, and after a second connect(), the
\* tab comes to be connected again, until disconnect() is called.
ComesBack == connects > 0 ~> status = "connected" \/ disconnects > 0
=============================================================================
