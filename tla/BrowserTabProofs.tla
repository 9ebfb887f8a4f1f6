--------------------------- MODULE BrowserTabProofs ---------------------------
(***************************************************************************)
(* For any number of WebSockets, targets and updates under way: of a tab    *)
(* that connects once, as App.vue's does, however often the connection is   *)
(* lost and made again, there is one connection, and what is shown is what  *)
(* is known of it.                                                          *)
(***************************************************************************)
EXTENDS BrowserTab, SequenceTheorems, TLAPS

USE NamesAssumption, BoundsAssumption

-----------------------------------------------------------------------------
(* Queues                                                                   *)

\* Every queue of a message that is relayed to some connections keeps its type,
\* and the newest message of those connections' queues is the one relayed.
LEMMA RelayQueues ==
  ASSUME NEW M, NEW m \in M, NEW queues \in [Sockets -> Seq(M)]
  PROVE  /\ Relay(queues, m) \in [Sockets -> Seq(M)]
         /\ \A s \in Subscribed : /\ Relay(queues, m)[s] # <<>>
                                 /\ Relay(queues, m)[s][Len(Relay(queues, m)[s])] = m
         /\ \A s \in Sockets \ Subscribed : Relay(queues, m)[s] = queues[s]
<1>1. \A s \in Sockets : Append(queues[s], m) \in Seq(M)
  OBVIOUS
<1>2. ASSUME NEW s \in Subscribed
      PROVE  /\ Relay(queues, m)[s] # <<>>
             /\ Relay(queues, m)[s][Len(Relay(queues, m)[s])] = m
  BY <1>2 DEF Relay, Subscribed
<1> QED BY <1>1, <1>2 DEF Relay

\* What is left after the oldest message was taken ends with the newest.
LEMMA TakenFromQueue ==
  ASSUME NEW M, NEW queue \in Seq(M), queue # <<>>
  PROVE  /\ Head(queue) \in M /\ Tail(queue) \in Seq(M)
         /\ Tail(queue) = <<>> => queue[Len(queue)] = Head(queue)
         /\ Tail(queue) # <<>> => Tail(queue)[Len(Tail(queue))] = queue[Len(queue)]
<1>1. /\ Len(queue) \in Nat \ {0}
      /\ Tail(queue) \in Seq(M) /\ Head(queue) \in M
      /\ Len(Tail(queue)) = Len(queue) - 1
      /\ Head(queue) = queue[1]
      /\ \A i \in 1 .. Len(Tail(queue)) : Tail(queue)[i] = queue[i + 1]
  BY HeadTailProperties
<1>2. CASE Tail(queue) = <<>>
  <2>1. Len(queue) = 1
    BY <1>1, <1>2
  <2> QED BY <1>1, <1>2, <2>1
<1>3. CASE Tail(queue) # <<>>
  <2>1. Len(Tail(queue)) \in 1 .. Len(Tail(queue))
    BY <1>1, <1>3
  <2> QED BY <1>1, <1>3, <2>1
<1> QED BY <1>1, <1>2, <1>3

-----------------------------------------------------------------------------
(* Type correctness                                                         *)

LEMMA InitType == Init => TypeOK
<1> SUFFICES ASSUME Init PROVE TypeOK
  OBVIOUS
<1>1. timer \in BOOLEAN /\ stopped \in BOOLEAN
  BY DEF Init
<1> QED BY <1>1 DEF Init, TypeOK, MaybeDevice

LEMMA NewSocketIsFree ==
  ASSUME TypeOK, NewSocket
  PROVE  /\ socket' \in Sockets /\ conn[socket'] = "closed"
         /\ conn' = [conn EXCEPT ![socket'] = "connecting"]
BY DEF NewSocket

\* The client's handlers and timer.
LEMMA ClientType ==
  ASSUME TypeOK,
         \/ Connect \/ Disconnect \/ TimerFires
         \/ \E s \in Sockets : SocketOpens(s) \/ Receive(s) \/ SocketCloses(s)
  PROVE  TypeOK'
<1> USE DEF SetStatus, client, shown, registry, daemon, budget
<1>1. timer' \in BOOLEAN /\ stopped' \in BOOLEAN
  BY DEF TypeOK, Connect, OpenSocket, Disconnect, TimerFires, SocketOpens, Receive,
         ReceiveHelloAck, ReceivePresence, ReceiveReport, SocketCloses, Closed
<1>2. NoDevice \in MaybeDevice
  BY DEF MaybeDevice
<1>3. CASE Connect
  <2>1. connects' \in 0 .. MaxConnects
    BY <1>3 DEF Connect, TypeOK
  <2> QED BY <1>1, <1>2, <1>3, <2>1, NewSocketIsFree DEF Connect, OpenSocket, TypeOK
<1>4. CASE Disconnect
  BY <1>1, <1>4 DEF Disconnect, TypeOK
<1>5. CASE TimerFires
  BY <1>1, <1>2, <1>5, NewSocketIsFree DEF TimerFires, OpenSocket, TypeOK
<1>6. ASSUME NEW s \in Sockets, SocketOpens(s) PROVE TypeOK'
  BY <1>1, <1>6 DEF SocketOpens, TypeOK
<1>7. ASSUME NEW s \in Sockets, ReceiveHelloAck(s) PROVE TypeOK'
  BY <1>1, <1>2, <1>7 DEF ReceiveHelloAck, TypeOK
<1>8. ASSUME NEW s \in Sockets, ReceivePresence(s) PROVE TypeOK'
  <2>1. Head(presence[s]) \in MaybeDevice /\ Tail(presence[s]) \in Seq(MaybeDevice)
    BY <1>8, TakenFromQueue DEF ReceivePresence, TypeOK
  <2> QED BY <1>1, <1>2, <1>8, <2>1 DEF ReceivePresence, TypeOK
<1>9. ASSUME NEW s \in Sockets, ReceiveReport(s) PROVE TypeOK'
  <2>1. Head(reports[s]) \in Kinds /\ Tail(reports[s]) \in Seq(Kinds)
    BY <1>9, TakenFromQueue DEF ReceiveReport, TypeOK
  <2> QED BY <1>1, <1>9, <2>1 DEF ReceiveReport, TypeOK
<1>10. ASSUME NEW s \in Sockets, SocketCloses(s) PROVE TypeOK'
  BY <1>1, <1>2, <1>10 DEF SocketCloses, Closed, TypeOK
<1> QED BY <1>3, <1>4, <1>5, <1>6, <1>7, <1>8, <1>9, <1>10 DEF Receive

\* The daemon and its targets.
Daemon ==
  \/ \E s \in Sockets : PeerSubscribes(s) \/ PeerReads(s)
  \/ \E dev \in Devices : TargetRegisters(dev)
  \/ TargetLeaves
  \/ \E dev \in MaybeDevice : Announce(dev)
  \/ \E kind \in Kinds : TargetReports(kind)

LEMMA DaemonType == TypeOK /\ (Daemon \/ UNCHANGED vars) => TypeOK'
<1> SUFFICES ASSUME TypeOK, Daemon \/ UNCHANGED vars PROVE TypeOK'
  OBVIOUS
<1>0. timer' \in BOOLEAN /\ stopped' \in BOOLEAN
  BY DEF Daemon, PeerSubscribes, PeerReads, TargetRegisters, TargetLeaves, Announce,
         TargetReports, vars, client, TypeOK
<1> USE DEF client, shown, registry, daemon, budget
<1>1. ASSUME NEW s \in Sockets, PeerSubscribes(s) PROVE TypeOK'
  BY <1>0, <1>1 DEF PeerSubscribes, TypeOK
<1>2. ASSUME NEW s \in Sockets, PeerReads(s) PROVE TypeOK'
  <2>1. <<attached>> \o presence[s] \in Seq(MaybeDevice)
    BY DEF TypeOK
  <2> QED BY <1>0, <1>2, <2>1 DEF PeerReads, TypeOK
<1>3. ASSUME NEW dev \in Devices, TargetRegisters(dev) PROVE TypeOK'
  BY <1>0, <1>3 DEF TargetRegisters, TypeOK, MaybeDevice
<1>4. CASE TargetLeaves
  BY <1>0, <1>4 DEF TargetLeaves, TypeOK, MaybeDevice
<1>5. ASSUME NEW dev \in MaybeDevice, Announce(dev) PROVE TypeOK'
  <2>1. Relay(presence, dev) \in [Sockets -> Seq(MaybeDevice)]
    BY RelayQueues DEF TypeOK
  <2>2. due' \in [MaybeDevice -> Nat]
    BY <1>5 DEF Announce, TypeOK
  <2> QED BY <1>0, <1>5, <2>1, <2>2 DEF Announce, TypeOK
<1>6. ASSUME NEW kind \in Kinds, TargetReports(kind) PROVE TypeOK'
  <2>1. Relay(reports, kind) \in [Sockets -> Seq(Kinds)]
    BY RelayQueues DEF TypeOK
  <2> QED BY <1>0, <1>6, <2>1 DEF TargetReports, TypeOK
<1>7. CASE UNCHANGED vars
  BY <1>0, <1>7 DEF vars, TypeOK
<1> QED BY <1>1, <1>2, <1>3, <1>4, <1>5, <1>6, <1>7 DEF Daemon

\* Every variable keeps its type.
THEOREM TypeCorrect == Spec => []TypeOK
<1>1. TypeOK /\ [Next]_vars => TypeOK'
  BY ClientType, DaemonType DEF Next, Daemon
<1> QED BY <1>1, InitType, PTL DEF Spec

-----------------------------------------------------------------------------
(* One connection, and what is said of it                                   *)

Alive == {"connecting", "open", "acked", "present"}

\* A WebSocket that is not closed is the client's, which waits for the timer only
\* when it has none.  (A slot is free, then, for the one that OpenSocket makes.)
SocketOfTab ==
  /\ ~stopped
  /\ \A s \in Sockets : conn[s] # "closed" => s = socket
  /\ socket # NoSocket => conn[socket] \in Alive
  /\ connects = 0 => socket = NoSocket
  /\ timer => connects # 0 /\ socket = NoSocket

\* What is shown is of a connection that has answered.
ShownOfSocket ==
  /\ status = "connected" => socket # NoSocket /\ conn[socket] \in {"acked", "present"}
  /\ readout # {} => socket # NoSocket /\ conn[socket] = "present"

Pending == \E d \in MaybeDevice : due[d] # 0

\* The newest that a connection was told of the target, under way or shown, is
\* what was announced last, or the registry as it is, or something is still to be
\* announced.  What reaches it before the read is what was announced.
Told(dev) == dev \in {attached, announced} \/ Pending

ToldOfTarget ==
  \A s \in Sockets :
    /\ conn[s] = "present" => peer[s] = "served"
    /\ peer[s] # "none" => conn[s] \in {"open", "acked", "present", "closing"}
    /\ peer[s] = "none" => presence[s] = <<>>
    /\ peer[s] = "subscribed" /\ presence[s] # <<>> =>
         presence[s][Len(presence[s])] = announced
    /\ peer[s] = "served" =>
         /\ presence[s] # <<>> => Told(presence[s][Len(presence[s])])
         /\ presence[s] = <<>> => conn[s] = "present" /\ Told(device)

TabInv == TypeOK /\ (ConnectedOnce => SocketOfTab /\ ShownOfSocket /\ ToldOfTarget)

LEMMA StaysConnectedOnce == TypeOK /\ [Next]_vars /\ ConnectedOnce' => ConnectedOnce
<1> SUFFICES ASSUME TypeOK, [Next]_vars, ConnectedOnce' PROVE ConnectedOnce
  OBVIOUS
<1> USE DEF ConnectedOnce, TypeOK, budget
<1>1. CASE Connect
  BY <1>1 DEF Connect
<1>2. CASE Disconnect
  BY <1>2 DEF Disconnect
<1>3. CASE ~Connect /\ ~Disconnect
  BY <1>3 DEF Next, SocketOpens, Receive, ReceiveHelloAck, ReceivePresence, ReceiveReport,
              SocketCloses, Closed, TimerFires, PeerSubscribes, PeerReads,
              TargetRegisters, TargetLeaves, Announce, TargetReports, vars
<1> QED BY <1>1, <1>2, <1>3

\* A new connection is made when there is none.
LEMMA OpenSocketInv ==
  ASSUME TabInv, ConnectedOnce, socket = NoSocket, OpenSocket,
         ~stopped', ~timer', connects' # 0, UNCHANGED daemon
  PROVE  SocketOfTab' /\ ShownOfSocket' /\ ToldOfTarget'
<1>1. /\ socket' \in Sockets
      /\ conn' = [s \in Sockets |-> IF s = socket' THEN "connecting" ELSE "closed"]
  BY NewSocketIsFree DEF OpenSocket, TabInv, TypeOK, SocketOfTab
<1>2. SocketOfTab'
  BY <1>1 DEF SocketOfTab, Alive
<1>3. ShownOfSocket' /\ ToldOfTarget'
  <2>1. \A s \in Sockets : peer[s] = "none" /\ presence[s] = <<>>
    BY DEF TabInv, TypeOK, SocketOfTab, ToldOfTarget
  <2> QED BY <1>1, <2>1 DEF OpenSocket, SetStatus, ShownOfSocket, ToldOfTarget, daemon
<1> QED BY <1>2, <1>3

LEMMA ReceiveInv ==
  ASSUME TabInv, ConnectedOnce, NEW s \in Sockets, SocketOpens(s) \/ Receive(s)
  PROVE  SocketOfTab' /\ ShownOfSocket' /\ ToldOfTarget'
<1> USE DEF TabInv, TypeOK, SocketOfTab, ShownOfSocket, ToldOfTarget, Told, Pending, Alive,
            client, registry, budget
<1>1. s = socket
  BY DEF SocketOpens, Receive, ReceiveHelloAck, ReceivePresence, ReceiveReport
<1>2. CASE SocketOpens(s)
  BY <1>1, <1>2 DEF SocketOpens, shown, daemon
<1>3. CASE ReceiveHelloAck(s)
  BY <1>1, <1>3 DEF ReceiveHelloAck, SetStatus, daemon
<1>4. CASE ReceivePresence(s)
  <2>1. /\ Tail(presence[s]) = <<>> => Told(Head(presence[s]))
        /\ Tail(presence[s]) # <<>> => Told(Tail(presence[s])[Len(Tail(presence[s]))])
    BY <1>4, TakenFromQueue DEF ReceivePresence
  <2>2. /\ UNCHANGED <<registry, peer>>
        /\ presence' = [presence EXCEPT ![s] = Tail(presence[s])]
        /\ conn' = [conn EXCEPT ![s] = "present"]
        /\ device' = Head(presence[s]) /\ peer[s] = "served"
    BY <1>4 DEF ReceivePresence, SetStatus
  <2>3. ToldOfTarget'
    BY <1>1, <2>1, <2>2
  <2>4. SocketOfTab' /\ ShownOfSocket'
    BY <1>1, <1>4 DEF ReceivePresence, SetStatus
  <2> QED BY <2>3, <2>4
<1>5. CASE ReceiveReport(s)
  BY <1>1, <1>5 DEF ReceiveReport
<1> QED BY <1>2, <1>3, <1>4, <1>5 DEF Receive

LEMMA CloseInv ==
  ASSUME TabInv, ConnectedOnce, NEW s \in Sockets, SocketCloses(s)
  PROVE  SocketOfTab' /\ ShownOfSocket' /\ ToldOfTarget'
<1>1. s = socket /\ connects # 0
  BY DEF SocketCloses, Closed, TabInv, SocketOfTab
<1>2. /\ socket' = NoSocket /\ stopped' = stopped /\ connects' = connects
      /\ conn' = [t \in Sockets |-> "closed"]
      /\ \A t \in Sockets : peer'[t] = "none" /\ presence'[t] = <<>>
      /\ status' = "disconnected" /\ readout' = {}
  BY <1>1 DEF SocketCloses, Closed, SetStatus, TabInv, TypeOK, SocketOfTab,
                   ToldOfTarget, budget
<1>3. SocketOfTab'
  BY <1>1, <1>2 DEF TabInv, SocketOfTab
<1>4. ShownOfSocket' /\ ToldOfTarget'
  BY <1>2 DEF ShownOfSocket, ToldOfTarget
<1> QED BY <1>3, <1>4

LEMMA DaemonInv ==
  ASSUME TabInv, ConnectedOnce, Daemon \/ UNCHANGED vars
  PROVE  SocketOfTab' /\ ShownOfSocket' /\ ToldOfTarget'
<1>1. UNCHANGED <<conn, client, shown, budget>>
  BY DEF Daemon, PeerSubscribes, PeerReads, TargetRegisters, TargetLeaves, Announce,
         TargetReports, vars, client, shown, budget
<1>2. SocketOfTab' /\ ShownOfSocket'
  BY <1>1 DEF TabInv, SocketOfTab, ShownOfSocket, client, shown, budget
<1> USE DEF TabInv, TypeOK, ToldOfTarget, Told, registry, shown
<1>3. CASE UNCHANGED <<registry, peer, presence>>
  BY <1>1, <1>2, <1>3 DEF Pending
<1>4. ASSUME NEW s \in Sockets, PeerSubscribes(s) PROVE ToldOfTarget'
  BY <1>1, <1>4 DEF PeerSubscribes, Pending
<1>5. ASSUME NEW s \in Sockets, PeerReads(s) PROVE ToldOfTarget'
  <2> DEFINE queue == <<attached>> \o presence[s]
  <2>1. /\ queue # <<>> /\ Len(queue) = 1 + Len(presence[s])
        /\ presence[s] = <<>> => queue[Len(queue)] = attached
        /\ presence[s] # <<>> => queue[Len(queue)] = presence[s][Len(presence[s])]
    OBVIOUS
  <2>2. Told(queue[Len(queue)])
    BY <1>5, <2>1 DEF PeerReads
  <2> QED BY <1>1, <1>5, <2>1, <2>2 DEF PeerReads, Pending
<1>6. ASSUME \/ \E dev \in Devices : TargetRegisters(dev)
             \/ TargetLeaves
      PROVE  ToldOfTarget'
  <2>1. Pending' /\ UNCHANGED <<announced, peer, presence>>
    BY <1>6 DEF TargetRegisters, TargetLeaves, Pending, MaybeDevice
  <2> QED BY <1>1, <2>1
<1>7. ASSUME NEW dev \in MaybeDevice, Announce(dev) PROVE ToldOfTarget'
  <2>1. announced' = dev /\ presence' = Relay(presence, dev) /\ UNCHANGED <<attached, peer>>
    BY <1>7 DEF Announce
  <2>2. /\ \A s \in Subscribed : presence'[s] # <<>> /\ presence'[s][Len(presence'[s])] = dev
        /\ \A s \in Sockets \ Subscribed : presence'[s] = presence[s]
    BY <2>1, RelayQueues
  <2> QED BY <1>1, <2>1, <2>2 DEF Subscribed
<1> QED BY <1>2, <1>3, <1>4, <1>5, <1>6, <1>7 DEF Daemon, TargetReports, vars

LEMMA TabInvariant == Spec => []TabInv
<1>1. Init => TabInv
  <2> SUFFICES ASSUME Init PROVE SocketOfTab /\ ShownOfSocket /\ ToldOfTarget
    BY InitType DEF TabInv
  <2> QED BY DEF Init, SocketOfTab, ShownOfSocket, ToldOfTarget
<1>2. TabInv /\ [Next]_vars => TabInv'
  <2> SUFFICES ASSUME TabInv, [Next]_vars, ConnectedOnce, ConnectedOnce'
               PROVE  SocketOfTab' /\ ShownOfSocket' /\ ToldOfTarget'
    BY StaysConnectedOnce, ClientType, DaemonType DEF TabInv, Next, Daemon
  <2>1. CASE Connect
    <3>1. connects = 0 /\ connects' # 0
      BY <2>1 DEF Connect, ConnectedOnce, TabInv, TypeOK
    <3> QED BY <2>1, <3>1, OpenSocketInv DEF Connect, TabInv, SocketOfTab
  <2>2. ~Disconnect
    BY DEF Disconnect, ConnectedOnce, TabInv, TypeOK
  <2>3. CASE TimerFires
    BY <2>3, OpenSocketInv DEF TimerFires, TabInv, SocketOfTab, budget
  <2> QED BY <2>1, <2>2, <2>3, ReceiveInv, CloseInv, DaemonInv DEF Next, Daemon
<1> QED BY <1>1, <1>2, PTL DEF Spec

\* A tab that connects once has one connection at a time.
THEOREM ConnectionIsSingle == Spec => []OneConnection
<1>1. TabInv => OneConnection
  BY DEF TabInv, SocketOfTab, OneConnection
<1> QED BY <1>1, TabInvariant, PTL

\* Its status is that of the connection, and the target shown is the one attached
\* or the last announced once all was announced and read.
THEOREM StatusIsTrue == Spec => []StatusOfConnection
<1>1. TabInv => StatusOfConnection
  <2> SUFFICES ASSUME TabInv, ConnectedOnce, status = "connected"
               PROVE  /\ socket # NoSocket /\ conn[socket] \in {"acked", "present"}
                      /\ /\ conn[socket] = "present" /\ presence[socket] = <<>>
                         /\ \A d \in MaybeDevice : due[d] = 0
                         => device \in {attached, announced}
    BY DEF StatusOfConnection
  <2> QED BY DEF TabInv, TypeOK, ShownOfSocket, ToldOfTarget, Told, Pending
<1> QED BY <1>1, TabInvariant, PTL

\* No readout survives its connection, or precedes what the next one has to say
\* of the target.
THEOREM ReadoutIsCurrent == Spec => []ReadoutOfConnection
<1>1. TabInv => ReadoutOfConnection
  BY DEF TabInv, ShownOfSocket, ReadoutOfConnection
<1> QED BY <1>1, TabInvariant, PTL
=============================================================================
