---------------------------- MODULE AdbWatchProofs ----------------------------
(***************************************************************************)
(* For any number of devices, changes and lost connections: the record of   *)
(* tunnels agrees with the tunnels whenever the watcher has caught up, so   *)
(* that a daemon which is stopped removes those it can know of, and the     *)
(* companion app is reinstalled only where it is out of date.               *)
(***************************************************************************)
EXTENDS AdbWatch, SequenceTheorems, TLAPS

USE NoDeviceAssumption, AppConfiguredAssumption, BoundsAssumption

-----------------------------------------------------------------------------
(* Queues of snapshots                                                      *)

\* What reading the oldest snapshot leaves.
LEMMA AfterReading ==
  ASSUME NEW M, NEW q \in Seq(M), q # <<>>
  PROVE  /\ Head(q) \in M /\ Tail(q) \in Seq(M) /\ Head(q) = q[1]
         /\ Tail(q) = <<>> => Head(q) = q[Len(q)]
         /\ Tail(q) # <<>> => Tail(q)[Len(Tail(q))] = q[Len(q)]
         /\ \A i \in 1 .. Len(q) : i # 1 => i - 1 \in 1 .. Len(Tail(q)) /\ Tail(q)[i - 1] = q[i]
<1>1. /\ Len(q) \in Nat \ {0}
      /\ Tail(q) \in Seq(M) /\ Head(q) \in M /\ Head(q) = q[1]
      /\ Len(Tail(q)) = Len(q) - 1
      /\ \A i \in 1 .. Len(Tail(q)) : Tail(q)[i] = q[i + 1]
  BY HeadTailProperties
<1>2. ASSUME Tail(q) = <<>> PROVE Head(q) = q[Len(q)]
  <2>1. Len(Tail(q)) = 0
    BY <1>2, EmptySeq
  <2>2. Len(q) \in Nat /\ Len(Tail(q)) = Len(q) - 1 /\ Head(q) = q[1]
    BY <1>1
  <2>3. Len(q) = 1
    BY <2>1, <2>2
  <2> QED BY <2>2, <2>3
<1>3. ASSUME Tail(q) # <<>> PROVE Tail(q)[Len(Tail(q))] = q[Len(q)]
  <2>1. Len(Tail(q)) \in 1 .. Len(Tail(q))
    BY <1>1, <1>3
  <2> QED BY <1>1, <2>1
<1>4. ASSUME NEW i \in 1 .. Len(q), i # 1
      PROVE  i - 1 \in 1 .. Len(Tail(q)) /\ Tail(q)[i - 1] = q[i]
  BY <1>1, <1>4
<1> QED BY <1>1, <1>2, <1>3, <1>4

\* What a lost connection leaves to be read.
LEMMA AfterLoss ==
  ASSUME NEW M, NEW q \in Seq(M), NEW n \in 0 .. Len(q)
  PROVE  /\ SubSeq(q, 1, n) \in Seq(M)
         /\ \A i \in 1 .. Len(q) : i \in 1 .. Len(SubSeq(q, 1, n)) \/ i \in n + 1 .. Len(q)
         /\ \A i \in 1 .. Len(SubSeq(q, 1, n)) : SubSeq(q, 1, n)[i] = q[i]
<1>1. \A i \in 1 .. n : q[i] \in M
  OBVIOUS
<1>2. /\ SubSeq(q, 1, n) \in Seq(M)
      /\ Len(SubSeq(q, 1, n)) = n
      /\ \A i \in 1 .. n : SubSeq(q, 1, n)[i] = q[i]
  BY <1>1, SubSeqProperties
<1> QED BY <1>2

-----------------------------------------------------------------------------
(* Type correctness                                                         *)

LEMMA EnvironmentType ==
  ASSUME TypeOK,
         \/ \E d \in Devices : Appears(d) \/ Disappears(d)
         \/ ServerDrops \/ UNCHANGED vars
  PROVE  TypeOK'
<1> USE DEF TypeOK, loop, phones
<1>1. ASSUME NEW d \in Devices, Appears(d) \/ Disappears(d) PROVE TypeOK'
  <2>1. /\ usable' \in SUBSET Devices /\ tunnel' \subseteq usable' /\ unlucky' \subseteq Devices
        /\ changes' \in 0 .. MaxChanges
    BY <1>1 DEF Appears, Disappears, Changed
  <2>2. queue' \in Seq(SUBSET Devices)
    BY <1>1, <2>1 DEF Appears, Disappears, Changed
  <2> QED BY <1>1, <2>1, <2>2 DEF Appears, Disappears, Changed
<1>2. CASE ServerDrops
  <2>1. PICK n \in 0 .. Len(queue) :
          /\ queue' = SubSeq(queue, 1, n)
          /\ unlucky' = unlucky \cup UNION {Devices \ queue[i] : i \in n + 1 .. Len(queue)}
    BY <1>2 DEF ServerDrops
  <2>2. queue' \in Seq(SUBSET Devices)
    BY <2>1, AfterLoss
  <2> QED BY <1>2, <2>1, <2>2 DEF ServerDrops
<1>3. CASE UNCHANGED vars
  BY <1>3 DEF vars
<1> QED BY <1>1, <1>2, <1>3

LEMMA MainType ==
  ASSUME TypeOK, Stop \/ Exit \/ \E d \in Devices : Remove(d)
  PROVE  TypeOK'
<1> USE DEF TypeOK, phones, server, loop, rest
<1>1. CASE Stop
  BY <1>1 DEF Stop
<1>2. CASE Exit
  BY <1>2 DEF Exit
<1>3. ASSUME NEW d \in Devices, Remove(d) PROVE TypeOK'
  BY <1>3 DEF Remove, Works, Fails
<1> QED BY <1>1, <1>2, <1>3

LEMMA WatchType ==
  ASSUME TypeOK, Watch
  PROVE  TypeOK'
<1> USE DEF TypeOK, phones, server, rest
<1>1. CASE Connect
  BY <1>1 DEF Connect
<1>2. CASE ConnectionEnds
  BY <1>2 DEF ConnectionEnds
<1>3. CASE NextSnapshot
  <2>1. Head(queue) \in SUBSET Devices /\ Tail(queue) \in Seq(SUBSET Devices)
    BY <1>3, AfterReading DEF NextSnapshot
  <2> QED BY <1>3, <2>1 DEF NextSnapshot
<1>4. ASSUME NEW d \in Devices, Reverse(d) PROVE TypeOK'
  BY <1>4 DEF Reverse, Fails
<1>5. CASE Insert
  BY <1>5 DEF Insert
<1>6. CASE CheckVersion \/ Install \/ CheckProcess \/ StartActivity
  BY <1>6 DEF CheckVersion, Install, CheckProcess, StartActivity, AppStepFails, AppStep,
              Works, Fails
<1>7. CASE Retain
  BY <1>7 DEF Retain
<1> QED BY <1>1, <1>2, <1>3, <1>4, <1>5, <1>6, <1>7 DEF Watch

LEMMA NextType == TypeOK /\ [Next]_vars => TypeOK'
BY EnvironmentType, MainType, WatchType DEF Next

\* Every variable keeps its type.
THEOREM TypeCorrect == Spec => []TypeOK
<1>1. Init => TypeOK
  BY DEF Init, TypeOK
<1> QED BY <1>1, NextType, PTL DEF Spec

-----------------------------------------------------------------------------
(* The app                                                                  *)

InstallsWhatIsOld == watch = "install" => serial \notin current

\* No running app of the bundled version is stopped.
THEOREM AppsUndisturbed == Spec => RunningAppUndisturbed
<1> DEFINE Inv == TypeOK /\ InstallsWhatIsOld
<1>1. Init => Inv
  BY DEF Init, TypeOK, InstallsWhatIsOld
<1>2. Inv /\ [Next]_vars => InstallsWhatIsOld'
  <2> SUFFICES ASSUME Inv, [Next]_vars PROVE InstallsWhatIsOld'
    OBVIOUS
  <2> USE DEF InstallsWhatIsOld, phones, loop
  <2>1. CASE \/ \E d \in Devices : Appears(d) \/ Disappears(d) \/ Remove(d)
             \/ ServerDrops \/ Stop \/ Exit \/ UNCHANGED vars
    BY <2>1 DEF Appears, Disappears, Changed, Remove, ServerDrops, Stop, Exit, vars
  <2>2. CASE \/ Connect \/ ConnectionEnds \/ NextSnapshot \/ Insert \/ Retain
             \/ \E d \in Devices : Reverse(d)
    BY <2>2 DEF Connect, ConnectionEnds, NextSnapshot, Insert, Retain, Reverse, TypeOK
  <2>3. CASE CheckVersion \/ Install \/ CheckProcess \/ StartActivity
    BY <2>3 DEF CheckVersion, Install, CheckProcess, StartActivity, AppStepFails, AppStep
  <2> QED BY <2>1, <2>2, <2>3 DEF Next, Watch
<1>3. Inv /\ [Next]_vars => [\A d \in current \cap process : d \in process']_vars
  <2> SUFFICES ASSUME Inv, Next PROVE \A d \in current \cap process : d \in process'
    OBVIOUS
  <2>1. CASE Install
    BY <2>1 DEF Install, AppStepFails, AppStep, InstallsWhatIsOld
  <2>2. CASE ~Install
    BY <2>2 DEF Next, Watch, Appears, Disappears, Changed, ServerDrops, Stop, Exit, Remove,
                Connect, ConnectionEnds, NextSnapshot, Reverse, Insert, CheckVersion,
                CheckProcess, StartActivity, AppStepFails, AppStep, Retain, phones
  <2> QED BY <2>1, <2>2
<1> QED BY <1>1, <1>2, <1>3, NextType, PTL DEF Spec, RunningAppUndisturbed

-----------------------------------------------------------------------------
(* The record of tunnels                                                    *)

\* The watcher reads until the end of the connection, and the last snapshot that
\* can be read over one that is up is of the devices there are.
SnapshotsAreCurrent ==
  /\ conn = "none" <=> watch = "retry"
  /\ watch \in {"retry", "wait"} => todo = {}
  /\ conn = "none" => queue = <<>>
  /\ conn = "up" => /\ queue # <<>> => queue[Len(queue)] = usable
                    /\ queue = <<>> => snapshot = usable

\* `tunneled`, with the device which is about to be inserted.
Record == tunneled \cup (IF watch = "insert" THEN {serial} ELSE {})

\* d is missing from a snapshot which has still to be read, or to be applied.
Forgotten(d) ==
  \/ \E i \in 1 .. Len(queue) : d \notin queue[i]
  \/ watch \notin {"retry", "wait"} /\ d \notin snapshot

\* A recorded device without a tunnel will be forgotten.
RecordLeaves ==
  main = "running" => \A d \in Record \ unlucky : d \in tunnel \/ Forgotten(d)

\* One with a tunnel is recorded, or will be tunnelled again.
TunnelRecorded ==
  main = "running" /\ conn = "up" =>
    \A d \in tunnel \ unlucky : d \in Record \/ queue # <<>> \/ d \in todo

\* main has still to remove the tunnels that it can know of.
TunnelsLeft ==
  /\ main # "running" => tunnel \ unlucky \subseteq removing
  /\ main = "exited" => removing = {}

TunnelInv ==
  TypeOK /\ SnapshotsAreCurrent /\ RecordLeaves /\ TunnelRecorded /\ TunnelsLeft

\* Of a watcher with nothing left to do.
LEMMA RecordOfIdle == TunnelInv => RecordMatchesTunnels
<1> SUFFICES ASSUME TunnelInv, Idle, NEW d \in Devices \ unlucky
             PROVE  d \in tunneled <=> d \in tunnel
  BY DEF TunnelInv, TypeOK, RecordMatchesTunnels
<1> USE DEF TunnelInv, Idle
<1>1. ~Forgotten(d) /\ Record = tunneled /\ todo = {}
  BY DEF Forgotten, Record, SnapshotsAreCurrent
<1> QED BY <1>1 DEF RecordLeaves, TunnelRecorded, TypeOK

LEMMA ChangedTunnels ==
  ASSUME TunnelInv, NEW d \in Devices, Appears(d) \/ Disappears(d)
  PROVE  SnapshotsAreCurrent' /\ RecordLeaves' /\ TunnelRecorded' /\ TunnelsLeft'
<1> USE DEF TunnelInv, TypeOK, Appears, Disappears, Changed, loop
<1>1. queue' = IF conn = "up" THEN Append(queue, usable') ELSE queue
  OBVIOUS
<1>2. /\ usable' \in SUBSET Devices
      /\ conn = "up" => /\ queue' # <<>> /\ queue'[Len(queue')] = usable'
                        /\ Len(queue') \in 1 .. Len(queue')
      /\ 1 .. Len(queue) \subseteq 1 .. Len(queue')
      /\ \A i \in 1 .. Len(queue) : queue'[i] = queue[i]
  BY <1>1
<1>3. SnapshotsAreCurrent'
  BY <1>1, <1>2 DEF SnapshotsAreCurrent
<1>4. RecordLeaves'
  <2> SUFFICES ASSUME main = "running", NEW x \in Record \ unlucky', x \notin tunnel'
               PROVE  Forgotten(x)'
    BY DEF RecordLeaves, Record
  <2>1. CASE x \in tunnel
    <3>1. x = d /\ conn = "up" /\ x \notin usable'
      BY <2>1
    <3> QED BY <1>2, <3>1 DEF Forgotten
  <2>2. CASE x \notin tunnel
    <3>1. Forgotten(x)
      BY <2>2 DEF RecordLeaves
    <3> QED BY <1>2, <3>1 DEF Forgotten
  <2> QED BY <2>1, <2>2
<1>5. TunnelRecorded'
  BY <1>2 DEF TunnelRecorded
<1>6. TunnelsLeft'
  BY DEF TunnelsLeft
<1> QED BY <1>3, <1>4, <1>5, <1>6

LEMMA DropTunnels ==
  ASSUME TunnelInv, ServerDrops
  PROVE  SnapshotsAreCurrent' /\ RecordLeaves' /\ TunnelRecorded' /\ TunnelsLeft'
<1>1. PICK n \in 0 .. Len(queue) :
        /\ queue' = SubSeq(queue, 1, n)
        /\ unlucky' = unlucky \cup UNION {Devices \ queue[i] : i \in n + 1 .. Len(queue)}
  BY DEF ServerDrops
<1>2. UNCHANGED <<phones, loop, tunneled, main, removing>> /\ conn = "up" /\ conn' = "closed"
  BY DEF ServerDrops
<1>3. SnapshotsAreCurrent' /\ TunnelRecorded' /\ TunnelsLeft'
  BY <1>1, <1>2 DEF TunnelInv, SnapshotsAreCurrent, TunnelRecorded, TunnelsLeft, phones, loop
<1>4. ASSUME main = "running", NEW x \in Record \ unlucky', x \notin tunnel
      PROVE  Forgotten(x)'
  <2>1. x \in Devices /\ Forgotten(x)
    BY <1>1, <1>4 DEF TunnelInv, TypeOK, RecordLeaves, Record
  <2>2. CASE watch \notin {"retry", "wait"} /\ x \notin snapshot
    BY <1>2, <2>2 DEF Forgotten, loop
  <2>3. ASSUME NEW i \in 1 .. Len(queue), x \notin queue[i]
        PROVE  Forgotten(x)'
    <3>1. i \notin n + 1 .. Len(queue)
      BY <1>1, <1>4, <2>1, <2>3
    <3> QED BY <1>1, <2>3, <3>1, AfterLoss DEF Forgotten, TunnelInv, TypeOK
  <2> QED BY <2>1, <2>2, <2>3 DEF Forgotten
<1>5. RecordLeaves'
  BY <1>2, <1>4 DEF RecordLeaves, Record, phones, loop
<1> QED BY <1>3, <1>5

LEMMA MainTunnels ==
  ASSUME TunnelInv, Stop \/ Exit \/ \E d \in Devices : Remove(d)
  PROVE  SnapshotsAreCurrent' /\ RecordLeaves' /\ TunnelRecorded' /\ TunnelsLeft'
<1>1. UNCHANGED <<usable, server, loop>> /\ main' # "running"
  BY DEF Stop, Exit, Remove, phones
<1>2. SnapshotsAreCurrent' /\ RecordLeaves' /\ TunnelRecorded'
  BY <1>1 DEF TunnelInv, SnapshotsAreCurrent, RecordLeaves, TunnelRecorded, server, loop
<1>3. CASE Stop
  <2>1. tunnel \ unlucky' \subseteq tunneled
    BY <1>3, RecordOfIdle DEF Stop, RecordMatchesTunnels
  <2> QED BY <1>2, <1>3, <2>1 DEF Stop, TunnelsLeft, phones
<1>4. CASE Exit
  BY <1>2, <1>4 DEF Exit, TunnelInv, TunnelsLeft, phones, rest
<1>5. ASSUME NEW d \in Devices, Remove(d) PROVE TunnelsLeft'
  BY <1>5 DEF Remove, Works, Fails, TunnelInv, TypeOK, TunnelsLeft
<1> QED BY <1>2, <1>3, <1>4, <1>5

LEMMA NextSnapshotTunnels ==
  ASSUME TunnelInv, NextSnapshot
  PROVE  SnapshotsAreCurrent' /\ RecordLeaves' /\ TunnelRecorded' /\ TunnelsLeft'
<1> USE DEF TunnelInv
<1>1. /\ queue \in Seq(SUBSET Devices) /\ queue # <<>> /\ watch = "wait" /\ watch' = "tunnel"
      /\ queue' = Tail(queue) /\ snapshot' = Head(queue) /\ todo' = snapshot' \ tunneled
      /\ UNCHANGED <<phones, conn, serial, tunneled, main, removing, unlucky>>
      /\ Record = tunneled /\ Record' = tunneled
  BY DEF NextSnapshot, TypeOK, Record, rest
<1>2. SnapshotsAreCurrent'
  BY <1>1, AfterReading DEF SnapshotsAreCurrent, phones
<1>3. ASSUME main = "running", NEW x \in tunneled \ unlucky, x \notin tunnel
      PROVE  Forgotten(x)'
  <2>1. PICK i \in 1 .. Len(queue) : x \notin queue[i]
    BY <1>1, <1>3 DEF RecordLeaves, Forgotten
  <2>2. CASE i = 1
    BY <1>1, <2>1, <2>2, AfterReading DEF Forgotten
  <2>3. CASE i # 1
    BY <1>1, <2>1, <2>3, AfterReading DEF Forgotten
  <2> QED BY <2>2, <2>3
<1>4. RecordLeaves'
  BY <1>1, <1>3 DEF RecordLeaves, phones
<1>5. TunnelRecorded'
  BY <1>1, <1>2 DEF TunnelRecorded, SnapshotsAreCurrent, TypeOK, phones
<1>6. TunnelsLeft'
  BY <1>1 DEF TunnelsLeft, phones
<1> QED BY <1>2, <1>4, <1>5, <1>6

LEMMA ConnectionTunnels ==
  ASSUME TunnelInv, Connect \/ ConnectionEnds
  PROVE  SnapshotsAreCurrent' /\ RecordLeaves' /\ TunnelRecorded' /\ TunnelsLeft'
<1> USE DEF TunnelInv, phones, rest
<1>1. CASE Connect
  <2>1. \A d : ~Forgotten(d)
    BY <1>1 DEF Connect, SnapshotsAreCurrent, Forgotten
  <2> QED BY <1>1, <2>1 DEF Connect, SnapshotsAreCurrent, RecordLeaves, Record,
                             TunnelRecorded, TunnelsLeft
<1>2. CASE ConnectionEnds
  BY <1>2 DEF ConnectionEnds, SnapshotsAreCurrent, RecordLeaves, Record, Forgotten,
              TunnelRecorded, TunnelsLeft
<1> QED BY <1>1, <1>2

\* The rest of the watcher's steps read nothing.
LEMMA SetUpTunnels ==
  ASSUME TunnelInv,
         \/ \E d \in Devices : Reverse(d)
         \/ Insert \/ CheckVersion \/ Install \/ CheckProcess \/ StartActivity
         \/ Retain
  PROVE  SnapshotsAreCurrent' /\ RecordLeaves' /\ TunnelRecorded' /\ TunnelsLeft'
<1> USE DEF TunnelInv, TypeOK, phones, server, rest
<1>1. ASSUME NEW d \in Devices, Reverse(d)
      PROVE  SnapshotsAreCurrent' /\ RecordLeaves' /\ TunnelRecorded' /\ TunnelsLeft'
  <2>1. SnapshotsAreCurrent'
    BY <1>1 DEF Reverse, SnapshotsAreCurrent
  <2>2. RecordLeaves'
    BY <1>1 DEF Reverse, Fails, RecordLeaves, Record, Forgotten
  <2>3. TunnelRecorded'
    BY <1>1 DEF Reverse, Fails, TunnelRecorded, Record
  <2>4. TunnelsLeft'
    BY <1>1 DEF Reverse, Fails, Watching, TunnelsLeft
  <2> QED BY <2>1, <2>2, <2>3, <2>4
<1>2. CASE Insert
  BY <1>2 DEF Insert, SnapshotsAreCurrent, RecordLeaves, Record, Forgotten, TunnelRecorded,
              TunnelsLeft
<1>3. CASE CheckVersion \/ Install \/ CheckProcess \/ StartActivity
  <2>1. /\ UNCHANGED <<usable, tunnel, conn, queue, snapshot, todo, tunneled, main, removing>>
        /\ watch \notin {"retry", "wait", "insert"} /\ watch' \notin {"retry", "wait", "insert"}
        /\ unlucky \subseteq unlucky'
    BY <1>3 DEF CheckVersion, Install, CheckProcess, StartActivity, AppStepFails, AppStep,
                Works, Fails
  <2> QED BY <2>1 DEF SnapshotsAreCurrent, RecordLeaves, Record, Forgotten, TunnelRecorded,
                      TunnelsLeft
<1>4. CASE Retain
  BY <1>4 DEF Retain, SnapshotsAreCurrent, RecordLeaves, Record, Forgotten, TunnelRecorded,
              TunnelsLeft
<1> QED BY <1>1, <1>2, <1>3, <1>4

LEMMA TunnelInvariant == Spec => []TunnelInv
<1>1. Init => TunnelInv
  BY DEF Init, TunnelInv, TypeOK, SnapshotsAreCurrent, RecordLeaves, Record, TunnelRecorded,
         TunnelsLeft
<1>2. TunnelInv /\ [Next]_vars => TunnelInv'
  <2> SUFFICES ASSUME TunnelInv, [Next]_vars
               PROVE  SnapshotsAreCurrent' /\ RecordLeaves' /\ TunnelRecorded' /\ TunnelsLeft'
    BY NextType DEF TunnelInv
  <2>1. CASE UNCHANGED vars
    BY <2>1 DEF vars, TunnelInv, SnapshotsAreCurrent, RecordLeaves, Record, Forgotten,
                TunnelRecorded, TunnelsLeft
  <2> QED BY <2>1, ChangedTunnels, DropTunnels, MainTunnels, ConnectionTunnels,
             NextSnapshotTunnels, SetUpTunnels DEF Next, Watch
<1> QED BY <1>1, <1>2, PTL DEF Spec

\* However far behind the devices it was, a watcher that has caught up has the
\* tunnels there are on record.
THEOREM RecordIsTrue == Spec => []RecordMatchesTunnels
<1> QED BY TunnelInvariant, RecordOfIdle, PTL

\* A daemon that has exited leaves no tunnel it could have removed.
THEOREM ShutdownRemoves == Spec => []ShutdownRemovesTunnels
<1>1. TunnelInv => ShutdownRemovesTunnels
  BY DEF TunnelInv, TypeOK, TunnelsLeft, ShutdownRemovesTunnels
<1> QED BY <1>1, TunnelInvariant, PTL

-----------------------------------------------------------------------------
(* What the watcher sees                                                    *)

\* The connection to the adb server, as the watcher reads it, is a stream of
\* snapshots: every step is one of the stream's, or none.
THEOREM WatcherSeesStream == Spec => SeesStream
<1>1. Init => Stream!Init
  BY DEF Init, Stream!Init
<1>2. TunnelInv /\ [Next]_vars => [Stream!Next]_(Stream!vars)
  <2> SUFFICES ASSUME TunnelInv, [Next]_vars
               PROVE  Stream!Next \/ UNCHANGED <<conn, queue, snapshot>>
    BY DEF Stream!vars
  <2> USE DEF TunnelInv, TypeOK, Stream!Next, phones, server, loop
  <2>1. ASSUME NEW d \in Devices, Appears(d) \/ Disappears(d)
        PROVE  Stream!Send \/ UNCHANGED <<conn, queue, snapshot>>
    <3>1. usable' \in SUBSET Devices
      BY <2>1 DEF Appears, Disappears, Changed
    <3> QED BY <2>1, <3>1 DEF Appears, Disappears, Changed, Stream!Send
  <2>2. CASE ServerDrops
    BY <2>2 DEF ServerDrops, Stream!Lose
  <2>3. CASE Connect
    BY <2>3 DEF Connect, SnapshotsAreCurrent, Stream!Open
  <2>4. CASE ConnectionEnds
    BY <2>4 DEF ConnectionEnds, Stream!ReportEnd
  <2>5. CASE NextSnapshot
    BY <2>5 DEF NextSnapshot, SnapshotsAreCurrent, Stream!Return
  <2>6. CASE \/ Stop \/ Exit \/ Insert \/ Retain \/ UNCHANGED vars
             \/ \E d \in Devices : Remove(d) \/ Reverse(d)
    BY <2>6 DEF Stop, Exit, Insert, Retain, Remove, Reverse, vars
  <2>7. CASE CheckVersion \/ Install \/ CheckProcess \/ StartActivity
    BY <2>7 DEF CheckVersion, Install, CheckProcess, StartActivity, AppStepFails, AppStep
  <2> QED BY <2>1, <2>2, <2>3, <2>4, <2>5, <2>6, <2>7 DEF Next, Watch
<1> QED BY <1>1, <1>2, TunnelInvariant, PTL DEF Spec, SeesStream, Stream!Spec
=============================================================================
