------------------------------- MODULE AdbWatch ------------------------------
(***************************************************************************)
(* The daemon's side of adb (adb_watch.rs and main.rs of bridge-cli, with   *)
(* bridge-adb): a task follows the adb server's list of devices, sets up a  *)
(* reverse tunnel for each usable one and has the companion app installed   *)
(* and running there; at the end main removes the tunnels of the devices    *)
(* recorded in `tunneled`.                                                  *)
(*                                                                         *)
(* The two tasks interleave between their awaits, and the devices change    *)
(* under both: a snapshot is a set of usable devices as it was when the adb *)
(* server sent it, and a tunnel goes with the device it was made for.  What *)
(* the watcher reads is a SnapshotStream, which TrackDevices implements.    *)
(***************************************************************************)
EXTENDS Naturals, Sequences, FiniteSets

CONSTANTS
  Devices,       \* serials
  NoDevice,
  AppConfigured, \* app_config is Some
  MaxChanges,    \* bound: devices coming and going
  MaxDrops       \* bound: losses of the connection to the adb server

ASSUME NoDeviceAssumption == NoDevice \notin Devices
ASSUME AppConfiguredAssumption == AppConfigured \in BOOLEAN
ASSUME BoundsAssumption == MaxChanges \in Nat /\ MaxDrops \in Nat

VARIABLES
  usable,    \* the devices in state "device"
  tunnel,    \* those with a reverse mapping
  current,   \* those with the bundled version of the app installed
  process,   \* those on which the app runs
  conn,      \* the track-devices connection: "up", "closed" by the server, "none"
  queue,     \* snapshots sent over it
  watch,     \* where watch_and_tunnel is
  snapshot,  \* usable
  todo,      \* what is left of not_yet_tunneled
  serial,    \* the one being set up
  tunneled,  \* TunneledDevices
  main,      \* where main is
  removing,  \* what is left of remove_all_reverse_tunnels' serials
  unlucky,   \* ghost: devices a command failed for, whose leaving went unseen,
             \* or which main could not know it had to remove
  changes, drops

vars == <<usable, tunnel, current, process, conn, queue, watch, snapshot, todo,
          serial, tunneled, main, removing, unlucky, changes, drops>>

TypeOK ==
  /\ usable \subseteq Devices
  /\ tunnel \subseteq usable
  /\ current \subseteq Devices
  /\ process \subseteq Devices
  /\ conn \in {"up", "closed", "none"}
  /\ queue \in Seq(SUBSET Devices)
  /\ watch \in {"retry", "wait", "tunnel", "insert", "version", "install",
                "pidof", "start"}
  /\ snapshot \subseteq Devices /\ todo \subseteq snapshot
  /\ serial \in Devices \cup {NoDevice}
  /\ serial = NoDevice <=> watch \in {"retry", "wait", "tunnel"}
  /\ tunneled \subseteq Devices
  /\ main \in {"running", "removing", "exited"}
  /\ removing \subseteq Devices
  /\ unlucky \subseteq Devices
  /\ changes \in 0 .. MaxChanges /\ drops \in 0 .. MaxDrops

Init ==
  /\ usable \in SUBSET Devices
  /\ tunnel = {}
  /\ current \in SUBSET Devices
  /\ process \in SUBSET Devices
  /\ conn = "none" /\ queue = <<>>
  /\ watch = "retry"
  /\ snapshot = {} /\ todo = {} /\ serial = NoDevice /\ tunneled = {}
  /\ main = "running" /\ removing = {}
  /\ unlucky = {} /\ changes = 0 /\ drops = 0

phones == <<usable, tunnel, current, process>>
server == <<conn, queue>>
loop   == <<watch, snapshot, todo, serial>>
rest   == <<unlucky, changes, drops>>

-----------------------------------------------------------------------------
(* Devices and the adb server                                               *)

\* The server sends a snapshot at every change.
Changed(devices) ==
  /\ changes < MaxChanges
  /\ changes' = changes + 1
  /\ usable' = devices
  /\ queue' = IF conn = "up" THEN Append(queue, devices) ELSE queue
  /\ UNCHANGED <<conn, loop, tunneled, main, removing, drops>>

\* Plugged in, or authorized.
Appears(d) ==
  /\ d \notin usable
  /\ Changed(usable \cup {d})
  /\ UNCHANGED <<tunnel, current, process, unlucky>>

\* The tunnel goes with the transport.
Disappears(d) ==
  /\ d \in usable
  /\ Changed(usable \ {d})
  /\ tunnel' = tunnel \ {d}
  /\ unlucky' = IF conn = "up" THEN unlucky ELSE unlucky \cup {d}
  /\ UNCHANGED <<current, process>>

\* Of what was sent, the first n snapshots can still be read.
ServerDrops ==
  /\ conn = "up"
  /\ drops < MaxDrops
  /\ drops' = drops + 1
  /\ conn' = "closed"
  /\ \E n \in 0 .. Len(queue) :
       /\ queue' = SubSeq(queue, 1, n)
       /\ unlucky' = unlucky \cup UNION {Devices \ queue[i] : i \in n + 1 .. Len(queue)}
  /\ UNCHANGED <<phones, loop, tunneled, main, removing, changes>>

\* An adb command for d has its effect only while d is there, and may fail even
\* then.
Works(d) == d \in usable /\ UNCHANGED <<unlucky, changes, drops>>
Fails(d) == unlucky' = unlucky \cup ({d} \cap usable) /\ UNCHANGED <<changes, drops>>

-----------------------------------------------------------------------------
(* watch_and_tunnel_forever                                                 *)

Watching == main # "exited"

\* The server answers with a first snapshot.
Connect ==
  /\ Watching /\ watch = "retry"
  /\ conn' = "up"
  /\ queue' = <<usable>>
  /\ watch' = "wait"
  /\ UNCHANGED <<phones, snapshot, todo, serial, tunneled, main, removing, rest>>

\* Ok(None), or an error.
ConnectionEnds ==
  /\ Watching /\ watch = "wait"
  /\ conn = "closed" /\ queue = <<>>
  /\ conn' = "none"
  /\ watch' = "retry"
  /\ UNCHANGED <<phones, queue, snapshot, todo, serial, tunneled, main, removing, rest>>

\* Mutant: skips to the newest.
NextSnapshotNewest ==
  /\ Watching /\ watch = "wait"
  /\ queue # <<>>
  /\ queue' = <<>>
  /\ snapshot' = queue[Len(queue)]
  /\ todo' = snapshot' \ tunneled
  /\ watch' = "tunnel"
  /\ UNCHANGED <<phones, conn, serial, tunneled, main, removing, rest>>

NextSnapshot ==
  /\ Watching /\ watch = "wait"
  /\ queue # <<>>
  /\ queue' = Tail(queue)
  /\ snapshot' = Head(queue)
  /\ todo' = snapshot' \ tunneled
  /\ watch' = "tunnel"
  /\ UNCHANGED <<phones, conn, serial, tunneled, main, removing, rest>>

\* adb reverse takes effect, or is given up until the next snapshot.  Once
\* `tunneled` has been copied, it is too late for main.
Reverse(d) ==
  /\ Watching /\ watch = "tunnel"
  /\ d \in todo
  /\ todo' = todo \ {d}
  /\ \/ /\ d \in usable
        /\ tunnel' = tunnel \cup {d} /\ watch' = "insert" /\ serial' = d
        /\ unlucky' = IF main = "running" THEN unlucky ELSE unlucky \cup {d}
        /\ UNCHANGED <<changes, drops>>
     \/ Fails(d) /\ UNCHANGED <<tunnel, watch, serial>>
  /\ UNCHANGED <<usable, current, process, server, snapshot, tunneled, main,
                 removing>>

\* It has returned.
Insert ==
  /\ Watching /\ watch = "insert"
  /\ tunneled' = tunneled \cup {serial}
  /\ IF AppConfigured THEN watch' = "version" /\ UNCHANGED serial
                      ELSE watch' = "tunnel" /\ serial' = NoDevice
  /\ UNCHANGED <<phones, server, snapshot, todo, main, removing, rest>>

\* One command of ensure_app_ready; the first that fails ends it.
AppStep(from, next) ==
  /\ Watching /\ watch = from
  /\ watch' = next
  /\ serial' = IF next = "tunnel" THEN NoDevice ELSE serial
  /\ UNCHANGED <<usable, tunnel, server, snapshot, todo, tunneled, main, removing>>

AppStepFails(from) ==
  /\ Fails(serial)
  /\ AppStep(from, "tunnel")
  /\ UNCHANGED <<current, process>>

\* Mutant: installs over whatever is there.
CheckVersionOfNothing ==
  \/ Works(serial) /\ AppStep("version", "install") /\ UNCHANGED <<current, process>>
  \/ AppStepFails("version")

CheckVersion ==
  \/ /\ Works(serial)
     /\ AppStep("version", IF serial \in current THEN "pidof" ELSE "install")
     /\ UNCHANGED <<current, process>>
  \/ AppStepFails("version")

\* Mutant: takes an app which was just installed for one that runs.
InstallAndReturn ==
  \/ /\ Works(serial)
     /\ AppStep("install", "tunnel")
     /\ current' = current \cup {serial}
     /\ process' = process \ {serial}
  \/ AppStepFails("install")

\* A running app is stopped by its reinstallation.
Install ==
  \/ /\ Works(serial)
     /\ AppStep("install", "pidof")
     /\ current' = current \cup {serial}
     /\ process' = process \ {serial}
  \/ AppStepFails("install")

\* is_process_running does not look at the exit status: a device which is gone
\* runs no process.  Only adb itself can be missing.
CheckProcess ==
  /\ \/ /\ Works(serial)
        /\ AppStep("pidof", IF serial \in process THEN "tunnel" ELSE "start")
     \/ Fails(serial) /\ AppStep("pidof", "start")
     \/ Fails(serial) /\ AppStep("pidof", "tunnel")
  /\ UNCHANGED <<current, process>>

StartActivity ==
  \/ /\ Works(serial)
     /\ AppStep("start", "tunnel")
     /\ process' = process \cup {serial}
     /\ UNCHANGED current
  \/ AppStepFails("start")

\* Mutant: forgets the devices which are there, too.
RetainNone ==
  /\ Watching /\ watch = "tunnel" /\ todo = {}
  /\ tunneled' = {}
  /\ watch' = "wait"
  /\ UNCHANGED <<phones, server, snapshot, todo, serial, main, removing, rest>>

\* Mutant: keeps the devices that are gone.
RetainAll ==
  /\ Watching /\ watch = "tunnel" /\ todo = {}
  /\ watch' = "wait"
  /\ UNCHANGED <<phones, server, snapshot, todo, serial, tunneled, main, removing, rest>>

Retain ==
  /\ Watching /\ watch = "tunnel" /\ todo = {}
  /\ tunneled' = tunneled \cap snapshot
  /\ watch' = "wait"
  /\ UNCHANGED <<phones, server, snapshot, todo, serial, main, removing, rest>>

-----------------------------------------------------------------------------
(* main                                                                     *)

Idle == watch = "wait" /\ conn = "up" /\ queue = <<>> /\ main = "running"

\* Ctrl+C, or bridge_core::run returns; `tunneled` is copied.
Stop ==
  /\ main = "running"
  /\ main' = "removing"
  /\ removing' = tunneled
  /\ unlucky' = IF Idle THEN unlucky ELSE unlucky \cup (tunnel \ tunneled)
  /\ UNCHANGED <<phones, server, loop, tunneled, changes, drops>>

\* Mutant: ends at the first command that fails.
RemoveOrGiveUp(d) ==
  /\ main = "removing"
  /\ d \in removing
  /\ \/ Works(d) /\ tunnel' = tunnel \ {d} /\ removing' = removing \ {d}
     \/ Fails(d) /\ UNCHANGED tunnel /\ removing' = {}
  /\ UNCHANGED <<usable, current, process, server, loop, tunneled, main>>

Remove(d) ==
  /\ main = "removing"
  /\ d \in removing
  /\ removing' = removing \ {d}
  /\ \/ Works(d) /\ tunnel' = tunnel \ {d}
     \/ Fails(d) /\ UNCHANGED tunnel
  /\ UNCHANGED <<usable, current, process, server, loop, tunneled, main>>

\* The runtime, and with it the watching task, is dropped.
Exit ==
  /\ main = "removing" /\ removing = {}
  /\ main' = "exited"
  /\ UNCHANGED <<phones, server, loop, tunneled, removing, rest>>

-----------------------------------------------------------------------------

Watch ==
  \/ Connect \/ ConnectionEnds \/ NextSnapshot
  \/ \E d \in Devices : Reverse(d)
  \/ Insert
  \/ CheckVersion \/ Install \/ CheckProcess \/ StartActivity
  \/ Retain

Next ==
  \/ \E d \in Devices : Appears(d) \/ Disappears(d)
  \/ ServerDrops
  \/ Watch
  \/ Stop \/ Exit
  \/ \E d \in Devices : Remove(d)

Spec == Init /\ [][Next]_vars

\* The commands return, and the server is found again.
FairSpec == Spec /\ WF_vars(Watch)

-----------------------------------------------------------------------------
(* Properties                                                               *)

\* adb_watch.rs:1-3, a usable device comes to have a tunnel "regardless of USB
\* replugs", as long as it stays and the daemon runs.  Exempt is a device which
\* left while the connection to the adb server was down, as it may be taken for
\* one that still has its tunnel, and one whose `adb reverse` failed, as it waits
\* for a snapshot which only another change will bring.
UsableDeviceTunneled ==
  \A d \in Devices :
    d \in usable /\ main = "running" ~>
      d \in tunnel \/ d \notin usable \/ main # "running" \/ d \in unlucky

\* And it comes to run the bundled version of the app, whichever version it had
\* and whether that was running or not.
AppReady ==
  \A d \in Devices :
    d \in usable /\ main = "running" ~>
      \/ d \in current \cap process
      \/ d \notin usable \/ main # "running" \/ d \in unlucky

\* An app that runs in the bundled version is never stopped for another
\* installation of it, whatever fails and whenever its device is tunnelled again.
RunningAppUndisturbed ==
  [][\A d \in current \cap process : d \in process']_vars

\* What main will remove is what there is to remove, whenever the watcher has
\* nothing left to do: however far it was behind the devices in between.
RecordMatchesTunnels == Idle => tunneled \ unlucky = tunnel \ unlucky

\* A daemon that was stopped leaves no device "with a stale mapping pointing at
\* a port nothing is listening on anymore" (adb_watch.rs:183-186), whatever the
\* watcher, which still runs, and the devices do while the tunnels are removed one
\* by one.  Exempt are a device whose removal failed, one that was tunnelled after
\* the copy of the record, and one that the record did not name because the
\* watcher was not idle then.
ShutdownRemovesTunnels == main = "exited" => tunnel \subseteq unlucky

Stream == INSTANCE SnapshotStream WITH
            Snapshots <- SUBSET Devices, returned <- snapshot

\* What the watcher sees of the adb server, and what it does with it, is a stream
\* of snapshots: it takes each, in order, and gives no connection up before its
\* end.
SeesStream == Stream!Spec
=============================================================================
