---------------------------- MODULE SnapshotStream ----------------------------
(***************************************************************************)
(* What bridge-adb's client promises of a track-devices connection: the     *)
(* snapshots come whole, in the order the adb server sent them, each once;  *)
(* a connection that is lost loses the last of them and nothing else; and   *)
(* its end is reported once the others have been returned.  TrackDevices    *)
(* implements it byte by byte, AdbWatch is written against it.              *)
(***************************************************************************)
EXTENDS Naturals, Sequences

CONSTANT Snapshots

VARIABLES
  conn,     \* "none", "up", "closed" by the server, "over" once the caller knows
  queue,    \* the snapshots that can still be returned
  returned  \* the last one that was

vars == <<conn, queue, returned>>

Init == /\ conn = "none"
        /\ queue = <<>>
        /\ returned \in Snapshots

\* The server answers with the devices there are.
Open == /\ conn = "none"
        /\ conn' = "up"
        /\ \E s \in Snapshots : queue' = <<s>>
        /\ UNCHANGED returned

Send == /\ conn = "up"
        /\ \E s \in Snapshots : queue' = Append(queue, s)
        /\ UNCHANGED <<conn, returned>>

Lose == /\ conn = "up"
        /\ conn' = "closed"
        /\ \E n \in 0 .. Len(queue) : queue' = SubSeq(queue, 1, n)
        /\ UNCHANGED returned

Return == /\ conn # "none"
          /\ queue # <<>>
          /\ returned' = Head(queue)
          /\ queue' = Tail(queue)
          /\ UNCHANGED conn

ReportEnd == /\ conn = "closed"
             /\ queue = <<>>
             /\ conn' \in {"over", "none"}
             /\ UNCHANGED <<queue, returned>>

\* The caller gives the connection up.
Drop == /\ conn # "none"
        /\ conn' = "none"
        /\ queue' = <<>>
        /\ UNCHANGED returned

Next == Open \/ Send \/ Lose \/ Return \/ ReportEnd \/ Drop

Spec == Init /\ [][Next]_vars
=============================================================================
