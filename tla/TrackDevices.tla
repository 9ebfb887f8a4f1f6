----------------------------- MODULE TrackDevices -----------------------------
(***************************************************************************)
(* bridge-adb's TrackDevicesClient (src/bridge/adb/src/lib.rs) and its C    *)
(* interface (ffi.rs): the handshake with the adb server, the frames of its *)
(* host:track-devices service, read in whatever pieces TCP delivers them,   *)
(* and the calls a host makes.                                              *)
(*                                                                         *)
(* A frame is four hex digits and a payload, the lines of a device list;    *)
(* a line is one unit, so a frame of n lines has the length n.  A unit on   *)
(* the wire is the frame it belongs to and its place there.  The wire is    *)
(* written as the messages that the server sent, of which a reader sees     *)
(* only the units, one after the other.                                     *)
(***************************************************************************)
EXTENDS Naturals, Sequences

CONSTANTS
  Serials,
  NoSerial,   \* an empty serial
  Lists,      \* the device lists that the server sends
  MaxSends,   \* bound: answers and lists sent
  MaxDials    \* bound: calls of connect

States == {"device", "offline", "none"}  \* "none": a line without a tab
Lines  == [serial : Serials \cup {NoSerial}, state : States]

ASSUME NoSerialAssumption == NoSerial \notin Serials
ASSUME ListsAssumption == Lists \subseteq Seq(Lines)
ASSUME BoundsAssumption == MaxSends \in Nat /\ MaxDials \in Nat

VARIABLES
  pc,      \* where the client is; "idle" and "ready" are between two calls
  timed,   \* connect was given a timeout
  server,  \* what the server did: "none", "asked", "refused", "tracking",
           \* "closed" the connection after that, or before ("gone")
  wire,    \* the messages which arrived: of each, the units not yet read
  buffer,  \* those of the read_exact in progress
  length,  \* how many that wants
  result,  \* of the last call that returned
  devices, \* the usable serials of the last list returned
  sends, dials

vars == <<pc, timed, server, wire, buffer, length, result, devices, sends, dials>>

Handshake == {"connect", "status", "failLength", "failMessage"}

-----------------------------------------------------------------------------
(* The wire                                                                 *)

Digits == 4

Unit(frame, i) == [frame |-> frame, at |-> i]

\* An answer has no length; it stands as the only line of a frame.
Answer(reply) == <<[serial |-> NoSerial, state |-> reply]>>

Status(reply) == [i \in 1 .. 4 |-> Unit(Answer(reply), i)]

Frame(list) == [i \in 1 .. Digits + Len(list) |-> Unit(list, i)]

Frames == Lists \cup {Answer(reply) : reply \in {"OKAY", "FAIL", "other"}}

WireUnits == {u \in [frame : Frames, at : Nat] : u.at \in 1 .. Digits + Len(u.frame)}

\* The four units are the digits of one frame's length.
IsLength(units) == units = SubSeq(Frame(units[1].frame), 1, Digits)

\* Mutant: forgets the last line.
LengthButOne(units) ==
  IF units[1].frame = <<>> THEN 0 ELSE Len(units[1].frame) - 1

\* u32::from_str_radix
LengthOf(units) == Len(units[1].frame)

\* Digits read as part of a list make a line without a tab.
LineOf(unit) == IF unit.at > Digits THEN unit.frame[unit.at - Digits]
                ELSE [serial |-> NoSerial, state |-> "none"]

\* As a set: the callers look devices up, and do not ask for the order.
ParseDeviceList(lines) ==
  {line \in {lines[i] : i \in DOMAIN lines} :
     line.state # "none" /\ line.serial # NoSerial}

\* What the watcher takes from a list.
Usable(lines) ==
  {line.serial : line \in {l \in ParseDeviceList(lines) : l.state = "device"}}

-----------------------------------------------------------------------------

TypeOK ==
  /\ pc \in {"idle", "ready", "length", "payload"} \cup Handshake
  /\ timed \in BOOLEAN
  /\ server \in {"none", "asked", "refused", "tracking", "closed", "gone"}
  /\ wire \in Seq(Seq(WireUnits) \ {<<>>})
  /\ buffer \in Seq(WireUnits)
  /\ length \in Nat
  /\ result \in {"none", "ok", "list", "closed", "error", "timedOut"}
  /\ devices \in SUBSET Serials
  /\ sends \in 0 .. MaxSends
  /\ dials \in 0 .. MaxDials

Init ==
  /\ pc = "idle" /\ timed = FALSE /\ server = "none"
  /\ wire = <<>> /\ buffer = <<>> /\ length = 0
  /\ result = "none" /\ devices = {}
  /\ sends = 0 /\ dials = 0

ReadExact(n) == buffer' = <<>> /\ length' = n

\* next_snapshot returns; the connection stays.
Return(r) ==
  /\ pc' = "ready" /\ result' = r
  /\ ReadExact(0)
  /\ UNCHANGED <<timed, server, sends, dials>>

\* The socket is dropped.
HangUp(r) ==
  /\ pc' = "idle" /\ result' = r
  /\ server' = "none" /\ wire' = <<>>
  /\ ReadExact(0)
  /\ UNCHANGED <<timed, devices, sends, dials>>

-----------------------------------------------------------------------------
(* The adb server                                                           *)

Sends(message) ==
  /\ sends < MaxSends /\ sends' = sends + 1
  /\ wire' = Append(wire, message)
  /\ UNCHANGED <<pc, timed, buffer, length, result, devices, dials>>

\* It tracks the devices, and begins with those there are.
Accept(list) ==
  /\ server = "asked" /\ server' = "tracking"
  /\ Sends(Status("OKAY") \o Frame(list))

\* With or without a message; or it is no adb server.
Refuse ==
  /\ server = "asked" /\ server' = "refused"
  /\ \/ \E text \in Lists : Sends(Status("FAIL") \o Frame(text))
     \/ Sends(Status("other"))

SendList(list) ==
  /\ server = "tracking"
  /\ Sends(Frame(list))
  /\ UNCHANGED server

\* The connection ends; what was on its way arrives up to some unit.
Close ==
  /\ server \in {"asked", "refused", "tracking"}
  /\ server' = IF server = "tracking" THEN "closed" ELSE "gone"
  /\ \E n \in 0 .. Len(wire) :
       \/ wire' = SubSeq(wire, 1, n)
       \/ /\ n # 0
          /\ \E k \in 1 .. Len(wire[n]) - 1 :
               wire' = [SubSeq(wire, 1, n) EXCEPT ![n] = SubSeq(@, 1, k)]
  /\ UNCHANGED <<pc, timed, buffer, length, result, devices, sends, dials>>

-----------------------------------------------------------------------------
(* connect                                                                  *)

Connect ==
  /\ pc = "idle" /\ dials < MaxDials
  /\ dials' = dials + 1
  /\ pc' = "connect" /\ timed' \in BOOLEAN /\ result' = "none"
  /\ UNCHANGED <<server, wire, buffer, length, devices, sends>>

\* The TCP connection is made and the request written ...
SendRequest ==
  /\ pc = "connect"
  /\ pc' = "status" /\ server' = "asked"
  /\ ReadExact(4)
  /\ UNCHANGED <<timed, wire, result, devices, sends, dials>>

\* ... or not.
NotConnected == pc = "connect" /\ HangUp("error")

\* Mutant: bounds the TCP connection only.
TimeOutConnecting == timed /\ pc = "connect" /\ HangUp("timedOut")

\* tokio::time::timeout drops the attempt wherever it is.
TimeOut == timed /\ pc \in Handshake /\ HangUp("timedOut")

-----------------------------------------------------------------------------
(* read_okay, next_snapshot and read_length_prefixed                        *)

CallNextSnapshot ==
  /\ pc = "ready"
  /\ pc' = "length"
  /\ ReadExact(Digits)
  /\ UNCHANGED <<timed, server, wire, result, devices, sends, dials>>

\* One more unit of a read_exact, and whether it is the last.
Reads(last) ==
  /\ length # 0 /\ wire # <<>>
  /\ last = (Len(buffer) + 1 = length)

Units == Append(buffer, Head(Head(wire)))

\* That unit is off the wire.
Take == wire' = IF Len(Head(wire)) = 1 THEN Tail(wire)
                                       ELSE [wire EXCEPT ![1] = Tail(@)]

Go(to, n) ==
  /\ pc' = to
  /\ ReadExact(n)
  /\ UNCHANGED <<timed, server, result, devices, sends, dials>>

ReadOn ==
  /\ Reads(FALSE)
  /\ buffer' = Units /\ Take
  /\ UNCHANGED <<pc, timed, server, length, result, devices, sends, dials>>

ReadStatus ==
  /\ pc = "status" /\ Reads(TRUE)
  /\ \/ /\ Units = Status("OKAY")
        /\ Take
        /\ Return("ok") /\ UNCHANGED devices
     \/ /\ Units = Status("FAIL")
        /\ Take
        /\ Go("failLength", Digits)
     \/ /\ Units \notin {Status("OKAY"), Status("FAIL")}
        /\ HangUp("error")

\* Mutant: waits for a payload of no bytes.
AwaitPayload ==
  /\ pc = "length" /\ Reads(TRUE)
  /\ Take
  /\ IF ~IsLength(Units) THEN Return("error") /\ UNCHANGED devices
     ELSE Go("payload", LengthOf(Units))

\* A payload of no bytes is complete at once.
ReadLength ==
  /\ pc = "length" /\ Reads(TRUE)
  /\ Take
  /\ IF ~IsLength(Units) THEN Return("error") /\ UNCHANGED devices
     ELSE IF LengthOf(Units) = 0 THEN Return("list") /\ devices' = {}
     ELSE Go("payload", LengthOf(Units))

ReadPayload ==
  /\ pc = "payload" /\ Reads(TRUE)
  /\ Take
  /\ devices' = Usable([i \in DOMAIN Units |-> LineOf(Units[i])])
  /\ Return("list")

\* The answer was FAIL: connect fails with its message, or without.
ReadFail ==
  /\ pc \in {"failLength", "failMessage"} /\ Reads(TRUE)
  /\ \/ /\ pc = "failLength" /\ LengthOf(Units) # 0
        /\ Take
        /\ Go("failMessage", LengthOf(Units))
     \/ /\ pc = "failMessage" \/ LengthOf(Units) = 0
        /\ HangUp("error")

\* Ok(None) however many digits were read, an error in a payload.  A connection
\* which was reset is an error everywhere.
ReadEnd ==
  /\ server \in {"closed", "gone"} /\ wire = <<>>
  /\ \/ pc \in Handshake /\ HangUp("error")
     \/ /\ pc \in {"length", "payload"}
        /\ \E r \in {"closed", "error"} :
             /\ pc = "payload" => r = "error"
             /\ Return(r)
        /\ UNCHANGED <<wire, devices>>

\* bridge_adb_disconnect, or watch_and_tunnel returns.
Disconnect == pc = "ready" /\ HangUp("none")

-----------------------------------------------------------------------------

Read == ReadOn \/ ReadStatus \/ ReadLength \/ ReadPayload \/ ReadFail \/ ReadEnd

Next ==
  \/ \E list \in Lists : Accept(list) \/ SendList(list)
  \/ Refuse \/ Close
  \/ Connect \/ SendRequest \/ NotConnected \/ TimeOut
  \/ CallNextSnapshot \/ Read \/ Disconnect

Spec == Init /\ [][Next]_vars

\* The caller calls again, a timeout expires, what has arrived is read.
FairSpec ==
  Spec /\ WF_vars(CallNextSnapshot) /\ WF_vars(TimeOut) /\ WF_vars(Read)

-----------------------------------------------------------------------------
(* The stream of snapshots this implements                                  *)

StreamConn ==
  CASE server = "tracking" -> "up"
    [] server = "closed" -> IF result \in {"closed", "error"} THEN "over" ELSE "closed"
    [] OTHER -> "none"

\* A snapshot can be returned once the last unit of its frame has arrived.
LastUnit(message) == message[Len(message)]
EndsFrame(unit) == unit.at = Digits + Len(unit.frame) /\ unit.frame \in Lists

\* Of a connection that was lost, the last message may be cut.
Arrived == {i \in DOMAIN wire : EndsFrame(LastUnit(wire[i]))}

StreamQueue ==
  IF server \in {"tracking", "closed"}
    THEN [i \in Arrived |-> Usable(LastUnit(wire[i]).frame)]
    ELSE <<>>

Stream == INSTANCE SnapshotStream WITH
            Snapshots <- SUBSET Serials,
            conn <- StreamConn, queue <- StreamQueue, returned <- devices

-----------------------------------------------------------------------------
(* Properties                                                               *)

\* However TCP cuts and loses them, the frames come out as whole snapshots, in
\* order, each once; only those that did not arrive in full are lost, and the end
\* is reported when the others have been returned.  This is what
\* watch_and_tunnel relies on (AdbWatch), and what adb's C interface hands out.
ImplementsStream == Stream!Spec

\* `timeout` bounds the handshake as well as the TCP connection (the comment of
\* TrackDevicesClient::connect): connect returns even if the server says nothing,
\* or FAIL and then nothing.
ConnectReturns == timed /\ pc \in Handshake ~> pc \notin Handshake

\* A caller that goes on calling gets everything that has arrived.
SnapshotsReturned == []<>(StreamQueue = <<>>)
=============================================================================
