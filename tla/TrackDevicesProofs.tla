-------------------------- MODULE TrackDevicesProofs --------------------------
(***************************************************************************)
(* Proof that TrackDevices implements SnapshotStream: for any lists of any  *)
(* devices, however the wire cuts them, and any number of connections.      *)
(*                                                                         *)
(* The invariant says where the client is: what is in its buffer and the    *)
(* rest of the message on the wire are parts of one list's frame, the one   *)
(* after the other, so that it takes the digits for digits and the lines    *)
(* for lines; whole frames follow, but for the last of a lost connection.   *)
(***************************************************************************)
EXTENDS TrackDevices, SequenceTheorems, TLAPS

-----------------------------------------------------------------------------
(* Frames and answers                                                       *)

\* What a list says of a device is one of its lines.
LEMMA LinesOfList ==
  ASSUME NEW list \in Lists
  PROVE  /\ list \in Seq(Lines) /\ Len(list) \in Nat
         /\ list \in Frames
         /\ list # Answer("OKAY")
<1>1. list \in Seq(Lines) /\ Len(list) \in Nat
  BY ListsAssumption, LenProperties
<1>2. list # Answer("OKAY")
  <2> SUFFICES ASSUME list = Answer("OKAY") PROVE FALSE
    OBVIOUS
  <2>1. list[1].state = "OKAY" /\ 1 \in 1 .. Len(list)
    BY DEF Answer
  <2>2. list[1] \in Lines
    BY <1>1, <2>1, ElementOfSeq
  <2> QED BY <2>1, <2>2 DEF Lines, States
<1> QED BY <1>1, <1>2 DEF Frames

LEMMA FrameUnits ==
  ASSUME NEW list \in Lists
  PROVE  /\ Frame(list) \in Seq(WireUnits)
         /\ Len(Frame(list)) = Digits + Len(list)
         /\ \A i \in 1 .. Digits + Len(list) : Frame(list)[i] = Unit(list, i)
<1> DEFINE n == Digits + Len(list)
<1>1. n \in Nat
  BY LinesOfList DEF Digits
<1>2. \A i \in 1 .. n : Unit(list, i) \in WireUnits
  BY <1>1, LinesOfList DEF Unit, WireUnits
<1>3. Frame(list) = [i \in 1 .. n |-> Unit(list, i)]
  BY DEF Frame
<1> HIDE DEF n
<1>4. Frame(list) \in Seq(WireUnits) /\ Len(Frame(list)) = n
  BY <1>1, <1>2, <1>3
<1> QED BY <1>3, <1>4 DEF n

Replies == {"OKAY", "FAIL", "other"}

LEMMA StatusUnits ==
  ASSUME NEW reply \in Replies
  PROVE  /\ Status(reply) \in Seq(WireUnits)
         /\ Len(Status(reply)) = 4
         /\ \A i \in 1 .. 4 : Status(reply)[i] = Unit(Answer(reply), i)
<1>1. Answer(reply) \in Frames /\ Len(Answer(reply)) = 1
  BY DEF Answer, Frames, Replies
<1>2. \A i \in 1 .. 4 : Unit(Answer(reply), i) \in WireUnits
  BY <1>1 DEF Unit, WireUnits, Digits
<1> QED BY <1>2 DEF Status

\* A snapshot is one of the serials there are.
LEMMA UsableSerials ==
  ASSUME NEW lines, \A i \in DOMAIN lines : lines[i].serial \in Serials \cup {NoSerial}
  PROVE  Usable(lines) \in SUBSET Serials
BY DEF Usable, ParseDeviceList

LEMMA ListSerials ==
  ASSUME NEW list \in Lists
  PROVE  Usable(list) \in SUBSET Serials
<1>1. \A i \in DOMAIN list : list[i] \in Lines
  BY LinesOfList, ElementOfSeq
<1> QED BY <1>1, UsableSerials DEF Lines

LEMMA LineSerial ==
  ASSUME NEW unit \in WireUnits
  PROVE  LineOf(unit).serial \in Serials \cup {NoSerial}
<1>1. unit.frame \in Frames /\ unit.at \in Nat /\ unit.at <= Digits + Len(unit.frame)
  BY DEF WireUnits
<1>2. CASE unit.at > Digits
  <2>1. CASE unit.frame \in Lists
    <3>1. unit.at - Digits \in 1 .. Len(unit.frame)
      BY <1>1, <1>2, <2>1, LinesOfList DEF Digits
    <3>2. unit.frame[unit.at - Digits] \in Lines
      BY <2>1, <3>1, LinesOfList, ElementOfSeq
    <3> QED BY <1>2, <3>2 DEF LineOf, Lines
  <2>2. CASE \E reply \in Replies : unit.frame = Answer(reply)
    <3>1. Len(unit.frame) = 1 /\ unit.frame[1].serial = NoSerial
      BY <2>2 DEF Answer
    <3>2. unit.at - Digits = 1
      BY <1>1, <1>2, <3>1 DEF Digits
    <3> QED BY <1>2, <3>1, <3>2 DEF LineOf
  <2> QED BY <1>1, <2>1, <2>2 DEF Frames, Replies
<1>3. CASE ~(unit.at > Digits)
  BY <1>3 DEF LineOf
<1> QED BY <1>2, <1>3

-----------------------------------------------------------------------------
(* The wire                                                                 *)

Wires == Seq(Seq(WireUnits) \ {<<>>})

NextUnit == Head(Head(wire))

\* The wire w without its first unit.
Shortened(w) == IF Len(Head(w)) = 1 THEN Tail(w) ELSE [w EXCEPT ![1] = Tail(@)]

LEMMA ShortenedWire ==
  ASSUME NEW w \in Wires, w # <<>>
  PROVE  /\ Len(w) \in Nat \ {0} /\ Len(w[1]) \in Nat \ {0}
         /\ w[1] \in Seq(WireUnits)
         /\ Head(Head(w)) = w[1][1] /\ w[1][1] \in WireUnits
         /\ Shortened(w) \in Wires
         /\ Len(w[1]) = 1 => /\ Len(Shortened(w)) = Len(w) - 1
                             /\ \A i \in 1 .. Len(Shortened(w)) : Shortened(w)[i] = w[i + 1]
         /\ Len(w[1]) # 1 =>
              /\ Len(Shortened(w)) = Len(w)
              /\ Len(Shortened(w)[1]) = Len(w[1]) - 1
              /\ \A k \in 1 .. Len(Shortened(w)[1]) : Shortened(w)[1][k] = w[1][k + 1]
              /\ \A i \in 2 .. Len(Shortened(w)) : Shortened(w)[i] = w[i]
<1> DEFINE S == Seq(WireUnits) \ {<<>>}
           v == Shortened(w)
<1>1. w \in Seq(S)
  BY DEF Wires
<1> HIDE DEF S, v
<1>2. /\ Len(w) \in Nat \ {0} /\ Head(w) = w[1] /\ w[1] \in S
      /\ Tail(w) \in Seq(S) /\ Len(Tail(w)) = Len(w) - 1
      /\ \A i \in 1 .. Len(Tail(w)) : Tail(w)[i] = w[i + 1]
  BY <1>1, HeadTailProperties, EmptySeq
<1> DEFINE m == w[1]
<1>3. m \in Seq(WireUnits) /\ m # <<>> /\ Head(w) = m
  BY <1>2 DEF S
<1> HIDE DEF m
<1> DEFINE t == Tail(m)
<1>4. /\ Len(m) \in Nat \ {0} /\ Head(m) = m[1] /\ m[1] \in WireUnits
      /\ t \in Seq(WireUnits) /\ Len(t) = Len(m) - 1
      /\ \A k \in 1 .. Len(t) : t[k] = m[k + 1]
  BY <1>3, HeadTailProperties, EmptySeq
<1>5. Len(m) = 1 => v = Tail(w)
  BY <1>3 DEF Shortened, v
<1>6. Len(m) # 1 => v = [w EXCEPT ![1] = t]
  BY <1>3 DEF Shortened, v, m
<1> HIDE DEF t
<1>7. ASSUME Len(m) # 1
      PROVE  /\ v \in Seq(S) /\ Len(v) = Len(w)
             /\ \A i \in 1 .. Len(w) : v[i] = IF i = 1 THEN t ELSE w[i]
  <2>1. t \in S
    <3>1. Len(t) # 0
      BY <1>4, <1>7
    <3>2. t # <<>>
      BY <3>1, EmptySeq
    <3> QED BY <1>4, <3>2 DEF S
  <2>2. 1 \in 1 .. Len(w)
    BY <1>2
  <2>3. [w EXCEPT ![1] = t] \in Seq(S) /\ Len([w EXCEPT ![1] = t]) = Len(w)
        /\ \A i \in 1 .. Len(w) : [w EXCEPT ![1] = t][i] = IF i = 1 THEN t ELSE w[i]
    BY <1>1, <2>1, <2>2, ExceptSeq
  <2> QED BY <1>6, <1>7, <2>3
<1>8. v \in Seq(S)
  BY <1>2, <1>5, <1>7
<1>9. Len(m) = 1 => Len(v) = Len(w) - 1 /\ \A i \in 1 .. Len(v) : v[i] = w[i + 1]
  BY <1>2, <1>5
<1>10. Len(m) # 1 =>
         /\ Len(v) = Len(w) /\ v[1] = t
         /\ \A i \in 2 .. Len(v) : v[i] = w[i]
  BY <1>2, <1>7
<1>11. Len(m) # 1 => Len(v[1]) = Len(m) - 1 /\ \A k \in 1 .. Len(v[1]) : v[1][k] = m[k + 1]
  BY <1>4, <1>10
<1> QED BY <1>2, <1>3, <1>4, <1>8, <1>9, <1>10, <1>11 DEF m, S, v, Wires

LEMMA TakeUnit ==
  ASSUME TypeOK, wire # <<>>
  PROVE  /\ wire \in Wires
         /\ NextUnit = wire[1][1] /\ NextUnit \in WireUnits
         /\ Take => wire' = Shortened(wire)
<1>1. wire \in Wires
  BY DEF TypeOK, Wires
<1> QED BY <1>1, ShortenedWire DEF NextUnit, Take, Shortened

\* What is left of the wire when its connection is lost.
LEMMA CutWire ==
  ASSUME TypeOK, Close
  PROVE  /\ wire' \in Seq(Seq(WireUnits) \ {<<>>})
         /\ Len(wire) \in Nat /\ Len(wire') \in 0 .. Len(wire)
         /\ \A i \in 1 .. Len(wire') : i < Len(wire') => wire'[i] = wire[i]
         /\ \/ Len(wire') # 0 => wire'[Len(wire')] = wire[Len(wire')]
            \/ /\ Len(wire') # 0
               /\ Len(wire'[Len(wire')]) \in 1 .. Len(wire[Len(wire')]) - 1
               /\ \A k \in 1 .. Len(wire'[Len(wire')]) :
                    wire'[Len(wire')][k] = wire[Len(wire')][k]
<1> DEFINE S == Seq(WireUnits) \ {<<>>}
<1>1. wire \in Seq(S) /\ Len(wire) \in Nat
  BY LenProperties DEF TypeOK
<1> HIDE DEF S
<1>2. PICK n \in 0 .. Len(wire) :
        \/ wire' = SubSeq(wire, 1, n)
        \/ /\ n # 0
           /\ \E k \in 1 .. Len(wire[n]) - 1 :
                wire' = [SubSeq(wire, 1, n) EXCEPT ![n] = SubSeq(@, 1, k)]
  BY DEF Close
<1> DEFINE w == SubSeq(wire, 1, n)
<1>3. w \in Seq(S) /\ Len(w) = n /\ \A i \in 1 .. n : w[i] = wire[i]
  <2>1. \A i \in 1 .. n : wire[i] \in S
    BY <1>1, ElementOfSeq
  <2> QED BY <1>1, <2>1, SubSeqProperties
<1>4. CASE wire' = w
  <2> HIDE DEF w
  <2> QED BY <1>1, <1>3, <1>4 DEF S
<1>5. CASE /\ n # 0
           /\ \E k \in 1 .. Len(wire[n]) - 1 :
                wire' = [SubSeq(wire, 1, n) EXCEPT ![n] = SubSeq(@, 1, k)]
  <2>1. PICK k \in 1 .. Len(wire[n]) - 1 : wire' = [w EXCEPT ![n] = SubSeq(@, 1, k)]
    BY <1>5
  <2> HIDE DEF w
  <2> DEFINE m == wire[n]
             c == SubSeq(m, 1, k)
  <2>2. m \in Seq(WireUnits) /\ Len(m) \in Nat /\ w[n] = m
    <3>1. n \in 1 .. Len(wire)
      BY <1>1, <1>5
    <3>2. wire[n] \in S
      BY <1>1, <3>1, ElementOfSeq
    <3> QED BY <1>3, <1>5, <3>2, LenProperties DEF S
  <2> HIDE DEF m
  <2>3. k \in Nat \ {0} /\ k \in 1 .. Len(m) - 1
    BY <2>1, <2>2 DEF m
  <2>4. c \in Seq(WireUnits) /\ Len(c) = k /\ \A i \in 1 .. k : c[i] = m[i]
    <3>1. \A i \in 1 .. k : m[i] \in WireUnits
      BY <2>2, <2>3, ElementOfSeq
    <3> QED BY <2>3, <3>1, SubSeqProperties
  <2> HIDE DEF c
  <2>5. c \in S
    <3>1. c # <<>>
      BY <2>3, <2>4, EmptySeq
    <3> QED BY <2>4, <3>1 DEF S
  <2>6. wire' = [w EXCEPT ![n] = c] /\ n \in 1 .. Len(w)
    <3>1. wire' = [w EXCEPT ![n] = SubSeq(w[n], 1, k)]
      BY <2>1
    <3>2. SubSeq(w[n], 1, k) = c
      BY <2>2 DEF c
    <3>3. n \in 1 .. Len(w)
      BY <1>1, <1>3, <1>5
    <3> QED BY <3>1, <3>2, <3>3
  <2>7. /\ wire' \in Seq(S) /\ Len(wire') = n
        /\ \A i \in 1 .. n : wire'[i] = IF i = n THEN c ELSE w[i]
    BY <1>3, <2>5, <2>6, ExceptSeq
  <2>8. wire'[n] = c /\ Len(wire'[n]) \in 1 .. Len(m) - 1 /\ \A i \in 1 .. k : wire'[n][i] = m[i]
    BY <2>3, <2>4, <2>6, <2>7
  <2>9. \A i \in 1 .. n : i < n => wire'[i] = wire[i]
    BY <1>3, <2>7
  <2>10. \A i \in 1 .. Len(wire'[n]) : wire'[n][i] = m[i]
    BY <2>4, <2>8
  <2> QED BY <1>1, <1>5, <2>7, <2>8, <2>9, <2>10 DEF S, m
<1> QED BY <1>2, <1>4, <1>5

\* What a read_exact has got with one more unit.
LEMMA UnitsRead ==
  ASSUME TypeOK, wire # <<>>
  PROVE  /\ Units \in Seq(WireUnits)
         /\ Len(buffer) \in Nat /\ Len(Units) = Len(buffer) + 1
         /\ \A k \in 1 .. Len(buffer) : Units[k] = buffer[k]
         /\ Units[Len(buffer) + 1] = NextUnit
<1>1. NextUnit \in WireUnits /\ buffer \in Seq(WireUnits) /\ Units = Append(buffer, NextUnit)
  BY TakeUnit DEF TypeOK, Units, NextUnit
<1> QED BY <1>1, AppendProperties, LenProperties

-----------------------------------------------------------------------------
(* Type correctness                                                         *)

LEMMA InitType == Init => TypeOK
<1> SUFFICES ASSUME Init PROVE TypeOK
  OBVIOUS
<1>1. <<>> \in Seq(Seq(WireUnits) \ {<<>>}) /\ <<>> \in Seq(WireUnits)
  OBVIOUS
<1>2. timed \in BOOLEAN
  BY DEF Init
<1> QED BY <1>1, <1>2, BoundsAssumption DEF Init, TypeOK

LEMMA ServerType ==
  ASSUME TypeOK, (\E list \in Lists : Accept(list) \/ SendList(list)) \/ Refuse \/ Close
  PROVE  TypeOK'
<1> DEFINE S == Seq(WireUnits) \ {<<>>}
<1>1. ASSUME NEW message \in S, Sends(message)
      PROVE  wire' \in Seq(S) /\ sends' \in 0 .. MaxSends
  <2> HIDE DEF S
  <2>1. wire \in Seq(S) /\ wire' = Append(wire, message)
    BY <1>1 DEF Sends, TypeOK, S
  <2> QED BY <1>1, <2>1, AppendProperties, BoundsAssumption DEF Sends, TypeOK
<1>2. \A list \in Lists : Frame(list) \in S
  BY FrameUnits, LinesOfList, EmptySeq DEF Digits
<1>3. \A reply \in Replies : /\ Status(reply) \in S
                             /\ \A list \in Lists : Status(reply) \o Frame(list) \in S
  <2> TAKE reply \in Replies
  <2>1. Status(reply) \in Seq(WireUnits) /\ Len(Status(reply)) = 4
    BY StatusUnits
  <2>2. Status(reply) # <<>>
    BY <2>1, EmptySeq
  <2>3. ASSUME NEW list \in Lists PROVE Status(reply) \o Frame(list) \in S
    <3> DEFINE c == Status(reply) \o Frame(list)
    <3> DEFINE a == Status(reply)
               f == Frame(list)
    <3> HIDE DEF a, f
    <3>1. c \in Seq(WireUnits) /\ Len(c) = 4 + Len(f)
      <4>1. a \in Seq(WireUnits) /\ Len(a) = 4 /\ f \in Seq(WireUnits) /\ c = a \o f
        BY <2>1, FrameUnits DEF a, f
      <4>2. a \o f \in Seq(WireUnits) /\ Len(a \o f) = Len(a) + Len(f)
        BY <4>1, ConcatProperties
      <4> HIDE DEF c
      <4> QED BY <4>1, <4>2
    <3>2. Len(f) \in Nat
      BY FrameUnits, LinesOfList DEF Digits, f
    <3> HIDE DEF c
    <3>3. c # <<>>
      BY <3>1, <3>2, EmptySeq
    <3> QED BY <3>1, <3>3 DEF c
  <2> QED BY <2>1, <2>2, <2>3
<1>4. CASE \E list \in Lists : Accept(list) \/ SendList(list)
  <2>1. PICK message \in S : Sends(message)
    BY <1>2, <1>3, <1>4 DEF Accept, SendList, Replies
  <2>2. server' \in {"tracking"}
    BY <1>4 DEF Accept, SendList
  <2> QED BY <1>1, <2>1, <2>2 DEF Sends, TypeOK
<1>5. CASE Refuse
  <2>1. PICK message \in S : Sends(message)
    BY <1>3, <1>5 DEF Refuse, Replies
  <2>2. server' = "refused"
    BY <1>5 DEF Refuse
  <2> QED BY <1>1, <2>1, <2>2 DEF Sends, TypeOK
<1>6. CASE Close
  BY <1>6, CutWire DEF Close, TypeOK
<1> QED BY <1>4, <1>5, <1>6

LEMMA CallType ==
  ASSUME TypeOK, \/ Connect \/ SendRequest \/ NotConnected \/ TimeOut
                 \/ CallNextSnapshot \/ Disconnect \/ UNCHANGED vars
  PROVE  TypeOK'
<1>1. <<>> \in Seq(Seq(WireUnits) \ {<<>>}) /\ <<>> \in Seq(WireUnits)
  OBVIOUS
<1>2. timed' \in BOOLEAN
  BY DEF Connect, SendRequest, NotConnected, TimeOut, HangUp, CallNextSnapshot, Disconnect,
         vars, TypeOK
<1>3. CASE Connect
  BY <1>2, <1>3, BoundsAssumption DEF Connect, TypeOK, Handshake
<1>4. CASE SendRequest
  BY <1>1, <1>2, <1>4 DEF SendRequest, ReadExact, TypeOK, Handshake
<1>5. CASE NotConnected \/ TimeOut \/ Disconnect
  <2>1. PICK r \in {"error", "timedOut", "none"} : HangUp(r)
    BY <1>5 DEF NotConnected, TimeOut, Disconnect
  <2> QED BY <1>1, <1>2, <2>1 DEF HangUp, ReadExact, TypeOK
<1>6. CASE CallNextSnapshot
  BY <1>1, <1>2, <1>6 DEF CallNextSnapshot, ReadExact, TypeOK, Digits
<1>7. CASE UNCHANGED vars
  BY <1>2, <1>7 DEF vars, TypeOK
<1> QED BY <1>3, <1>4, <1>5, <1>6, <1>7

LEMMA ReadType == TypeOK /\ Read => TypeOK'
<1> SUFFICES ASSUME TypeOK, Read PROVE TypeOK'
  OBVIOUS
<1>1. <<>> \in Seq(Seq(WireUnits) \ {<<>>}) /\ <<>> \in Seq(WireUnits)
  OBVIOUS
<1>2. ASSUME wire # <<>>, Take PROVE wire' \in Seq(Seq(WireUnits) \ {<<>>})
  BY <1>2, TakeUnit, ShortenedWire DEF Wires
<1>3. ASSUME wire # <<>>
      PROVE  /\ Units \in Seq(WireUnits)
             /\ LengthOf(Units) \in Nat
             /\ Usable([i \in DOMAIN Units |-> LineOf(Units[i])]) \in SUBSET Serials
  <2>1. Units \in Seq(WireUnits) /\ 1 \in 1 .. Len(Units)
    BY <1>3, UnitsRead
  <2>2. \A i \in DOMAIN Units : Units[i] \in WireUnits
    BY <2>1, ElementOfSeq
  <2>3. \A frame \in Frames : Len(frame) \in Nat
    BY LinesOfList DEF Frames, Answer
  <2>4. LengthOf(Units) \in Nat
    BY <2>1, <2>2, <2>3 DEF LengthOf, WireUnits
  <2>5. Usable([i \in DOMAIN Units |-> LineOf(Units[i])]) \in SUBSET Serials
    BY <2>2, LineSerial, UsableSerials
  <2> QED BY <2>1, <2>4, <2>5
<1>4. timed' \in BOOLEAN
  BY DEF Read, ReadOn, ReadStatus, ReadLength, ReadPayload, ReadFail, ReadEnd,
         Return, Go, HangUp, TypeOK
<1>5. ASSUME NEW r \in {"ok", "list", "closed", "error"}, Return(r),
             wire' \in Seq(Seq(WireUnits) \ {<<>>}), devices' \in SUBSET Serials
      PROVE  TypeOK'
  BY <1>1, <1>4, <1>5 DEF Return, ReadExact, TypeOK
<1>6. ASSUME NEW r \in {"error"}, HangUp(r) PROVE TypeOK'
  BY <1>1, <1>4, <1>6 DEF HangUp, ReadExact, TypeOK
<1>7. ASSUME NEW to \in {"failLength", "failMessage", "payload"}, NEW n \in Nat, Go(to, n),
             wire' \in Seq(Seq(WireUnits) \ {<<>>})
      PROVE  TypeOK'
  BY <1>1, <1>4, <1>7 DEF Go, ReadExact, TypeOK, Handshake
<1>8. CASE ReadOn
  BY <1>2, <1>3, <1>4, <1>8 DEF ReadOn, Reads, TypeOK
<1>9. CASE ReadStatus
  <2>1. wire # <<>>
    BY <1>9 DEF ReadStatus, Reads
  <2>2. \/ Take /\ Return("ok") /\ UNCHANGED devices
        \/ Take /\ Go("failLength", Digits)
        \/ HangUp("error")
    BY <1>9 DEF ReadStatus
  <2> QED BY <1>2, <1>5, <1>6, <1>7, <2>1, <2>2 DEF TypeOK, Digits
<1>10. CASE ReadLength
  <2>1. wire # <<>>
    BY <1>10 DEF ReadLength, Reads
  <2>2. Take /\ \/ Return("error") /\ UNCHANGED devices
                \/ Return("list") /\ devices' = {}
                \/ Go("payload", LengthOf(Units))
    BY <1>10 DEF ReadLength
  <2> QED BY <1>2, <1>3, <1>5, <1>7, <2>1, <2>2 DEF TypeOK
<1>11. CASE ReadPayload
  <2>1. wire # <<>> /\ Take /\ Return("list")
        /\ devices' = Usable([i \in DOMAIN Units |-> LineOf(Units[i])])
    BY <1>11 DEF ReadPayload, Reads
  <2> QED BY <1>2, <1>3, <1>5, <2>1
<1>12. CASE ReadFail
  <2>1. wire # <<>> /\ \/ Take /\ Go("failMessage", LengthOf(Units))
                       \/ HangUp("error")
    BY <1>12 DEF ReadFail, Reads
  <2> QED BY <1>2, <1>3, <1>6, <1>7, <2>1
<1>13. CASE ReadEnd
  <2>1. \/ HangUp("error")
        \/ \E r \in {"closed", "error"} : Return(r) /\ UNCHANGED <<wire, devices>>
    BY <1>13 DEF ReadEnd
  <2> QED BY <1>5, <1>6, <2>1 DEF TypeOK
<1> QED BY <1>8, <1>9, <1>10, <1>11, <1>12, <1>13 DEF Read

LEMMA NextType == TypeOK /\ [Next]_vars => TypeOK'
BY ServerType, CallType, ReadType DEF Next

\* Every variable keeps its type, whatever the server sends.
THEOREM TypeCorrect == Spec => []TypeOK
<1> QED BY InitType, NextType, PTL DEF Spec

-----------------------------------------------------------------------------
(* The queue                                                                *)

Complete(message) == EndsFrame(LastUnit(message))
SnapshotOf(message) == Usable(LastUnit(message).frame)

\* The snapshots which arrive with the wire w.
QueueOf(w) == [i \in {i \in DOMAIN w : Complete(w[i])} |-> SnapshotOf(w[i])]

\* Every message ends its frame, but for the last one of a connection that was lost.
OnlyLastCut(w, conn) ==
  \A i \in 1 .. Len(w) : Complete(w[i]) \/ (conn = "closed" /\ i = Len(w))

Snapshots == SUBSET Serials

LEMMA QueueOfWire == QueueOf(wire) = [i \in Arrived |-> Usable(LastUnit(wire[i]).frame)]
BY DEF QueueOf, Arrived, Complete, SnapshotOf

LEMMA CompleteSnapshot ==
  ASSUME NEW message, Complete(message)
  PROVE  SnapshotOf(message) \in Snapshots
<1>1. LastUnit(message).frame \in Lists
  BY DEF Complete, EndsFrame
<1> QED BY <1>1, ListSerials DEF SnapshotOf, Snapshots

\* The queue is a sequence: of all messages, or all but the last.
LEMMA QueueSequence ==
  ASSUME NEW w \in Wires, NEW conn, OnlyLastCut(w, conn)
  PROVE  /\ Len(w) \in Nat /\ QueueOf(w) \in Seq(Snapshots)
         /\ Len(QueueOf(w)) \in Nat
         /\ Len(QueueOf(w)) = IF w = <<>> \/ Complete(w[Len(w)]) THEN Len(w) ELSE Len(w) - 1
         /\ \A i \in 1 .. Len(QueueOf(w)) : Complete(w[i]) /\ QueueOf(w)[i] = SnapshotOf(w[i])
<1>1. Len(w) \in Nat /\ DOMAIN w = 1 .. Len(w) /\ (w = <<>> <=> Len(w) = 0)
  BY LenProperties, EmptySeq DEF Wires
<1> DEFINE n == IF w = <<>> \/ Complete(w[Len(w)]) THEN Len(w) ELSE Len(w) - 1
           D == {i \in DOMAIN w : Complete(w[i])}
           q == QueueOf(w)
<1>2. n \in Nat
  BY <1>1
<1>3. D = 1 .. n
  <2>1. ASSUME NEW i \in D PROVE i \in 1 .. n
    BY <1>1, <2>1
  <2>2. ASSUME NEW i \in 1 .. n PROVE i \in D
    <3>1. CASE w # <<>> /\ ~Complete(w[Len(w)])
      <4>1. n = Len(w) - 1
        BY <3>1
      <4> HIDE DEF n
      <4>2. Len(w) \in Nat
        BY <1>1
      <4>3. i \in 1 .. Len(w) /\ i # Len(w)
        BY <4>1, <4>2
      <4> QED BY <1>1, <4>3 DEF OnlyLastCut
    <3>2. CASE w = <<>> \/ Complete(w[Len(w)])
      <4>1. n = Len(w)
        BY <3>2
      <4> HIDE DEF n
      <4>2. i \in 1 .. Len(w) /\ Len(w) # 0
        BY <1>1, <4>1
      <4>3. Complete(w[Len(w)])
        BY <1>1, <3>2, <4>2
      <4> QED BY <4>2, <4>3 DEF OnlyLastCut
    <3> QED BY <3>1, <3>2
  <2> QED BY <2>1, <2>2
<1>4. q = [i \in 1 .. n |-> SnapshotOf(w[i])] /\ \A i \in 1 .. n : Complete(w[i])
  BY <1>3 DEF QueueOf
<1>5. \A i \in 1 .. n : SnapshotOf(w[i]) \in Snapshots
  BY <1>4, CompleteSnapshot
<1> HIDE DEF q, n
<1>6. q \in Seq(Snapshots) /\ Len(q) = n
  BY <1>2, <1>4, <1>5
<1> QED BY <1>1, <1>2, <1>4, <1>6 DEF q, n

\* One more complete message is one more snapshot.
LEMMA QueueGrows ==
  ASSUME NEW w \in Wires, OnlyLastCut(w, "tracking"),
         NEW m \in Seq(WireUnits) \ {<<>>}, Complete(m)
  PROVE  /\ Append(w, m) \in Wires /\ OnlyLastCut(Append(w, m), "tracking")
         /\ QueueOf(Append(w, m)) = Append(QueueOf(w), SnapshotOf(m))
<1> DEFINE v == Append(w, m)
           q == QueueOf(w)
           r == QueueOf(v)
           s == Append(q, SnapshotOf(m))
<1>1. /\ Len(w) \in Nat /\ v \in Wires /\ Len(v) = Len(w) + 1
      /\ \A i \in 1 .. Len(w) : v[i] = w[i]
      /\ v[Len(w) + 1] = m
  BY AppendProperties, LenProperties DEF Wires
<1> HIDE DEF v
<1>2. \A i \in 1 .. Len(v) : Complete(v[i])
  <2> TAKE i \in 1 .. Len(v)
  <2>1. i \in 1 .. Len(w) \/ i = Len(w) + 1
    BY <1>1
  <2> QED BY <1>1, <2>1 DEF OnlyLastCut
<1>3. OnlyLastCut(v, "tracking")
  BY <1>2 DEF OnlyLastCut
<1>4. /\ q \in Seq(Snapshots) /\ Len(q) = Len(w)
      /\ \A i \in 1 .. Len(w) : q[i] = SnapshotOf(w[i])
  <2>1. w = <<>> \/ Complete(w[Len(w)])
    <3>1. w # <<>> => Len(w) \in 1 .. Len(w)
      BY EmptySeq DEF Wires
    <3> QED BY <3>1 DEF OnlyLastCut
  <2> QED BY <2>1, QueueSequence
<1>5. /\ r \in Seq(Snapshots) /\ Len(r) = Len(w) + 1
      /\ \A i \in 1 .. Len(w) + 1 : r[i] = SnapshotOf(v[i])
  <2>1. Complete(v[Len(v)])
    BY <1>1, <1>2
  <2>2. Len(r) = Len(v)
    BY <1>1, <1>3, <2>1, QueueSequence
  <2> QED BY <1>1, <1>3, <2>2, QueueSequence
<1>6. SnapshotOf(m) \in Snapshots
  BY CompleteSnapshot
<1> HIDE DEF q, r
<1>7. /\ s \in Seq(Snapshots) /\ Len(s) = Len(w) + 1
      /\ \A i \in 1 .. Len(w) : s[i] = q[i]
      /\ s[Len(w) + 1] = SnapshotOf(m)
  BY <1>4, <1>6, AppendProperties
<1> HIDE DEF s
<1>8. \A i \in 1 .. Len(r) : r[i] = s[i]
  <2> TAKE i \in 1 .. Len(r)
  <2>1. i \in 1 .. Len(w) \/ i = Len(w) + 1
    BY <1>1, <1>5
  <2> QED BY <1>1, <1>4, <1>5, <1>7, <2>1
<1>9. r = s
  BY <1>5, <1>7, <1>8, SeqEqual
<1> QED BY <1>1, <1>3, <1>9 DEF q, r, s, v

\* A unit that does not end a frame leaves the queue, one that does takes its head.
LEMMA QueueShrinks ==
  ASSUME NEW w \in Wires, w # <<>>, NEW conn, OnlyLastCut(w, conn)
  PROVE  /\ OnlyLastCut(Shortened(w), conn)
         /\ (Len(w[1]) # 1 \/ ~Complete(w[1])) => QueueOf(Shortened(w)) = QueueOf(w)
         /\ (Len(w[1]) = 1 /\ Complete(w[1])) =>
              /\ QueueOf(w) # <<>> /\ Head(QueueOf(w)) = SnapshotOf(w[1])
              /\ QueueOf(Shortened(w)) = Tail(QueueOf(w))
<1> DEFINE v == Shortened(w)
           q == QueueOf(w)
           r == QueueOf(v)
<1>1. /\ Len(w) \in Nat \ {0} /\ Len(w[1]) \in Nat \ {0} /\ v \in Wires
      /\ Len(w[1]) = 1 => Len(v) = Len(w) - 1 /\ \A i \in 1 .. Len(v) : v[i] = w[i + 1]
      /\ Len(w[1]) # 1 => /\ Len(v) = Len(w)
                          /\ Len(v[1]) = Len(w[1]) - 1
                          /\ \A k \in 1 .. Len(v[1]) : v[1][k] = w[1][k + 1]
                          /\ \A i \in 2 .. Len(v) : v[i] = w[i]
  BY ShortenedWire
<1> HIDE DEF v
<1>2. ASSUME Len(w[1]) # 1
      PROVE  /\ Len(v) = Len(w)
             /\ \A i \in 1 .. Len(w) : Complete(v[i]) = Complete(w[i])
                                       /\ SnapshotOf(v[i]) = SnapshotOf(w[i])
  <2>1. LastUnit(v[1]) = LastUnit(w[1])
    <3>1. Len(v[1]) = Len(w[1]) - 1 /\ Len(v[1]) \in 1 .. Len(v[1])
      <4> DEFINE a == Len(w[1])
                 b == Len(v[1])
      <4>1. b = a - 1 /\ a \in Nat /\ a # 0 /\ a # 1
        BY <1>1, <1>2
      <4> HIDE DEF a, b
      <4>2. b \in 1 .. b
        BY <4>1
      <4> QED BY <4>1, <4>2 DEF a, b
    <3>2. v[1][Len(v[1])] = w[1][Len(v[1]) + 1]
      BY <1>1, <1>2, <3>1
    <3>3. Len(v[1]) + 1 = Len(w[1])
      BY <1>1, <3>1
    <3> QED BY <3>2, <3>3 DEF LastUnit
  <2>2. ASSUME NEW i \in 1 .. Len(w) PROVE LastUnit(v[i]) = LastUnit(w[i])
    <3>1. i = 1 \/ i \in 2 .. Len(v)
      BY <1>1, <1>2
    <3>2. CASE i = 1
      BY <2>1, <3>2
    <3>3. CASE i \in 2 .. Len(v)
      BY <1>1, <1>2, <3>3
    <3> QED BY <3>1, <3>2, <3>3
  <2> QED BY <1>1, <1>2, <2>2 DEF Complete, SnapshotOf
<1>3. OnlyLastCut(v, conn)
  <2>1. CASE Len(w[1]) # 1
    BY <1>2, <2>1 DEF OnlyLastCut
  <2>2. CASE Len(w[1]) = 1
    <3> SUFFICES ASSUME NEW i \in 1 .. Len(v)
                 PROVE  Complete(v[i]) \/ (conn = "closed" /\ i = Len(v))
      BY DEF OnlyLastCut
    <3>1. i + 1 \in 1 .. Len(w) /\ v[i] = w[i + 1] /\ (i + 1 = Len(w) => i = Len(v))
      BY <1>1, <2>2
    <3> QED BY <3>1 DEF OnlyLastCut
  <2> QED BY <2>1, <2>2
<1>4. /\ q \in Seq(Snapshots) /\ Len(q) = (IF Complete(w[Len(w)]) THEN Len(w) ELSE Len(w) - 1)
      /\ \A i \in 1 .. Len(q) : Complete(w[i]) /\ q[i] = SnapshotOf(w[i])
  BY QueueSequence
<1>5. /\ Len(v) \in Nat /\ r \in Seq(Snapshots)
      /\ Len(r) = (IF v = <<>> \/ Complete(v[Len(v)]) THEN Len(v) ELSE Len(v) - 1)
      /\ \A i \in 1 .. Len(r) : r[i] = SnapshotOf(v[i])
  BY <1>1, <1>3, QueueSequence
<1> HIDE DEF q, r
<1>6. v = <<>> <=> Len(v) = 0
  BY <1>1, EmptySeq DEF Wires
<1>7. ASSUME Len(w[1]) # 1 PROVE r = q
  <2>1. Complete(v[Len(v)]) = Complete(w[Len(w)])
    BY <1>1, <1>2, <1>7
  <2>2. Len(r) = Len(q)
    BY <1>1, <1>2, <1>4, <1>5, <1>6, <1>7, <2>1
  <2>3. \A i \in 1 .. Len(r) : r[i] = q[i]
    <3> TAKE i \in 1 .. Len(r)
    <3>1. i \in 1 .. Len(w)
      BY <1>1, <1>4, <2>2
    <3> QED BY <1>2, <1>4, <1>5, <1>7, <2>2, <3>1
  <2> QED BY <1>4, <1>5, <2>2, <2>3, SeqEqual
<1>8. ASSUME Len(w[1]) = 1, ~Complete(w[1]) PROVE r = q
  <2>1. Len(w) = 1
    BY <1>1, <1>8 DEF OnlyLastCut
  <2>2. Len(q) = 0 /\ Len(r) = 0
    BY <1>1, <1>4, <1>5, <1>6, <1>8, <2>1
  <2> QED BY <1>4, <1>5, <2>2, SeqEqual
<1>9. ASSUME Len(w[1]) = 1, Complete(w[1])
      PROVE  q # <<>> /\ Head(q) = SnapshotOf(w[1]) /\ r = Tail(q)
  <2>1. Len(w) = 1 \/ (Len(v) # 0 /\ v[Len(v)] = w[Len(w)])
    <3>1. Len(v) = Len(w) - 1 /\ (Len(w) # 1 => Len(v) \in 1 .. Len(v))
      BY <1>1, <1>9
    <3>2. Len(w) # 1 => v[Len(v)] = w[Len(v) + 1]
      BY <1>1, <1>9, <3>1
    <3> QED BY <1>1, <3>1, <3>2
  <2>2. Len(q) \in Nat \ {0} /\ Len(r) = Len(q) - 1
    <3>1. CASE Len(w) = 1
      BY <1>1, <1>4, <1>5, <1>6, <1>9, <3>1
    <3>2. CASE Len(w) # 1
      BY <1>1, <1>4, <1>5, <1>6, <1>9, <2>1, <3>2
    <3> QED BY <3>1, <3>2
  <2>3. q # <<>> /\ q[1] = SnapshotOf(w[1])
    BY <1>4, <2>2, EmptySeq
  <2> DEFINE t == Tail(q)
  <2>4. t \in Seq(Snapshots) /\ Len(t) = Len(q) - 1 /\ \A i \in 1 .. Len(t) : t[i] = q[i + 1]
    BY <1>4, <2>3, HeadTailProperties
  <2>5. Head(q) = q[1]
    BY <1>4, <2>3
  <2> HIDE DEF t
  <2>6. \A i \in 1 .. Len(r) : r[i] = t[i]
    <3> TAKE i \in 1 .. Len(r)
    <3>1. i \in 1 .. Len(v) /\ i + 1 \in 1 .. Len(q) /\ i \in 1 .. Len(t)
      BY <1>1, <1>5, <1>6, <2>2, <2>4
    <3>2. r[i] = SnapshotOf(v[i]) /\ v[i] = w[i + 1] /\ t[i] = q[i + 1]
      BY <1>1, <1>5, <1>9, <2>4, <3>1
    <3> QED BY <1>4, <3>1, <3>2
  <2>7. r = t
    BY <1>5, <2>2, <2>4, <2>6, SeqEqual
  <2> QED BY <2>3, <2>5, <2>7 DEF t
<1> QED BY <1>1, <1>3, <1>7, <1>8, <1>9 DEF q, r, v

-----------------------------------------------------------------------------
(* Where a reader is in its frame                                           *)

\* A frame is read as though "OKAY" came before it.
UnitAt(list, i) == IF i <= 4 THEN Unit(Answer("OKAY"), i) ELSE Unit(list, i - 4)

Size(list) == 4 + Digits + Len(list)

\* These are units of the list's frame, of which `from` have been read.
PartOf(units, list, from) ==
  /\ from + Len(units) <= Size(list)
  /\ \A k \in 1 .. Len(units) : units[k] = UnitAt(list, from + k)

\* The i-th message is the rest of it, cut only as the last of a lost connection.
Holds(w, conn, i, list, from) ==
  /\ PartOf(w[i], list, from)
  /\ from + Len(w[i]) = Size(list) \/ (conn = "closed" /\ i = Len(w))

\* The first message is the rest of this frame, and whole frames follow.
Framed(w, conn, list, from) ==
  /\ Holds(w, conn, 1, list, from)
  /\ \A i \in 2 .. Len(w) : \E l \in Lists : Holds(w, conn, i, l, 4)

LEMMA LastOfFrame ==
  ASSUME NEW list \in Lists, NEW i \in 1 .. Size(list)
  PROVE  /\ EndsFrame(UnitAt(list, i)) <=> i = Size(list)
         /\ i = Size(list) => UnitAt(list, i).frame = list
<1>1. Len(list) \in Nat
  BY LinesOfList
<1>2. CASE i <= 4
  <2>1. i # Size(list)
    BY <1>1, <1>2 DEF Size, Digits
  <2>2. UnitAt(list, i).frame = Answer("OKAY")
    BY <1>2 DEF UnitAt, Unit
  <2>3. Answer("OKAY") \notin Lists
    BY LinesOfList
  <2> QED BY <2>1, <2>2, <2>3 DEF EndsFrame
<1>3. CASE ~(i <= 4)
  <2>1. UnitAt(list, i).frame = list /\ UnitAt(list, i).at = i - 4
    BY <1>3 DEF UnitAt, Unit
  <2> QED BY <1>1, <2>1 DEF EndsFrame, Size, Digits
<1> QED BY <1>2, <1>3

\* A message is complete if it is whole.
LEMMA HeldMessage ==
  ASSUME NEW w \in Wires, NEW conn, NEW i \in 1 .. Len(w),
         NEW list \in Lists, NEW from \in Nat, Holds(w, conn, i, list, from)
  PROVE  /\ Len(w[i]) \in Nat \ {0} /\ Size(list) \in Nat
         /\ Complete(w[i]) <=> from + Len(w[i]) = Size(list)
         /\ Complete(w[i]) => SnapshotOf(w[i]) = Usable(list)
         /\ Complete(w[i]) \/ (conn = "closed" /\ i = Len(w))
<1> DEFINE m == w[i]
           n == Len(m)
<1>1. m \in Seq(WireUnits) /\ n \in Nat \ {0}
  <2>1. m \in Seq(WireUnits) \ {<<>>}
    BY ElementOfSeq DEF Wires
  <2> QED BY <2>1, EmptySeq
<1>2. Size(list) \in Nat
  BY LinesOfList DEF Size, Digits
<1>3. from + n <= Size(list) /\ m[n] = UnitAt(list, from + n)
  BY <1>1 DEF Holds, PartOf
<1>4. from + n = Size(list) \/ (conn = "closed" /\ i = Len(w))
  BY DEF Holds
<1> HIDE DEF n
<1>5. from + n \in 1 .. Size(list)
  BY <1>1, <1>2, <1>3
<1>6. LastUnit(m) = UnitAt(list, from + n)
  BY <1>3 DEF LastUnit, n
<1> HIDE DEF m
<1>7. Complete(m) <=> from + n = Size(list)
  BY <1>5, <1>6, LastOfFrame DEF Complete
<1>8. Complete(m) => SnapshotOf(m) = Usable(list)
  BY <1>5, <1>6, <1>7, LastOfFrame DEF SnapshotOf
<1>9. Complete(m) \/ (conn = "closed" /\ i = Len(w))
  BY <1>4, <1>7
<1> QED BY <1>1, <1>2, <1>7, <1>8, <1>9 DEF m, n

LEMMA FramedQueue ==
  ASSUME NEW w \in Wires, NEW conn, NEW list \in Lists, NEW from \in Nat,
         Framed(w, conn, list, from)
  PROVE  OnlyLastCut(w, conn)
<1> SUFFICES ASSUME NEW i \in 1 .. Len(w)
             PROVE  Complete(w[i]) \/ (conn = "closed" /\ i = Len(w))
  BY DEF OnlyLastCut
<1>1. i = 1 \/ i \in 2 .. Len(w)
  BY LenProperties DEF Wires
<1>2. PICK l \in Lists, p \in Nat : Holds(w, conn, i, l, p)
  BY <1>1 DEF Framed
<1> QED BY <1>2, HeldMessage

\* The server adds a frame.
LEMMA FramedSend ==
  ASSUME NEW w \in Wires, w # <<>>, NEW list \in Lists, NEW from \in Nat,
         Framed(w, "tracking", list, from),
         NEW l \in Lists, NEW m \in Seq(WireUnits) \ {<<>>},
         PartOf(m, l, 4), 4 + Len(m) = Size(l)
  PROVE  Framed(Append(w, m), "tracking", list, from)
<1> DEFINE v == Append(w, m)
<1>1. /\ Len(w) \in Nat \ {0} /\ Len(v) = Len(w) + 1
      /\ \A i \in 1 .. Len(w) : v[i] = w[i]
      /\ v[Len(w) + 1] = m
  BY AppendProperties, EmptySeq DEF Wires
<1> HIDE DEF v
<1>2. ASSUME NEW i \in 1 .. Len(w), NEW k, NEW p, Holds(w, "tracking", i, k, p)
      PROVE  Holds(v, "tracking", i, k, p)
  BY <1>1, <1>2 DEF Holds
<1>3. Holds(v, "tracking", 1, list, from)
  <2>1. 1 \in 1 .. Len(w)
    BY <1>1
  <2> QED BY <1>2, <2>1 DEF Framed
<1>4. ASSUME NEW i \in 2 .. Len(v) PROVE \E k \in Lists : Holds(v, "tracking", i, k, 4)
  <2>1. CASE i = Len(w) + 1
    <3>1. Holds(v, "tracking", i, l, 4)
      BY <1>1, <2>1 DEF Holds
    <3> QED BY <3>1
  <2>2. CASE i # Len(w) + 1
    <3>1. i \in 2 .. Len(w) /\ i \in 1 .. Len(w)
      BY <1>1, <2>2
    <3>2. PICK k \in Lists : Holds(w, "tracking", i, k, 4)
      BY <3>1 DEF Framed
    <3> QED BY <1>2, <3>1, <3>2
  <2> QED BY <2>1, <2>2
<1> QED BY <1>3, <1>4 DEF Framed, v

\* The client takes a unit.
LEMMA FramedTake ==
  ASSUME NEW w \in Wires, w # <<>>, NEW conn, NEW list \in Lists, NEW from \in Nat,
         Framed(w, conn, list, from)
  PROVE  /\ from + 1 <= Size(list) /\ Size(list) \in Nat
         /\ Head(Head(w)) = UnitAt(list, from + 1)
         /\ from + 1 # Size(list) =>
              /\ QueueOf(Shortened(w)) = QueueOf(w)
              /\ Shortened(w) = <<>> => conn = "closed"
              /\ Shortened(w) # <<>> => Framed(Shortened(w), conn, list, from + 1)
         /\ from + 1 = Size(list) =>
              /\ QueueOf(w) # <<>> /\ Head(QueueOf(w)) = Usable(list)
              /\ QueueOf(Shortened(w)) = Tail(QueueOf(w))
              /\ Shortened(w) # <<>> =>
                   \E l \in Lists : Framed(Shortened(w), conn, l, 4)
<1> DEFINE v == Shortened(w)
           n == Len(w[1])
<1>1. /\ Len(w) \in Nat \ {0} /\ n \in Nat \ {0} /\ v \in Wires
      /\ Head(Head(w)) = w[1][1]
      /\ n = 1 => Len(v) = Len(w) - 1 /\ \A i \in 1 .. Len(v) : v[i] = w[i + 1]
      /\ n # 1 => /\ Len(v) = Len(w)
                  /\ Len(v[1]) = n - 1
                  /\ \A k \in 1 .. Len(v[1]) : v[1][k] = w[1][k + 1]
                  /\ \A i \in 2 .. Len(v) : v[i] = w[i]
  BY ShortenedWire
<1>2. v = <<>> <=> Len(v) = 0
  BY <1>1, EmptySeq DEF Wires
<1> HIDE DEF v
<1>3. /\ from + n <= Size(list)
      /\ \A k \in 1 .. n : w[1][k] = UnitAt(list, from + k)
      /\ from + n = Size(list) \/ (conn = "closed" /\ 1 = Len(w))
  BY DEF Framed, Holds, PartOf
<1>4. 1 \in 1 .. Len(w) /\ Holds(w, conn, 1, list, from)
  BY <1>1 DEF Framed
<1>5. /\ Size(list) \in Nat
      /\ Complete(w[1]) <=> from + n = Size(list)
      /\ Complete(w[1]) => SnapshotOf(w[1]) = Usable(list)
  BY <1>4, HeldMessage
<1>6. /\ n # 1 \/ ~Complete(w[1]) => QueueOf(v) = QueueOf(w)
      /\ n = 1 /\ Complete(w[1]) =>
           /\ QueueOf(w) # <<>> /\ Head(QueueOf(w)) = SnapshotOf(w[1])
           /\ QueueOf(v) = Tail(QueueOf(w))
  BY FramedQueue, QueueShrinks DEF v
<1> HIDE DEF n
<1>7. from + 1 <= Size(list) /\ (from + 1 = Size(list) => n = 1)
  BY <1>1, <1>3, <1>5
<1>8. Head(Head(w)) = UnitAt(list, from + 1)
  <2>1. 1 \in 1 .. n
    BY <1>1
  <2> QED BY <1>1, <1>3, <2>1
<1>9. ASSUME n # 1 PROVE v # <<>> /\ Framed(v, conn, list, from + 1)
  <2>1. Len(v) = Len(w) /\ Len(v[1]) = n - 1 /\ v # <<>>
    BY <1>1, <1>2, <1>9
  <2>2. \A k \in 1 .. Len(v[1]) : v[1][k] = UnitAt(list, (from + 1) + k)
    <3> TAKE k \in 1 .. Len(v[1])
    <3>1. k \in Nat /\ k + 1 \in 1 .. n /\ from + (k + 1) = (from + 1) + k
      BY <1>1, <2>1
    <3>2. v[1][k] = w[1][k + 1]
      BY <1>1, <1>9
    <3>3. w[1][k + 1] = UnitAt(list, from + (k + 1))
      BY <1>3, <3>1
    <3> QED BY <3>1, <3>2, <3>3
  <2>3. (from + 1) + Len(v[1]) = from + n
    BY <1>1, <2>1
  <2>4. Holds(v, conn, 1, list, from + 1)
    BY <1>3, <2>1, <2>2, <2>3 DEF Holds, PartOf
  <2>5. \A i \in 2 .. Len(v) : \E l \in Lists : Holds(v, conn, i, l, 4)
    BY <1>1, <1>9, <2>1 DEF Framed, Holds
  <2> QED BY <2>1, <2>4, <2>5 DEF Framed
<1>10. ASSUME n = 1, v # <<>>
       PROVE  from + 1 = Size(list) /\ \E l \in Lists : Framed(v, conn, l, 4)
  <2>1. Len(v) = Len(w) - 1 /\ Len(w) # 1 /\ 1 \in 1 .. Len(v)
    BY <1>1, <1>2, <1>10
  <2>2. from + 1 = Size(list)
    BY <1>3, <1>10, <2>1
  <2>3. \A i \in 1 .. Len(v) : \E l \in Lists : Holds(v, conn, i, l, 4)
    <3> TAKE i \in 1 .. Len(v)
    <3>1. i + 1 \in 2 .. Len(w) /\ v[i] = w[i + 1] /\ (i + 1 = Len(w) => i = Len(v))
      BY <1>1, <1>10, <2>1
    <3>2. PICK l \in Lists : Holds(w, conn, i + 1, l, 4)
      BY <3>1 DEF Framed
    <3>3. Holds(v, conn, i, l, 4)
      BY <3>1, <3>2 DEF Holds
    <3> QED BY <3>3
  <2>4. \A i \in 2 .. Len(v) : i \in 1 .. Len(v)
    OBVIOUS
  <2>5. PICK l \in Lists : Holds(v, conn, 1, l, 4)
    BY <2>1, <2>3
  <2>6. Framed(v, conn, l, 4)
    BY <2>3, <2>4, <2>5 DEF Framed
  <2> QED BY <2>2, <2>6
<1>11. ASSUME n = 1, v = <<>>, from + 1 # Size(list) PROVE conn = "closed"
  BY <1>3, <1>11
<1>12. ASSUME from + 1 # Size(list)
       PROVE  /\ QueueOf(v) = QueueOf(w)
              /\ v = <<>> => conn = "closed"
              /\ v # <<>> => Framed(v, conn, list, from + 1)
  <2>1. n # 1 \/ ~Complete(w[1])
    BY <1>5, <1>12
  <2> QED BY <1>6, <1>9, <1>10, <1>11, <1>12, <2>1
<1>13. ASSUME from + 1 = Size(list)
       PROVE  /\ QueueOf(w) # <<>> /\ Head(QueueOf(w)) = Usable(list)
              /\ QueueOf(v) = Tail(QueueOf(w))
              /\ v # <<>> => \E l \in Lists : Framed(v, conn, l, 4)
  <2>1. n = 1 /\ Complete(w[1])
    BY <1>5, <1>7, <1>13
  <2> QED BY <1>5, <1>6, <1>10, <2>1
<1> QED BY <1>5, <1>7, <1>8, <1>12, <1>13 DEF v

\* The connection is lost; v is what arrives of w.
LEMMA FramedCut ==
  ASSUME NEW w \in Wires, w # <<>>, NEW list \in Lists, NEW from \in Nat,
         Framed(w, "tracking", list, from),
         NEW v \in Wires, Len(v) \in 0 .. Len(w),
         \A i \in 1 .. Len(v) : i < Len(v) => v[i] = w[i],
         \/ Len(v) # 0 => v[Len(v)] = w[Len(v)]
         \/ /\ Len(v) # 0
            /\ Len(v[Len(v)]) \in 1 .. Len(w[Len(v)]) - 1
            /\ \A k \in 1 .. Len(v[Len(v)]) : v[Len(v)][k] = w[Len(v)][k]
  PROVE  /\ v # <<>> => Framed(v, "closed", list, from)
         /\ OnlyLastCut(v, "closed")
         /\ \E n \in 0 .. Len(QueueOf(w)) : QueueOf(v) = SubSeq(QueueOf(w), 1, n)
<1>1. Len(w) \in Nat \ {0} /\ Len(v) \in Nat /\ (v = <<>> <=> Len(v) = 0)
  BY EmptySeq, LenProperties DEF Wires
<1>2. ASSUME NEW i \in 1 .. Len(v), NEW l \in Lists, NEW p \in Nat,
             Holds(w, "tracking", i, l, p)
      PROVE  Holds(v, "closed", i, l, p)
  <2>1. CASE v[i] = w[i] /\ i # Len(v)
    <3>1. p + Len(v[i]) = Size(l) /\ PartOf(v[i], l, p)
      BY <1>2, <2>1 DEF Holds
    <3> QED BY <3>1 DEF Holds
  <2>2. CASE v[i] = w[i] /\ i = Len(v)
    BY <1>2, <2>2 DEF Holds
  <2>3. CASE v[i] # w[i]
    <3>1. i = Len(v)
      BY <1>1, <2>3
    <3>2. /\ Len(v[i]) \in 1 .. Len(w[i]) - 1
          /\ \A k \in 1 .. Len(v[i]) : v[i][k] = w[i][k]
      BY <1>1, <2>3, <3>1
    <3>3. Len(w[i]) \in Nat /\ Size(l) \in Nat
      <4>1. i \in 1 .. Len(w)
        BY <1>1, <3>1
      <4> QED BY <1>2, <4>1, HeldMessage
    <3>4. PartOf(w[i], l, p)
      BY <1>2 DEF Holds
    <3> DEFINE a == Len(v[i])
               b == Len(w[i])
    <3>5. p + b <= Size(l) /\ \A k \in 1 .. b : w[i][k] = UnitAt(l, p + k)
      BY <3>4 DEF PartOf
    <3>6. a \in 1 .. b - 1 /\ b \in Nat
      BY <3>2, <3>3
    <3>7. \A k \in 1 .. a : v[i][k] = w[i][k]
      BY <3>2
    <3> HIDE DEF a, b
    <3>8. p + a <= Size(l) /\ \A k \in 1 .. a : k \in 1 .. b
      BY <3>3, <3>5, <3>6
    <3>9. \A k \in 1 .. a : v[i][k] = UnitAt(l, p + k)
      BY <3>5, <3>7, <3>8
    <3>10. PartOf(v[i], l, p)
      BY <3>8, <3>9 DEF PartOf, a
    <3> QED BY <3>1, <3>10 DEF Holds
  <2> QED BY <2>1, <2>2, <2>3
<1>3. ASSUME NEW i \in 1 .. Len(v)
      PROVE  \E l \in Lists, p \in Nat :
               /\ Holds(w, "tracking", i, l, p) /\ Holds(v, "closed", i, l, p)
               /\ i = 1 => l = list /\ p = from
               /\ i # 1 => p = 4
  <2>1. i = 1 \/ i \in 2 .. Len(w)
    BY <1>1
  <2>2. PICK l \in Lists, p \in Nat :
          /\ Holds(w, "tracking", i, l, p)
          /\ i = 1 => l = list /\ p = from
          /\ i # 1 => p = 4
    BY <2>1 DEF Framed
  <2>3. Holds(v, "closed", i, l, p)
    BY <1>2, <2>2
  <2> QED BY <2>2, <2>3
<1>4. ASSUME v # <<>> PROVE Framed(v, "closed", list, from)
  <2>1. 1 \in 1 .. Len(v)
    BY <1>1, <1>4
  <2>2. Holds(v, "closed", 1, list, from)
    BY <1>3, <2>1
  <2>3. ASSUME NEW i \in 2 .. Len(v) PROVE \E l \in Lists : Holds(v, "closed", i, l, 4)
    <3>1. i \in 1 .. Len(v) /\ i # 1
      BY <2>3
    <3> QED BY <1>3, <3>1
  <2> QED BY <2>2, <2>3 DEF Framed
<1>5. OnlyLastCut(v, "closed")
  <2>1. CASE v = <<>>
    BY <1>1, <2>1 DEF OnlyLastCut
  <2>2. CASE v # <<>>
    BY <1>4, <2>2, FramedQueue
  <2> QED BY <2>1, <2>2
<1> DEFINE q == QueueOf(w)
           r == QueueOf(v)
           s == SubSeq(q, 1, Len(r))
<1>6. OnlyLastCut(w, "tracking") /\ Complete(w[Len(w)])
  <2>1. OnlyLastCut(w, "tracking")
    BY FramedQueue
  <2>2. Len(w) \in 1 .. Len(w)
    BY <1>1
  <2> QED BY <2>1, <2>2 DEF OnlyLastCut
<1>7. /\ q \in Seq(Snapshots) /\ Len(q) = Len(w)
      /\ \A i \in 1 .. Len(q) : q[i] = SnapshotOf(w[i])
  BY <1>6, QueueSequence
<1>8. /\ r \in Seq(Snapshots) /\ Len(r) \in Nat
      /\ Len(r) = Len(v) \/ Len(r) = Len(v) - 1
      /\ \A i \in 1 .. Len(r) : Complete(v[i]) /\ r[i] = SnapshotOf(v[i])
  BY <1>5, QueueSequence
<1> HIDE DEF q, r
<1>9. Len(r) \in 0 .. Len(q) /\ Len(r) <= Len(v)
  BY <1>1, <1>7, <1>8
<1>10. \A i \in 1 .. Len(r) : r[i] = q[i]
  <2> TAKE i \in 1 .. Len(r)
  <2>1. i \in 1 .. Len(v) /\ i \in 1 .. Len(w) /\ i \in 1 .. Len(q)
    BY <1>1, <1>7, <1>8, <1>9
  <2>2. PICK l \in Lists, p \in Nat :
          Holds(w, "tracking", i, l, p) /\ Holds(v, "closed", i, l, p)
    BY <1>3, <2>1
  <2>3. SnapshotOf(w[i]) = Usable(l)
    BY <2>1, <2>2, HeldMessage
  <2>4. SnapshotOf(v[i]) = Usable(l)
    BY <1>8, <2>1, <2>2, HeldMessage
  <2> QED BY <1>7, <1>8, <2>1, <2>3, <2>4
<1>11. s \in Seq(Snapshots) /\ Len(s) = Len(r) /\ \A i \in 1 .. Len(r) : s[i] = q[i]
  <2>1. \A i \in 1 .. Len(r) : q[i] \in Snapshots
    BY <1>7, <1>9, ElementOfSeq
  <2> DEFINE n == Len(r)
  <2>2. n \in Nat
    BY <1>8
  <2>3. \A i \in 1 .. n : q[i] \in Snapshots
    BY <2>1
  <2> HIDE DEF n
  <2>4. /\ SubSeq(q, 1, n) \in Seq(Snapshots) /\ Len(SubSeq(q, 1, n)) = n
        /\ \A i \in 1 .. n : SubSeq(q, 1, n)[i] = q[i]
    BY <2>2, <2>3, SubSeqProperties
  <2> QED BY <2>4 DEF n
<1> HIDE DEF s
<1>12. r = s
  BY <1>8, <1>10, <1>11, SeqEqual
<1> QED BY <1>4, <1>5, <1>9, <1>12 DEF q, r, s

-----------------------------------------------------------------------------
(* The inductive invariant                                                  *)

\* What a read_exact has so far is less than it wants.
ReadsExactly ==
  /\ pc \in {"idle", "connect", "ready"} => length = 0 /\ buffer = <<>>
  /\ pc \in {"status", "length", "failLength"} => length = Digits
  /\ length # 0 => Len(buffer) < length

\* From its first snapshot on a connection is read by next_snapshot, and one that
\* was refused, or that ended before, by connect.
Dialogue ==
  /\ server = "none" <=> pc \in {"idle", "connect"}
  /\ server \in {"none", "asked"} => wire = <<>>
  /\ server = "asked" => pc = "status" /\ buffer = <<>>
  /\ server \in {"refused", "gone"} => pc \in Handshake
  /\ server \in {"tracking", "closed"} => pc \in {"status", "ready", "length", "payload"}
  /\ pc \in Handshake => result = "none"

\* What refuses does not begin as "OKAY" does.
NoOkay(units) == \A k \in 1 .. Len(units) : units[k].frame # Answer("OKAY")

Refusal ==
  server \in {"refused", "gone"} =>
    NoOkay(buffer) /\ \A i \in 1 .. Len(wire) : NoOkay(wire[i])

\* What was read of a frame before the read_exact in progress.
Before == CASE pc = "status" -> 0
            [] pc = "payload" -> 4 + Digits
            [] OTHER -> 4

\* The client is where it takes itself to be in the list's frame.
InStep(list) ==
  /\ PartOf(buffer, list, Before)
  /\ Framed(wire, server, list, Before + Len(buffer))
  /\ pc = "payload" => length = Len(list)

ReadsInStep ==
  server \in {"tracking", "closed"} =>
    /\ wire # <<>> => \E list \in Lists : InStep(list)
    /\ wire = <<>> /\ server = "tracking" => pc \in {"ready", "length"} /\ buffer = <<>>

\* The end is reported when nothing is left.
EndIsLast ==
  server \in {"tracking", "closed"} /\ result \in {"closed", "error"} =>
    server = "closed" /\ wire = <<>>

WireInv == TypeOK /\ ReadsExactly /\ Dialogue /\ Refusal /\ ReadsInStep /\ EndIsLast

-----------------------------------------------------------------------------
(* What every step needs                                                    *)

Connected == {"tracking", "closed"}

LEMMA QueueIs ==
  /\ StreamQueue = IF server \in Connected THEN QueueOf(wire) ELSE <<>>
  /\ StreamQueue' = IF server' \in Connected THEN QueueOf(wire') ELSE <<>>
BY DEF StreamQueue, Arrived, QueueOf, Complete, SnapshotOf, Connected

LEMMA EmptyWire ==
  ASSUME NEW w \in Wires, w = <<>>, NEW conn
  PROVE  OnlyLastCut(w, conn) /\ QueueOf(w) = <<>>
<1>1. Len(w) = 0
  BY EmptySeq
<1>2. OnlyLastCut(w, conn)
  BY <1>1 DEF OnlyLastCut
<1>3. QueueOf(w) \in Seq(Snapshots) /\ Len(QueueOf(w)) = 0
  BY <1>1, <1>2, QueueSequence
<1> QED BY <1>2, <1>3, EmptySeq

LEMMA FrameIsWhole ==
  ASSUME NEW list \in Lists
  PROVE  /\ Frame(list) \in Seq(WireUnits) \ {<<>>}
         /\ PartOf(Frame(list), list, 4) /\ 4 + Len(Frame(list)) = Size(list)
         /\ Status("OKAY") \o Frame(list) \in Seq(WireUnits) \ {<<>>}
         /\ PartOf(Status("OKAY") \o Frame(list), list, 0)
         /\ Len(Status("OKAY") \o Frame(list)) = Size(list)
<1> DEFINE f == Frame(list)
           a == Status("OKAY")
           c == a \o f
           n == Len(list)
<1>1. n \in Nat /\ Size(list) = 8 + n
  BY LinesOfList DEF Size, Digits
<1>2. f \in Seq(WireUnits) /\ Len(f) = 4 + n /\ \A i \in 1 .. 4 + n : f[i] = Unit(list, i)
  BY FrameUnits DEF Digits
<1>3. a \in Seq(WireUnits) /\ Len(a) = 4 /\ \A i \in 1 .. 4 : a[i] = Unit(Answer("OKAY"), i)
  BY StatusUnits DEF Replies
<1> HIDE DEF f, a, n
<1>4. /\ c \in Seq(WireUnits) /\ Len(c) = 8 + n
      /\ \A i \in 1 .. 8 + n : c[i] = IF i <= 4 THEN a[i] ELSE f[i - 4]
  <2>1. /\ c \in Seq(WireUnits) /\ Len(c) = Len(a) + Len(f)
        /\ \A i \in 1 .. Len(a) + Len(f) : c[i] = IF i <= Len(a) THEN a[i] ELSE f[i - Len(a)]
    BY <1>2, <1>3, ConcatProperties
  <2>2. Len(a) + Len(f) = 8 + n
    BY <1>1, <1>2, <1>3
  <2> HIDE DEF c
  <2> QED BY <1>3, <2>1, <2>2
<1> HIDE DEF c
<1>5. f # <<>> /\ c # <<>>
  BY <1>1, <1>2, <1>4, EmptySeq
<1>6. PartOf(f, list, 4)
  <2>1. \A k \in 1 .. 4 + n : f[k] = UnitAt(list, 4 + k)
    <3> TAKE k \in 1 .. 4 + n
    <3>1. k \in Nat /\ ~(4 + k <= 4) /\ (4 + k) - 4 = k
      BY <1>1
    <3> QED BY <1>2, <3>1 DEF UnitAt
  <2> QED BY <1>1, <1>2, <2>1 DEF PartOf
<1>7. PartOf(c, list, 0)
  <2>1. \A k \in 1 .. 8 + n : c[k] = UnitAt(list, 0 + k)
    <3> TAKE k \in 1 .. 8 + n
    <3>1. k \in Nat /\ 0 + k = k /\ (k <= 4 => k \in 1 .. 4)
          /\ (~(k <= 4) => k - 4 \in 1 .. 4 + n)
      BY <1>1
    <3> QED BY <1>2, <1>3, <1>4, <3>1 DEF UnitAt
  <2> QED BY <1>1, <1>4, <2>1 DEF PartOf
<1> QED BY <1>1, <1>2, <1>4, <1>5, <1>6, <1>7 DEF f, a, c

-----------------------------------------------------------------------------
(* The steps of the server                                                  *)

Kept == Dialogue' /\ Refusal' /\ ReadsInStep' /\ EndIsLast'

\* One more message that does not say "OKAY".
LEMMA RefuseStep ==
  ASSUME WireInv, Refuse
  PROVE  Kept /\ [Stream!Next]_Stream!vars
<1>1. wire = <<>> /\ buffer = <<>> /\ pc = "status" /\ server = "asked" /\ server' = "refused"
      /\ result = "none"
  BY DEF WireInv, Dialogue, Refuse, Handshake
<1>2. UNCHANGED <<pc, buffer, result, devices>>
  BY DEF Refuse, Sends
<1>3. PICK message \in Seq(WireUnits) : NoOkay(message) /\ wire' = Append(wire, message)
  <2>1. ASSUME NEW reply \in {"FAIL", "other"} PROVE Answer(reply) # Answer("OKAY")
    <3>1. Answer(reply)[1].state # Answer("OKAY")[1].state
      BY DEF Answer
    <3> QED BY <3>1
  <2>2. ASSUME NEW reply \in {"FAIL", "other"}
        PROVE  Status(reply) \in Seq(WireUnits) /\ NoOkay(Status(reply))
    <3>1. /\ Status(reply) \in Seq(WireUnits) /\ Len(Status(reply)) = 4
          /\ \A i \in 1 .. 4 : Status(reply)[i] = Unit(Answer(reply), i)
      BY StatusUnits DEF Replies
    <3>2. ASSUME NEW i \in 1 .. 4 PROVE Status(reply)[i].frame # Answer("OKAY")
      <4>1. Status(reply)[i].frame = Answer(reply)
        BY <3>1 DEF Unit
      <4> QED BY <2>1, <4>1
    <3> QED BY <3>1, <3>2 DEF NoOkay
  <2>3. ASSUME NEW text \in Lists
        PROVE  /\ Status("FAIL") \o Frame(text) \in Seq(WireUnits)
               /\ NoOkay(Status("FAIL") \o Frame(text))
    <3> DEFINE a == Status("FAIL")
               f == Frame(text)
    <3>1. a \in Seq(WireUnits) /\ NoOkay(a) /\ f \in Seq(WireUnits)
      BY <2>2, FrameUnits
    <3>2. NoOkay(f)
      <4>1. /\ Len(f) = Digits + Len(text)
            /\ \A i \in 1 .. Digits + Len(text) : f[i] = Unit(text, i)
        BY FrameUnits
      <4>2. text # Answer("OKAY")
        BY LinesOfList
      <4>3. \A i \in 1 .. Len(f) : f[i].frame = text
        BY <4>1 DEF Unit
      <4> QED BY <4>2, <4>3 DEF NoOkay
    <3> HIDE DEF a, f
    <3>3. /\ a \o f \in Seq(WireUnits) /\ Len(a \o f) = Len(a) + Len(f)
          /\ \A i \in 1 .. Len(a) + Len(f) :
               (a \o f)[i] = IF i <= Len(a) THEN a[i] ELSE f[i - Len(a)]
          /\ Len(a) \in Nat /\ Len(f) \in Nat
      BY <3>1, ConcatProperties, LenProperties
    <3>4. ASSUME NEW i \in 1 .. Len(a \o f) PROVE (a \o f)[i].frame # Answer("OKAY")
      <4>1. (a \o f)[i] = IF i <= Len(a) THEN a[i] ELSE f[i - Len(a)]
        BY <3>3
      <4>2. CASE i <= Len(a)
        <5>1. i \in 1 .. Len(a)
          BY <3>3, <4>2
        <5> QED BY <3>1, <4>1, <4>2, <5>1 DEF NoOkay
      <4>3. CASE ~(i <= Len(a))
        <5>1. i - Len(a) \in 1 .. Len(f)
          BY <3>3, <4>3
        <5> QED BY <3>2, <4>1, <4>3, <5>1 DEF NoOkay
      <4> QED BY <4>2, <4>3
    <3> QED BY <3>3, <3>4 DEF NoOkay, a, f
  <2> QED BY <2>2, <2>3 DEF Refuse, Sends
<1>4. wire' = <<message>>
  BY <1>1, <1>3
<1>5. Refusal'
  <2>1. NoOkay(buffer')
    BY <1>1, <1>2 DEF NoOkay
  <2>2. \A i \in 1 .. Len(wire') : NoOkay(wire'[i])
    BY <1>3, <1>4
  <2> QED BY <2>1, <2>2 DEF Refusal, NoOkay
<1>6. Dialogue' /\ ReadsInStep' /\ EndIsLast'
  BY <1>1, <1>2 DEF Dialogue, ReadsInStep, EndIsLast, Handshake
<1>7. StreamQueue' = StreamQueue
  BY <1>1, QueueIs DEF Connected
<1>8. StreamConn' = StreamConn
  BY <1>1 DEF StreamConn
<1> QED BY <1>2, <1>5, <1>6, <1>7, <1>8 DEF Kept, Stream!vars

\* The first snapshot: the client reads the answer before it.
LEMMA AcceptStep ==
  ASSUME WireInv, NEW list \in Lists, Accept(list)
  PROVE  Kept /\ [Stream!Next]_Stream!vars
<1> DEFINE m == Status("OKAY") \o Frame(list)
<1>1. wire = <<>> /\ buffer = <<>> /\ pc = "status" /\ server = "asked" /\ server' = "tracking"
      /\ result = "none"
  BY DEF WireInv, Dialogue, Accept, Handshake
<1>2. UNCHANGED <<pc, buffer, length, result, devices>> /\ wire' = Append(wire, m)
  BY DEF Accept, Sends
<1>3. m \in Seq(WireUnits) \ {<<>>} /\ PartOf(m, list, 0) /\ Len(m) = Size(list)
  BY FrameIsWhole
<1> HIDE DEF m
<1>4. wire' = <<m>> /\ Len(wire') = 1 /\ wire'[1] = m
  BY <1>1, <1>2
<1>5. wire' \in Wires /\ wire' # <<>>
  BY <1>3, <1>4 DEF Wires
<1>6. Size(list) \in Nat
  BY LinesOfList DEF Size, Digits
<1>7. Framed(wire', "tracking", list, 0)
  <2>1. Holds(wire', "tracking", 1, list, 0)
    BY <1>3, <1>4, <1>6 DEF Holds
  <2> QED BY <1>4, <2>1 DEF Framed
<1>8. PartOf(buffer', list, 0)
  BY <1>1, <1>2, <1>6 DEF PartOf
<1>9. pc' = "status" /\ Before' = 0 /\ Len(buffer') = 0
  BY <1>1, <1>2 DEF Before
<1>10. InStep(list)'
  <2>1. Before' + Len(buffer') = 0
    BY <1>9
  <2> QED BY <1>1, <1>7, <1>8, <1>9, <2>1 DEF InStep, PartOf, Framed, Holds
<1>11. Dialogue' /\ Refusal' /\ ReadsInStep' /\ EndIsLast'
  BY <1>1, <1>2, <1>5, <1>10 DEF Dialogue, Refusal, ReadsInStep, EndIsLast, Handshake
<1>12. Complete(m) /\ SnapshotOf(m) = Usable(list)
  <2>1. 1 \in 1 .. Len(wire') /\ Holds(wire', "tracking", 1, list, 0)
    BY <1>4, <1>7 DEF Framed
  <2> QED BY <1>3, <1>4, <1>5, <1>6, <2>1, HeldMessage
<1>13. StreamQueue = <<>> /\ StreamQueue' = <<Usable(list)>>
  <2>1. wire \in Wires
    BY DEF WireInv, TypeOK, Wires
  <2>2. QueueOf(wire') = Append(QueueOf(wire), Usable(list))
    BY <1>1, <1>2, <1>3, <1>12, <2>1, EmptyWire, QueueGrows
  <2>3. QueueOf(wire) = <<>>
    BY <1>1, <2>1, EmptyWire
  <2> DEFINE u == Usable(list)
  <2>4. Append(<<>>, u) = <<u>>
    OBVIOUS
  <2>5. StreamQueue' = Append(QueueOf(wire), u)
    BY <1>1, <2>2, QueueIs DEF Connected
  <2>6. StreamQueue = <<>>
    BY <1>1, QueueIs DEF Connected
  <2> QED BY <2>3, <2>4, <2>5, <2>6
<1>14. StreamConn = "none" /\ StreamConn' = "up"
  BY <1>1 DEF StreamConn
<1>15. Stream!Open
  BY <1>2, <1>13, <1>14, ListSerials DEF Stream!Open
<1> QED BY <1>11, <1>15 DEF Kept, Stream!Next

\* A snapshot more.
LEMMA SendStep ==
  ASSUME WireInv, NEW list \in Lists, SendList(list)
  PROVE  Kept /\ [Stream!Next]_Stream!vars
<1> DEFINE m == Frame(list)
           w == wire
           v == wire'
<1>1. server = "tracking" /\ server' = "tracking" /\ v = Append(w, m)
      /\ UNCHANGED <<pc, buffer, length, result, devices>>
  BY DEF SendList, Sends
<1>2. m \in Seq(WireUnits) \ {<<>>} /\ PartOf(m, list, 4) /\ 4 + Len(m) = Size(list)
  BY FrameIsWhole
<1>3. w \in Wires
  BY DEF WireInv, TypeOK, Wires
<1>4. Size(list) \in Nat
  BY LinesOfList DEF Size, Digits
<1> HIDE DEF m
<1>5. v \in Wires /\ v # <<>>
  BY <1>1, <1>2, <1>3, AppendProperties DEF Wires
<1>6. ReadsInStep
  BY DEF WireInv
<1>7. ASSUME w = <<>>
      PROVE  /\ ReadsInStep' /\ OnlyLastCut(w, "tracking")
             /\ Complete(m) /\ SnapshotOf(m) = Usable(list)
  <2>1. pc \in {"ready", "length"} /\ buffer = <<>> /\ v = <<m>>
    BY <1>1, <1>6, <1>7 DEF ReadsInStep
  <2>2. Before' = 4 /\ Len(buffer') = 0 /\ pc' # "payload"
    BY <1>1, <2>1 DEF Before
  <2>3. Holds(v, "tracking", 1, list, 4) /\ Len(v) = 1
    BY <1>2, <2>1 DEF Holds
  <2>4. Framed(v, "tracking", list, 4)
    BY <2>3 DEF Framed
  <2>5. PartOf(buffer', list, 4)
    BY <1>1, <1>4, <2>1, LinesOfList DEF PartOf, Size, Digits
  <2>6. InStep(list)'
    <3>1. Before' + Len(buffer') = 4
      BY <2>2
    <3> QED BY <1>1, <2>2, <2>4, <2>5, <3>1 DEF InStep, PartOf, Framed, Holds
  <2>7. OnlyLastCut(w, "tracking") /\ Complete(m) /\ SnapshotOf(m) = Usable(list)
    <3>1. 1 \in 1 .. Len(v) /\ v[1] = m
      BY <2>1
    <3>2. Complete(v[1]) /\ SnapshotOf(v[1]) = Usable(list)
      BY <1>2, <1>5, <2>3, <3>1, HeldMessage
    <3> QED BY <1>3, <1>7, <3>1, <3>2, EmptyWire
  <2> QED BY <1>5, <2>6, <2>7 DEF ReadsInStep
<1>8. ASSUME w # <<>>
      PROVE  /\ ReadsInStep' /\ OnlyLastCut(w, "tracking")
             /\ Complete(m) /\ SnapshotOf(m) = Usable(list)
  <2>1. PICK l \in Lists : InStep(l)
    BY <1>1, <1>6, <1>8 DEF ReadsInStep
  <2> DEFINE from == Before + Len(buffer)
  <2>2. from \in Nat /\ Framed(w, "tracking", l, from)
    <3>1. Before \in Nat
      BY DEF Before, Digits
    <3>2. Len(buffer) \in Nat
      BY LenProperties DEF WireInv, TypeOK
    <3> QED BY <1>1, <2>1, <3>1, <3>2 DEF InStep
  <2>3. Before' = Before /\ from' = from
    BY <1>1 DEF Before
  <2> HIDE DEF from
  <2>4. Framed(v, "tracking", l, from)
    BY <1>1, <1>2, <1>3, <1>8, <2>2, FramedSend
  <2>5. InStep(l)'
    <3>1. PartOf(buffer', l, Before')
      BY <1>1, <2>1, <2>3 DEF InStep
    <3>2. Framed(v, server', l, from')
      BY <1>1, <2>3, <2>4
    <3>3. pc' = "payload" => length' = Len(l)
      BY <1>1, <2>1 DEF InStep
    <3> QED BY <3>1, <3>2, <3>3 DEF InStep, from, PartOf, Framed, Holds
  <2>6. OnlyLastCut(w, "tracking")
    BY <1>3, <2>2, FramedQueue
  <2>7. Complete(m) /\ SnapshotOf(m) = Usable(list)
    <3> DEFINE x == <<m>>
    <3>1. x \in Wires /\ 1 \in 1 .. Len(x) /\ x[1] = m /\ Len(x) = 1
      BY <1>2 DEF Wires
    <3> HIDE DEF x
    <3>2. Holds(x, "tracking", 1, list, 4)
      BY <1>2, <3>1 DEF Holds
    <3> QED BY <1>2, <3>1, <3>2, HeldMessage
  <2> QED BY <1>5, <2>5, <2>6, <2>7 DEF ReadsInStep
<1>9. ReadsInStep' /\ OnlyLastCut(w, "tracking") /\ Complete(m) /\ SnapshotOf(m) = Usable(list)
  BY <1>7, <1>8
<1>10. Dialogue' /\ Refusal' /\ EndIsLast'
  BY <1>1 DEF WireInv, Dialogue, Refusal, EndIsLast, Handshake
<1>11. StreamQueue' = Append(StreamQueue, Usable(list))
  <2>1. QueueOf(v) = Append(QueueOf(w), Usable(list))
    BY <1>1, <1>2, <1>3, <1>9, QueueGrows
  <2> QED BY <1>1, <2>1, QueueIs DEF Connected
<1>12. StreamConn = "up" /\ StreamConn' = "up"
  BY <1>1 DEF StreamConn
<1>13. Stream!Send
  BY <1>1, <1>11, <1>12, ListSerials DEF Stream!Send
<1> QED BY <1>9, <1>10, <1>13 DEF Kept, Stream!Next

\* The snapshots which do not arrive in full are lost.
LEMMA CloseStep ==
  ASSUME WireInv, Close
  PROVE  Kept /\ [Stream!Next]_Stream!vars
<1> DEFINE w == wire
           v == wire'
<1>1. UNCHANGED <<pc, buffer, length, result, devices>>
  BY DEF Close
<1>2. /\ w \in Wires /\ v \in Wires /\ Len(v) \in 0 .. Len(w) /\ Len(w) \in Nat
      /\ \A i \in 1 .. Len(v) : i < Len(v) => v[i] = w[i]
      /\ \/ Len(v) # 0 => v[Len(v)] = w[Len(v)]
         \/ /\ Len(v) # 0
            /\ Len(v[Len(v)]) \in 1 .. Len(w[Len(v)]) - 1
            /\ \A k \in 1 .. Len(v[Len(v)]) : v[Len(v)][k] = w[Len(v)][k]
  BY CutWire DEF WireInv, TypeOK, Wires
<1>3. (w = <<>> <=> Len(w) = 0) /\ (v = <<>> <=> Len(v) = 0)
  BY <1>2, EmptySeq DEF Wires
<1>4. CASE server = "tracking"
  <2>1. server' = "closed"
    BY <1>4 DEF Close
  <2>2. /\ v # <<>> => \E l \in Lists : InStep(l)'
        /\ \E n \in 0 .. Len(QueueOf(w)) : QueueOf(v) = SubSeq(QueueOf(w), 1, n)
    <3>1. CASE w = <<>>
      <4>1. v = <<>>
        BY <1>2, <1>3, <3>1
      <4>2. QueueOf(w) = <<>> /\ QueueOf(v) = <<>>
        BY <1>2, <3>1, <4>1, EmptyWire
      <4>3. <<>> = SubSeq(<<>>, 1, 0) /\ 0 \in 0 .. Len(<<>>)
        BY SubSeqEmpty
      <4> QED BY <4>1, <4>2, <4>3
    <3>2. CASE w # <<>>
      <4>1. PICK l \in Lists : InStep(l)
        BY <1>4, <3>2 DEF WireInv, ReadsInStep
      <4> DEFINE from == Before + Len(buffer)
      <4>2. from \in Nat /\ Framed(w, "tracking", l, from)
        <5>1. Before \in Nat
          BY DEF Before, Digits
        <5>2. Len(buffer) \in Nat
          BY LenProperties DEF WireInv, TypeOK
        <5> QED BY <1>4, <4>1, <5>1, <5>2 DEF InStep
      <4>3. Before' = Before /\ from' = from
        BY <1>1 DEF Before
      <4> HIDE DEF from
      <4>4. /\ v # <<>> => Framed(v, "closed", l, from)
            /\ \E n \in 0 .. Len(QueueOf(w)) : QueueOf(v) = SubSeq(QueueOf(w), 1, n)
        <5> HIDE DEF w, v
        <5> QED BY <1>2, <3>2, <4>2, FramedCut
      <4>5. ASSUME v # <<>> PROVE InStep(l)'
        <5>1. PartOf(buffer', l, Before')
          BY <1>1, <4>1, <4>3 DEF InStep
        <5>2. Framed(v, server', l, from')
          BY <2>1, <4>3, <4>4, <4>5
        <5>3. pc' = "payload" => length' = Len(l)
          BY <1>1, <4>1 DEF InStep
        <5> QED BY <5>1, <5>2, <5>3 DEF InStep, from, PartOf, Framed, Holds
      <4> QED BY <4>4, <4>5
    <3> QED BY <3>1, <3>2
  <2>3. result \notin {"closed", "error"}
    BY <1>4 DEF WireInv, EndIsLast
  <2>4. Dialogue' /\ Refusal' /\ ReadsInStep' /\ EndIsLast'
    BY <1>1, <1>4, <2>1, <2>2, <2>3
    DEF WireInv, Dialogue, Refusal, ReadsInStep, EndIsLast, Handshake
  <2>5. StreamQueue = QueueOf(w) /\ StreamQueue' = QueueOf(v)
    BY <1>4, <2>1, QueueIs DEF Connected
  <2>6. StreamConn = "up" /\ StreamConn' = "closed"
    BY <1>1, <1>4, <2>1, <2>3 DEF StreamConn
  <2>7. Stream!Lose
    BY <1>1, <2>2, <2>5, <2>6 DEF Stream!Lose
  <2> QED BY <2>4, <2>7 DEF Kept, Stream!Next
<1>5. CASE server # "tracking"
  <2>1. server \in {"asked", "refused"} /\ server' = "gone" /\ result = "none"
        /\ pc \in Handshake /\ pc # "connect"
    BY <1>5 DEF Close, WireInv, Dialogue, Handshake
  <2>2. NoOkay(buffer) /\ \A i \in 1 .. Len(w) : NoOkay(w[i])
    <3>1. CASE server = "asked"
      BY <3>1 DEF WireInv, Dialogue, NoOkay
    <3>2. CASE server = "refused"
      BY <3>2 DEF WireInv, Refusal
    <3> QED BY <2>1, <3>1, <3>2
  <2>3. ASSUME NEW i \in 1 .. Len(v) PROVE NoOkay(v[i])
    <3>1. i \in 1 .. Len(w) /\ (i < Len(v) \/ i = Len(v))
      BY <1>2
    <3>2. NoOkay(w[i])
      BY <2>2, <3>1
    <3>3. CASE v[i] = w[i]
      BY <3>2, <3>3
    <3>4. CASE v[i] # w[i]
      <4>1. i = Len(v)
        BY <1>2, <3>1, <3>4
      <4>2. Len(v[i]) \in 1 .. Len(w[i]) - 1 /\ \A k \in 1 .. Len(v[i]) : v[i][k] = w[i][k]
        BY <1>2, <3>4, <4>1
      <4>3. Len(w[i]) \in Nat
        <5>1. w[i] \in Seq(WireUnits) \ {<<>>}
          BY <1>2, <3>1, ElementOfSeq DEF Wires
        <5> QED BY <5>1, LenProperties
      <4> DEFINE a == Len(v[i])
                 b == Len(w[i])
      <4>4. a \in 1 .. b - 1 /\ b \in Nat
        BY <4>2, <4>3
      <4>5. \A k \in 1 .. a : v[i][k] = w[i][k]
        BY <4>2
      <4>6. \A k \in 1 .. b : w[i][k].frame # Answer("OKAY")
        BY <3>2 DEF NoOkay
      <4> HIDE DEF a, b
      <4>7. \A k \in 1 .. a : k \in 1 .. b
        BY <4>4
      <4>8. \A k \in 1 .. a : v[i][k].frame # Answer("OKAY")
        BY <4>5, <4>6, <4>7
      <4> QED BY <4>8 DEF NoOkay, a
    <3> QED BY <3>3, <3>4
  <2>4. Refusal'
    <3>1. NoOkay(buffer')
      BY <1>1, <2>2
    <3> QED BY <2>3, <3>1 DEF Refusal, NoOkay
  <2>5. Dialogue' /\ ReadsInStep' /\ EndIsLast'
    BY <1>1, <2>1 DEF Dialogue, ReadsInStep, EndIsLast, Handshake
  <2>6. StreamQueue' = StreamQueue /\ StreamConn' = StreamConn
    <3>1. StreamQueue' = StreamQueue
      BY <2>1, QueueIs DEF Connected
    <3>2. StreamConn' = StreamConn
      BY <2>1 DEF StreamConn
    <3> QED BY <3>1, <3>2
  <2> QED BY <1>1, <2>4, <2>5, <2>6 DEF Kept, Stream!vars
<1> QED BY <1>4, <1>5

-----------------------------------------------------------------------------
(* The steps between two reads                                              *)

\* A connection that is given up is dropped, wherever it was.
LEMMA HangUpStep ==
  ASSUME WireInv, NEW r \in {"none", "error", "timedOut"}, HangUp(r)
  PROVE  Kept /\ [Stream!Next]_Stream!vars
<1>1. pc' = "idle" /\ server' = "none" /\ wire' = <<>> /\ devices' = devices
  BY DEF HangUp
<1>2. Dialogue' /\ Refusal' /\ ReadsInStep' /\ EndIsLast'
  BY <1>1 DEF Dialogue, Refusal, ReadsInStep, EndIsLast, Handshake
<1>3. StreamConn' = "none" /\ StreamQueue' = <<>>
  <2>1. StreamConn' = "none"
    BY <1>1 DEF StreamConn
  <2>2. StreamQueue' = <<>>
    BY <1>1, QueueIs DEF Connected
  <2> QED BY <2>1, <2>2
<1>4. CASE StreamConn # "none"
  <2>1. Stream!Drop
    BY <1>1, <1>3, <1>4 DEF Stream!Drop
  <2> QED BY <1>2, <2>1 DEF Kept, Stream!Next
<1>5. CASE StreamConn = "none"
  <2>1. server \notin Connected
    BY <1>5 DEF StreamConn, Connected
  <2>2. StreamQueue = <<>>
    BY <2>1, QueueIs
  <2> QED BY <1>1, <1>2, <1>3, <1>5, <2>2 DEF Kept, Stream!vars
<1> QED BY <1>4, <1>5

\* Nothing of the stream changes.
LEMMA QuietStep ==
  ASSUME UNCHANGED <<wire, devices>>,
         \/ server' = server /\ UNCHANGED result
         \/ {server, server'} \cap Connected = {}
  PROVE  [Stream!Next]_Stream!vars
<1>1. StreamConn' = StreamConn
  BY DEF StreamConn, Connected
<1>2. StreamQueue' = StreamQueue
  BY QueueIs
<1> QED BY <1>1, <1>2 DEF Stream!vars

LEMMA CallStep ==
  ASSUME WireInv, Connect \/ SendRequest \/ CallNextSnapshot \/ UNCHANGED vars
  PROVE  Kept /\ [Stream!Next]_Stream!vars
<1>1. CASE Connect
  <2>1. /\ server = "none" /\ server' = "none" /\ wire' = <<>> /\ pc' = "connect"
        /\ result' = "none" /\ UNCHANGED <<wire, devices>>
    BY <1>1 DEF Connect, WireInv, Dialogue
  <2>2. Dialogue' /\ Refusal' /\ ReadsInStep' /\ EndIsLast'
    BY <2>1 DEF Dialogue, Refusal, ReadsInStep, EndIsLast, Handshake
  <2> QED BY <2>1, <2>2, QuietStep DEF Kept, Connected
<1>2. CASE SendRequest
  <2>1. /\ server = "none" /\ server' = "asked" /\ wire' = <<>> /\ pc' = "status"
        /\ buffer' = <<>> /\ result' = "none" /\ UNCHANGED <<wire, devices>>
    BY <1>2 DEF SendRequest, ReadExact, WireInv, Dialogue, Handshake
  <2>2. Dialogue' /\ Refusal' /\ ReadsInStep' /\ EndIsLast'
    BY <2>1 DEF Dialogue, Refusal, ReadsInStep, EndIsLast, Handshake
  <2> QED BY <2>1, <2>2, QuietStep DEF Kept, Connected
<1>3. CASE CallNextSnapshot
  <2>1. /\ pc = "ready" /\ pc' = "length" /\ buffer = <<>> /\ buffer' = <<>>
        /\ UNCHANGED <<server, wire, result, devices>>
    BY <1>3 DEF CallNextSnapshot, ReadExact, WireInv, ReadsExactly
  <2>2. server \in Connected
    BY <2>1 DEF WireInv, TypeOK, Dialogue, Handshake, Connected
  <2>3. ASSUME NEW list \in Lists, InStep(list) PROVE InStep(list)'
    <3>1. Before = 4 /\ Before' = 4
      BY <2>1 DEF Before
    <3> QED BY <2>1, <2>3, <3>1 DEF InStep, PartOf, Framed, Holds
  <2>4. ReadsInStep'
    <3>1. wire # <<>> => \E list \in Lists : InStep(list)'
      BY <2>2, <2>3 DEF WireInv, ReadsInStep, Connected
    <3> QED BY <2>1, <3>1 DEF ReadsInStep
  <2>5. Dialogue' /\ Refusal' /\ EndIsLast'
    BY <2>1, <2>2 DEF WireInv, Dialogue, Refusal, EndIsLast, Handshake, Connected
  <2> QED BY <2>1, <2>4, <2>5, QuietStep DEF Kept
<1>4. CASE UNCHANGED vars
  <2>1. Kept
    BY <1>4 DEF vars, WireInv, Kept, Dialogue, Refusal, NoOkay, ReadsInStep, EndIsLast,
                InStep, PartOf, Framed, Holds, Before
  <2> QED BY <1>4, <2>1, QuietStep DEF vars
<1> QED BY <1>1, <1>2, <1>3, <1>4

\* The end of the connection, of which nothing is left.
LEMMA EndStep ==
  ASSUME WireInv, ReadEnd
  PROVE  Kept /\ [Stream!Next]_Stream!vars
<1>1. CASE HangUp("error")
  BY <1>1, HangUpStep
<1>2. CASE ~HangUp("error")
  <2>1. PICK r \in {"closed", "error"} : Return(r)
    BY <1>2 DEF ReadEnd
  <2>2. /\ server \in {"closed", "gone"} /\ wire = <<>> /\ pc \in {"length", "payload"}
        /\ UNCHANGED <<wire, devices>>
    BY <1>2 DEF ReadEnd
  <2>3. pc' = "ready" /\ result' = r /\ server' = server
    BY <2>1 DEF Return
  <2>4. server = "closed" /\ wire' = <<>>
    BY <2>2 DEF WireInv, Dialogue, Handshake
  <2>5. Dialogue' /\ Refusal' /\ ReadsInStep' /\ EndIsLast'
    BY <2>3, <2>4 DEF Dialogue, Refusal, ReadsInStep, EndIsLast, Handshake
  <2>6. StreamQueue = <<>> /\ StreamQueue' = <<>>
    <3>1. wire \in Wires
      BY DEF WireInv, TypeOK, Wires
    <3>2. QueueOf(wire) = <<>>
      BY <2>2, <3>1, EmptyWire
    <3>3. StreamQueue = QueueOf(wire) /\ StreamQueue' = QueueOf(wire')
      BY <2>3, <2>4, QueueIs DEF Connected
    <3> QED BY <2>2, <3>2, <3>3
  <2>7. StreamConn \in {"closed", "over"} /\ StreamConn' = "over"
    BY <2>1, <2>3, <2>4 DEF StreamConn
  <2>8. CASE StreamConn = "closed"
    <3>1. Stream!ReportEnd
      BY <2>2, <2>6, <2>7, <2>8 DEF Stream!ReportEnd
    <3> QED BY <2>5, <3>1 DEF Kept, Stream!Next
  <2>9. CASE StreamConn = "over"
    BY <2>2, <2>5, <2>6, <2>7, <2>9 DEF Kept, Stream!vars
  <2> QED BY <2>7, <2>8, <2>9
<1> QED BY <1>1, <1>2

-----------------------------------------------------------------------------
(* The steps of a read                                                      *)

\* Nothing is read but of a connection that answered.
LEMMA ReadsFrom ==
  ASSUME WireInv, NEW last, Reads(last)
  PROVE  /\ wire # <<>> /\ wire \in Wires /\ length # 0
         /\ pc \in {"status", "length", "payload", "failLength", "failMessage"}
         /\ \/ server \in Connected /\ pc \in {"status", "length", "payload"}
                                    /\ result \notin {"closed", "error"}
            \/ /\ server \in {"refused", "gone"} /\ result = "none"
               /\ pc \in {"status", "failLength", "failMessage"}
         /\ Len(buffer) \in Nat /\ length \in Nat /\ Len(buffer) < length
<1>1. wire # <<>> /\ length # 0
  BY DEF Reads
<1>2. wire \in Wires /\ buffer \in Seq(WireUnits) /\ length \in Nat
  BY DEF WireInv, TypeOK, Wires
<1>3. pc \in {"status", "length", "payload", "failLength", "failMessage"}
  BY <1>1 DEF WireInv, TypeOK, ReadsExactly, Handshake
<1>4. server \in {"refused", "tracking", "closed", "gone"}
  BY <1>1 DEF WireInv, TypeOK, Dialogue
<1>5. CASE server \in Connected
  <2>1. pc \in {"status", "length", "payload"} /\ result \notin {"closed", "error"}
    BY <1>1, <1>3, <1>5 DEF WireInv, Dialogue, EndIsLast, Connected
  <2> QED BY <1>1, <1>2, <1>3, <1>5, <2>1, LenProperties DEF WireInv, ReadsExactly
<1>6. CASE server \in {"refused", "gone"}
  <2>1. pc \in {"status", "failLength", "failMessage"} /\ result = "none"
    BY <1>3, <1>6 DEF WireInv, Dialogue, Handshake
  <2> QED BY <1>1, <1>2, <1>3, <1>6, <2>1, LenProperties DEF WireInv, ReadsExactly
<1> QED BY <1>4, <1>5, <1>6 DEF Connected

\* What was read of a connection that refuses, and what is left of it.
LEMMA RefusalTake ==
  ASSUME WireInv, server \in {"refused", "gone"}, wire # <<>>
  PROVE  /\ NoOkay(Units) /\ Len(Units) \in Nat \ {0}
         /\ Take => \A i \in 1 .. Len(wire') : NoOkay(wire'[i])
<1> DEFINE w == wire
           v == Shortened(w)
<1>1. TypeOK
  BY DEF WireInv
<1>2. NoOkay(buffer) /\ \A i \in 1 .. Len(w) : NoOkay(w[i])
  BY DEF WireInv, Refusal
<1>3. /\ Len(w) \in Nat \ {0} /\ Len(w[1]) \in Nat \ {0} /\ w \in Wires
      /\ Len(w[1]) = 1 => Len(v) = Len(w) - 1 /\ \A i \in 1 .. Len(v) : v[i] = w[i + 1]
      /\ Len(w[1]) # 1 => /\ Len(v) = Len(w)
                          /\ Len(v[1]) = Len(w[1]) - 1
                          /\ \A k \in 1 .. Len(v[1]) : v[1][k] = w[1][k + 1]
                          /\ \A i \in 2 .. Len(v) : v[i] = w[i]
  BY <1>1, TakeUnit, ShortenedWire
<1>4. NextUnit = w[1][1]
  BY <1>1, TakeUnit
<1> HIDE DEF w, v
<1>5. NoOkay(Units) /\ Len(Units) \in Nat \ {0}
  <2>1. /\ Len(buffer) \in Nat /\ Len(Units) = Len(buffer) + 1
        /\ \A k \in 1 .. Len(buffer) : Units[k] = buffer[k]
        /\ Units[Len(buffer) + 1] = NextUnit
    BY <1>1, UnitsRead
  <2>2. NextUnit.frame # Answer("OKAY")
    <3>1. NoOkay(w[1]) /\ 1 \in 1 .. Len(w[1])
      BY <1>2, <1>3
    <3> QED BY <1>4, <3>1 DEF NoOkay
  <2>3. ASSUME NEW k \in 1 .. Len(Units) PROVE Units[k].frame # Answer("OKAY")
    <3>1. k \in 1 .. Len(buffer) \/ k = Len(buffer) + 1
      BY <2>1
    <3>2. CASE k \in 1 .. Len(buffer)
      BY <1>2, <2>1, <3>2 DEF NoOkay
    <3>3. CASE k = Len(buffer) + 1
      BY <2>1, <2>2, <3>3
    <3> QED BY <3>1, <3>2, <3>3
  <2> QED BY <2>1, <2>3 DEF NoOkay
<1>6. ASSUME NEW i \in 1 .. Len(v) PROVE NoOkay(v[i])
  <2>1. CASE Len(w[1]) = 1
    <3>1. i + 1 \in 1 .. Len(w) /\ v[i] = w[i + 1]
      BY <1>3, <2>1
    <3> QED BY <1>2, <3>1
  <2>2. CASE Len(w[1]) # 1 /\ i # 1
    <3>1. i \in 1 .. Len(w) /\ v[i] = w[i]
      BY <1>3, <2>2
    <3> QED BY <1>2, <3>1
  <2>3. CASE Len(w[1]) # 1 /\ i = 1
    <3> DEFINE a == Len(v[1])
               b == Len(w[1])
    <3>1. a = b - 1 /\ b \in Nat \ {0} /\ \A k \in 1 .. a : v[1][k] = w[1][k + 1]
      BY <1>3, <2>3
    <3>2. \A k \in 1 .. b : w[1][k].frame # Answer("OKAY")
      BY <1>2, <1>3 DEF NoOkay
    <3> HIDE DEF a, b
    <3>3. \A k \in 1 .. a : k + 1 \in 1 .. b
      BY <3>1
    <3>4. \A k \in 1 .. a : v[1][k].frame # Answer("OKAY")
      BY <3>1, <3>2, <3>3
    <3> QED BY <2>3, <3>4 DEF NoOkay, a
  <2> QED BY <2>1, <2>2, <2>3
<1>7. Take => wire' = v
  BY <1>1, TakeUnit DEF v, w
<1> QED BY <1>5, <1>6, <1>7

\* While a connection refuses, what is read of it is read by connect.
LEMMA RefusalStep ==
  ASSUME WireInv, server \in {"refused", "gone"}, Read
  PROVE  Kept /\ [Stream!Next]_Stream!vars
<1>1. CASE \E r \in {"none", "error", "timedOut"} : HangUp(r)
  BY <1>1, HangUpStep
<1>2. CASE ReadEnd
  BY <1>2, EndStep
<1>3. ASSUME Take, wire # <<>>, server' = server, result' = result, devices' = devices,
             result = "none", pc' \in {"status", "failLength", "failMessage"},
             NoOkay(buffer')
      PROVE  Kept /\ [Stream!Next]_Stream!vars
  <2>1. Refusal'
    BY <1>3, RefusalTake DEF Refusal, NoOkay
  <2>2. Dialogue' /\ ReadsInStep' /\ EndIsLast'
    BY <1>3 DEF Dialogue, ReadsInStep, EndIsLast, Handshake
  <2>3. StreamConn' = StreamConn
    BY <1>3 DEF StreamConn
  <2>4. StreamQueue' = StreamQueue
    BY <1>3, QueueIs DEF Connected
  <2> QED BY <1>3, <2>1, <2>2, <2>3, <2>4 DEF Kept, Stream!vars
<1>4. NoOkay(<<>>)
  BY DEF NoOkay
<1>5. CASE ReadOn
  <2>1. Reads(FALSE) /\ buffer' = Units /\ Take
        /\ UNCHANGED <<pc, server, result, devices>>
    BY <1>5 DEF ReadOn
  <2>2. wire # <<>> /\ result = "none" /\ pc \in {"status", "failLength", "failMessage"}
    BY <2>1, ReadsFrom DEF Connected
  <2>3. NoOkay(Units)
    BY <2>2, RefusalTake
  <2>4. NoOkay(buffer')
    BY <2>1, <2>3
  <2> QED BY <1>3, <2>1, <2>2, <2>4
<1>6. ASSUME NEW to \in {"failLength", "failMessage"}, NEW n, Go(to, n), Take, Reads(TRUE)
      PROVE  Kept /\ [Stream!Next]_Stream!vars
  <2>1. wire # <<>> /\ result = "none"
    BY <1>6, ReadsFrom DEF Connected
  <2>2. pc' = to /\ buffer' = <<>> /\ UNCHANGED <<server, result, devices>>
    BY <1>6 DEF Go, ReadExact
  <2>3. NoOkay(buffer')
    BY <1>4, <2>2
  <2> QED BY <1>3, <1>6, <2>1, <2>2, <2>3
<1>7. CASE ReadStatus
  <2>1. wire # <<>>
    BY <1>7, ReadsFrom DEF ReadStatus
  <2>2. Units # Status("OKAY")
    <3>1. NoOkay(Units) /\ Len(Units) \in Nat \ {0}
      BY <2>1, RefusalTake
    <3>2. Units[1].frame # Answer("OKAY")
      BY <3>1 DEF NoOkay
    <3>3. Status("OKAY")[1].frame = Answer("OKAY")
      BY StatusUnits DEF Replies, Unit
    <3> QED BY <3>2, <3>3
  <2>3. (Take /\ Go("failLength", Digits) /\ Reads(TRUE)) \/ HangUp("error")
    BY <1>7, <2>2 DEF ReadStatus
  <2> QED BY <1>1, <1>6, <2>3
<1>8. CASE ReadFail
  <2>1. (Take /\ Go("failMessage", LengthOf(Units)) /\ Reads(TRUE)) \/ HangUp("error")
    BY <1>8 DEF ReadFail
  <2> QED BY <1>1, <1>6, <2>1
<1>9. ~ReadLength /\ ~ReadPayload
  BY DEF ReadLength, ReadPayload, WireInv, Dialogue, Handshake
<1> QED BY <1>2, <1>5, <1>7, <1>8, <1>9 DEF Read

\* The units read so far are those of the frame, and one more.
LEMMA StepOfFrame ==
  ASSUME WireInv, server \in Connected, wire # <<>>, Take,
         NEW list \in Lists, InStep(list)
  PROVE  LET from == Before + Len(buffer) IN
         /\ from \in Nat /\ Len(buffer) \in Nat /\ Size(list) = 8 + Len(list) /\ Len(list) \in Nat
         /\ Units \in Seq(WireUnits) /\ Len(Units) = Len(buffer) + 1
         /\ PartOf(Units, list, Before) /\ from + 1 <= Size(list)
         /\ wire' \in Wires
         /\ from + 1 # Size(list) =>
              /\ QueueOf(wire') = QueueOf(wire)
              /\ wire' = <<>> => server = "closed"
              /\ wire' # <<>> => Framed(wire', server, list, from + 1)
         /\ from + 1 = Size(list) =>
              /\ QueueOf(wire) # <<>> /\ Head(QueueOf(wire)) = Usable(list)
              /\ QueueOf(wire') = Tail(QueueOf(wire))
              /\ wire' # <<>> => \E l \in Lists : Framed(wire', server, l, 4)
<1> DEFINE from == Before + Len(buffer)
<1>1. wire \in Wires /\ NextUnit = Head(Head(wire)) /\ wire' = Shortened(wire)
      /\ wire' \in Wires
  BY TakeUnit, ShortenedWire DEF WireInv, NextUnit
<1>2. /\ Units \in Seq(WireUnits)
      /\ Len(buffer) \in Nat /\ Len(Units) = Len(buffer) + 1
      /\ \A k \in 1 .. Len(buffer) : Units[k] = buffer[k]
      /\ Units[Len(buffer) + 1] = NextUnit
  BY UnitsRead DEF WireInv
<1>3. Before \in Nat /\ from \in Nat
  <2>1. Before \in Nat
    BY DEF Before, Digits
  <2> QED BY <1>2, <2>1
<1>4. Size(list) = 8 + Len(list) /\ Len(list) \in Nat
  BY LinesOfList DEF Size, Digits
<1>5. Framed(wire, server, list, from)
  BY DEF InStep
<1> DEFINE w == wire
<1> HIDE DEF w
<1>6. /\ from + 1 <= Size(list) /\ NextUnit = UnitAt(list, from + 1)
      /\ from + 1 # Size(list) =>
           /\ QueueOf(Shortened(w)) = QueueOf(w)
           /\ Shortened(w) = <<>> => server = "closed"
           /\ Shortened(w) # <<>> => Framed(Shortened(w), server, list, from + 1)
      /\ from + 1 = Size(list) =>
           /\ QueueOf(w) # <<>> /\ Head(QueueOf(w)) = Usable(list)
           /\ QueueOf(Shortened(w)) = Tail(QueueOf(w))
           /\ Shortened(w) # <<>> => \E l \in Lists : Framed(Shortened(w), server, l, 4)
  <2> HIDE DEF from
  <2>1. w \in Wires /\ w # <<>> /\ Framed(w, server, list, from) /\ Head(Head(w)) = NextUnit
    BY <1>1, <1>5 DEF w
  <2>2. from \in Nat
    BY <1>3
  <2> QED BY <2>1, <2>2, FramedTake
<1>7. PartOf(Units, list, Before)
  <2>1. \A k \in 1 .. Len(buffer) : buffer[k] = UnitAt(list, Before + k)
    BY DEF InStep, PartOf
  <2>2. \A k \in 1 .. Len(Units) : Units[k] = UnitAt(list, Before + k)
    <3> TAKE k \in 1 .. Len(Units)
    <3>1. k \in 1 .. Len(buffer) \/ k = Len(buffer) + 1
      BY <1>2
    <3>2. CASE k \in 1 .. Len(buffer)
      BY <1>2, <2>1, <3>2
    <3>3. CASE k = Len(buffer) + 1
      <4>1. Before + k = from + 1
        BY <1>2, <1>3, <3>3
      <4> QED BY <1>2, <1>6, <3>3, <4>1
    <3> QED BY <3>1, <3>2, <3>3
  <2>3. Before + Len(Units) = from + 1
    BY <1>2, <1>3
  <2> QED BY <1>6, <2>2, <2>3 DEF PartOf
<1> QED BY <1>1, <1>2, <1>3, <1>4, <1>6, <1>7 DEF w

\* Of a read that leaves the client in step, the stream shows nothing ...
LEMMA QuietRead ==
  ASSUME WireInv, server \in Connected, wire # <<>>, result \notin {"closed", "error"},
         server' = server, result' \notin {"closed", "error"}, devices' = devices,
         pc' \in {"status", "ready", "length", "payload"},
         pc' = "status" => result' = "none",
         QueueOf(wire') = QueueOf(wire),
         wire' = <<>> => server = "closed",
         wire' # <<>> => \E list \in Lists : InStep(list)'
  PROVE  Kept /\ [Stream!Next]_Stream!vars
<1>1. Dialogue' /\ Refusal' /\ ReadsInStep' /\ EndIsLast'
  BY DEF Dialogue, Refusal, ReadsInStep, EndIsLast, Handshake, Connected
<1>2. StreamConn' = StreamConn
  BY DEF StreamConn, Connected
<1>3. StreamQueue' = StreamQueue
  BY QueueIs
<1> QED BY <1>1, <1>2, <1>3 DEF Kept, Stream!vars

\* ... and of the one that ends a frame, that its snapshot is returned.
LEMMA ReturningRead ==
  ASSUME WireInv, server \in Connected, wire # <<>>, result \notin {"closed", "error"},
         wire' \in Wires, Return("list"),
         NEW list \in Lists, devices' = Usable(list),
         QueueOf(wire) # <<>>, Head(QueueOf(wire)) = Usable(list),
         QueueOf(wire') = Tail(QueueOf(wire)),
         wire' # <<>> => \E l \in Lists : Framed(wire', server, l, 4)
  PROVE  Kept /\ [Stream!Next]_Stream!vars
<1>1. pc' = "ready" /\ result' = "list" /\ server' = server /\ buffer' = <<>>
  BY DEF Return, ReadExact
<1>2. Dialogue' /\ Refusal' /\ EndIsLast'
  BY <1>1 DEF Dialogue, Refusal, EndIsLast, Handshake, Connected
<1>3. ReadsInStep'
  <2>1. ASSUME NEW l \in Lists, Framed(wire', server, l, 4) PROVE InStep(l)'
    <3>1. Before' = 4 /\ Len(buffer') = 0 /\ Before' + Len(buffer') = 4
      BY <1>1 DEF Before
    <3>2. PartOf(buffer', l, 4)
      BY <3>1, LinesOfList DEF PartOf, Size, Digits
    <3> QED BY <1>1, <2>1, <3>1, <3>2 DEF InStep, PartOf, Framed, Holds
  <2> QED BY <1>1, <2>1 DEF ReadsInStep
<1>4. StreamConn' = StreamConn /\ StreamConn # "none"
  BY <1>1 DEF StreamConn, Connected
<1>5. StreamQueue = QueueOf(wire) /\ StreamQueue' = QueueOf(wire')
  BY <1>1, QueueIs
<1>6. Stream!Return
  BY <1>4, <1>5 DEF Stream!Return
<1> QED BY <1>2, <1>3, <1>6 DEF Kept, Stream!Next

LEMMA ReadOnStep ==
  ASSUME WireInv, server \in Connected, ReadOn
  PROVE  Kept /\ [Stream!Next]_Stream!vars
<1>1. /\ Reads(FALSE) /\ buffer' = Units /\ Take
      /\ UNCHANGED <<pc, server, length, result, devices>>
  BY DEF ReadOn
<1>2. /\ wire # <<>> /\ pc \in {"status", "length", "payload"}
      /\ result \notin {"closed", "error"}
      /\ Len(buffer) \in Nat /\ length \in Nat /\ Len(buffer) < length
  BY <1>1, ReadsFrom DEF Connected
<1>3. Len(buffer) + 1 < length
  <2>1. Len(buffer) + 1 # length
    BY <1>1 DEF Reads
  <2> QED BY <1>2, <2>1
<1>4. PICK list \in Lists : InStep(list)
  BY <1>2 DEF WireInv, ReadsInStep, Connected
<1> DEFINE from == Before + Len(buffer)
<1>5. /\ Size(list) = 8 + Len(list) /\ Len(list) \in Nat
      /\ Len(Units) = Len(buffer) + 1 /\ PartOf(Units, list, Before)
      /\ from + 1 # Size(list) =>
           /\ QueueOf(wire') = QueueOf(wire)
           /\ wire' = <<>> => server = "closed"
           /\ wire' # <<>> => Framed(wire', server, list, from + 1)
  BY <1>1, <1>2, <1>4, StepOfFrame
<1>6. Before \in Nat /\ from + 1 # Size(list)
  <2>1. CASE pc = "status"
    <3>1. Before = 0 /\ length = 4
      BY <2>1 DEF Before, WireInv, ReadsExactly, Digits
    <3> QED BY <1>2, <1>3, <1>5, <3>1
  <2>2. CASE pc = "length"
    <3>1. Before = 4 /\ length = 4
      BY <2>2 DEF Before, WireInv, ReadsExactly, Digits
    <3> QED BY <1>2, <1>3, <1>5, <3>1
  <2>3. CASE pc = "payload"
    <3>1. Before = 8 /\ length = Len(list)
      BY <1>4, <2>3 DEF Before, InStep, Digits
    <3> QED BY <1>2, <1>3, <1>5, <3>1
  <2> QED BY <1>2, <2>1, <2>2, <2>3
<1>7. ASSUME wire' # <<>> PROVE InStep(list)'
  <2>1. Before' = Before
    BY <1>1 DEF Before
  <2>2. Before' + Len(buffer') = from + 1
    BY <1>1, <1>2, <1>5, <1>6, <2>1
  <2>3. Framed(wire', server', list, from + 1)
    BY <1>1, <1>5, <1>6, <1>7
  <2>4. PartOf(buffer', list, Before')
    BY <1>1, <1>5, <2>1
  <2>5. pc' = "payload" => length' = Len(list)
    BY <1>1, <1>4 DEF InStep
  <2> HIDE DEF from
  <2>6. Framed(wire', server', list, Before' + Len(buffer'))
    BY <2>2, <2>3
  <2> QED BY <2>4, <2>5, <2>6 DEF InStep, PartOf, Framed, Holds
<1>8. pc' = "status" => result' = "none"
  BY <1>1 DEF WireInv, Dialogue, Handshake
<1> QED BY <1>1, <1>2, <1>5, <1>6, <1>7, <1>8, QuietRead

\* The client reads "OKAY" and is connected.
LEMMA ReadStatusStep ==
  ASSUME WireInv, server \in Connected, ReadStatus
  PROVE  Kept /\ [Stream!Next]_Stream!vars
<1>1. pc = "status" /\ Reads(TRUE)
  BY DEF ReadStatus
<1>2. CASE HangUp("error")
  BY <1>2, HangUpStep
<1>3. CASE ~HangUp("error")
  <2>1. wire # <<>> /\ result \notin {"closed", "error"} /\ Take
    BY <1>1, <1>3, ReadsFrom DEF Connected, ReadStatus
  <2>2. length = 4 /\ Before = 0 /\ Len(buffer) + 1 = 4
    BY <1>1 DEF WireInv, ReadsExactly, Digits, Before, Reads
  <2>3. PICK list \in Lists : InStep(list)
    BY <2>1 DEF WireInv, ReadsInStep, Connected
  <2> DEFINE from == Before + Len(buffer)
  <2>4. /\ Size(list) = 8 + Len(list) /\ Len(list) \in Nat
        /\ Units \in Seq(WireUnits) /\ Len(Units) = Len(buffer) + 1
        /\ PartOf(Units, list, Before) /\ Len(buffer) \in Nat
        /\ from + 1 # Size(list) =>
             /\ QueueOf(wire') = QueueOf(wire)
             /\ wire' = <<>> => server = "closed"
             /\ wire' # <<>> => Framed(wire', server, list, from + 1)
    BY <2>1, <2>3, StepOfFrame
  <2>5. from + 1 = 4 /\ 4 # Size(list)
    BY <2>2, <2>4
  <2>6. Units = Status("OKAY")
    <3>1. \A k \in 1 .. 4 : Units[k] = Unit(Answer("OKAY"), k)
      <4>1. \A k \in 1 .. Len(Units) : Units[k] = UnitAt(list, Before + k)
        BY <2>4 DEF PartOf
      <4>2. \A k \in 1 .. 4 : k \in 1 .. Len(Units) /\ Before + k = k /\ k <= 4
        BY <2>2, <2>4
      <4> QED BY <4>1, <4>2 DEF UnitAt
    <3>2. Status("OKAY") \in Seq(WireUnits) /\ Len(Status("OKAY")) = 4
          /\ \A k \in 1 .. 4 : Status("OKAY")[k] = Unit(Answer("OKAY"), k)
      BY StatusUnits DEF Replies
    <3>3. Len(Units) = 4
      BY <2>2, <2>4
    <3> QED BY <2>4, <3>1, <3>2, <3>3, SeqEqual
  <2>7. Status("OKAY") # Status("FAIL")
    <3>1. Status("OKAY")[1].frame[1].state = "OKAY" /\ Status("FAIL")[1].frame[1].state = "FAIL"
      BY StatusUnits DEF Replies, Unit, Answer
    <3> QED BY <3>1
  <2>8. Return("ok") /\ devices' = devices
    BY <1>3, <2>6, <2>7 DEF ReadStatus
  <2>9. pc' = "ready" /\ result' = "ok" /\ server' = server /\ buffer' = <<>>
    BY <2>8 DEF Return, ReadExact
  <2>10. ASSUME wire' # <<>> PROVE InStep(list)'
    <3>1. Before' = 4 /\ Len(buffer') = 0 /\ Before' + Len(buffer') = 4
      BY <2>9 DEF Before
    <3>2. Framed(wire', server', list, 4)
      BY <2>4, <2>5, <2>9, <2>10
    <3>3. PartOf(buffer', list, 4)
      BY <2>4, <3>1 DEF PartOf
    <3> QED BY <2>9, <3>1, <3>2, <3>3 DEF InStep, PartOf, Framed, Holds
  <2> QED BY <2>1, <2>4, <2>5, <2>8, <2>9, <2>10, QuietRead
<1> QED BY <1>2, <1>3

\* The client reads the digits, the number of the lines that follow.
LEMMA ReadLengthStep ==
  ASSUME WireInv, server \in Connected, ReadLength
  PROVE  Kept /\ [Stream!Next]_Stream!vars
<1>1. pc = "length" /\ Reads(TRUE) /\ Take
  BY DEF ReadLength
<1>2. wire # <<>> /\ result \notin {"closed", "error"}
  BY <1>1, ReadsFrom DEF Connected
<1>3. Before = 4 /\ Len(buffer) + 1 = 4
  BY <1>1 DEF WireInv, ReadsExactly, Digits, Before, Reads
<1>4. PICK list \in Lists : InStep(list)
  BY <1>2 DEF WireInv, ReadsInStep, Connected
<1> DEFINE from == Before + Len(buffer)
<1>5. /\ Size(list) = 8 + Len(list) /\ Len(list) \in Nat
      /\ Units \in Seq(WireUnits) /\ Len(Units) = Len(buffer) + 1
      /\ PartOf(Units, list, Before) /\ wire' \in Wires /\ Len(buffer) \in Nat
      /\ from + 1 # Size(list) =>
           /\ QueueOf(wire') = QueueOf(wire)
           /\ wire' = <<>> => server = "closed"
           /\ wire' # <<>> => Framed(wire', server, list, from + 1)
      /\ from + 1 = Size(list) =>
           /\ QueueOf(wire) # <<>> /\ Head(QueueOf(wire)) = Usable(list)
           /\ QueueOf(wire') = Tail(QueueOf(wire))
           /\ wire' # <<>> => \E l \in Lists : Framed(wire', server, l, 4)
  BY <1>1, <1>2, <1>4, StepOfFrame
<1>6. Len(Units) = 4 /\ \A k \in 1 .. 4 : Units[k] = Unit(list, k)
  <2>1. \A k \in 1 .. Len(Units) : Units[k] = UnitAt(list, Before + k)
    BY <1>5 DEF PartOf
  <2>2. Len(Units) = 4
    BY <1>3, <1>5
  <2>3. \A k \in 1 .. 4 : ~(Before + k <= 4) /\ (Before + k) - 4 = k
    BY <1>3
  <2> QED BY <2>1, <2>2, <2>3 DEF UnitAt
<1>7. Units[1].frame = list
  BY <1>6 DEF Unit
<1>8. IsLength(Units)
  <2> DEFINE f == Frame(list)
             s == SubSeq(f, 1, 4)
  <2>1. /\ f \in Seq(WireUnits) /\ Len(f) = 4 + Len(list)
        /\ \A i \in 1 .. 4 + Len(list) : f[i] = Unit(list, i)
    BY FrameUnits DEF Digits
  <2> HIDE DEF f
  <2>2. \A i \in 1 .. 4 : i \in 1 .. 4 + Len(list)
    BY <1>5
  <2>3. \A i \in 1 .. 4 : f[i] \in WireUnits /\ f[i] = Unit(list, i)
    BY <2>1, <2>2, ElementOfSeq
  <2>4. s \in Seq(WireUnits) /\ Len(s) = 4 /\ \A i \in 1 .. 4 : s[i] = f[i]
    BY <2>3, SubSeqProperties
  <2> HIDE DEF s
  <2>5. Units = s
    BY <1>5, <1>6, <2>3, <2>4, SeqEqual
  <2> QED BY <1>7, <2>5 DEF IsLength, Digits, s, f
<1>9. LengthOf(Units) = Len(list)
  BY <1>7 DEF LengthOf
<1>10. CASE Len(list) = 0
  <2>1. Return("list") /\ devices' = {}
    BY <1>8, <1>9, <1>10 DEF ReadLength
  <2>2. from + 1 = Size(list)
    BY <1>3, <1>5, <1>10
  <2>3. Usable(list) = {}
    <3>1. DOMAIN list = {}
      <4>1. DOMAIN list = 1 .. Len(list)
        BY LinesOfList, LenProperties
      <4> QED BY <1>10, <4>1
    <3> QED BY <3>1 DEF Usable, ParseDeviceList
  <2> QED BY <1>2, <1>5, <2>1, <2>2, <2>3, ReturningRead
<1>11. CASE Len(list) # 0
  <2>1. Go("payload", Len(list))
    BY <1>8, <1>9, <1>11 DEF ReadLength
  <2>2. from + 1 # Size(list) /\ from + 1 = 8
    BY <1>3, <1>5, <1>11
  <2>3. /\ pc' = "payload" /\ buffer' = <<>> /\ length' = Len(list)
        /\ UNCHANGED <<server, result, devices>>
    BY <2>1 DEF Go, ReadExact
  <2>4. ASSUME wire' # <<>> PROVE InStep(list)'
    <3>1. Before' = 8 /\ Len(buffer') = 0 /\ Before' + Len(buffer') = 8
      BY <2>3 DEF Before, Digits
    <3>2. Framed(wire', server', list, 8)
      BY <1>5, <2>2, <2>3, <2>4
    <3>3. PartOf(buffer', list, 8)
      BY <1>5, <3>1 DEF PartOf
    <3> QED BY <2>3, <3>1, <3>2, <3>3 DEF InStep, PartOf, Framed, Holds
  <2> QED BY <1>2, <1>5, <2>2, <2>3, <2>4, QuietRead
<1> QED BY <1>10, <1>11

\* The client reads the lines, and returns their snapshot.
LEMMA ReadPayloadStep ==
  ASSUME WireInv, server \in Connected, ReadPayload
  PROVE  Kept /\ [Stream!Next]_Stream!vars
<1>1. /\ pc = "payload" /\ Reads(TRUE) /\ Take /\ Return("list")
      /\ devices' = Usable([i \in DOMAIN Units |-> LineOf(Units[i])])
  BY DEF ReadPayload
<1>2. wire # <<>> /\ result \notin {"closed", "error"}
  BY <1>1, ReadsFrom DEF Connected
<1>3. PICK list \in Lists : InStep(list)
  BY <1>2 DEF WireInv, ReadsInStep, Connected
<1>4. Before = 8 /\ Len(buffer) + 1 = Len(list)
  BY <1>1, <1>3 DEF InStep, Digits, Before, Reads
<1> DEFINE from == Before + Len(buffer)
<1>5. /\ Size(list) = 8 + Len(list) /\ Len(list) \in Nat
      /\ Units \in Seq(WireUnits) /\ Len(Units) = Len(buffer) + 1
      /\ PartOf(Units, list, Before) /\ wire' \in Wires /\ Len(buffer) \in Nat
      /\ from + 1 = Size(list) =>
           /\ QueueOf(wire) # <<>> /\ Head(QueueOf(wire)) = Usable(list)
           /\ QueueOf(wire') = Tail(QueueOf(wire))
           /\ wire' # <<>> => \E l \in Lists : Framed(wire', server, l, 4)
  BY <1>1, <1>2, <1>3, StepOfFrame
<1>6. from + 1 = Size(list)
  BY <1>4, <1>5
<1>7. [i \in DOMAIN Units |-> LineOf(Units[i])] = list
  <2> DEFINE n == Len(list)
             u == Units
  <2>1. n \in Nat /\ Len(u) = n /\ PartOf(u, list, 8) /\ u \in Seq(WireUnits)
    BY <1>4, <1>5
  <2>2. DOMAIN list = 1 .. n /\ list = [i \in 1 .. n |-> list[i]]
    BY LinesOfList, LenProperties
  <2> HIDE DEF n, u
  <2>3. DOMAIN u = 1 .. n
    BY <2>1, LenProperties
  <2>4. \A i \in 1 .. n : LineOf(u[i]) = list[i]
    <3> TAKE i \in 1 .. n
    <3>1. u[i] = UnitAt(list, 8 + i)
      BY <2>1 DEF PartOf
    <3>2. i \in Nat \ {0} /\ ~(8 + i <= 4) /\ (8 + i) - 4 = 4 + i /\ 4 + i > 4 /\ (4 + i) - 4 = i
      BY <2>1
    <3>3. u[i] = Unit(list, 4 + i)
      BY <3>1, <3>2 DEF UnitAt
    <3> QED BY <3>2, <3>3 DEF LineOf, Unit, Digits
  <2>5. [i \in DOMAIN u |-> LineOf(u[i])] = [i \in 1 .. n |-> list[i]]
    BY <2>3, <2>4
  <2> QED BY <2>2, <2>5 DEF u
<1>8. devices' = Usable(list)
  BY <1>1, <1>7
<1> QED BY <1>1, <1>2, <1>5, <1>6, <1>8, ReturningRead

-----------------------------------------------------------------------------
(* The client implements the stream                                         *)

LEMMA InitInv == Init => WireInv /\ Stream!Init
<1> SUFFICES ASSUME Init PROVE WireInv /\ Stream!Init
  OBVIOUS
<1>1. /\ pc = "idle" /\ server = "none" /\ wire = <<>> /\ buffer = <<>> /\ length = 0
      /\ result = "none" /\ devices = {}
  BY DEF Init
<1>2. ReadsExactly /\ Dialogue /\ Refusal /\ ReadsInStep /\ EndIsLast
  BY <1>1 DEF ReadsExactly, Dialogue, Refusal, ReadsInStep, EndIsLast, Handshake
<1>3. StreamConn = "none"
  BY <1>1 DEF StreamConn
<1>4. StreamQueue = <<>>
  BY <1>1, QueueIs DEF Connected
<1> QED BY <1>1, <1>2, <1>3, <1>4, InitType DEF WireInv, Stream!Init

\* A read_exact always wants more than it has.
LEMMA ExactStep == WireInv /\ [Next]_vars => ReadsExactly'
<1> SUFFICES ASSUME WireInv, [Next]_vars PROVE ReadsExactly'
  OBVIOUS
<1>1. TypeOK' /\ ReadsExactly
  BY NextType DEF WireInv
<1>2. ASSUME buffer' = <<>>, pc' \in {"idle", "connect", "ready"} => length' = 0,
             pc' \in {"status", "length", "failLength"} => length' = Digits
      PROVE  ReadsExactly'
  <2>1. length' \in Nat /\ Len(buffer') = 0
    BY <1>1, <1>2 DEF TypeOK
  <2> QED BY <1>2, <2>1 DEF ReadsExactly
<1>3. ASSUME UNCHANGED <<pc, buffer, length>> PROVE ReadsExactly'
  BY <1>1, <1>3 DEF ReadsExactly
<1>4. CASE (\E list \in Lists : Accept(list) \/ SendList(list)) \/ Refuse \/ Close
  BY <1>3, <1>4 DEF Accept, SendList, Refuse, Sends, Close
<1>5. CASE UNCHANGED vars
  BY <1>3, <1>5 DEF vars
<1>6. CASE Connect
  BY <1>1, <1>2, <1>6 DEF Connect, ReadsExactly
<1>7. CASE SendRequest \/ CallNextSnapshot
  BY <1>2, <1>7 DEF SendRequest, CallNextSnapshot, ReadExact, Digits
<1>8. ASSUME NEW r, Return(r) \/ HangUp(r) PROVE ReadsExactly'
  BY <1>2, <1>8 DEF Return, HangUp, ReadExact
<1>9. CASE NotConnected \/ TimeOut \/ Disconnect \/ ReadEnd
  BY <1>8, <1>9 DEF NotConnected, TimeOut, Disconnect, ReadEnd
<1>10. CASE ReadOn
  <2>1. wire # <<>> /\ Len(buffer) < length /\ Len(buffer) \in Nat /\ length \in Nat
        /\ pc \notin {"idle", "connect", "ready"}
    BY <1>10, ReadsFrom DEF ReadOn
  <2>2. Len(Units) = Len(buffer) + 1
    BY <2>1, UnitsRead DEF WireInv
  <2>3. Len(buffer) + 1 # length
    BY <1>10 DEF ReadOn, Reads
  <2>4. UNCHANGED <<pc, length>> /\ buffer' = Units
    BY <1>10 DEF ReadOn
  <2>5. Len(buffer') < length'
    BY <2>1, <2>2, <2>3, <2>4
  <2> QED BY <1>1, <2>1, <2>4, <2>5 DEF ReadsExactly
<1>11. CASE ReadStatus
  <2>1. Return("ok") \/ HangUp("error") \/ Go("failLength", Digits)
    BY <1>11 DEF ReadStatus
  <2> QED BY <1>2, <1>8, <2>1 DEF Go, ReadExact
<1>12. CASE ReadLength
  <2>1. Return("error") \/ Return("list") \/ Go("payload", LengthOf(Units))
    BY <1>12 DEF ReadLength
  <2> QED BY <1>2, <1>8, <2>1 DEF Go, ReadExact
<1>13. CASE ReadPayload
  BY <1>8, <1>13 DEF ReadPayload
<1>14. CASE ReadFail
  <2>1. HangUp("error") \/ Go("failMessage", LengthOf(Units))
    BY <1>14 DEF ReadFail
  <2> QED BY <1>2, <1>8, <2>1 DEF Go, ReadExact
<1> QED BY <1>4, <1>5, <1>6, <1>7, <1>9, <1>10, <1>11, <1>12, <1>13, <1>14 DEF Next, Read

LEMMA NextInv == WireInv /\ [Next]_vars => WireInv' /\ [Stream!Next]_Stream!vars
<1> SUFFICES ASSUME WireInv, [Next]_vars
             PROVE  WireInv' /\ [Stream!Next]_Stream!vars
  OBVIOUS
<1>1. TypeOK' /\ ReadsExactly'
  BY NextType, ExactStep DEF WireInv
<1>2. Kept /\ [Stream!Next]_Stream!vars
  <2>1. CASE \E list \in Lists : Accept(list) \/ SendList(list)
    BY <2>1, AcceptStep, SendStep
  <2>2. CASE Refuse
    BY <2>2, RefuseStep
  <2>3. CASE Close
    BY <2>3, CloseStep
  <2>4. CASE Connect \/ SendRequest \/ CallNextSnapshot \/ UNCHANGED vars
    BY <2>4, CallStep
  <2>5. CASE NotConnected \/ TimeOut \/ Disconnect
    BY <2>5, HangUpStep DEF NotConnected, TimeOut, Disconnect
  <2>6. CASE Read
    <3>1. CASE server \in {"refused", "gone"}
      BY <2>6, <3>1, RefusalStep
    <3>2. CASE server \notin {"refused", "gone"} /\ ~ReadEnd
      <4>1. \E last : Reads(last)
        BY <2>6, <3>2 DEF Read, ReadOn, ReadStatus, ReadLength, ReadPayload, ReadFail
      <4>2. server \in Connected /\ pc \in {"status", "length", "payload"}
        BY <3>2, <4>1, ReadsFrom
      <4>3. ~ReadFail
        BY <4>2 DEF ReadFail
      <4> QED BY <2>6, <3>2, <4>2, <4>3, ReadOnStep, ReadStatusStep, ReadLengthStep,
                 ReadPayloadStep DEF Read
    <3>3. CASE ReadEnd
      BY <3>3, EndStep
    <3> QED BY <3>1, <3>2, <3>3
  <2> QED BY <2>1, <2>2, <2>3, <2>4, <2>5, <2>6 DEF Next
<1> QED BY <1>1, <1>2 DEF WireInv, Kept

\* Read in whatever pieces and lost anywhere, the frames come out as whole
\* snapshots, in the order they were sent and each once; of a connection that is
\* lost only those are missing that did not arrive in full, and its end is
\* reported once the others have been returned (next_snapshot).
THEOREM ClientImplementsStream == Spec => ImplementsStream
<1>1. Init => WireInv /\ Stream!Init
  BY InitInv
<1>2. WireInv /\ [Next]_vars => WireInv' /\ [Stream!Next]_Stream!vars
  BY NextInv
<1> QED BY <1>1, <1>2, PTL DEF Spec, ImplementsStream, Stream!Spec
=============================================================================
