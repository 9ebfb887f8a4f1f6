-------------------------- MODULE BridgeClientProofs -------------------------
(***************************************************************************)
(* For any number of overlapping clients: the types of BridgeClient, and    *)
(* that the SHUTDOWN_TX slot names a call which is running and still waits  *)
(* to be cancelled.  The second is inductive on top of the first: a call    *)
(* that has been cancelled is not the one the slot names.  Both need that a *)
(* thread does nothing before it is started.                                *)
(***************************************************************************)
EXTENDS BridgeClient, TLAPS

NewUntilStarted == \A c \in Clients : ui[c] = "created" => thread[c] = "new"

TypeInv == TypeOK /\ NewUntilStarted

LEMMA InitType == Init => TypeInv
BY DEF Init, TypeInv, TypeOK, NewUntilStarted

\* The receivers stay receivers when the sender in the slot is dropped, and
\* only the one of its client changes.
LEMMA OrphanedType ==
  ASSUME TypeOK
  PROVE  /\ Orphaned(rx) \in [Clients -> {"none", "waiting", "fired"}]
         /\ \A c \in Clients : c # slot => Orphaned(rx)[c] = rx[c]
BY DEF Orphaned, TypeOK

LEMMA OwnStepType ==
  ASSUME TypeInv, NEW c \in Clients, OwnStep(c)
  PROVE  TypeInv'
<1> USE DEF TypeInv, TypeOK, NewUntilStarted, Goto
<1>1. CASE CheckRunning(c)
  BY <1>1 DEF CheckRunning
<1>2. CASE CallFails(c)
  BY <1>2 DEF CallFails
<1>3. CASE InstallSender(c)
  BY <1>3, OrphanedType DEF InstallSender
<1>4. CASE ClearSender(c)
  BY <1>4, OrphanedType DEF ClearSender
<1>5. CASE AfterCall(c)
  BY <1>5 DEF AfterCall
<1>6. CASE Wake(c)
  BY <1>6 DEF Wake
<1> QED BY <1>1, <1>2, <1>3, <1>4, <1>5, <1>6 DEF OwnStep

LEMMA OtherStepType ==
  ASSUME TypeInv, NEW c \in Clients,
         \/ ConnectSucceeds(c) \/ ConnectionEnds(c) \/ Cancelled(c)
         \/ Start(c) \/ BeginShutdown(c) \/ Shutdown(c)
  PROVE  TypeInv'
<1> USE DEF TypeInv, TypeOK, NewUntilStarted, Goto
<1>1. CASE ConnectSucceeds(c)
  BY <1>1 DEF ConnectSucceeds
<1>2. CASE ConnectionEnds(c)
  BY <1>2 DEF ConnectionEnds, Leave
<1>3. CASE Cancelled(c)
  BY <1>3 DEF Cancelled, Leave
<1>4. CASE Start(c)
  BY <1>4 DEF Start, UiThreadFree
<1>5. CASE BeginShutdown(c)
  BY <1>5 DEF BeginShutdown
<1>6. CASE RequestShutdown(c)
  BY <1>6, OrphanedType DEF RequestShutdown
<1>7. CASE Interrupt(c)
  BY <1>7 DEF Interrupt
<1>8. CASE Join(c)
  BY <1>8 DEF Join
<1> QED BY <1>1, <1>2, <1>3, <1>4, <1>5, <1>6, <1>7, <1>8 DEF Shutdown

LEMMA TypeInvariant == Spec => []TypeInv
<1>1. Init => TypeInv
  BY InitType
<1>2. TypeInv /\ [Next]_vars => TypeInv'
  <2> SUFFICES ASSUME TypeInv, [Next]_vars PROVE TypeInv'
    OBVIOUS
  <2>1. CASE Next
    BY <2>1, OwnStepType, OtherStepType DEF Next
  <2>2. CASE UNCHANGED vars
    BY <2>2 DEF vars, TypeInv, TypeOK, NewUntilStarted
  <2> QED BY <2>1, <2>2
<1> QED BY <1>1, <1>2, PTL DEF Spec

\* The state of both threads, of every call and of the slot keeps its type,
\* however many Activities overlap (BridgeClient.kt, bridge.rs).
THEOREM TypeCorrect == Spec => []TypeOK
<1>1. TypeInv => TypeOK
  BY DEF TypeInv
<1> QED BY <1>1, TypeInvariant, PTL

-----------------------------------------------------------------------------

LEMMA SlotKept ==
  ASSUME TypeInv, SlotNamesRunningCall, [Next]_vars
  PROVE  SlotNamesRunningCall'
<1> USE DEF TypeInv, SlotNamesRunningCall, Goto
<1>1. CASE UNCHANGED vars
  BY <1>1 DEF vars
<1>2. ASSUME NEW c \in Clients, OwnStep(c) PROVE SlotNamesRunningCall'
  <2> USE DEF TypeOK
  <2>1. CASE CheckRunning(c)
    BY <2>1 DEF CheckRunning
  <2>2. CASE CallFails(c)
    BY <2>2 DEF CallFails
  <2>3. CASE InstallSender(c)
    <3>1. slot' = c /\ thread'[c] = "selecting" /\ rx'[c] = "waiting"
      BY <2>3, OrphanedType DEF InstallSender
    <3> QED BY <3>1
  <2>4. CASE ClearSender(c)
    BY <2>4 DEF ClearSender
  <2>5. CASE AfterCall(c)
    BY <2>5 DEF AfterCall
  <2>6. CASE Wake(c)
    BY <2>6 DEF Wake
  <2> QED BY <1>2, <2>1, <2>2, <2>3, <2>4, <2>5, <2>6 DEF OwnStep
<1>3. ASSUME NEW c \in Clients, ConnectSucceeds(c) \/ ConnectionEnds(c) \/ Cancelled(c)
      PROVE  SlotNamesRunningCall'
  BY <1>3 DEF TypeOK, ConnectSucceeds, ConnectionEnds, Cancelled, Leave
<1>4. ASSUME NEW c \in Clients, Start(c) PROVE SlotNamesRunningCall'
  <2>1. slot' = slot /\ rx' = rx /\ thread' = [thread EXCEPT ![c] = "check"]
    BY <1>4 DEF Start
  <2>2. thread[c] = "new"
    BY <1>4 DEF Start, NewUntilStarted
  <2> QED BY <2>1, <2>2 DEF TypeOK
<1>5. ASSUME NEW c \in Clients, BeginShutdown(c) \/ Shutdown(c)
      PROVE  SlotNamesRunningCall'
  BY <1>5 DEF BeginShutdown, Shutdown, RequestShutdown, Interrupt, Join
<1> QED BY <1>1, <1>2, <1>3, <1>4, <1>5 DEF Next

\* A shutdown that finds a sender in SHUTDOWN_TX cancels a call that runs and
\* was not cancelled yet: none that has returned leaves its sender behind for
\* the next, whichever client's thread touched the slot last (bridge.rs:163-166).
THEOREM SlotSound == Spec => []SlotNamesRunningCall
<1>1. Init => SlotNamesRunningCall
  BY DEF Init, SlotNamesRunningCall
<1>2. TypeInv /\ SlotNamesRunningCall /\ [Next]_vars => SlotNamesRunningCall'
  BY SlotKept
<1> QED BY <1>1, <1>2, TypeInvariant, PTL DEF Spec
=============================================================================
