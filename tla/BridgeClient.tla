----------------------------- MODULE BridgeClient ----------------------------
(***************************************************************************)
(* The Android app's bridge thread and how it is stopped: the reconnect     *)
(* loop of BridgeClient.kt, the native call it blocks in (bridge.rs) and    *)
(* the single SHUTDOWN_TX slot through which the UI thread cancels it.      *)
(*                                                                         *)
(* A client is one Activity's BridgeClient.  Android may create the next    *)
(* Activity before it destroys the last one, so clients can overlap; all    *)
(* lifecycle callbacks run on the one UI thread, which join() blocks.       *)
(***************************************************************************)
EXTENDS Naturals

CONSTANTS Clients, Nobody

ASSUME NobodyAssumption == Nobody \notin Clients

VARIABLES
  ui,        \* ui[c]: how far the UI thread is with c's onCreate / shutdown
  thread,    \* thread[c]: where c's bridge thread is
  running,   \* running[c]: the @Volatile flag
  interrupt, \* interrupt[c]: the thread's interrupt status
  connected, \* connected[c]: TargetClient::connect has completed
  slot,      \* SHUTDOWN_TX: whose sender it holds
  rx         \* rx[c]: shutdown_rx of c's call, "fired" once sent to or orphaned

vars == <<ui, thread, running, interrupt, connected, slot, rx>>

TypeOK ==
  /\ ui \in [Clients -> {"created", "started", "stopping", "requested",
                         "interrupted", "joined"}]
  /\ thread \in [Clients -> {"new", "check", "calling", "selecting", "clearing",
                             "returned", "sleeping", "done"}]
  /\ running \in [Clients -> BOOLEAN]
  /\ interrupt \in [Clients -> BOOLEAN]
  /\ connected \in [Clients -> BOOLEAN]
  /\ \A c \in Clients : connected[c] => thread[c] = "selecting"
  /\ slot \in Clients \cup {Nobody}
  /\ rx \in [Clients -> {"none", "waiting", "fired"}]

Init ==
  /\ ui = [c \in Clients |-> "created"]
  /\ thread = [c \in Clients |-> "new"]
  /\ running = [c \in Clients |-> TRUE]
  /\ interrupt = [c \in Clients |-> FALSE]
  /\ connected = [c \in Clients |-> FALSE]
  /\ slot = Nobody
  /\ rx = [c \in Clients |-> "none"]

Goto(c, to) == thread' = [thread EXCEPT ![c] = to]

\* Replacing or clearing the slot drops the sender in it, and the receiver of
\* a dropped sender completes just as if it had been sent to.
Orphaned(receivers) ==
  IF slot = Nobody THEN receivers ELSE [receivers EXCEPT ![slot] = "fired"]

-----------------------------------------------------------------------------
(* The bridge thread: runLoop, and nativeConnectAndWait inside it.          *)

CheckRunning(c) ==
  /\ thread[c] = "check"
  /\ Goto(c, IF running[c] THEN "calling" ELSE "done")
  /\ UNCHANGED <<ui, running, interrupt, connected, slot, rx>>

\* A string cannot be read or the runtime cannot be built.
CallFails(c) ==
  /\ thread[c] = "calling"
  /\ Goto(c, "returned")
  /\ UNCHANGED <<ui, running, interrupt, connected, slot, rx>>

InstallSender(c) ==
  /\ thread[c] = "calling"
  /\ Goto(c, "selecting")
  /\ slot' = c
  /\ rx' = [Orphaned(rx) EXCEPT ![c] = "waiting"]
  /\ UNCHANGED <<ui, running, interrupt, connected>>

ConnectSucceeds(c) ==
  /\ thread[c] = "selecting"
  /\ ~connected[c]
  /\ connected' = [connected EXCEPT ![c] = TRUE]
  /\ UNCHANGED <<ui, thread, running, interrupt, slot, rx>>

Leave(c) ==
  /\ Goto(c, "clearing")
  /\ connected' = [connected EXCEPT ![c] = FALSE]
  /\ UNCHANGED <<ui, running, interrupt, slot, rx>>

\* connect fails, or recv() answers None: the first arm of the select.
ConnectionEnds(c) == thread[c] = "selecting" /\ Leave(c)

\* Mutant: the second arm races the connect only, not the receive loop.
CancelledConnecting(c) ==
  /\ thread[c] = "selecting"
  /\ rx[c] = "fired"
  /\ ~connected[c]
  /\ Leave(c)

\* The second arm: shutdown_rx completes.
Cancelled(c) ==
  /\ thread[c] = "selecting"
  /\ rx[c] = "fired"
  /\ Leave(c)

\* Mutant: leaves the sender of a finished call behind.
KeepSender(c) ==
  /\ thread[c] = "clearing"
  /\ Goto(c, "returned")
  /\ rx' = [rx EXCEPT ![c] = "none"]
  /\ UNCHANGED <<ui, running, interrupt, connected, slot>>

ClearSender(c) ==
  /\ thread[c] = "clearing"
  /\ Goto(c, "returned")
  /\ slot' = Nobody
  /\ rx' = [Orphaned(rx) EXCEPT ![c] = "none"]
  /\ UNCHANGED <<ui, running, interrupt, connected>>

AfterCall(c) ==
  /\ thread[c] = "returned"
  /\ Goto(c, IF running[c] THEN "sleeping" ELSE "done")
  /\ UNCHANGED <<ui, running, interrupt, connected, slot, rx>>

\* Thread.sleep runs out, or throws InterruptedException.
Wake(c) ==
  /\ thread[c] = "sleeping"
  /\ Goto(c, IF interrupt[c] THEN "done" ELSE "check")
  /\ interrupt' = [interrupt EXCEPT ![c] = FALSE]
  /\ UNCHANGED <<ui, running, connected, slot, rx>>

-----------------------------------------------------------------------------
(* The UI thread: MainActivity.onCreate and onDestroy.                      *)

UiThreadFree == \A c \in Clients : ui[c] \in {"created", "started", "joined"}

Start(c) ==
  /\ UiThreadFree
  /\ ui[c] = "created"
  /\ ui' = [ui EXCEPT ![c] = "started"]
  /\ Goto(c, "check")
  /\ UNCHANGED <<running, interrupt, connected, slot, rx>>

BeginShutdown(c) ==
  /\ UiThreadFree
  /\ ui[c] = "started"
  /\ ui' = [ui EXCEPT ![c] = "stopping"]
  /\ running' = [running EXCEPT ![c] = FALSE]
  /\ UNCHANGED <<thread, interrupt, connected, slot, rx>>

\* nativeRequestShutdown takes whatever sender is in the slot, if any.
RequestShutdown(c) ==
  /\ ui[c] = "stopping"
  /\ ui' = [ui EXCEPT ![c] = "requested"]
  /\ rx' = Orphaned(rx)
  /\ slot' = Nobody
  /\ UNCHANGED <<thread, running, interrupt, connected>>

Interrupt(c) ==
  /\ ui[c] = "requested"
  /\ ui' = [ui EXCEPT ![c] = "interrupted"]
  /\ interrupt' = [interrupt EXCEPT ![c] = TRUE]
  /\ UNCHANGED <<thread, running, connected, slot, rx>>

Join(c) ==
  /\ ui[c] = "interrupted"
  /\ thread[c] = "done"
  /\ ui' = [ui EXCEPT ![c] = "joined"]
  /\ UNCHANGED <<thread, running, interrupt, connected, slot, rx>>

-----------------------------------------------------------------------------

OwnStep(c) == \/ CheckRunning(c) \/ CallFails(c) \/ InstallSender(c)
              \/ ClearSender(c) \/ AfterCall(c) \/ Wake(c)

Shutdown(c) == RequestShutdown(c) \/ Interrupt(c) \/ Join(c)

Next == \E c \in Clients :
  \/ OwnStep(c) \/ ConnectSucceeds(c) \/ ConnectionEnds(c) \/ Cancelled(c)
  \/ Start(c) \/ BeginShutdown(c) \/ Shutdown(c)

Spec == Init /\ [][Next]_vars

\* Both threads run and a completed shutdown_rx is polled.  The daemon owes
\* nothing: a connection may stay up, or a connect hang, for ever.
Fairness == \A c \in Clients : /\ WF_vars(OwnStep(c))
                               /\ WF_vars(Cancelled(c))
                               /\ WF_vars(Shutdown(c))

FairSpec == Spec /\ Fairness

-----------------------------------------------------------------------------
(* Properties                                                               *)

\* The slot never holds the sender of a call that has returned, whichever
\* client's call or shutdown touched it last (bridge.rs:163-166).
SlotNamesRunningCall ==
  slot # Nobody => thread[slot] \in {"selecting", "clearing"} /\ rx[slot] = "waiting"

\* A shutdown in progress stops the thread, with one way out: the thread is in
\* a native call that still waits for a cancellation.
OnlyLiveCallBlocksShutdown ==
  \A c \in Clients :
    ui[c] = "interrupted" ~> \/ thread[c] = "done"
                             \/ thread[c] = "selecting" /\ rx[c] = "waiting"
=============================================================================
