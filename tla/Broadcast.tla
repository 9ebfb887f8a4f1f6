------------------------------ MODULE Broadcast ------------------------------
(***************************************************************************)
(* tokio::sync::broadcast as src/bridge/core/src/ws.rs uses it: one bounded *)
(* ring of messages, every receiver with a position of its own.  A receiver *)
(* gets only what is sent after it subscribed.  When more than Capacity     *)
(* messages are waiting for it the oldest are overwritten, and its next     *)
(* recv() answers Lagged once before going on with the oldest one kept.     *)
(* The crate is not part of this repository: the ring is modelled as the    *)
(* queue of what each receiver can still read.                              *)
(***************************************************************************)
EXTENDS Naturals, Sequences

CONSTANT Capacity        \* broadcast::channel(16) in lib.rs

ASSUME CapacityAssumption == Capacity \in Nat \ {0}

Receivers(M) == [open : BOOLEAN, queue : Seq(M), lagged : BOOLEAN]

NoReceiver == [open |-> FALSE, queue |-> <<>>, lagged |-> FALSE]

\* Sender::subscribe: nothing sent earlier is visible.
Subscribed == [open |-> TRUE, queue |-> <<>>, lagged |-> FALSE]

Enqueue(rx, m) ==
  IF Len(rx.queue) < Capacity
  THEN [rx EXCEPT !.queue = Append(@, m)]
  ELSE [rx EXCEPT !.queue = Append(Tail(@), m), !.lagged = TRUE]

\* Sender::send, on a channel: a function from its users to their receivers.
Publish(ch, m) == [r \in DOMAIN ch |-> IF ch[r].open THEN Enqueue(ch[r], m)
                                                     ELSE ch[r]]

\* Receiver::recv, its three outcomes: Err(Lagged), Ok(message), waiting.
Lags(rx)     == rx.open /\ rx.lagged
Ready(rx)    == rx.open /\ ~rx.lagged /\ rx.queue # <<>>
CaughtUp(rx) == rx.open /\ ~rx.lagged /\ rx.queue = <<>>

SkipLag(rx) == [rx EXCEPT !.lagged = FALSE]
Taken(rx)   == [rx EXCEPT !.queue = Tail(@)]
=============================================================================
