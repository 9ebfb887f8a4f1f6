--------------------------------- MODULE Relay ---------------------------------
(***************************************************************************)
(* What the bridge daemon promises its peers, which BridgeCore implements   *)
(* with tasks, a lock and lossy channels.                                   *)
(*                                                                         *)
(* To render targets: the last one to register is the current one, until it *)
(* leaves or another registers, and the departure of any other changes      *)
(* nothing; a target is sent shader updates in the order of their arrival,  *)
(* each at most once, and none that arrived before it was served.           *)
(*                                                                         *)
(* To tabs: each change of the current target is announced, once, by the    *)
(* target that made it, and before that is served; a tab that follows is    *)
(* shown the current target and then every announcement made since it began *)
(* to follow, in their order and with none left out, unless it is given up; *)
(* and one that has nothing left to be shown is not given up for the next.  *)
(***************************************************************************)
EXTENDS Naturals, Sequences

CONSTANTS Targets, Sessions, Tabs

VARIABLES
  lease,     \* lease[t]: the session under which t is registered, or 0
  current,   \* the session of the current target, or 0
  due,       \* due[t]: what t has to announce, a session or 0: at most one
  arrived,   \* how many shader updates have arrived
  served,    \* the targets that updates are sent to
  sent,      \* sent[t]: the last update that t, served, was sent or has missed
  following, \* the tabs that announcements are kept for
  coming,    \* coming[u]: those that u will be shown
  shown      \* shown[u]: what it is shown, a session or 0: at most one

targetVars == <<lease, current, due, arrived, served, sent>>
tabVars    == <<following, coming, shown>>
vars       == <<targetVars, tabVars>>

Init == /\ lease = [t \in Targets |-> 0]
        /\ current = 0
        /\ due = [t \in Targets |-> {}]
        /\ arrived = 0
        /\ served = {}
        /\ sent = [t \in Targets |-> 0]
        /\ following = {}
        /\ coming = [u \in Tabs |-> <<>>]
        /\ shown = [u \in Tabs |-> {}]

-----------------------------------------------------------------------------

Register(t) ==
  /\ lease[t] = 0 /\ due[t] = {}
  /\ \E s \in Sessions : /\ \A other \in Targets : lease[other] # s
                         /\ current' = s
                         /\ lease' = [lease EXCEPT ![t] = s]
                         /\ due' = [due EXCEPT ![t] = {s}]
  /\ UNCHANGED <<arrived, served, sent, tabVars>>

Leave(t) ==
  /\ lease[t] # 0 /\ due[t] = {}
  /\ t \notin served
  /\ lease' = [lease EXCEPT ![t] = 0]
  /\ current' = IF current = lease[t] THEN 0 ELSE current
  /\ due' = [due EXCEPT ![t] = IF current = lease[t] THEN {0} ELSE {}]
  /\ UNCHANGED <<arrived, served, sent, tabVars>>

Arrive == /\ arrived' = arrived + 1
          /\ UNCHANGED <<lease, current, due, served, sent, tabVars>>

Serve(t) == /\ lease[t] # 0 /\ due[t] = {} /\ t \notin served
            /\ served' = served \cup {t}
            /\ sent' = [sent EXCEPT ![t] = arrived]
            /\ UNCHANGED <<lease, current, due, arrived, tabVars>>

Send(t) == /\ t \in served
           /\ \E n \in sent[t] + 1 .. arrived : sent' = [sent EXCEPT ![t] = n]
           /\ UNCHANGED <<lease, current, due, arrived, served, tabVars>>

StopServing(t) == /\ t \in served
                  /\ served' = served \ {t}
                  /\ sent' = [sent EXCEPT ![t] = 0]
                  /\ UNCHANGED <<lease, current, due, arrived, tabVars>>

-----------------------------------------------------------------------------

\* Every tab that follows will be shown it, but for those which are given up.
Announce(t) ==
  \E what \in due[t], slow \in SUBSET {u \in following : coming[u] # <<>>} :
    /\ due' = [due EXCEPT ![t] = {}]
    /\ following' = following \ slow
    /\ coming' = [u \in Tabs |-> IF u \in following \ slow THEN Append(coming[u], what)
                                                           ELSE <<>>]
    /\ shown' = [u \in Tabs |-> IF u \in slow THEN {} ELSE shown[u]]
    /\ UNCHANGED <<lease, current, arrived, served, sent>>

Follow(u) == /\ u \notin following
             /\ following' = following \cup {u}
             /\ UNCHANGED <<coming, shown, targetVars>>

ShowCurrent(u) == /\ u \in following /\ shown[u] = {}
                  /\ shown' = [shown EXCEPT ![u] = {current}]
                  /\ UNCHANGED <<following, coming, targetVars>>

ShowNext(u) == /\ u \in following /\ shown[u] # {} /\ coming[u] # <<>>
               /\ shown' = [shown EXCEPT ![u] = {Head(coming[u])}]
               /\ coming' = [coming EXCEPT ![u] = Tail(@)]
               /\ UNCHANGED <<following, targetVars>>

\* The tab is gone.
Forget(u) == /\ u \in following
             /\ following' = following \ {u}
             /\ coming' = [coming EXCEPT ![u] = <<>>]
             /\ shown' = [shown EXCEPT ![u] = {}]
             /\ UNCHANGED targetVars

Next == \/ Arrive
        \/ \E t \in Targets : \/ Register(t) \/ Announce(t) \/ Leave(t)
                              \/ Serve(t) \/ Send(t) \/ StopServing(t)
        \/ \E u \in Tabs : Follow(u) \/ ShowCurrent(u) \/ ShowNext(u) \/ Forget(u)

Spec == Init /\ [][Next]_vars
=============================================================================
