---------------------------- MODULE MCTrackDevices ----------------------------
(* TrackDevices with the lists that a server of two devices sends: none, one  *)
(* usable, one usable beside one that is not, and entries the parser drops.   *)
EXTENDS TrackDevices

MCLists ==
  LET line(s, state) == [serial |-> s, state |-> state]
      a == CHOOSE s \in Serials : TRUE
      b == CHOOSE s \in Serials : s # a
  IN {<<>>, <<line(a, "device")>>,
      <<line(a, "offline"), line(b, "device")>>,
      <<line(NoSerial, "device"), line(b, "none")>>}
=============================================================================
