----------------------------- MODULE MCBridgeCore ----------------------------
(* BridgeCore for TLC.  Render targets differ in nothing but their names.   *)
EXTENDS BridgeCore, TLC

TargetSymmetry == Permutations(Targets)
=============================================================================
