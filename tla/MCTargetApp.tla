------------------------------ MODULE MCTargetApp ----------------------------
(* TargetApp on small instances.                                            *)
EXTENDS TargetApp
=============================================================================
