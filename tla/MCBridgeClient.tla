---------------------------- MODULE MCBridgeClient ---------------------------
(* BridgeClient for TLC.                                                    *)
EXTENDS BridgeClient
=============================================================================
