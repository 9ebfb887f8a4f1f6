-------------------------- MODULE MCSwapchainRenderer -------------------------
(* SwapchainRenderer for TLC.                                               *)
EXTENDS SwapchainRenderer
=============================================================================
