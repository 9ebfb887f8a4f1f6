---------------------------- MODULE MCRenderCanvas ---------------------------
(* RenderCanvas for TLC.                                                    *)
EXTENDS RenderCanvas
=============================================================================
