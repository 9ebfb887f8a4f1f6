---------------------------- MODULE MCBrowserTab -----------------------------
(* BrowserTab for TLC.                                                      *)
EXTENDS BrowserTab
=============================================================================
