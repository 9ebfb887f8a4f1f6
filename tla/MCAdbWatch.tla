------------------------------ MODULE MCAdbWatch -----------------------------
(* AdbWatch on small instances.                                             *)
EXTENDS AdbWatch
=============================================================================
