---------------------------- MODULE MCDeviceObjects ---------------------------
(* DeviceObjects, with the programs of the source, which need no bound.     *)
EXTENDS DeviceObjects

MCPrograms == {RunComputeSample, RenderTriangle, RunRenderer}
=============================================================================
