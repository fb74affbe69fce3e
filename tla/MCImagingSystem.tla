--------------------------- MODULE MCImagingSystem ----------------------------
(***************************************************************************)
(* Instances of ImagingSystem for TLC.                                     *)
(***************************************************************************)
EXTENDS ImagingSystem

CalibrationAndRun == {"StartSynchronous", "Calibrate"}
DarkNoise == {{}}     \* only frames taken in the dark may differ by noise
=============================================================================
