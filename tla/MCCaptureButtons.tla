--------------------------- MODULE MCCaptureButtons ---------------------------
(***************************************************************************)
(* Instance of CaptureButtons for TLC: every button, in any overlap.       *)
(***************************************************************************)
EXTENDS CaptureButtons

AllButtons == Buttons
=============================================================================
