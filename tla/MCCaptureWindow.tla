--------------------------- MODULE MCCaptureWindow ---------------------------
(***************************************************************************)
(* Instance of CaptureWindow for TLC: every button in any overlap, and     *)
(* sliders with two positions.                                             *)
(***************************************************************************)
EXTENDS CaptureWindow

AllButtons == Buttons
TwoPositions == {1, 2}
=============================================================================
