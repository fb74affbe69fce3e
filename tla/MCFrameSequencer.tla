--------------------------- MODULE MCFrameSequencer ---------------------------
(***************************************************************************)
(* Instance of FrameSequencer for TLC.  AnyWord holds every mode, an       *)
(* unknown one and words wider than the register.                          *)
(***************************************************************************)
EXTENDS FrameSequencer

AnyWord == {0, 1, 2, 3, 5, 9, 10}
=============================================================================
