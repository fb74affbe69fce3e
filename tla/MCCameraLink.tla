----------------------------- MODULE MCCameraLink -----------------------------
(***************************************************************************)
(* Instance of CameraLink for TLC, with the shortest camera frame that     *)
(* CameraTiming allows for a FIFO of three bits and a lockout of six edges.*)
(***************************************************************************)
EXTENDS CameraLink

RunOnly == {2}
=============================================================================
