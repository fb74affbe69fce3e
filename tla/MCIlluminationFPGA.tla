-------------------------- MODULE MCIlluminationFPGA --------------------------
(***************************************************************************)
(* Instance of IlluminationFPGA for TLC: a FIFO of three bits and a lockout*)
(* of a few edges keep the order of events the large constants have.       *)
(***************************************************************************)
EXTENDS IlluminationFPGA

Words == {0, 1, 2, 3, 13}
=============================================================================
