------------------------------ MODULE CameraLink ------------------------------
(***************************************************************************)
(* The controller on the wire of the camera it has to keep in step with.   *)
(* The camera (external: the NanEye sensor and its data line) sends, for   *)
(* each frame, the pixels, a silent gap, and an upstream window in which   *)
(* the line carries whatever the configuration traffic leaves on it.  The  *)
(* comment on cnt in hello_world.vhd names that window as the reason for   *)
(* the lockout.                                                            *)
(***************************************************************************)
EXTENDS IlluminationFPGA

CONSTANTS
    PIXELS, GAP, UPSTREAM   \* samples in the three parts of a camera frame

VARIABLES
    phase,                  \* the part of the frame the camera is sending
    left,                   \* samples left in it
    zeros,                  \* zeros sent in a row among the pixels
    steps                   \* ends of frame seen since the pixels began

lineVars == <<phase, left, zeros>>
linkVars == <<vars, lineVars, steps>>

(* The timing under which one lockout separates two frames: the gap fills  *)
(* the FIFO, gap and upstream window end before the detector is armed      *)
(* again, and a lockout that starts with the pixels (at power-up) or       *)
(* before them ends before the next gap.  The gap may be recognised one    *)
(* sample after it is over, and still before the pixels begin.             *)
CameraTiming ==
    /\ GAP >= FIFO_LEN
    /\ UPSTREAM > 1
    /\ GAP + UPSTREAM + FIFO_LEN <= LOCKOUT + 4
    /\ PIXELS + GAP >= LOCKOUT + 2

ASSUME LengthAssumption == {PIXELS, GAP, UPSTREAM} \subseteq Nat \ {0}
ASSUME TimingAssumption == CameraTiming

LinkTypeOK ==
    /\ TypeOK
    /\ phase \in {"pixels", "gap", "upstream"}
    /\ left \in 1..(PIXELS + GAP + UPSTREAM)
    /\ zeros \in 0..(FIFO_LEN - 1)
    /\ steps \in 0..2

LinkInit ==
    /\ Init /\ KEY = 1
    /\ phase = "pixels" /\ left = PIXELS
    /\ zeros = 0
    /\ steps = 0

(* The encoding of the pixels never leaves the line low for long.          *)
LineBit(bit) ==
    CASE phase = "pixels" -> zeros < FIFO_LEN - 1 \/ bit = 1
      [] phase = "gap"    -> bit = 0
      [] OTHER            -> TRUE

After == [pixels |-> "gap", gap |-> "upstream", upstream |-> "pixels"]
Length == [pixels |-> PIXELS, gap |-> GAP, upstream |-> UPSTREAM]

Advance(bit) ==
    /\ LineBit(bit)
    /\ IF left > 1 THEN /\ left' = left - 1
                        /\ UNCHANGED phase
                   ELSE /\ phase' = After[phase]
                        /\ left' = Length[phase']
    /\ zeros' = IF phase = "pixels" /\ bit = 0 THEN zeros + 1 ELSE 0

FrameStarts == phase = "upstream" /\ phase' = "pixels"

(* A sample of the line; steps counts the ends of frame of this frame.     *)
Sampled(bit) ==
    /\ Advance(bit)
    /\ ClockEdge(bit)
    /\ LET seen == IF EOF_DETECTION = 0 /\ EOF_DETECTION' = 1 THEN steps + 1 ELSE steps
       IN  steps' = IF FrameStarts THEN 0 ELSE seen

LinkWrite ==
    /\ \E value \in WriteValues : HostWrite(value)
    /\ UNCHANGED <<lineVars, steps>>

LinkNext == (\E bit \in Bit : Sampled(bit)) \/ LinkWrite

LinkSpec == LinkInit /\ [][LinkNext]_linkVars

-----------------------------------------------------------------------------
(* The LEDs move once per camera frame: never twice, whatever the upstream *)
(* window puts on the line, and no frame begins unless the frame before it *)
(* has been counted.                                                       *)
OneStepPerFrame ==
    /\ steps <= 1
    /\ phase = "pixels" => steps = 0

EveryFrameCounted == [][FrameStarts => steps = 1]_linkVars
=============================================================================
