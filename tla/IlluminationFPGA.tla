--------------------------- MODULE IlluminationFPGA ---------------------------
(***************************************************************************)
(* The design hello_world.vhd at the level of clock edges: the end-of-     *)
(* frame detector, the sequencer it drives, and the two memory-mapped      *)
(* registers through which the host writes the mode and reads the code.    *)
(*                                                                         *)
(* All assignments of the VHDL process read the values from before the     *)
(* edge, as the primed variables here do.  A write of the host reaches the *)
(* Button register at an edge, so the process sees it from the next one;   *)
(* it is a step of its own between two edges.                              *)
(***************************************************************************)
EXTENDS Naturals

CONSTANTS
    FIFO_LEN,               \* bits in FIFO_reg: 62 in the VHDL
    LOCKOUT,                \* edges before the detector re-arms: 250000
    CNT_MAX,                \* upper bound of cnt's integer range: 25000000
    WriteValues             \* the words the host writes to address 16384

ASSUME FifoAssumption == FIFO_LEN \in Nat \ {0}
ASSUME LockoutAssumption == LOCKOUT \in Nat
ASSUME CntAssumption == CNT_MAX \in Nat /\ LOCKOUT < CNT_MAX
ASSUME WordAssumption == WriteValues \subseteq Nat

VARIABLES
    FIFO_reg,               \* the last FIFO_LEN bits of the camera line
    EOF_DETECTION,          \* 1 while the detector is locked out
    cnt,                    \* edges since the end of frame was detected
    Button_comp, LED_output, DATA_OUT, startup_frame, calibration_cnt,
    KEY,                    \* the reset key, 0 while pressed
    readdata                \* the DATA_OUT word as the bus sees it

eofVars == <<FIFO_reg, EOF_DETECTION, cnt>>
ledVars == <<LED_output, DATA_OUT, startup_frame, calibration_cnt>>
busVars == <<Button_comp, KEY, readdata>>
vars == <<eofVars, ledVars, busVars>>

Frame == INSTANCE FrameSequencer

Bit == {0, 1}
Cells == 0..(FIFO_LEN - 1)

TypeOK ==
    /\ FIFO_reg \in [Cells -> Bit]
    /\ EOF_DETECTION \in Bit
    /\ cnt \in 0..CNT_MAX
    /\ KEY \in Bit
    /\ readdata \in 0..13
    /\ Frame!TypeOK

(* EOF_DETECTION has no initial value: the build may power up with either. *)
Init ==
    /\ FIFO_reg = [a \in Cells |-> 1]
    /\ EOF_DETECTION \in Bit
    /\ cnt = 0
    /\ KEY \in Bit
    /\ readdata = 0
    /\ Frame!Init

-----------------------------------------------------------------------------
(* What every rising edge does, whatever the detector finds.               *)
ShiftIn(bit) ==
    FIFO_reg' = [a \in Cells |-> IF a = 0 THEN bit ELSE FIFO_reg[a - 1]]

(* Mutant: the bus register is loaded once and never again.                *)
LatchOnlyFirst ==
    readdata' = IF KEY = 0 THEN 0 ELSE IF readdata = 0 THEN DATA_OUT ELSE readdata

(* The bus register copies DATA_OUT, and is held at 0 by the reset.        *)
LatchReaddata ==
    readdata' = IF KEY = 0 THEN 0 ELSE DATA_OUT

(* Mutants: the lockout lasts an edge too long; it is a few edges short.   *)
LockoutLate == cnt > LOCKOUT + 1
LockoutEarly == cnt + 3 > LOCKOUT

LockoutOver == cnt > LOCKOUT

LineSilent == \A a \in Cells : FIFO_reg[a] = 0

(* Mutant: a silent line moves the LEDs during the lockout, too.           *)
DetectWhileLocked(bit) ==
    /\ LineSilent
    /\ EOF_DETECTION' = 1
    /\ cnt' = 0
    /\ Frame!EndOfFrame
    /\ ShiftIn(bit)
    /\ LatchReaddata
    /\ UNCHANGED KEY

(* Enough consecutive zeros while armed: the LEDs move on.                 *)
DetectEof(bit) ==
    /\ LineSilent /\ EOF_DETECTION = 0
    /\ EOF_DETECTION' = 1
    /\ cnt' = 0
    /\ Frame!EndOfFrame
    /\ ShiftIn(bit)
    /\ LatchReaddata
    /\ UNCHANGED KEY

(* Mutant: armed again only when the line is not silent.                   *)
RearmOnActivity(bit) ==
    /\ EOF_DETECTION = 1 /\ LockoutOver /\ ~LineSilent
    /\ EOF_DETECTION' = 0
    /\ cnt' = 0
    /\ ShiftIn(bit)
    /\ LatchReaddata
    /\ UNCHANGED <<ledVars, Button_comp, KEY>>

(* The lockout is over: armed again.                                       *)
Rearm(bit) ==
    /\ EOF_DETECTION = 1 /\ LockoutOver
    /\ EOF_DETECTION' = 0
    /\ cnt' = 0
    /\ ShiftIn(bit)
    /\ LatchReaddata
    /\ UNCHANGED <<ledVars, Button_comp, KEY>>

(* Mutant: the count starts again whenever the line is active.             *)
SampleRestarts(bit) ==
    /\ ~(LineSilent /\ EOF_DETECTION = 0)
    /\ ~(EOF_DETECTION = 1 /\ LockoutOver)
    /\ cnt' = IF EOF_DETECTION = 1 /\ bit = 0 THEN cnt + 1 ELSE 0
    /\ ShiftIn(bit)
    /\ LatchReaddata
    /\ UNCHANGED <<EOF_DETECTION, ledVars, Button_comp, KEY>>

(* Any other edge: count while locked out.                                 *)
Sample(bit) ==
    /\ ~(LineSilent /\ EOF_DETECTION = 0)
    /\ ~(EOF_DETECTION = 1 /\ LockoutOver)
    /\ cnt' = IF EOF_DETECTION = 1 THEN cnt + 1 ELSE cnt
    /\ ShiftIn(bit)
    /\ LatchReaddata
    /\ UNCHANGED <<EOF_DETECTION, ledVars, Button_comp, KEY>>

ClockEdge(bit) == DetectEof(bit) \/ Rearm(bit) \/ Sample(bit)

-----------------------------------------------------------------------------
(* A write of the host; the reset input of the bus register wins over it.  *)
HostWrite(value) ==
    /\ KEY = 1
    /\ Frame!WriteButton(value)
    /\ UNCHANGED <<eofVars, KEY, readdata>>

(* KEY pressed: the bus registers are cleared at once.                     *)
PressKey ==
    /\ KEY = 1
    /\ KEY' = 0
    /\ Frame!ResetButton
    /\ readdata' = 0
    /\ UNCHANGED eofVars

ReleaseKey ==
    /\ KEY = 0
    /\ KEY' = 1
    /\ UNCHANGED <<eofVars, ledVars, Button_comp, readdata>>

Next ==
    \/ \E bit \in Bit : ClockEdge(bit)
    \/ \E value \in WriteValues : HostWrite(value)
    \/ PressKey
    \/ ReleaseKey

Spec == Init /\ [][Next]_vars

(* The oscillator never stops.                                             *)
FairSpec == Spec /\ WF_vars(\E bit \in Bit : ClockEdge(bit))

-----------------------------------------------------------------------------
(* The counter is live only while the detector is locked out, and it stops *)
(* one past the lockout: it never meets the end of its integer range.      *)
CounterInLockout ==
    /\ EOF_DETECTION = 0 => cnt = 0
    /\ cnt <= LOCKOUT + 1

(* The sequencer moves by whole frames, at least LOCKOUT + 2 edges apart,  *)
(* whatever arrives on the camera line.                                    *)
MIN_GAP == LOCKOUT + 2

elapsed == IF EOF_DETECTION = 1 THEN cnt ELSE MIN_GAP

Paced == INSTANCE PacedFrames

ImplementsPacedFrames == Paced!Spec

(* A lockout always ends, so no false detection can blind the controller.  *)
LockoutEnds == EOF_DETECTION = 1 ~> EOF_DETECTION = 0

(* A camera that falls silent with its line low does not freeze the LEDs:  *)
(* the detector keeps firing, and a mode of 0 darkens them.                *)
SilenceStillDarkens ==
    <>[](FIFO_reg[0] = 0 /\ Button_comp = 0) => <>[](LED_output = Frame!Dark)

(* The host learns of a frame only by the word on the bus, a copy made at  *)
(* the clock edges and cleared by KEY: every code that is on when KEY is   *)
(* left alone, or comes later, comes to be read there, the lockout leaving *)
(* time to copy it before the next.                                        *)
EveryCodeIsRead ==
    \A code \in 0..13 : (DATA_OUT = code /\ [](KEY = 1)) ~> readdata = code
=============================================================================
