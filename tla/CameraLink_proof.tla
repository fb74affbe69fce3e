--------------------------- MODULE CameraLink_proof ---------------------------
(***************************************************************************)
(* What hello_world.vhd keeps at every clock edge, for every length of the *)
(* FIFO, every lockout and every range of cnt that holds it, whatever bits *)
(* the camera line carries; and on the line of the camera: every camera    *)
(* frame is counted exactly once, for every length of the parts of a frame *)
(* that meets CameraTiming, whatever the pixels are and whatever the       *)
(* upstream window leaves on the line.                                     *)
(***************************************************************************)
EXTENDS CameraLink, TLAPS

(* The sequencer's part of the type invariant survives an end of frame.    *)
LEMMA FrameKeepsType ==
    ASSUME Frame!TypeOK, Frame!EndOfFrame
    PROVE  Frame!TypeOK'
<1> USE DEF Frame!TypeOK
<1>1. CASE Frame!StandbyFrame
  BY <1>1 DEF Frame!EndOfFrame, Frame!StandbyFrame
<1>2. CASE Frame!CalibrationFrame
  <2>1. /\ Frame!Colour[startup_frame] \in Frame!Colours
        /\ Frame!Position + 1 \in 0..13
    BY DEF Frame!Colour, Frame!Colours, Frame!Position
  <2>2. /\ LED_output' \in {Frame!Dark} \cup {{c} : c \in Frame!Colours}
        /\ DATA_OUT' \in 0..13
    BY <1>2, <2>1 DEF Frame!CalibrationFrame
  <2>3. startup_frame' \in 0..2 /\ calibration_cnt' \in 0..2
    BY <1>2 DEF Frame!CalibrationFrame
  <2> QED
    BY <2>2, <2>3 DEF Frame!EndOfFrame
<1>3. CASE Frame!RunFrame
  <2>1. Frame!RunLed(LED_output) \in {Frame!Dark} \cup {{c} : c \in Frame!Colours}
    BY DEF Frame!RunLed, Frame!Colours
  <2>2. Frame!RunCode(LED_output) \in 0..13
    BY DEF Frame!RunCode
  <2> QED
    BY <1>3, <2>1, <2>2 DEF Frame!EndOfFrame, Frame!RunFrame
<1>4. CASE Frame!WhiteFrame
  BY <1>4 DEF Frame!EndOfFrame, Frame!WhiteFrame
<1>5. CASE Frame!InvalidFrame
  BY <1>5 DEF Frame!EndOfFrame, Frame!InvalidFrame
<1> QED
  BY <1>1, <1>2, <1>3, <1>4, <1>5 DEF Frame!EndOfFrame

(* So does a word written by the host, which loses all but three bits.     *)
LEMMA WriteKeepsType ==
    ASSUME Frame!TypeOK, NEW value \in WriteValues, Frame!WriteButton(value)
    PROVE  Frame!TypeOK'
<1>1. value % 8 \in 0..7
  BY WordAssumption
<1> QED
  BY <1>1 DEF Frame!TypeOK, Frame!WriteButton, Frame!ledVars

(* An edge shifts one bit in and keeps the FIFO an array of bits.          *)
LEMMA ShiftKeepsType ==
    ASSUME FIFO_reg \in [Cells -> Bit], NEW bit \in Bit, ShiftIn(bit)
    PROVE  FIFO_reg' \in [Cells -> Bit]
<1>1. \A a \in Cells : a # 0 => a - 1 \in Cells
  BY FifoAssumption DEF Cells
<1> QED
  BY <1>1 DEF ShiftIn

-----------------------------------------------------------------------------
(* The types and the discipline of the counter, together: the range of cnt *)
(* is safe only because the counter stops one past the lockout.            *)
IInv == TypeOK /\ CounterInLockout

(* It holds at power-up, with EOF_DETECTION undefined.                     *)
LEMMA InitIInv == Init => IInv
<1> SUFFICES ASSUME Init PROVE IInv
  OBVIOUS
<1>1. Frame!TypeOK
  BY DEF Init, Frame!Init, Frame!TypeOK, Frame!Colours, Frame!Dark
<1>2. FIFO_reg \in [Cells -> Bit]
  BY DEF Init, Bit
<1>3. cnt \in 0..CNT_MAX /\ CounterInLockout
  BY CntAssumption, LockoutAssumption DEF Init, CounterInLockout
<1> QED
  BY <1>1, <1>2, <1>3 DEF Init, IInv, TypeOK

(* Every edge, write and press of KEY keeps it.                            *)
LEMMA StepIInv == IInv /\ [Next]_vars => IInv'
<1> SUFFICES ASSUME IInv, [Next]_vars PROVE IInv'
  OBVIOUS
<1> USE LockoutAssumption, CntAssumption DEF IInv, TypeOK, CounterInLockout
<1>1. ASSUME NEW bit \in Bit, ClockEdge(bit) PROVE IInv'
  <2>1. readdata' \in 0..13 /\ FIFO_reg' \in [Cells -> Bit] /\ KEY' \in Bit
    <3>1. LatchReaddata /\ ShiftIn(bit) /\ UNCHANGED KEY
      BY <1>1 DEF ClockEdge, DetectEof, Rearm, Sample
    <3> QED
      BY <3>1, ShiftKeepsType DEF LatchReaddata, Frame!TypeOK
  <2>2. CASE DetectEof(bit)
    <3>1. Frame!TypeOK'
      BY <2>2, FrameKeepsType DEF DetectEof
    <3>2. EOF_DETECTION' = 1 /\ cnt' = 0
      BY <2>2 DEF DetectEof
    <3> QED
      BY <2>1, <3>1, <3>2 DEF Bit
  <2>3. CASE Rearm(bit)
    <3>1. Frame!TypeOK'
      BY <2>3 DEF Rearm, ledVars, Frame!TypeOK
    <3>2. EOF_DETECTION' = 0 /\ cnt' = 0
      BY <2>3 DEF Rearm
    <3> QED
      BY <2>1, <3>1, <3>2 DEF Bit
  <2>4. CASE Sample(bit)
    <3>1. Frame!TypeOK'
      BY <2>4 DEF Sample, ledVars, Frame!TypeOK
    <3>2. EOF_DETECTION' = EOF_DETECTION
      BY <2>4 DEF Sample
    <3>3. cnt' = IF EOF_DETECTION = 1 THEN cnt + 1 ELSE cnt
      BY <2>4 DEF Sample
    <3>4. EOF_DETECTION = 1 => cnt <= LOCKOUT
      BY <2>4 DEF Sample, LockoutOver
    <3>5. cnt' \in 0..CNT_MAX /\ cnt' <= LOCKOUT + 1
      BY <3>3, <3>4
    <3> QED
      BY <2>1, <3>1, <3>2, <3>3, <3>5
  <2> QED
    BY <1>1, <2>2, <2>3, <2>4 DEF ClockEdge
<1>2. ASSUME NEW value \in WriteValues, HostWrite(value) PROVE IInv'
  BY <1>2, WriteKeepsType DEF HostWrite, eofVars
<1>3. CASE PressKey
  BY <1>3 DEF PressKey, eofVars, Bit, Frame!TypeOK, Frame!ResetButton, Frame!ledVars
<1>4. CASE ReleaseKey
  BY <1>4 DEF ReleaseKey, eofVars, ledVars, Bit, Frame!TypeOK
<1>5. CASE UNCHANGED vars
  BY <1>5 DEF vars, eofVars, ledVars, busVars, Frame!TypeOK
<1> QED
  BY <1>1, <1>2, <1>3, <1>4, <1>5 DEF Next

(* So it holds in every reachable state.                                   *)
LEMMA IInvHolds == Spec => []IInv
BY InitIInv, StepIInv, PTL DEF Spec

(* Every register stays in its range; cnt never meets the end of its own.  *)
THEOREM TypeCorrect == Spec => []TypeOK
BY IInvHolds, PTL DEF IInv

(* The counter runs only during a lockout, and at most one edge past it.   *)
THEOREM CounterStopsWithLockout == Spec => []CounterInLockout
BY IInvHolds, PTL DEF IInv

-----------------------------------------------------------------------------
(* The two instances of the sequencer name the same frame actions.         *)
LEMMA SameFrame == Frame!EndOfFrame => Paced!Frame!EndOfFrame
<1>1. Frame!StandbyFrame <=> Paced!Frame!StandbyFrame
  BY DEF Frame!StandbyFrame, Paced!Frame!StandbyFrame, Frame!Dark, Paced!Frame!Dark
<1>2. Frame!CalibrationFrame <=> Paced!Frame!CalibrationFrame
  BY DEF Frame!CalibrationFrame, Paced!Frame!CalibrationFrame, Frame!Dark, Paced!Frame!Dark,
         Frame!Colour, Paced!Frame!Colour, Frame!Position, Paced!Frame!Position
<1>3. Frame!RunFrame <=> Paced!Frame!RunFrame
  <2>1. Frame!RunLed(LED_output) = Paced!Frame!RunLed(LED_output)
    BY DEF Frame!RunLed, Paced!Frame!RunLed, Frame!Dark, Paced!Frame!Dark
  <2>2. Frame!RunCode(LED_output) = Paced!Frame!RunCode(LED_output)
    BY DEF Frame!RunCode, Paced!Frame!RunCode, Frame!Dark, Paced!Frame!Dark
  <2> QED
    BY <2>1, <2>2 DEF Frame!RunFrame, Paced!Frame!RunFrame
<1>4. Frame!WhiteFrame <=> Paced!Frame!WhiteFrame
  BY DEF Frame!WhiteFrame, Paced!Frame!WhiteFrame, Frame!White, Paced!Frame!White,
         Frame!Colours, Paced!Frame!Colours
<1>5. Frame!InvalidFrame <=> Paced!Frame!InvalidFrame
  BY DEF Frame!InvalidFrame, Paced!Frame!InvalidFrame, Frame!Dark, Paced!Frame!Dark
<1> QED
  BY <1>1, <1>2, <1>3, <1>4, <1>5 DEF Frame!EndOfFrame, Paced!Frame!EndOfFrame

(* The detector implements the pacing promise: every edge of the design is *)
(* a tick, a frame step, a write or nothing of PacedFrames, so two moves   *)
(* of the LEDs are at least LOCKOUT + 2 edges apart whatever the camera    *)
(* line carries.                                                           *)
THEOREM DetectorIsPaced == Spec => ImplementsPacedFrames
<1>1. Init => Paced!Init
  BY DEF Init, Paced!Init, Frame!Init, Paced!Frame!Init, elapsed, MIN_GAP, Bit
<1>2. IInv /\ [Next]_vars => [Paced!Next]_(Paced!vars)
  <2> SUFFICES ASSUME IInv, [Next]_vars PROVE [Paced!Next]_(Paced!vars)
    OBVIOUS
  <2> USE LockoutAssumption DEF elapsed, MIN_GAP
  <2>1. ASSUME NEW bit \in Bit, ClockEdge(bit) PROVE [Paced!Next]_(Paced!vars)
    <3>1. CASE DetectEof(bit)
      <4>1. elapsed = MIN_GAP /\ elapsed' = 0
        BY <3>1 DEF DetectEof
      <4>2. Paced!Frame!EndOfFrame
        BY <3>1, SameFrame DEF DetectEof
      <4> QED
        BY <4>1, <4>2 DEF Paced!Step, Paced!Next
    <3>2. CASE Rearm(bit)
      <4>1. elapsed = LOCKOUT + 1 /\ elapsed' = LOCKOUT + 2
        BY <3>2 DEF Rearm, LockoutOver, IInv, TypeOK, CounterInLockout
      <4>2. UNCHANGED Paced!Frame!vars
        BY <3>2 DEF Rearm, ledVars, Paced!Frame!vars, Paced!Frame!ledVars
      <4> QED
        BY <4>1, <4>2 DEF Paced!Tick, Paced!Next
    <3>3. CASE Sample(bit)
      <4>1. UNCHANGED Paced!Frame!vars
        BY <3>3 DEF Sample, ledVars, Paced!Frame!vars, Paced!Frame!ledVars
      <4>2. CASE EOF_DETECTION = 1
        <5>1. elapsed < MIN_GAP /\ elapsed' = elapsed + 1
          BY <3>3, <4>2 DEF Sample, LockoutOver, IInv, TypeOK
        <5> QED
          BY <4>1, <5>1 DEF Paced!Tick, Paced!Next
      <4>3. CASE EOF_DETECTION # 1
        <5>1. elapsed' = elapsed
          BY <3>3, <4>3 DEF Sample
        <5> QED
          BY <4>1, <5>1 DEF Paced!vars
      <4> QED
        BY <4>2, <4>3
    <3> QED
      BY <2>1, <3>1, <3>2, <3>3 DEF ClockEdge
  <2>2. ASSUME NEW value \in WriteValues, HostWrite(value) PROVE Paced!Next
    <3>1. Paced!Frame!WriteButton(value)
      BY <2>2 DEF HostWrite, Frame!WriteButton, Frame!ledVars,
                  Paced!Frame!WriteButton, Paced!Frame!ledVars
    <3>2. elapsed' = elapsed
      BY <2>2 DEF HostWrite, eofVars
    <3> QED
      BY <3>1, <3>2 DEF Paced!HostWrite, Paced!Next
  <2>3. CASE PressKey
    <3>1. Paced!Frame!ResetButton
      BY <2>3 DEF PressKey, Frame!ResetButton, Frame!ledVars,
                  Paced!Frame!ResetButton, Paced!Frame!ledVars
    <3>2. elapsed' = elapsed
      BY <2>3 DEF PressKey, eofVars
    <3> QED
      BY <3>1, <3>2 DEF Paced!HostWrite, Paced!Next
  <2>4. CASE ReleaseKey
    BY <2>4 DEF ReleaseKey, eofVars, ledVars, Paced!vars, Paced!Frame!vars, Paced!Frame!ledVars
  <2>5. CASE UNCHANGED vars
    BY <2>5 DEF vars, eofVars, ledVars, busVars, Paced!vars, Paced!Frame!vars, Paced!Frame!ledVars
  <2> QED
    BY <2>1, <2>2, <2>3, <2>4, <2>5 DEF Next
<1> QED
  BY <1>1, <1>2, IInvHolds, PTL DEF Spec, ImplementsPacedFrames, Paced!Spec

-----------------------------------------------------------------------------
(* The sequencer with what is proved of it on its own, and the controller's *)
(* instance of it: they name the same frame actions.                       *)
Sequencer == INSTANCE FrameSequencer_proof

LEMMA SameSequencer == Frame!EndOfFrame => Sequencer!EndOfFrame
<1>1. Frame!StandbyFrame <=> Sequencer!StandbyFrame
  BY DEF Frame!StandbyFrame, Sequencer!StandbyFrame, Frame!Dark, Sequencer!Dark
<1>2. Frame!CalibrationFrame <=> Sequencer!CalibrationFrame
  BY DEF Frame!CalibrationFrame, Sequencer!CalibrationFrame, Frame!Dark, Sequencer!Dark,
         Frame!Colour, Sequencer!Colour, Frame!Position, Sequencer!Position
<1>3. Frame!RunFrame <=> Sequencer!RunFrame
  <2>1. Frame!RunLed(LED_output) = Sequencer!RunLed(LED_output)
    BY DEF Frame!RunLed, Sequencer!RunLed, Frame!Dark, Sequencer!Dark
  <2>2. Frame!RunCode(LED_output) = Sequencer!RunCode(LED_output)
    BY DEF Frame!RunCode, Sequencer!RunCode, Frame!Dark, Sequencer!Dark
  <2> QED
    BY <2>1, <2>2 DEF Frame!RunFrame, Sequencer!RunFrame
<1>4. Frame!WhiteFrame <=> Sequencer!WhiteFrame
  BY DEF Frame!WhiteFrame, Sequencer!WhiteFrame, Frame!White, Sequencer!White,
         Frame!Colours, Sequencer!Colours
<1>5. Frame!InvalidFrame <=> Sequencer!InvalidFrame
  BY DEF Frame!InvalidFrame, Sequencer!InvalidFrame, Frame!Dark, Sequencer!Dark
<1> QED
  BY <1>1, <1>2, <1>3, <1>4, <1>5 DEF Frame!EndOfFrame, Sequencer!EndOfFrame

(* The clocked controller implements the sequencer: an edge is an end of   *)
(* frame or leaves its registers alone, and so is whatever the bus does.   *)
THEOREM ControllerHasSequencer == Spec => Sequencer!Spec
<1>1. Init => Sequencer!Init
  BY DEF Init, Frame!Init, Frame!Dark, Sequencer!Init, Sequencer!Dark
<1>2. [Next]_vars => [Sequencer!Next]_(Sequencer!vars)
  <2> SUFFICES ASSUME [Next]_vars PROVE [Sequencer!Next]_(Sequencer!vars)
    OBVIOUS
  <2> USE DEF Sequencer!Next, Sequencer!vars, Sequencer!ledVars, ledVars
  <2>1. ASSUME NEW bit \in Bit, ClockEdge(bit)
        PROVE  [Sequencer!Next]_(Sequencer!vars)
    BY <2>1, SameSequencer DEF ClockEdge, DetectEof, Rearm, Sample
  <2>2. ASSUME NEW value \in WriteValues, HostWrite(value) PROVE Sequencer!Next
    BY <2>2 DEF HostWrite, Frame!WriteButton, Frame!ledVars, Sequencer!WriteButton
  <2>3. CASE PressKey
    BY <2>3 DEF PressKey, Frame!ResetButton, Frame!ledVars, Sequencer!ResetButton
  <2>4. CASE ReleaseKey
    BY <2>4 DEF ReleaseKey
  <2>5. CASE UNCHANGED vars
    BY <2>5 DEF vars, busVars
  <2> QED
    BY <2>1, <2>2, <2>3, <2>4, <2>5 DEF Next
<1> QED
  BY <1>1, <1>2, PTL DEF Spec, Sequencer!Spec

(* So at every clock edge, whatever the camera line carries and whenever   *)
(* KEY is pressed, the code names the light, and the calibration codes     *)
(* agree with the counters and come in order.                              *)
THEOREM ControllerCodesTrue ==
    Spec => /\ [](Sequencer!CodeNamesLight /\ Sequencer!CodeTracksCalibration)
            /\ Sequencer!CalibrationInOrder
<1>1. Sequencer!WriteValuesAssumption
  BY WordAssumption DEF Sequencer!WriteValuesAssumption
<1> QED
  BY <1>1, ControllerHasSequencer, Sequencer!CodeAlwaysNamesLight,
     Sequencer!CodeAlwaysTracksCalibration, Sequencer!CalibrationAlwaysInOrder, PTL

-----------------------------------------------------------------------------
(* The line of the camera: what holds of the controller on any line holds  *)
(* of it on this one.                                                      *)
THEOREM LinkHasController == LinkSpec => Spec
<1>1. LinkInit => Init
  BY DEF LinkInit
<1>2. [LinkNext]_linkVars => [Next]_vars
  BY DEF LinkNext, Sampled, LinkWrite, linkVars, Next
<1> QED
  BY <1>1, <1>2, PTL DEF LinkSpec, Spec

PERIOD == GAP + UPSTREAM + PIXELS

(* Samples sent since the gap began.                                       *)
sent ==
    CASE phase = "gap"      -> GAP - left
      [] phase = "upstream" -> GAP + UPSTREAM - left
      [] phase = "pixels"   -> PERIOD - left

(* Samples of pixels sent in a row, at the end of them or during them.     *)
GapBegins == phase = "gap" /\ left = GAP

PixelsSent == IF phase = "pixels" THEN PIXELS - left ELSE PIXELS

LineTypeOK ==
    /\ phase \in {"pixels", "gap", "upstream"}
    /\ left \in 1..Length[phase]
    /\ zeros \in 0..(FIFO_LEN - 1)
    /\ steps \in {0, 1}
    /\ FIFO_reg \in [Cells -> Bit]
    /\ EOF_DETECTION \in Bit
    /\ cnt \in 0..(LOCKOUT + 1)

(* Behind the zeros that end the pixels sent so far there is a one.        *)
OneBehindZeros ==
    (phase = "pixels" \/ GapBegins) /\ zeros < PixelsSent => FIFO_reg[zeros] = 1

(* The gap fills the FIFO with zeros from its low end.                     *)
GapFillsFifo ==
    sent <= GAP => \A a \in Cells : a < sent => FIFO_reg[a] = 0

(* While a gap has not been counted, it can still be: the detector is      *)
(* armed, or will be before the gap is over.                               *)
CountedInTime ==
    (phase # "pixels" /\ steps = 0) =>
        /\ sent <= GAP
        /\ EOF_DETECTION = 1 => sent + LOCKOUT + 2 - cnt <= GAP

(* Once it has been counted, the detector is locked out, and the count     *)
(* tells when: not before the second sample of the gap, nor after the      *)
(* first sample of the upstream window.                                    *)
LockedOut ==
    steps = 1 =>
        /\ phase # "pixels"
        /\ EOF_DETECTION = 1
        /\ sent - cnt \in 2..(GAP + 1)

(* Among the pixels, the lockout goes on at least until they cannot look   *)
(* silent, and ends in time for the next gap.                              *)
QuietPixels ==
    phase = "pixels" =>
        /\ EOF_DETECTION = 1 => /\ sent - cnt >= 2
                                /\ sent + LOCKOUT + 2 - cnt <= PERIOD + GAP
        /\ EOF_DETECTION = 0 => FIFO_reg[zeros] = 1

LinkInv ==
    /\ LineTypeOK
    /\ OneBehindZeros
    /\ GapFillsFifo
    /\ CountedInTime
    /\ LockedOut
    /\ QuietPixels

-----------------------------------------------------------------------------
(* The lengths are positive, and the timing in the form the proofs use.    *)
LEMMA Lengths ==
    /\ FIFO_LEN \in Nat \ {0} /\ LOCKOUT \in Nat
    /\ PIXELS \in Nat \ {0} /\ GAP \in Nat \ {0} /\ UPSTREAM \in Nat \ {0}
    /\ GAP >= FIFO_LEN /\ UPSTREAM > 1
    /\ GAP + UPSTREAM + FIFO_LEN <= LOCKOUT + 4
    /\ PIXELS + GAP >= LOCKOUT + 2
    /\ PIXELS >= FIFO_LEN
    /\ Length["pixels"] = PIXELS /\ Length["gap"] = GAP /\ Length["upstream"] = UPSTREAM
BY FifoAssumption, LockoutAssumption, LengthAssumption, TimingAssumption DEF CameraTiming, Length

(* What an edge does to the detector, in four exclusive cases.             *)
Silent == \A a \in Cells : FIFO_reg[a] = 0
Detects == Silent /\ EOF_DETECTION = 0 /\ EOF_DETECTION' = 1 /\ cnt' = 0
Rearms == EOF_DETECTION = 1 /\ cnt > LOCKOUT /\ EOF_DETECTION' = 0 /\ cnt' = 0
Counts == EOF_DETECTION = 1 /\ cnt <= LOCKOUT /\ EOF_DETECTION' = 1 /\ cnt' = cnt + 1
Watches == ~Silent /\ EOF_DETECTION = 0 /\ EOF_DETECTION' = 0 /\ cnt' = cnt

LEMMA EdgeCases ==
    ASSUME LineTypeOK, NEW bit, ClockEdge(bit)
    PROVE  Detects \/ Rearms \/ Counts \/ Watches
<1> USE DEF Silent, LineSilent, LockoutOver
<1>0. cnt \in Nat /\ LOCKOUT \in Nat /\ EOF_DETECTION \in {0, 1}
  BY Lengths DEF LineTypeOK, Bit
<1>1. CASE DetectEof(bit)
  BY <1>1 DEF DetectEof, Detects
<1>2. CASE Rearm(bit)
  BY <1>2 DEF Rearm, Rearms
<1>3. CASE Sample(bit)
  BY <1>0, <1>3 DEF Sample, Counts, Watches
<1> QED
  BY <1>1, <1>2, <1>3 DEF ClockEdge

(* An edge shifts the sampled bit into the FIFO.                           *)
LEMMA EdgeShifts ==
    ASSUME LineTypeOK, NEW bit \in Bit, ClockEdge(bit)
    PROVE  /\ FIFO_reg' \in [Cells -> Bit]
           /\ FIFO_reg'[0] = bit
           /\ \A a \in Cells : a # 0 => FIFO_reg'[a] = FIFO_reg[a - 1]
<1>1. FIFO_reg' = [a \in Cells |-> IF a = 0 THEN bit ELSE FIFO_reg[a - 1]]
  BY DEF ClockEdge, DetectEof, Rearm, Sample, ShiftIn
<1>2. \A a \in Cells : a # 0 => a - 1 \in Cells
  BY Lengths DEF Cells
<1>3. 0 \in Cells
  BY Lengths DEF Cells
<1> QED
  BY <1>1, <1>2, <1>3 DEF LineTypeOK

(* Where the line is after a sample: inside a part of the frame, or at the *)
(* beginning of the next.                                                  *)
Within == left > 1 /\ phase' = phase /\ left' = left - 1
Enters(next) == left = 1 /\ phase' = next /\ left' = Length[next]

LEMMA LineMoves ==
    ASSUME LineTypeOK, NEW bit, Advance(bit)
    PROVE  \/ Within
           \/ phase = "pixels" /\ Enters("gap")
           \/ phase = "gap" /\ Enters("upstream")
           \/ phase = "upstream" /\ Enters("pixels")
<1>1. left \in Nat \ {0}
  BY Lengths DEF LineTypeOK
<1>2. CASE left > 1
  BY <1>2 DEF Advance, Within
<1>3. CASE left = 1
  BY <1>3 DEF Advance, Enters, After, LineTypeOK
<1> QED
  BY <1>1, <1>2, <1>3

(* Samples since the gap began, by the part of the frame.                  *)
LEMMA SentRange ==
    ASSUME LineTypeOK
    PROVE  /\ sent \in Nat
           /\ phase = "gap"      => sent < GAP
           /\ phase = "upstream" => GAP <= sent /\ sent < GAP + UPSTREAM
           /\ phase = "pixels"   => GAP + UPSTREAM <= sent /\ sent < PERIOD
           /\ GapBegins <=> sent = 0
BY Lengths DEF LineTypeOK, sent, PERIOD, GapBegins

LEMMA SentMoves ==
    ASSUME LineTypeOK, NEW bit, Advance(bit)
    PROVE  /\ phase = "pixels" /\ phase' = "gap" => sent + 1 = PERIOD /\ sent' = 0
           /\ ~(phase = "pixels" /\ phase' = "gap") => sent' = sent + 1
<1>1. left \in Nat \ {0}
  BY Lengths DEF LineTypeOK
<1>2. CASE Within
  BY <1>1, <1>2, Lengths DEF Within, sent, PERIOD, LineTypeOK
<1>3. CASE phase = "pixels" /\ Enters("gap")
  BY <1>3, Lengths DEF Enters, sent, PERIOD
<1>4. CASE phase = "gap" /\ Enters("upstream")
  BY <1>4, Lengths DEF Enters, sent, PERIOD
<1>5. CASE phase = "upstream" /\ Enters("pixels")
  BY <1>5, Lengths DEF Enters, sent, PERIOD
<1> QED
  BY <1>2, <1>3, <1>4, <1>5, LineMoves

(* The zeros among the pixels are counted, and a pixel part ends.          *)
LEMMA ZerosMove ==
    ASSUME LineTypeOK, NEW bit \in Bit, Advance(bit)
    PROVE  /\ zeros' \in 0..(FIFO_LEN - 1)
           /\ phase = "pixels" /\ bit = 0 => zeros' = zeros + 1
           /\ phase = "pixels" /\ bit = 1 => zeros' = 0
           /\ phase # "pixels" => zeros' = 0
           /\ phase = "gap" => bit = 0
<1>1. zeros' = IF phase = "pixels" /\ bit = 0 THEN zeros + 1 ELSE 0
  BY DEF Advance
<1>2. phase = "pixels" => zeros < FIFO_LEN - 1 \/ bit = 1
  BY DEF Advance, LineBit
<1>3. phase = "gap" => bit = 0
  BY DEF Advance, LineBit
<1>4. zeros \in Nat /\ zeros <= FIFO_LEN - 1 /\ FIFO_LEN \in Nat \ {0}
  BY Lengths DEF LineTypeOK
<1>5. bit = 0 \/ bit = 1
  BY DEF Bit
<1> QED
  BY <1>1, <1>2, <1>3, <1>4, <1>5

(* Pixels sent, counted up by each pixel sample and complete at the gap.   *)
LEMMA PixelsMove ==
    ASSUME LineTypeOK, NEW bit, Advance(bit)
    PROVE  /\ PixelsSent \in 0..PIXELS
           /\ phase = "pixels" => PixelsSent' = PixelsSent + 1
           /\ phase # "pixels" /\ phase' = "pixels" => PixelsSent' = 0
<1>1. left \in Nat \ {0} /\ (phase = "pixels" => left <= PIXELS)
  BY Lengths DEF LineTypeOK
<1>2. CASE Within
  BY <1>1, <1>2, Lengths DEF Within, PixelsSent
<1>3. CASE phase = "pixels" /\ Enters("gap")
  BY <1>1, <1>3, Lengths DEF Enters, PixelsSent
<1>4. CASE phase = "gap" /\ Enters("upstream")
  BY <1>1, <1>4, Lengths DEF Enters, PixelsSent
<1>5. CASE phase = "upstream" /\ Enters("pixels")
  BY <1>1, <1>5, Lengths DEF Enters, PixelsSent
<1> QED
  BY <1>2, <1>3, <1>4, <1>5, LineMoves

(* A one in the FIFO is not silence; a one behind the zeros is one.        *)
LEMMA OneIsNotSilent ==
    ASSUME LineTypeOK, FIFO_reg[zeros] = 1
    PROVE  ~Silent
BY DEF LineTypeOK, Silent, Cells

(* A gap that fills the FIFO is silence.                                   *)
LEMMA GapIsSilent ==
    ASSUME GapFillsFifo, LineTypeOK, sent = GAP
    PROVE  Silent
BY Lengths DEF GapFillsFifo, Silent, Cells

-----------------------------------------------------------------------------
(* steps counts the detections since the pixels began.                     *)
LEMMA StepsCount ==
    ASSUME LineTypeOK, NEW bit, Sampled(bit)
    PROVE  /\ phase = "upstream" /\ phase' = "pixels" => steps' = 0
           /\ ~(phase = "upstream" /\ phase' = "pixels") =>
                steps' = IF EOF_DETECTION = 0 /\ EOF_DETECTION' = 1 THEN steps + 1 ELSE steps
BY DEF Sampled, FrameStarts

(* Not before the second sample of the gap is silence possible, and among  *)
(* the pixels it is not while the detector is armed.                       *)
LEMMA DetectionTime ==
    ASSUME LinkInv, Detects
    PROVE  /\ phase # "pixels" /\ steps = 0
           /\ 1 <= sent /\ sent <= GAP
<1> USE DEF LinkInv
<1>1. EOF_DETECTION = 0 /\ Silent
  BY DEF Detects
<1>2. phase # "pixels"
  BY <1>1, OneIsNotSilent DEF QuietPixels
<1>3. steps = 0
  BY <1>1 DEF LockedOut, LineTypeOK
<1>4. sent \in Nat /\ sent <= GAP
  BY <1>2, <1>3, SentRange DEF CountedInTime
<1>5. sent # 0
  <2>1. SUFFICES ASSUME sent = 0 PROVE FALSE
    OBVIOUS
  <2>2. GapBegins /\ PixelsSent = PIXELS
    BY <1>2, <2>1, SentRange DEF PixelsSent
  <2>3. zeros < PixelsSent
    BY <2>2, Lengths DEF LineTypeOK
  <2> QED
    BY <1>1, <2>2, <2>3, OneIsNotSilent DEF OneBehindZeros
<1> QED
  BY <1>2, <1>3, <1>4, <1>5

(* The frame is counted before its pixels begin, and the lockout is still  *)
(* on when they do.                                                        *)
LEMMA CountedBeforePixels ==
    ASSUME LinkInv, NEW bit, Sampled(bit), phase = "upstream", sent > GAP
    PROVE  steps = 1 /\ Counts
<1>1. steps = 1
  BY SentRange, Lengths DEF LinkInv, CountedInTime, LineTypeOK
<1>2. EOF_DETECTION = 1 /\ sent - cnt >= 2
  BY <1>1 DEF LinkInv, LockedOut
<1>3. cnt <= LOCKOUT
  BY <1>2, SentRange, Lengths DEF LinkInv, LineTypeOK
<1> QED
  BY <1>1, <1>2, <1>3, EdgeCases, Lengths DEF LinkInv, LineTypeOK, Sampled,
     Detects, Rearms, Watches, Counts

-----------------------------------------------------------------------------
(* A sample keeps every part of the invariant, to begin with the ranges.   *)
LEMMA SampleKeepsType ==
    ASSUME LinkInv, NEW bit \in Bit, Sampled(bit)
    PROVE  LineTypeOK'
<1>1. phase' \in {"pixels", "gap", "upstream"} /\ left' \in 1..Length[phase']
  BY LineMoves, Lengths DEF LinkInv, Sampled, Within, Enters, LineTypeOK
<1>2. zeros' \in 0..(FIFO_LEN - 1)
  BY ZerosMove DEF LinkInv, Sampled
<1>3. FIFO_reg' \in [Cells -> Bit]
  BY EdgeShifts DEF LinkInv, Sampled
<1>4. EOF_DETECTION' \in Bit /\ cnt' \in 0..(LOCKOUT + 1)
  BY EdgeCases, Lengths
     DEF LinkInv, Sampled, LineTypeOK, Detects, Rearms, Counts, Watches, Bit
<1>5. steps' \in {0, 1}
  <2>1. CASE EOF_DETECTION = 0 /\ EOF_DETECTION' = 1
    <3>1. Detects
      BY <2>1, EdgeCases DEF LinkInv, Sampled, Rearms, Counts, Watches
    <3> QED
      BY <3>1, DetectionTime, StepsCount DEF LinkInv
  <2>2. CASE ~(EOF_DETECTION = 0 /\ EOF_DETECTION' = 1)
    BY <2>2, StepsCount DEF LinkInv, LineTypeOK
  <2> QED
    BY <2>1, <2>2
<1> QED
  BY <1>1, <1>2, <1>3, <1>4, <1>5 DEF LineTypeOK

(* A pixel sample shifts the last one along with the zeros behind it.      *)
LEMMA SampleKeepsOne ==
    ASSUME LinkInv, NEW bit \in Bit, Sampled(bit)
    PROVE  OneBehindZeros'
<1> SUFFICES ASSUME (phase = "pixels" \/ GapBegins)', zeros' < PixelsSent'
             PROVE  FIFO_reg'[zeros'] = 1
  BY DEF OneBehindZeros
<1> USE DEF LinkInv, Sampled
<1>1. zeros \in Nat /\ zeros' \in Cells
  BY ZerosMove DEF LineTypeOK, Cells
<1>2. phase = "pixels"
  <2>1. CASE phase' = "pixels"
    BY <1>1, <2>1, PixelsMove, ZerosMove DEF Cells
  <2>2. CASE GapBegins'
    <3>1. phase' = "gap" /\ left' = GAP
      BY <2>2 DEF GapBegins
    <3> QED
      BY <3>1, LineMoves, Lengths DEF Within, Enters, LineTypeOK
  <2> QED
    BY <2>1, <2>2
<1>3. CASE bit = 1
  BY <1>2, <1>3, ZerosMove, EdgeShifts
<1>4. CASE bit = 0
  <2>1. zeros' = zeros + 1 /\ PixelsSent' = PixelsSent + 1
    BY <1>2, <1>4, ZerosMove, PixelsMove
  <2>2. FIFO_reg[zeros] = 1
    BY <1>1, <1>2, <2>1, PixelsMove, Lengths DEF OneBehindZeros
  <2>3. FIFO_reg'[zeros'] = FIFO_reg[zeros]
    BY <1>1, <2>1, EdgeShifts
  <2> QED
    BY <2>2, <2>3
<1> QED
  BY <1>3, <1>4 DEF Bit

(* A gap sample shifts one more zero into the FIFO.                        *)
LEMMA SampleKeepsGap ==
    ASSUME LinkInv, NEW bit \in Bit, Sampled(bit)
    PROVE  GapFillsFifo'
<1> SUFFICES ASSUME sent' <= GAP, NEW a \in Cells, a < sent'
             PROVE  FIFO_reg'[a] = 0
  BY DEF GapFillsFifo, Cells
<1> USE DEF LinkInv, Sampled
<1>1. sent' = sent + 1 /\ phase = "gap"
  BY SentMoves, SentRange, Lengths DEF Cells, LineTypeOK
<1>2. CASE a = 0
  BY <1>1, <1>2, ZerosMove, EdgeShifts
<1>3. CASE a # 0
  <2>1. a - 1 \in Cells /\ a - 1 < sent /\ sent <= GAP
    BY <1>1, <1>3, SentRange, Lengths DEF Cells
  <2> QED
    BY <1>3, <2>1, EdgeShifts DEF GapFillsFifo
<1> QED
  BY <1>2, <1>3

(* Counting down the lockout keeps its distance from the end of the gap;   *)
(* at the end of the pixels the distance is the one to the next gap.       *)
LEMMA SampleKeepsInTime ==
    ASSUME LinkInv, NEW bit \in Bit, Sampled(bit)
    PROVE  CountedInTime'
<1> SUFFICES ASSUME phase' # "pixels", steps' = 0
             PROVE  /\ sent' <= GAP
                    /\ EOF_DETECTION' = 1 => sent' + LOCKOUT + 2 - cnt' <= GAP
  BY DEF CountedInTime
<1> USE DEF LinkInv, Sampled
<1>1. /\ sent \in Nat /\ cnt \in 0..(LOCKOUT + 1) /\ EOF_DETECTION \in {0, 1}
      /\ steps \in {0, 1} /\ PERIOD = GAP + UPSTREAM + PIXELS
  BY SentRange DEF LineTypeOK, Bit, PERIOD
<1>2. ~Detects
  BY <1>1, StepsCount DEF Detects
<1>3. Rearms \/ Counts \/ Watches
  BY <1>2, EdgeCases
<1>4. CASE phase = "pixels"
  <2>1. phase' = "gap"
    BY <1>4, LineMoves DEF Within, Enters
  <2>2. sent' = 0 /\ sent + 1 = PERIOD
    BY <1>4, <2>1, SentMoves
  <2>3. EOF_DETECTION = 1 => sent + LOCKOUT + 2 - cnt <= PERIOD + GAP
    BY <1>4 DEF QuietPixels
  <2> QED
    BY <1>1, <1>3, <2>2, <2>3, Lengths DEF Rearms, Counts, Watches
<1>5. CASE phase # "pixels"
  <2>1. sent' = sent + 1
    BY <1>5, SentMoves
  <2>2. steps = 0
    BY <1>1, <1>2, <1>3, StepsCount, LineMoves DEF Rearms, Counts, Watches, Within, Enters
  <2>3. sent <= GAP /\ (EOF_DETECTION = 1 => sent + LOCKOUT + 2 - cnt <= GAP)
    BY <1>5, <2>2 DEF CountedInTime
  <2>4. sent = GAP => ~Watches
    BY GapIsSilent DEF Watches
  <2> QED
    BY <1>1, <1>3, <2>1, <2>3, <2>4, Lengths DEF Rearms, Counts, Watches
<1> QED
  BY <1>4, <1>5

(* The count starts at the detection, and does not end before the pixels.  *)
LEMMA SampleKeepsLockout ==
    ASSUME LinkInv, NEW bit \in Bit, Sampled(bit)
    PROVE  LockedOut'
<1> SUFFICES ASSUME steps' = 1
             PROVE  /\ phase' # "pixels"
                    /\ EOF_DETECTION' = 1
                    /\ sent' - cnt' \in 2..(GAP + 1)
  BY DEF LockedOut
<1> USE DEF LinkInv, Sampled
<1>1. /\ sent \in Nat /\ cnt \in 0..(LOCKOUT + 1) /\ EOF_DETECTION \in {0, 1}
      /\ steps \in {0, 1}
  BY SentRange DEF LineTypeOK, Bit
<1>2. CASE Detects
  <2>1. phase # "pixels" /\ steps = 0 /\ 1 <= sent /\ sent <= GAP
    BY <1>2, DetectionTime
  <2>2. phase' # "pixels"
    BY <2>1, StepsCount, LineMoves DEF Within, Enters
  <2>3. sent' = sent + 1
    BY <2>1, SentMoves
  <2> QED
    BY <1>1, <1>2, <2>1, <2>2, <2>3, Lengths DEF Detects
<1>3. CASE ~Detects
  <2>1. Rearms \/ Counts \/ Watches
    BY <1>3, EdgeCases
  <2>2. steps = 1 /\ ~(phase = "upstream" /\ phase' = "pixels")
    BY <1>1, <2>1, StepsCount DEF Rearms, Counts, Watches
  <2>3. phase # "pixels" /\ EOF_DETECTION = 1 /\ sent - cnt \in 2..(GAP + 1)
    BY <2>2 DEF LockedOut
  <2>4. phase' # "pixels" /\ sent' = sent + 1
    BY <2>2, <2>3, LineMoves, SentMoves DEF Within, Enters
  <2>5. sent < GAP + UPSTREAM
    BY <2>3, SentRange, Lengths DEF LineTypeOK
  <2>6. cnt <= LOCKOUT
    BY <1>1, <2>3, <2>5, Lengths
  <2>7. Counts
    BY <1>1, <2>1, <2>3, <2>6, Lengths DEF Rearms, Watches
  <2> QED
    BY <1>1, <2>3, <2>4, <2>7, Lengths DEF Counts
<1> QED
  BY <1>2, <1>3

(* The lockout that covers the beginning of the pixels ends among them or  *)
(* in the next gap, and when it ends the FIFO has seen a one.              *)
LEMMA SampleKeepsPixels ==
    ASSUME LinkInv, NEW bit \in Bit, Sampled(bit)
    PROVE  QuietPixels'
<1> SUFFICES ASSUME phase' = "pixels" PROVE QuietPixels'
  BY DEF QuietPixels
<1> USE DEF LinkInv, Sampled
<1>1. /\ sent \in Nat /\ cnt \in 0..(LOCKOUT + 1) /\ EOF_DETECTION \in {0, 1}
      /\ PERIOD = GAP + UPSTREAM + PIXELS
  BY SentRange DEF LineTypeOK, Bit, PERIOD
<1>2. sent' = sent + 1
  BY SentMoves
<1>3. CASE phase # "pixels"
  <2>1. phase = "upstream" /\ left = 1
    BY <1>3, LineMoves DEF Within, Enters
  <2>2. sent = GAP + UPSTREAM - 1
    BY <2>1, Lengths DEF sent
  <2>3. steps = 1 /\ Counts
    BY <2>1, <2>2, CountedBeforePixels, Lengths
  <2>4. sent - cnt \in 2..(GAP + 1)
    BY <2>3 DEF LockedOut
  <2> QED
    BY <1>1, <1>2, <2>2, <2>3, <2>4, Lengths DEF Counts, QuietPixels, PERIOD
<1>4. CASE phase = "pixels"
  <2>1. Rearms \/ Counts \/ Watches
    BY <1>4, EdgeCases, DetectionTime
  <2>2. CASE Counts
    BY <1>1, <1>2, <1>4, <2>2, Lengths DEF Counts, QuietPixels, PERIOD
  <2>3. CASE Rearms
    <3>1. sent' >= LOCKOUT + 4
      BY <1>1, <1>2, <1>4, <2>3, Lengths DEF Rearms, QuietPixels
    <3>2. PixelsSent' = sent' - GAP - UPSTREAM
      BY <1>4, Lengths, SampleKeepsType DEF PixelsSent, sent, PERIOD, LineTypeOK
    <3>3. zeros' < PixelsSent'
      BY <1>1, <1>2, <3>1, <3>2, ZerosMove, Lengths
    <3>4. FIFO_reg'[zeros'] = 1
      BY <3>3, SampleKeepsOne DEF OneBehindZeros
    <3> QED
      BY <2>3, <3>4 DEF Rearms, QuietPixels
  <2>4. CASE Watches
    <3>1. FIFO_reg[zeros] = 1
      BY <1>4, <2>4 DEF Watches, QuietPixels
    <3>2. zeros \in Nat /\ zeros' \in Cells
      BY ZerosMove DEF LineTypeOK, Cells
    <3>3. CASE bit = 1
      <4>1. FIFO_reg'[zeros'] = 1
        BY <1>4, <3>3, ZerosMove, EdgeShifts
      <4> QED
        BY <2>4, <4>1 DEF Watches, QuietPixels
    <3>4. CASE bit = 0
      <4>1. FIFO_reg'[zeros'] = 1
        BY <1>4, <3>1, <3>2, <3>4, ZerosMove, EdgeShifts
      <4> QED
        BY <2>4, <4>1 DEF Watches, QuietPixels
    <3> QED
      BY <3>3, <3>4 DEF Bit
  <2> QED
    BY <2>1, <2>2, <2>3, <2>4
<1> QED
  BY <1>3, <1>4

-----------------------------------------------------------------------------
(* The invariant holds when the camera begins to send, with the detector   *)
(* armed or locked out.                                                    *)
LEMMA InitLinkInv == LinkInit => LinkInv
<1> SUFFICES ASSUME LinkInit PROVE LinkInv
  OBVIOUS
<1> USE DEF LinkInit, Init
<1>1. LineTypeOK
  BY Lengths DEF LineTypeOK, Bit
<1>2. sent = GAP + UPSTREAM /\ PERIOD = GAP + UPSTREAM + PIXELS
  BY Lengths DEF sent, PERIOD
<1>3. FIFO_reg[zeros] = 1
  BY Lengths DEF Cells
<1>4. OneBehindZeros /\ GapFillsFifo /\ CountedInTime /\ LockedOut
  BY <1>2, <1>3, Lengths DEF OneBehindZeros, GapFillsFifo, CountedInTime, LockedOut
<1>5. QuietPixels
  BY <1>2, <1>3, Lengths DEF QuietPixels
<1> QED
  BY <1>1, <1>4, <1>5 DEF LinkInv

(* Every sample keeps it, and a write of the host does not touch it.       *)
LEMMA StepLinkInv == LinkInv /\ [LinkNext]_linkVars => LinkInv'
<1> SUFFICES ASSUME LinkInv, [LinkNext]_linkVars PROVE LinkInv'
  OBVIOUS
<1>1. ASSUME NEW bit \in Bit, Sampled(bit) PROVE LinkInv'
  BY <1>1, SampleKeepsType, SampleKeepsOne, SampleKeepsGap, SampleKeepsInTime,
     SampleKeepsLockout, SampleKeepsPixels DEF LinkInv
<1>2. CASE LinkWrite \/ UNCHANGED linkVars
  <2>1. UNCHANGED <<lineVars, steps, FIFO_reg, EOF_DETECTION, cnt>>
    BY <1>2 DEF LinkWrite, HostWrite, eofVars, linkVars, vars
  <2> QED
    BY <2>1 DEF lineVars, LinkInv, LineTypeOK, OneBehindZeros, GapFillsFifo, CountedInTime,
                LockedOut, QuietPixels, sent, GapBegins, PixelsSent
<1> QED
  BY <1>1, <1>2 DEF LinkNext

(* So it holds in every reachable state.                                   *)
LEMMA LinkInvHolds == LinkSpec => []LinkInv
BY InitLinkInv, StepLinkInv, PTL DEF LinkSpec

(* The controller and the camera's line keep their types: the detector     *)
(* counts an end of frame twice at most, for every timing assumed.         *)
THEOREM LinkTypeCorrect == LinkSpec => []LinkTypeOK
<1>1. LinkInv /\ TypeOK => LinkTypeOK
  <2> SUFFICES ASSUME LinkInv, TypeOK PROVE LinkTypeOK
    OBVIOUS
  <2>1. left \in 1..PIXELS + GAP + UPSTREAM
    BY Lengths DEF LinkInv, LineTypeOK
  <2> QED
    BY <2>1 DEF LinkInv, LineTypeOK, LinkTypeOK
<1> QED
  BY <1>1, LinkInvHolds, LinkHasController, TypeCorrect, PTL

(* No camera frame moves the LEDs twice, and its pixels never do.          *)
THEOREM NeverTwicePerFrame == LinkSpec => []OneStepPerFrame
<1>1. LinkInv => OneStepPerFrame
  BY DEF LinkInv, LineTypeOK, LockedOut, OneStepPerFrame
<1> QED
  BY <1>1, LinkInvHolds, PTL

(* No camera frame is missed: when the pixels of the next one begin, the   *)
(* LEDs have moved.                                                        *)
THEOREM NeverMissed == LinkSpec => EveryFrameCounted
<1>1. LinkInv /\ [LinkNext]_linkVars => [FrameStarts => steps = 1]_linkVars
  <2> SUFFICES ASSUME LinkInv, LinkNext, FrameStarts PROVE steps = 1
    OBVIOUS
  <2>1. PICK bit \in Bit : Sampled(bit)
    BY DEF LinkNext, LinkWrite, lineVars, FrameStarts
  <2>2. phase = "upstream" /\ left = 1
    BY <2>1, LineMoves DEF LinkInv, Sampled, FrameStarts, Within, Enters
  <2>3. sent > GAP
    BY <2>2, Lengths DEF sent
  <2> QED
    BY <2>1, <2>2, <2>3, CountedBeforePixels
<1> QED
  BY <1>1, LinkInvHolds, PTL DEF LinkSpec, EveryFrameCounted
=============================================================================
