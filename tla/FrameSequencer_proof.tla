------------------------- MODULE FrameSequencer_proof -------------------------
(***************************************************************************)
(* What the sequencer of hello_world.vhd keeps for every set of words the  *)
(* host may write, proved.  The invariants lean on each other only through *)
(* the types: each is inductive relative to TypeOK.                        *)
(***************************************************************************)
EXTENDS FrameSequencer, TLAPS

(* Every frame action and every write keeps the registers in their ranges. *)
THEOREM TypeCorrect == Spec => []TypeOK
<1>1. Init => TypeOK
  BY DEF Init, TypeOK, Dark, Colours
<1>2. TypeOK /\ [Next]_vars => TypeOK'
  <2> SUFFICES ASSUME TypeOK, [Next]_vars PROVE TypeOK'
    OBVIOUS
  <2> USE DEF TypeOK
  <2>1. CASE \E value \in WriteValues : WriteButton(value)
    <3>1. PICK value \in WriteValues : WriteButton(value)
      BY <2>1
    <3>2. value \in Nat
      BY WriteValuesAssumption
    <3>3. value % 8 \in 0..7
      BY <3>2
    <3> QED
      BY <3>1, <3>3 DEF WriteButton, ledVars
  <2>2. CASE ResetButton
    BY <2>2 DEF ResetButton, ledVars
  <2>3. CASE EndOfFrame
    <3>1. CASE StandbyFrame
      BY <2>3, <3>1 DEF EndOfFrame, StandbyFrame, Dark
    <3>2. CASE CalibrationFrame
      <4>1. /\ Colour[startup_frame] \in Colours
            /\ Position + 1 \in 0..13
        BY DEF Colour, Colours, Position
      <4>2. /\ LED_output' \in {Dark} \cup {{c} : c \in Colours}
            /\ DATA_OUT' \in 0..13
        BY <3>2, <4>1 DEF CalibrationFrame
      <4>3. startup_frame' \in 0..2 /\ calibration_cnt' \in 0..2
        BY <3>2 DEF CalibrationFrame
      <4> QED
        BY <2>3, <4>2, <4>3 DEF EndOfFrame
    <3>3. CASE RunFrame
      <4>1. RunLed(LED_output) \in {Dark} \cup {{c} : c \in Colours}
        BY DEF RunLed, Colours
      <4>2. RunCode(LED_output) \in 0..13
        BY DEF RunCode
      <4> QED
        BY <2>3, <3>3, <4>1, <4>2 DEF EndOfFrame, RunFrame
    <3>4. CASE WhiteFrame
      BY <2>3, <3>4 DEF EndOfFrame, WhiteFrame
    <3>5. CASE InvalidFrame
      BY <2>3, <3>5 DEF EndOfFrame, InvalidFrame
    <3> QED
      BY <2>3, <3>1, <3>2, <3>3, <3>4, <3>5 DEF EndOfFrame
  <2>4. CASE UNCHANGED vars
    BY <2>4 DEF vars, ledVars
  <2> QED
    BY <2>1, <2>2, <2>3, <2>4 DEF Next
<1> QED
  BY <1>1, <1>2, PTL DEF Spec

-----------------------------------------------------------------------------
(* The three colours are different lights, none of them dark or white.     *)
LEMMA LightsDiffer ==
    /\ {"red"} # {"green"} /\ {"red"} # {"blue"} /\ {"green"} # {"blue"}
    /\ Dark # {"red"} /\ Dark # {"green"} /\ Dark # {"blue"}
    /\ White # {"red"} /\ White # {"green"} /\ White # {"blue"} /\ White # Dark
<1>1. "red" # "green" /\ "red" # "blue" /\ "green" # "blue"
  OBVIOUS
<1> QED
  BY <1>1 DEF Dark, White, Colours

(* The sequencer's own registers change only at an end of frame.           *)
LEMMA OnlyFramesMoveLeds ==
    ASSUME [Next]_vars
    PROVE  EndOfFrame \/ UNCHANGED ledVars
BY DEF Next, WriteButton, ResetButton, vars

(* Whatever modes are written, and whenever they change, the code the host *)
(* reads names the light that is on, white light and power-up aside.       *)
THEOREM CodeAlwaysNamesLight == Spec => []CodeNamesLight
<1>1. Init => CodeNamesLight
  BY DEF Init, CodeNamesLight, PowerUp, Position
<1>2. TypeOK /\ CodeNamesLight /\ [Next]_vars => CodeNamesLight'
  <2> SUFFICES ASSUME TypeOK, CodeNamesLight, [Next]_vars PROVE CodeNamesLight'
    OBVIOUS
  <2>1. CASE UNCHANGED ledVars
    BY <2>1 DEF CodeNamesLight, PowerUp, Position, LightOf, ledVars
  <2>2. CASE EndOfFrame
    <3>1. CASE StandbyFrame
      BY <3>1 DEF StandbyFrame, CodeNamesLight, LightOf
    <3>2. CASE CalibrationFrame
      <4>1. /\ startup_frame \in 0..2 /\ calibration_cnt \in 0..2
            /\ DATA_OUT' = 3 * startup_frame + calibration_cnt + 1
            /\ LED_output' = IF calibration_cnt = 0 THEN {Colour[startup_frame]} ELSE Dark
        BY <3>2 DEF CalibrationFrame, TypeOK, Position
      <4>2. CASE calibration_cnt = 0
        <5>1. \/ DATA_OUT' = 1 /\ LED_output' = {"red"}
              \/ DATA_OUT' = 4 /\ LED_output' = {"green"}
              \/ DATA_OUT' = 7 /\ LED_output' = {"blue"}
          BY <4>1, <4>2 DEF Colour
        <5> QED
          BY <5>1 DEF CodeNamesLight, LightOf
      <4>3. CASE calibration_cnt # 0
        <5>1. /\ LED_output' = Dark
              /\ DATA_OUT' \in {2, 3, 5, 6, 8, 9}
          BY <4>1, <4>3
        <5> QED
          BY <5>1 DEF CodeNamesLight, LightOf
      <4> QED
        BY <4>2, <4>3
    <3>3. CASE RunFrame
      <4>1. RunLed(LED_output) = LightOf(RunCode(LED_output))
        BY LightsDiffer DEF RunLed, RunCode, LightOf
      <4> QED
        BY <3>3, <4>1 DEF RunFrame, CodeNamesLight, LightOf
    <3>4. CASE WhiteFrame
      BY <3>4 DEF WhiteFrame, CodeNamesLight, White, Colours
    <3>5. CASE InvalidFrame
      BY <3>5 DEF InvalidFrame, CodeNamesLight, LightOf
    <3> QED
      BY <2>2, <3>1, <3>2, <3>3, <3>4, <3>5 DEF EndOfFrame
  <2> QED
    BY <2>1, <2>2, OnlyFramesMoveLeds
<1> QED
  BY <1>1, <1>2, TypeCorrect, PTL DEF Spec

-----------------------------------------------------------------------------
(* The calibration code and the counters that choose the next one agree,   *)
(* whatever interrupts the sequence.                                       *)
THEOREM CodeAlwaysTracksCalibration == Spec => []CodeTracksCalibration
<1>1. Init => CodeTracksCalibration
  BY DEF Init, CodeTracksCalibration, Position
<1>2. TypeOK /\ CodeTracksCalibration /\ [Next]_vars => CodeTracksCalibration'
  <2> SUFFICES ASSUME TypeOK, CodeTracksCalibration, [Next]_vars
               PROVE  CodeTracksCalibration'
    OBVIOUS
  <2>1. CASE UNCHANGED ledVars
    BY <2>1 DEF CodeTracksCalibration, Position, ledVars
  <2>2. CASE EndOfFrame
    <3>1. CASE StandbyFrame
      BY <3>1 DEF StandbyFrame, CodeTracksCalibration, Position
    <3>2. CASE CalibrationFrame
      <4>1. /\ startup_frame \in 0..2 /\ calibration_cnt \in 0..2
            /\ DATA_OUT' = 3 * startup_frame + calibration_cnt + 1
            /\ calibration_cnt' = (calibration_cnt + 1) % 3
            /\ startup_frame' = IF calibration_cnt = 2 THEN (startup_frame + 1) % 3
                                                       ELSE startup_frame
        BY <3>2 DEF CalibrationFrame, TypeOK, Position
      <4>2. /\ DATA_OUT' \in 1..9
            /\ DATA_OUT' % 9 = 3 * startup_frame' + calibration_cnt'
        BY <4>1
      <4> QED
        BY <4>2 DEF CodeTracksCalibration, Position
    <3>3. CASE RunFrame
      <4>1. RunCode(LED_output) \in 10..13
        BY DEF RunCode
      <4> QED
        BY <3>3, <4>1 DEF RunFrame, CodeTracksCalibration
    <3>4. CASE WhiteFrame
      BY <3>4 DEF WhiteFrame, CodeTracksCalibration, Position
    <3>5. CASE InvalidFrame
      BY <3>5 DEF InvalidFrame, CodeTracksCalibration
    <3> QED
      BY <2>2, <3>1, <3>2, <3>3, <3>4, <3>5 DEF EndOfFrame
  <2> QED
    BY <2>1, <2>2, OnlyFramesMoveLeds
<1> QED
  BY <1>1, <1>2, TypeCorrect, PTL DEF Spec

(* The nine calibration codes come in order, from 1 after standby: the     *)
(* host may file a calibration frame under its code without seeing every   *)
(* frame before it.                                                        *)
THEOREM CalibrationAlwaysInOrder == Spec => CalibrationInOrder
<1> DEFINE InOrder ==
      (DATA_OUT \in 0..9 /\ DATA_OUT' \in 1..9 /\ DATA_OUT' # DATA_OUT)
        => DATA_OUT' = (DATA_OUT % 9) + 1
<1>1. TypeOK /\ CodeTracksCalibration /\ [Next]_vars => [InOrder]_vars
  <2> SUFFICES ASSUME TypeOK, CodeTracksCalibration, [Next]_vars,
                      DATA_OUT \in 0..9, DATA_OUT' \in 1..9, DATA_OUT' # DATA_OUT
               PROVE  DATA_OUT' = (DATA_OUT % 9) + 1
    OBVIOUS
  <2>1. EndOfFrame
    BY OnlyFramesMoveLeds DEF ledVars
  <2>2. CASE CalibrationFrame
    <3>1. DATA_OUT' = Position + 1 /\ Position \in 0..8
      BY <2>2 DEF CalibrationFrame, TypeOK, Position
    <3>2. DATA_OUT % 9 = Position
      BY DEF CodeTracksCalibration
    <3> QED
      BY <3>1, <3>2
  <2>3. CASE RunFrame
    <3>1. RunCode(LED_output) \in 10..13
      BY DEF RunCode
    <3> QED
      BY <2>3, <3>1 DEF RunFrame
  <2> QED
    BY <2>1, <2>2, <2>3 DEF EndOfFrame, StandbyFrame, WhiteFrame, InvalidFrame
<1> QED
  BY <1>1, TypeCorrect, CodeAlwaysTracksCalibration, PTL DEF Spec, CalibrationInOrder
=============================================================================
