---------------------------- MODULE FrameSequencer ----------------------------
(***************************************************************************)
(* The LED sequencer of hello_world.vhd, seen one camera frame at a time.  *)
(* Every end of frame that the detector reports moves the LEDs and the     *)
(* four bits of bookkeeping once, according to the mode the host has last  *)
(* written to the Button register.  Between two ends of frame the host may *)
(* overwrite that register any number of times, and the KEY may clear it;  *)
(* neither touches the sequencer itself.                                   *)
(*                                                                         *)
(* LED_output is active low in the VHDL ("110" is red); here it is the set *)
(* of colours that are lit.                                                *)
(***************************************************************************)
EXTENDS Naturals

CONSTANT WriteValues        \* the words the host writes to address 16384

ASSUME WriteValuesAssumption == WriteValues \subseteq Nat

VARIABLES
    Button_comp,            \* the mode register, 3 bits
    LED_output,             \* the colours that are lit
    DATA_OUT,               \* the state code the host reads at 16400
    startup_frame,          \* which colour calibration has reached
    calibration_cnt         \* on, off, staying off

ledVars == <<LED_output, DATA_OUT, startup_frame, calibration_cnt>>
vars == <<Button_comp, ledVars>>

Colours == {"red", "green", "blue"}
Dark == {}
White == Colours
Colour == [i \in 0..2 |-> CASE i = 0 -> "red" [] i = 1 -> "green" [] i = 2 -> "blue"]
Position == 3 * startup_frame + calibration_cnt

TypeOK ==
    /\ Button_comp \in 0..7
    /\ LED_output \in {Dark, White} \cup {{c} : c \in Colours}
    /\ DATA_OUT \in 0..13
    /\ startup_frame \in 0..2
    /\ calibration_cnt \in 0..2

(* Configuration of the FPGA: red is lit before any frame has ended.       *)
Init ==
    /\ Button_comp = 0
    /\ LED_output = {"red"}
    /\ DATA_OUT = 0
    /\ startup_frame = 0
    /\ calibration_cnt = 0

-----------------------------------------------------------------------------
(* Mutant: the register is as wide as the word.                            *)
WriteWholeWord(value) ==
    /\ Button_comp' = value
    /\ UNCHANGED ledVars

(* The host's write reaches a register of three bits.                      *)
WriteButton(value) ==
    /\ Button_comp' = value % 8
    /\ UNCHANGED ledVars

(* KEY resets the bus components, hence the mode, but not the sequencer.   *)
ResetButton ==
    /\ Button_comp' = 0
    /\ UNCHANGED ledVars

(* Mutant: standby forgets where calibration stood, but not for startup.   *)
StandbyKeepsCalibration ==
    /\ Button_comp = 0
    /\ LED_output' = Dark
    /\ DATA_OUT' = 0
    /\ startup_frame' = 0
    /\ UNCHANGED calibration_cnt

(* Mutant: standby reports its code but leaves the LEDs alone.             *)
StandbyLeavesLight ==
    /\ Button_comp = 0
    /\ DATA_OUT' = 0
    /\ startup_frame' = 0
    /\ calibration_cnt' = 0
    /\ UNCHANGED LED_output

(* Mode 0: everything off and calibration back at its first frame.         *)
StandbyFrame ==
    /\ Button_comp = 0
    /\ LED_output' = Dark
    /\ DATA_OUT' = 0
    /\ startup_frame' = 0
    /\ calibration_cnt' = 0

(* Mutant: after blue the sequence stays at blue.                          *)
CalibrationStopsAtBlue ==
    /\ Button_comp = 1
    /\ LED_output' = IF calibration_cnt = 0 THEN {Colour[startup_frame]} ELSE Dark
    /\ DATA_OUT' = Position + 1
    /\ calibration_cnt' = (calibration_cnt + 1) % 3
    /\ startup_frame' = IF calibration_cnt = 2 /\ startup_frame < 2 THEN startup_frame + 1
                                                                  ELSE startup_frame

(* Mode 1: each colour is lit for one frame and dark for two.              *)
CalibrationFrame ==
    /\ Button_comp = 1
    /\ IF startup_frame \in 0..2
         THEN /\ LED_output' = IF calibration_cnt = 0 THEN {Colour[startup_frame]} ELSE Dark
              /\ DATA_OUT' = Position + 1
              /\ calibration_cnt' = (calibration_cnt + 1) % 3
              /\ startup_frame' = IF calibration_cnt = 2 THEN (startup_frame + 1) % 3
                                                         ELSE startup_frame
         ELSE /\ startup_frame' = 0
              /\ calibration_cnt' = 0
              /\ UNCHANGED <<LED_output, DATA_OUT>>

(* Mutant: blue falls through to the error case.                           *)
RunLedBlueFallsThrough(led) ==
    CASE led = {"red"}   -> {"green"}
      [] led = {"green"} -> {"blue"}
      [] led = Dark      -> {"green"}
      [] OTHER           -> Dark

(* Mode 2: the LEDs rotate red, green, blue; from dark they start at red,  *)
(* and from any other pattern they go dark and report the error code.      *)
RunLed(led) ==
    CASE led = {"red"}   -> {"green"}
      [] led = {"green"} -> {"blue"}
      [] led = {"blue"}  -> {"red"}
      [] led = Dark      -> {"red"}
      [] OTHER           -> Dark

(* Mutant: from white the run mode goes dark and keeps a running code.     *)
RunCodeWithoutError(led) ==
    CASE led = {"red"}   -> 11
      [] led = {"green"} -> 12
      [] OTHER           -> 10

RunCode(led) ==
    CASE led = {"red"}   -> 11
      [] led = {"green"} -> 12
      [] led = {"blue"}  -> 10
      [] led = Dark      -> 10
      [] OTHER           -> 13

RunFrame ==
    /\ Button_comp = 2
    /\ LED_output' = RunLed(LED_output)
    /\ DATA_OUT' = RunCode(LED_output)
    /\ UNCHANGED <<startup_frame, calibration_cnt>>

(* Mode 3: white light; the code register keeps what it held.              *)
WhiteFrame ==
    /\ Button_comp = 3
    /\ LED_output' = White
    /\ UNCHANGED <<DATA_OUT, startup_frame, calibration_cnt>>

(* Any other mode: dark, with the error code.                              *)
InvalidFrame ==
    /\ Button_comp \notin 0..3
    /\ LED_output' = Dark
    /\ DATA_OUT' = 13
    /\ UNCHANGED <<startup_frame, calibration_cnt>>

(* The mode is looked at here and nowhere else.                            *)
EndOfFrame ==
    /\ \/ StandbyFrame
       \/ CalibrationFrame
       \/ RunFrame
       \/ WhiteFrame
       \/ InvalidFrame
    /\ UNCHANGED Button_comp

Next ==
    \/ \E value \in WriteValues : WriteButton(value)
    \/ ResetButton
    \/ EndOfFrame

Spec == Init /\ [][Next]_vars

(* The camera keeps sending frames, so ends of frame keep being reported.  *)
FairSpec == Spec /\ WF_vars(EndOfFrame)

-----------------------------------------------------------------------------
(* The light a state code stands for in the host's address map.            *)
LightOf(code) ==
    CASE code \in {1, 10} -> {"red"}
      [] code \in {4, 11} -> {"green"}
      [] code \in {7, 12} -> {"blue"}
      [] OTHER            -> Dark

PowerUp == LED_output = {"red"} /\ DATA_OUT = 0 /\ Position = 0

(* The host decides from DATA_OUT alone which LED lit a frame: outside     *)
(* white light, and from the first end of frame on, the code names the     *)
(* light, whatever modes were written and at whatever frame they changed.  *)
CodeNamesLight == LED_output # White => PowerUp \/ LED_output = LightOf(DATA_OUT)

(* A calibration code and the two counters that choose the next one never  *)
(* drift apart, although run, white and invalid modes interrupt the        *)
(* sequence without touching the counters.                                 *)
CodeTracksCalibration ==
    /\ DATA_OUT \in 1..9 => DATA_OUT % 9 = Position
    /\ DATA_OUT = 0 => Position = 0

(* The host stores nine calibration frames in nine slots chosen by the     *)
(* code: the codes come in order, wrap from 9 to 1, and start at 1 after   *)
(* standby.                                                                *)
CalibrationInOrder ==
    [][(DATA_OUT \in 0..9 /\ DATA_OUT' \in 1..9 /\ DATA_OUT' # DATA_OUT)
         => DATA_OUT' = (DATA_OUT % 9) + 1]_vars

(* A host that leaves the mode at 0 gets darkness: the mode is polled only *)
(* at an end of frame, so this needs the frames to keep coming.            *)
StandbyDarkens ==
    <>[](Button_comp = 0) => <>[](LED_output = Dark /\ DATA_OUT = 0)

(* A host that leaves the mode at 2 sees every colour again and again,     *)
(* from whatever pattern, white included, the earlier modes left behind.   *)
RunLightsEveryColour ==
    <>[](Button_comp = 2) => \A c \in Colours : []<>(LED_output = {c})

(* A host that leaves the mode at 1 is offered every calibration frame.    *)
CalibrationVisitsEveryCode ==
    <>[](Button_comp = 1) => \A code \in 1..9 : []<>(DATA_OUT = code)
=============================================================================
