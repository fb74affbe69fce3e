----------------------------- MODULE ViewControls -----------------------------
(***************************************************************************)
(* The controls of the automatic-calibration window that shape the colour  *)
(* video rather than start it: Switch Order, Record and the three sliders. *)
(* Each keeps what it says on the screen apart from the global it sets,    *)
(* and Prepare for Synchronous sets those globals too, without touching    *)
(* the screen.  The run-mode listener reads them when it shows a frame.    *)
(*                                                                         *)
(* A global nobody has set is empty in MATLAB: Unset here.  A slider is at *)
(* one of Positions, 1 among them and Unset none of them.                  *)
(***************************************************************************)
EXTENDS ColourMerging

CONSTANT Positions

VARIABLES
    frameOrder, orderText,  \* the order of the channels, the button's text
    record, v, recordText,  \* recording or not, the video writer, the text
    scale, slider,          \* what each slider was read as, where it stands
    calibrated              \* caliRed, caliGreen, caliBlue are set

orderVars == <<frameOrder, orderText>>
recordVars == <<record, v, recordText>>
scaleVars == <<scale, slider>>
viewVars == <<orderVars, recordVars, scaleVars, calibrated>>

Unset == 0
FirstTime == "Switch Order (1st Time)"
SecondTime == "Switch Order (2nd Time)"
Revert == "Revert to Original"

(* What a press of Switch Order leaves, by the text it finds.              *)
OrderOf == [text \in {FirstTime, SecondTime, Revert} |->
              CASE text = FirstTime -> 1 [] text = SecondTime -> 2 [] text = Revert -> 3]

Init ==
    /\ frameOrder = Unset /\ orderText = FirstTime
    /\ record = Unset /\ v = "none" /\ recordText = "Start Record"
    /\ scale = [c \in Colours |-> Unset]
    /\ slider = [c \in Colours |-> 1]
    /\ calibrated = FALSE

-----------------------------------------------------------------------------
(* Mutant: the second press goes back to the first text.                   *)
SwitchOrderTwoTexts ==
    /\ frameOrder' = CASE orderText = FirstTime  -> 2
                       [] orderText = SecondTime -> 3
                       [] orderText = Revert     -> 1
    /\ orderText' = IF orderText = FirstTime THEN SecondTime ELSE FirstTime
    /\ UNCHANGED <<recordVars, scaleVars, calibrated>>

SwitchOrder ==
    /\ frameOrder' = CASE orderText = FirstTime  -> 2
                       [] orderText = SecondTime -> 3
                       [] orderText = Revert     -> 1
    /\ orderText' = CASE orderText = FirstTime  -> SecondTime
                      [] orderText = SecondTime -> Revert
                      [] orderText = Revert     -> FirstTime
    /\ UNCHANGED <<recordVars, scaleVars, calibrated>>

(* Without a writer open(v) throws and the rest of the callback is lost; a *)
(* writer that was closed before may be refused too, or start afresh.      *)
StartRecord ==
    /\ recordText = "Start Record"
    /\ \/ /\ v \in {"new", "closed"}
          /\ v' = "open" /\ record' = 1 /\ recordText' = "Stop Record"
       \/ v \in {"none", "closed"} /\ UNCHANGED recordVars
    /\ UNCHANGED <<orderVars, scaleVars, calibrated>>

StopRecord ==
    /\ recordText = "Stop Record"
    /\ record' = 2 /\ v' = "closed" /\ recordText' = "Start Record"
    /\ UNCHANGED <<orderVars, scaleVars, calibrated>>

MoveSlider(c, value) ==
    /\ slider' = [slider EXCEPT ![c] = value]
    /\ scale' = [scale EXCEPT ![c] = value]
    /\ UNCHANGED <<orderVars, recordVars, calibrated>>

ResetScales ==
    /\ slider' = [c \in Colours |-> 1]
    /\ scale' = [c \in Colours |-> 1]
    /\ UNCHANGED <<orderVars, recordVars, calibrated>>

Control ==
    \/ SwitchOrder
    \/ StartRecord \/ StopRecord
    \/ \E c \in Colours, value \in Positions : MoveSlider(c, value)
    \/ ResetScales

(* Mutant: Prepare leaves the scales to the sliders.                       *)
PrepareWithoutScales ==
    /\ frameOrder' = 1
    /\ record' = 2 /\ v' = "new"
    /\ UNCHANGED <<scale, orderText, recordText, slider, calibrated>>

(* The share of Prepare for Synchronous: the globals, not the texts.       *)
PrepareView ==
    /\ frameOrder' = 1
    /\ record' = 2 /\ v' = "new"
    /\ scale' = [c \in Colours |-> 1]
    /\ UNCHANGED <<orderText, recordText, slider, calibrated>>

(* The share of End Calibration.                                           *)
SetMatrices ==
    /\ calibrated' = TRUE
    /\ UNCHANGED <<orderVars, recordVars, scaleVars>>

-----------------------------------------------------------------------------
(* Which slider scales each picture of the listener.                       *)
(* Mutant: the slider of each colour scales the picture of its name.       *)
SliderAsNamed == [r |-> "red", g |-> "green", b |-> "blue"]

(* "Actually green due to frame delay" and so on.                          *)
Slider == [r |-> "green", g |-> "blue", b |-> "red"]

(* What a call of the run-mode listener shows in a channel, and appends to *)
(* the video when record = 1; without matrices it throws before it does.   *)
Picture(c) ==
    LET p == Orders[frameOrder][c]
    IN  [matrix |-> Matrix[p], scale |-> scale[Slider[p]]]

-----------------------------------------------------------------------------
(* The text on Record and the state of recording are one: the listener     *)
(* writes only to an open file, and Stop Record closes what Start Record   *)
(* opened.                                                                 *)
RecordingIsOpen ==
    /\ record = 1 <=> recordText = "Stop Record"
    /\ record = 1 => v = "open"

(* The order is the one the text of Switch Order stands for, or Prepare's. *)
OrderFollowsText == frameOrder \in {Unset, 1, OrderOf[orderText]}

(* In the first order a channel is scaled by the slider of its name, as it *)
(* stands or as Prepare reset it.                                          *)
ScaledByItsSlider ==
    frameOrder = 1 => \A c \in Colours : Picture(c).scale \in {Unset, 1, slider[c]}
=============================================================================
