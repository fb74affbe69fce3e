---------------------------- MODULE CaptureWindow ----------------------------
(***************************************************************************)
(* The automatic-calibration window as a whole: the buttons that start and *)
(* stop captures together with the controls of the video.  They share the  *)
(* one thread of MATLAB, and meet in three places: Prepare sets the        *)
(* controls' globals, End Calibration the matrices, and the run-mode       *)
(* listener, attached by Confirm Start, uses both.  A call of the listener *)
(* that waits for the code lets callbacks run, and comes to show and to    *)
(* record its frame after them, the session's own Stop included.           *)
(***************************************************************************)
EXTENDS CaptureButtons

CONSTANT Positions          \* where a slider can stand

ASSUME PositionsAssumption == Positions \subseteq Nat \ {0} /\ 1 \in Positions

VARIABLES
    frameOrder, orderText, record, v, recordText, scale, slider, calibrated,
    waiting                 \* a call of the run-mode listener waits

View == INSTANCE ViewControls

viewVars == <<frameOrder, orderText, record, v, recordText, scale, slider, calibrated>>
allVars == <<buttonVars, Button_comp, viewVars, waiting>>

WindowInit == Init /\ View!Init /\ waiting = FALSE

-----------------------------------------------------------------------------
(* Mutant: Stop already sets the controls up for the next session.         *)
StopPreparesAgain ==
    /\ StopSynchronous
    /\ View!PrepareView
    /\ UNCHANGED waiting

(* The buttons that leave the controls alone.                              *)
OtherButton ==
    /\ \/ ConfirmStart \/ StartSynchronous \/ PressUnknown
       \/ Calibrate \/ ReadCode \/ StartCalibration
       \/ \E b \in {"Bayer", "Monochrome"} : StartWhite(b) \/ StopWhite(b)
       \/ Reprogram \/ CloseWindow \/ CloseMenuItem
    /\ UNCHANGED <<viewVars, waiting>>

StopRun ==
    /\ StopSynchronous
    /\ UNCHANGED <<viewVars, waiting>>

PrepareRun == Prepare /\ View!PrepareView /\ UNCHANGED waiting

FinishCalibration == EndCalibration /\ View!SetMatrices /\ UNCHANGED waiting

UseControl ==
    /\ Idle
    /\ View!Control
    /\ UNCHANGED <<buttonVars, Button_comp, waiting>>

(* The run-mode listener is called with a frame, and waits.                *)
FrameArrives ==
    /\ Serving
    /\ (capturing /\ "lh1" \in attached) \/ "lh1" \in orphaned
    /\ waiting' = TRUE
    /\ UNCHANGED <<buttonVars, Button_comp, viewVars>>

(* The wait is over; the frame is recorded and shown, as View!Picture says.*)
FrameDone ==
    /\ Serving /\ waiting
    /\ waiting' = FALSE
    /\ UNCHANGED <<buttonVars, Button_comp, viewVars>>

WindowNext ==
    \/ PrepareRun
    \/ StopRun
    \/ FinishCalibration
    \/ OtherButton
    \/ UseControl
    \/ FrameArrives
    \/ FrameDone

WindowSpec == WindowInit /\ [][WindowNext]_allVars

-----------------------------------------------------------------------------
(* See ViewControls.  It rests on the buttons: Prepare comes before any    *)
(* recording and only once, because no later text leads back to it.        *)
RecordingIsOpen == View!RecordingIsOpen

(* The listener never meets a control that nobody has set, although a call *)
(* of it may end long after its session.                                   *)
ListenerFindsControls ==
    waiting \/ "lh1" \in attached \cup orphaned =>
        /\ frameOrder # View!Unset
        /\ \A c \in View!Colours : scale[c] # View!Unset

(* In the first order a channel of the screen is scaled by the slider of   *)
(* its name, as it stands, or as Prepare reset it.  In the other two the   *)
(* sliders do not turn with the pictures and scale another channel.        *)
ScaledByItsSlider == waiting /\ calibrated => View!ScaledByItsSlider

(* Before and after Prepare, what Switch Order says and what the listener  *)
(* uses differ at most by Prepare's reset.                                 *)
OrderFollowsText == View!OrderFollowsText
=============================================================================
