-------------------------- MODULE CaptureWindow_proof --------------------------
(***************************************************************************)
(* What the capture buttons of NaneyeinterfaceUSB2.m keep, for every set   *)
(* of buttons the operator uses, with and without overlapping sessions.    *)
(* The window as a whole keeps it too, because each of its steps is one of *)
(* theirs or leaves them alone; and what its controls say is what the      *)
(* run-mode listener uses, at every position of the sliders.               *)
(***************************************************************************)
EXTENDS CaptureWindow, TLAPS

(* The texts and the listeners of the four buttons are what they say.      *)
LEMMA ButtonFacts ==
    /\ \A b, c \in Buttons : b # c => Listener[b] # Listener[c]
    /\ \A b \in Buttons : IdleText[b] \notin BusyText[b]
    /\ BusyText["StartSynchronous"] = {"Confirm Start", "Stop"}
    /\ BusyText["Calibrate"] = {"End Calibration"}
    /\ BusyText["Bayer"] = {"Stop"} /\ BusyText["Monochrome"] = {"Stop"}
BY DEF Buttons, Listener, IdleText, BusyText

(* No press leaves a button without a text.                                *)
LabelOK == DOMAIN label = Buttons

(* Every callback changes the text of a button and adds or drops none.     *)
LEMMA LabelStep == LabelOK /\ [Next]_<<buttonVars, Button_comp>> => LabelOK'
BY DEF LabelOK, Next, buttonVars, BeginCapture, EndCapture, Prepare, ConfirmStart,
       StartSynchronous, StopSynchronous, PressUnknown, Calibrate, ReadCode,
       StartCalibration, EndCalibration, StartWhite, StopWhite, Reprogram, CloseWindow,
       CloseMenuItem

-----------------------------------------------------------------------------
(* A mode other than 0 is accounted for: a session is on, a calibration is *)
(* being started, or the provider was reprogrammed, after which the start  *)
(* button says so for ever.                                                *)
ModeAccounted ==
    Button_comp # 0 =>
        \/ calling \in {"readCode", "startCalibration"}
        \/ \E b \in Buttons : Busy(b)
        \/ label["StartSynchronous"] = "Start"

(* Beginning a capture leaves the button of that session busy.             *)
LEMMA BeginIsBusy ==
    ASSUME LabelOK, NEW b \in Buttons, NEW text \in BusyText[b], BeginCapture(b, text)
    PROVE  Busy(b)'
BY DEF LabelOK, BeginCapture, Busy

(* Every callback accounts for the mode it leaves behind.                  *)
LEMMA ModeStep ==
    LabelOK /\ ModeAccounted /\ [Next]_<<buttonVars, Button_comp>> => ModeAccounted'
<1> SUFFICES ASSUME LabelOK, ModeAccounted, [Next]_<<buttonVars, Button_comp>>
             PROVE  ModeAccounted'
  OBVIOUS
<1>1. CASE Prepare
  <2>1. label'["StartSynchronous"] = "Confirm Start"
    BY <1>1 DEF Prepare, LabelOK, Buttons
  <2> QED
    BY <2>1, ButtonFacts DEF ModeAccounted, Busy, Buttons
<1>2. CASE ConfirmStart
  BY <1>2 DEF ConfirmStart, ModeAccounted, Busy, Idle
<1>3. CASE StartSynchronous
  BY <1>3, BeginIsBusy, ButtonFacts DEF StartSynchronous, ModeAccounted, Buttons
<1>4. CASE StopSynchronous
  BY <1>4 DEF StopSynchronous, EndCapture, ModeAccounted
<1>5. CASE PressUnknown
  BY <1>5 DEF PressUnknown, ModeAccounted, Busy
<1>6. CASE Calibrate
  BY <1>6 DEF Calibrate, ModeAccounted
<1>7. CASE ReadCode
  BY <1>7 DEF ReadCode, ModeAccounted
<1>8. CASE StartCalibration
  BY <1>8, BeginIsBusy, ButtonFacts DEF StartCalibration, ModeAccounted, Buttons
<1>9. CASE EndCalibration
  BY <1>9 DEF EndCalibration, EndCapture, ModeAccounted
<1>10. ASSUME NEW b \in {"Bayer", "Monochrome"}, StartWhite(b) PROVE ModeAccounted'
  BY <1>10, BeginIsBusy, ButtonFacts DEF StartWhite, ModeAccounted, Buttons
<1>11. ASSUME NEW b \in {"Bayer", "Monochrome"}, StopWhite(b) PROVE ModeAccounted'
  BY <1>11 DEF StopWhite, EndCapture, ModeAccounted
<1>12. CASE Reprogram
  BY <1>12 DEF Reprogram, LabelOK, ModeAccounted, Buttons
<1>13. CASE CloseWindow \/ CloseMenuItem
  BY <1>13 DEF CloseWindow, CloseMenuItem, ModeAccounted, Busy
<1>14. CASE UNCHANGED <<buttonVars, Button_comp>>
  BY <1>14 DEF buttonVars, ModeAccounted, Busy
<1> QED
  BY <1>1, <1>2, <1>3, <1>4, <1>5, <1>6, <1>7, <1>8, <1>9, <1>10, <1>11, <1>12, <1>13, <1>14
     DEF Next

(* However sessions overlap, once every button offers to begin the LEDs    *)
(* are commanded off.                                                      *)
THEOREM IdleAlwaysModeZero == Spec => []IdleMeansModeZero
<1>1. Init => LabelOK /\ ModeAccounted
  BY DEF Init, LabelOK, ModeAccounted, IdleText, Buttons
<1>2. ModeAccounted => IdleMeansModeZero
  <2> SUFFICES ASSUME ModeAccounted, Idle, Button_comp # 0,
                      \A b \in Buttons \ {"StartSynchronous"} : ~Busy(b),
                      label["StartSynchronous"]
                        \in {"Prepare for Synchronous", "Prepare to Start"}
               PROVE  FALSE
    BY DEF IdleMeansModeZero
  <2>1. Busy("StartSynchronous")
    BY DEF ModeAccounted, Idle
  <2> QED
    BY <2>1, ButtonFacts DEF Busy
<1> QED
  BY <1>1, <1>2, LabelStep, ModeStep, PTL DEF Spec

-----------------------------------------------------------------------------
(* What the property says of one button.                                   *)
HasASession(b) ==
    \/ Busy(b) /\ label[b] # "Confirm Start"
    \/ label[b] = "Start" /\ Listener[b] \in orphaned \ attached

LEMMA SessionOf ==
    ListenersHaveASession <=>
        \A b \in Buttons : Listener[b] \in attached \cup orphaned => HasASession(b)
BY DEF ListenersHaveASession, HasASession

(* A session that ends takes its own listener along, from whichever        *)
(* provider it is on, and leaves the others and their texts alone.         *)
LEMMA EndKeepsSessions ==
    ASSUME LabelOK, ListenersHaveASession,
           NEW b \in Buttons, NEW text, EndCapture(b, text)
    PROVE  ListenersHaveASession'
<1> SUFFICES ASSUME NEW c \in Buttons, Listener[c] \in attached' \cup orphaned'
             PROVE  HasASession(c)'
  BY DEF ListenersHaveASession, HasASession
<1>1. /\ c # b
      /\ Listener[c] \in attached \cup orphaned
      /\ Listener[c] \in orphaned \ attached => Listener[c] \in orphaned' \ attached'
  BY ButtonFacts DEF EndCapture
<1>2. label'[c] = label[c]
  BY <1>1 DEF EndCapture, LabelOK
<1> QED
  BY <1>1, <1>2, SessionOf DEF HasASession, Busy

(* A session that begins adds its own listener under a text that stops it. *)
LEMMA BeginKeepsSessions ==
    ASSUME LabelOK, ListenersHaveASession,
           NEW b \in Buttons, NEW text \in BusyText[b], text # "Confirm Start",
           BeginCapture(b, text)
    PROVE  ListenersHaveASession'
<1> SUFFICES ASSUME NEW c \in Buttons, Listener[c] \in attached' \cup orphaned'
             PROVE  HasASession(c)'
  BY DEF ListenersHaveASession, HasASession
<1>1. CASE c = b
  BY <1>1 DEF BeginCapture, LabelOK, Busy, HasASession
<1>2. CASE c # b
  <2>1. /\ label'[c] = label[c] /\ orphaned' = orphaned
        /\ Listener[c] \in attached' <=> Listener[c] \in attached
    BY <1>2, ButtonFacts DEF BeginCapture, LabelOK
  <2> QED
    BY <2>1, SessionOf DEF HasASession, Busy
<1> QED
  BY <1>1, <1>2

(* Reprogram lets go of the listeners, and of run mode's button.           *)
LEMMA ReprogramKeepsSessions ==
    ASSUME LabelOK, ListenersHaveASession, Reprogram
    PROVE  ListenersHaveASession'
<1> SUFFICES ASSUME NEW c \in Buttons, Listener[c] \in attached' \cup orphaned'
             PROVE  HasASession(c)'
  BY DEF ListenersHaveASession, HasASession
<1>1. /\ Listener[c] \in attached \cup orphaned
      /\ Listener[c] \in orphaned' \ attached'
  BY DEF Reprogram
<1>2. CASE c = "StartSynchronous"
  BY <1>1, <1>2 DEF Reprogram, LabelOK, HasASession
<1>3. CASE c # "StartSynchronous"
  <2>1. label'[c] = label[c]
    BY <1>3 DEF Reprogram, LabelOK
  <2> QED
    BY <1>1, <2>1, SessionOf DEF HasASession, Busy
<1> QED
  BY <1>2, <1>3

(* Every callback leaves listeners only to sessions that can be stopped.   *)
LEMMA SessionStep ==
    LabelOK /\ ListenersHaveASession /\ [Next]_<<buttonVars, Button_comp>>
        => ListenersHaveASession'
<1> SUFFICES ASSUME LabelOK, ListenersHaveASession, [Next]_<<buttonVars, Button_comp>>
             PROVE  ListenersHaveASession'
  OBVIOUS
<1>1. CASE Prepare
  <2>1. Listener["StartSynchronous"] \notin attached \cup orphaned
    BY <1>1, ButtonFacts DEF Prepare, ListenersHaveASession, Busy, Buttons
  <2>2. \A c \in Buttons : c # "StartSynchronous" => label'[c] = label[c]
    BY <1>1 DEF Prepare, LabelOK
  <2>3. attached' = attached /\ orphaned' = orphaned
    BY <1>1 DEF Prepare
  <2> QED
    BY <2>1, <2>2, <2>3 DEF ListenersHaveASession, Busy
<1>2. CASE StartSynchronous \/ StartCalibration
  BY <1>2, BeginKeepsSessions, ButtonFacts DEF StartSynchronous, StartCalibration, Buttons
<1>3. CASE StopSynchronous \/ EndCalibration
  BY <1>3, EndKeepsSessions DEF StopSynchronous, EndCalibration, Buttons
<1>4. ASSUME NEW b \in {"Bayer", "Monochrome"}, StartWhite(b) PROVE ListenersHaveASession'
  BY <1>4, BeginKeepsSessions, ButtonFacts DEF StartWhite, Buttons
<1>5. ASSUME NEW b \in {"Bayer", "Monochrome"}, StopWhite(b) PROVE ListenersHaveASession'
  BY <1>5, EndKeepsSessions DEF StopWhite, Buttons
<1>6. CASE Reprogram
  BY <1>6, ReprogramKeepsSessions
<1>7. CASE CloseWindow
  BY <1>7 DEF CloseWindow, ListenersHaveASession, Busy
<1>8. CASE ConfirmStart \/ PressUnknown \/ Calibrate \/ ReadCode \/ CloseMenuItem
  BY <1>8 DEF ConfirmStart, PressUnknown, Calibrate, ReadCode, CloseMenuItem,
              ListenersHaveASession, Busy
<1>9. CASE UNCHANGED <<buttonVars, Button_comp>>
  BY <1>9 DEF buttonVars, ListenersHaveASession, Busy
<1> QED
  BY <1>1, <1>2, <1>3, <1>4, <1>5, <1>6, <1>7, <1>8, <1>9 DEF Next

(* No listener is left that its own button does not stop, save that of run *)
(* mode after Reprogram.                                                   *)
THEOREM ListenersAlwaysHaveASession == Spec => []ListenersHaveASession
<1>1. Init => LabelOK /\ ListenersHaveASession
  BY DEF Init, LabelOK, ListenersHaveASession, IdleText, Buttons
<1> QED
  BY <1>1, LabelStep, SessionStep, PTL DEF Spec

-----------------------------------------------------------------------------
(* The window.                                                             *)

buttons == <<buttonVars, Button_comp>>

(* The controls and the frames never move the buttons.                     *)
LEMMA StepOfButtons == [WindowNext]_allVars => [Next]_buttons
  BY DEF WindowNext, PrepareRun, StopRun, FinishCalibration, OtherButton, UseControl,
         FrameArrives, FrameDone, Next, allVars, buttons

(* A step of the controls is one of theirs, or Prepare's, End              *)
(* Calibration's or none.                                                  *)
LEMMA StepOfControls ==
    [WindowNext]_allVars =>
        \/ Prepare /\ View!PrepareView /\ UNCHANGED waiting
        \/ View!SetMatrices /\ UNCHANGED waiting
        \/ View!Control /\ UNCHANGED <<buttonVars, Button_comp, waiting>>
        \/ UNCHANGED viewVars /\ waiting' \in {FALSE, waiting}
        \/ UNCHANGED viewVars /\ "lh1" \in attached \cup orphaned
  BY DEF WindowNext, PrepareRun, StopRun, FinishCalibration, OtherButton, UseControl,
         FrameArrives, FrameDone, allVars

(* The window implements its buttons.                                      *)
THEOREM WindowHasButtons == WindowSpec => Spec
  <1>1. WindowInit => Init  BY DEF WindowInit
  <1>q. QED  BY <1>1, StepOfButtons, PTL DEF WindowSpec, Spec, buttons

(* With the controls, too, idle buttons mean mode 0.                       *)
THEOREM WindowIdleModeZero == WindowSpec => []IdleMeansModeZero
  BY WindowHasButtons, IdleAlwaysModeZero

(* With the controls, too, no listener outlives its session.               *)
THEOREM WindowListenersHaveASession == WindowSpec => []ListenersHaveASession
  BY WindowHasButtons, ListenersAlwaysHaveASession

-----------------------------------------------------------------------------
(* A run-mode capture is on, or can come to be.                            *)
RunBegun ==
    \/ Busy("StartSynchronous") \/ calling = "startSynchronous"
    \/ "lh1" \in attached \cup orphaned

(* The start button, once pressed, never again offers to prepare, and only *)
(* Prepare leads it to a text that can start a capture.                    *)
LEMMA StartLife ==
    ASSUME LabelOK, [Next]_buttons
    PROVE  /\ label'["StartSynchronous"] = "Prepare for Synchronous"
                => label["StartSynchronous"] = "Prepare for Synchronous" /\ ~Prepare
           /\ RunBegun' => Prepare \/ RunBegun
  <1>0. /\ Listener["StartSynchronous"] = "lh1"
        /\ \A b \in Buttons \ {"StartSynchronous"} : Listener[b] # "lh1"
    BY DEF Listener, Buttons
  <1> USE DEF LabelOK, Busy, Buttons, RunBegun
  <1>1. CASE Prepare
    BY <1>1 DEF Prepare
  <1>2. CASE ConfirmStart
    BY <1>2, ButtonFacts DEF ConfirmStart, Prepare
  <1>3. CASE StartSynchronous
    BY <1>3 DEF StartSynchronous, BeginCapture
  <1>4. CASE StopSynchronous
    BY <1>4, ButtonFacts DEF StopSynchronous, EndCapture
  <1>5. CASE Reprogram
    BY <1>5, ButtonFacts DEF Reprogram
  <1>6. CASE StartCalibration
    BY <1>0, <1>6, ButtonFacts DEF StartCalibration, BeginCapture, Prepare
  <1>7. CASE EndCalibration
    BY <1>7, ButtonFacts DEF EndCalibration, EndCapture, Prepare
  <1>8. ASSUME NEW b \in {"Bayer", "Monochrome"}, StartWhite(b) \/ StopWhite(b)
        PROVE  /\ label'["StartSynchronous"] = label["StartSynchronous"]
               /\ calling' \in {"nothing", calling}
               /\ "lh1" \in attached' \cup orphaned' => "lh1" \in attached \cup orphaned
               /\ ~Prepare
    <2>1. label'["StartSynchronous"] = label["StartSynchronous"]
      BY <1>8 DEF StartWhite, StopWhite, BeginCapture, EndCapture
    <2>2. calling' \in {"nothing", calling}
      BY <1>8 DEF StartWhite, StopWhite, BeginCapture, EndCapture
    <2>3. Listener[b] # "lh1"
      BY <1>0
    <2>4. "lh1" \in attached' \cup orphaned' => "lh1" \in attached \cup orphaned
      BY <1>8, <2>3 DEF StartWhite, StopWhite, BeginCapture, EndCapture
    <2>5. ~Prepare
      BY <2>1 DEF Prepare
    <2>q. QED  BY <2>1, <2>2, <2>4, <2>5
  <1>9. CASE PressUnknown \/ Calibrate \/ ReadCode \/ CloseWindow \/ CloseMenuItem
    BY <1>9 DEF PressUnknown, Calibrate, ReadCode, CloseWindow, CloseMenuItem, Prepare
  <1>10. CASE UNCHANGED buttons
    BY <1>10 DEF Prepare, buttons, buttonVars
  <1>q. QED
    BY <1>1, <1>2, <1>3, <1>4, <1>5, <1>6, <1>7, <1>8, <1>9, <1>10 DEF Next

(* Whatever moves the text on as Prepare does sets the controls as well.   *)
LEMMA StepOfPrepare ==
    ASSUME LabelOK, [WindowNext]_allVars
    PROVE  ~Prepare \/ View!PrepareView
  <1> SUFFICES ASSUME Prepare, ~PrepareRun PROVE FALSE
    BY DEF PrepareRun
  <1>1. /\ label["StartSynchronous"] = "Prepare for Synchronous"
        /\ label'["StartSynchronous"] = "Confirm Start"
    BY DEF Prepare, LabelOK, Buttons
  <1>2. CASE StopRun \/ StartSynchronous
    BY <1>1, <1>2
       DEF StopRun, StopSynchronous, EndCapture, StartSynchronous, BeginCapture, LabelOK, Buttons
  <1>3. CASE StartCalibration \/ FinishCalibration \/ Reprogram
    BY <1>1, <1>3
       DEF StartCalibration, BeginCapture, FinishCalibration, EndCalibration, EndCapture,
           Reprogram, LabelOK, Buttons
  <1>4. ASSUME NEW b \in {"Bayer", "Monochrome"}, StartWhite(b) \/ StopWhite(b) PROVE FALSE
    BY <1>1, <1>4 DEF StartWhite, StopWhite, BeginCapture, EndCapture, LabelOK, Buttons
  <1>5. CASE UNCHANGED label
    BY <1>1, <1>5
  <1>q. QED
    BY <1>2, <1>3, <1>4, <1>5
       DEF WindowNext, OtherButton, UseControl, FrameArrives, FrameDone, allVars, buttonVars,
           ConfirmStart, PressUnknown, Calibrate, ReadCode, CloseWindow, CloseMenuItem

-----------------------------------------------------------------------------
(* Before Prepare nothing has been recorded; after it, the text, the flag  *)
(* and the file agree.                                                     *)
RecordInv ==
    /\ View!RecordingIsOpen
    /\ label["StartSynchronous"] = "Prepare for Synchronous" => record # 1 /\ v = "none"

LEMMA RecordStep == LabelOK /\ RecordInv /\ [WindowNext]_allVars => RecordInv'
  <1> SUFFICES ASSUME LabelOK, RecordInv, [WindowNext]_allVars PROVE RecordInv'
    OBVIOUS
  <1>two. 2 # 1  OBVIOUS
  <1> USE DEF RecordInv, View!RecordingIsOpen
  <1>0. /\ label'["StartSynchronous"] = "Prepare for Synchronous"
             => label["StartSynchronous"] = "Prepare for Synchronous" /\ ~Prepare
    BY StepOfButtons, StartLife
  <1>1. CASE Prepare /\ View!PrepareView
    <2>1. record' = 2 /\ recordText' = recordText /\ label["StartSynchronous"] = "Prepare for Synchronous"
      BY <1>1 DEF Prepare, View!PrepareView
    <2>2. record' # 1
      <3>1. record' = 2  BY <2>1
      <3>q. QED  BY <3>1, <1>two, Zenon
    <2>3. label["StartSynchronous"] = "Prepare for Synchronous" /\ recordText # "Stop Record"
      BY <2>1
    <2>q. QED  BY <1>0, <1>1, <2>1, <2>2, <2>3
  <1>2. CASE View!SetMatrices \/ UNCHANGED viewVars
    BY <1>0, <1>2 DEF View!SetMatrices, View!recordVars, viewVars
  <1>3. CASE View!Control
    <2>1. CASE View!StartRecord
      BY <1>0, <2>1 DEF View!StartRecord, View!recordVars
    <2>2. CASE View!StopRecord
      <3>1. record' = 2 /\ recordText' = "Start Record" /\ recordText = "Stop Record"
        BY <2>2 DEF View!StopRecord
      <3>2. record' # 1
        <4>1. record' = 2  BY <3>1
        <4>q. QED  BY <4>1, <1>two, Zenon
      <3>3. recordText' # "Stop Record"  BY <3>1
      <3>q. QED  BY <1>0, <3>1, <3>2, <3>3
    <2>3. CASE UNCHANGED View!recordVars
      BY <1>0, <2>3 DEF View!recordVars
    <2>q. QED
      BY <1>3, <2>1, <2>2, <2>3
         DEF View!Control, View!SwitchOrder, View!MoveSlider, View!ResetScales
  <1>q. QED  BY <1>1, <1>2, <1>3, StepOfControls

(* The text on Record never lies, and no frame is written to a closed file.*)
THEOREM RecordingAlwaysOpen == WindowSpec => []RecordingIsOpen
  <1>1. WindowInit => LabelOK /\ RecordInv
    <2> SUFFICES ASSUME WindowInit PROVE LabelOK /\ RecordInv  OBVIOUS
    <2>1. LabelOK  BY DEF WindowInit, Init, LabelOK, IdleText, Buttons
    <2>2. record = 0 /\ v = "none" /\ recordText = "Start Record"
      BY DEF WindowInit, View!Init, View!Unset
    <2>3. record # 1
      <3>1. record = 0  BY <2>2
      <3>q. QED  BY <3>1
    <2>4. recordText # "Stop Record"  BY <2>2
    <2>q. QED  BY <2>1, <2>2, <2>3, <2>4 DEF RecordInv, View!RecordingIsOpen
  <1>2. LabelOK /\ [WindowNext]_allVars => LabelOK'
    BY StepOfButtons, LabelStep DEF buttons
  <1>3. RecordInv => RecordingIsOpen  BY DEF RecordInv, RecordingIsOpen
  <1>q. QED  BY <1>1, <1>2, <1>3, RecordStep, PTL DEF WindowSpec

-----------------------------------------------------------------------------
(* What Switch Order does, by the text it finds.                           *)
LEMMA OrderTexts ==
    ASSUME View!SwitchOrder,
           orderText \in {View!FirstTime, View!SecondTime, View!Revert}
    PROVE  \/ frameOrder' = 2 /\ orderText' = View!SecondTime
           \/ frameOrder' = 3 /\ orderText' = View!Revert
           \/ frameOrder' = 1 /\ orderText' = View!FirstTime
  <1>1. /\ View!FirstTime # View!SecondTime /\ View!FirstTime # View!Revert
        /\ View!SecondTime # View!Revert
    BY DEF View!FirstTime, View!SecondTime, View!Revert
  <1>2. CASE orderText = View!FirstTime  BY <1>1, <1>2 DEF View!SwitchOrder
  <1>3. CASE orderText = View!SecondTime  BY <1>1, <1>3 DEF View!SwitchOrder
  <1>4. CASE orderText = View!Revert  BY <1>1, <1>4 DEF View!SwitchOrder
  <1>q. QED  BY <1>2, <1>3, <1>4

(* The text of an order stands for it.                                     *)
LEMMA TextsOfOrders ==
    /\ View!OrderOf[View!FirstTime] = 1
    /\ View!OrderOf[View!SecondTime] = 2
    /\ View!OrderOf[View!Revert] = 3
  BY DEF View!OrderOf, View!FirstTime, View!SecondTime, View!Revert

TextOK == orderText \in {View!FirstTime, View!SecondTime, View!Revert}

(* Every step leaves the order at what its text says, or as Prepare does.  *)
LEMMA OrderStep == TextOK /\ View!OrderFollowsText /\ [WindowNext]_allVars
                     => TextOK' /\ View!OrderFollowsText'
  <1> SUFFICES ASSUME TextOK, View!OrderFollowsText, [WindowNext]_allVars
               PROVE  TextOK' /\ View!OrderFollowsText'
    OBVIOUS
  <1> USE DEF TextOK, View!OrderFollowsText
  <1>1. CASE View!PrepareView
    BY <1>1 DEF View!PrepareView
  <1>2. CASE UNCHANGED View!orderVars
    BY <1>2 DEF View!orderVars
  <1>3. CASE View!SwitchOrder
    BY <1>3, OrderTexts, TextsOfOrders
  <1>q. QED
    BY <1>1, <1>2, <1>3, StepOfControls
       DEF View!Control, View!StartRecord, View!StopRecord, View!MoveSlider,
           View!ResetScales, View!SetMatrices, viewVars, View!orderVars

(* What Switch Order says and what the listener uses differ at most by     *)
(* Prepare's reset.                                                        *)
THEOREM OrderAlwaysFollowsText == WindowSpec => []OrderFollowsText
  <1>1. WindowInit => TextOK /\ View!OrderFollowsText
    BY DEF WindowInit, View!Init, TextOK, View!OrderFollowsText
  <1>2. View!OrderFollowsText => OrderFollowsText  BY DEF OrderFollowsText
  <1>q. QED  BY <1>1, <1>2, OrderStep, PTL DEF WindowSpec

-----------------------------------------------------------------------------
(* From Prepare on, every control has been set.                            *)
ControlsSet == frameOrder # View!Unset /\ \A c \in View!Colours : scale[c] # View!Unset

StartedMeansSet ==
    /\ DOMAIN scale = View!Colours
    /\ waiting \/ RunBegun => ControlsSet

(* No control takes a setting back.                                        *)
LEMMA StaysSet ==
    ASSUME TextOK, DOMAIN scale = View!Colours, View!Control
    PROVE  DOMAIN scale' = View!Colours /\ (ControlsSet => ControlsSet')
  <1> USE DEF ControlsSet, View!Unset
  <1>1. CASE View!SwitchOrder
    <2>1. scale' = scale  BY <1>1 DEF View!SwitchOrder, View!scaleVars
    <2>2. frameOrder' \in 1..3  BY <1>1, OrderTexts DEF TextOK
    <2>3. frameOrder' # 0  BY <2>2
    <2>q. QED  BY <2>1, <2>3
  <1>2. CASE View!StartRecord \/ View!StopRecord
    BY <1>2 DEF View!StartRecord, View!StopRecord, View!orderVars, View!scaleVars
  <1>3. ASSUME NEW c \in View!Colours, NEW value \in Positions, View!MoveSlider(c, value)
        PROVE  DOMAIN scale' = View!Colours /\ (ControlsSet => ControlsSet')
    <2>1. value # 0  BY PositionsAssumption
    <2>q. QED  BY <1>3, <2>1 DEF View!MoveSlider, View!orderVars
  <1>4. CASE View!ResetScales
    <2>1. \A c \in View!Colours : scale'[c] = 1  BY <1>4 DEF View!ResetScales
    <2>2. \A c \in View!Colours : scale'[c] # 0  BY <2>1
    <2>q. QED  BY <1>4, <2>2 DEF View!ResetScales, View!orderVars
  <1>q. QED  BY <1>1, <1>2, <1>3, <1>4 DEF View!Control

LEMMA SetStep ==
    LabelOK /\ TextOK /\ StartedMeansSet /\ [WindowNext]_allVars => StartedMeansSet'
  <1> SUFFICES ASSUME LabelOK, TextOK, StartedMeansSet, [WindowNext]_allVars
               PROVE  StartedMeansSet'
    OBVIOUS
  <1>1. RunBegun' => Prepare \/ RunBegun
    BY StepOfButtons, StartLife
  <1>2. CASE Prepare /\ View!PrepareView
    <2>1. frameOrder' = 1 /\ \A c \in View!Colours : scale'[c] = 1
      BY <1>2 DEF View!PrepareView
    <2>2. frameOrder' # 0 /\ \A c \in View!Colours : scale'[c] # 0
      BY <2>1
    <2>3. DOMAIN scale' = View!Colours
      BY <1>2 DEF View!PrepareView
    <2>q. QED  BY <2>2, <2>3 DEF StartedMeansSet, ControlsSet, View!Unset
  <1>3. ~Prepare \/ View!PrepareView
    BY StepOfPrepare
  <1>4. ASSUME ~Prepare, waiting' \/ RunBegun' => waiting \/ RunBegun,
               DOMAIN scale' = View!Colours /\ (ControlsSet => ControlsSet')
        PROVE  StartedMeansSet'
    BY <1>4 DEF StartedMeansSet
  <1>5. CASE View!SetMatrices /\ UNCHANGED waiting
    BY <1>5, <1>4, <1>1, <1>2, <1>3
       DEF View!SetMatrices, View!orderVars, View!scaleVars, ControlsSet, StartedMeansSet
  <1>6. CASE View!Control /\ UNCHANGED <<buttonVars, Button_comp, waiting>>
    BY <1>6, <1>4, <1>1, <1>2, <1>3, StaysSet DEF StartedMeansSet
  <1>7. CASE UNCHANGED viewVars /\ waiting' \in {FALSE, waiting}
    <2>1. waiting' => waiting  BY <1>7
    <2>q. QED  BY <1>7, <2>1, <1>4, <1>1, <1>2, <1>3 DEF viewVars, ControlsSet, StartedMeansSet
  <1>8. CASE UNCHANGED viewVars /\ "lh1" \in attached \cup orphaned
    <2>1. RunBegun
      BY <1>8 DEF RunBegun
    <2>q. QED  BY <1>8, <2>1, <1>4, <1>1, <1>2, <1>3 DEF viewVars, ControlsSet, StartedMeansSet
  <1>q. QED  BY <1>2, <1>5, <1>6, <1>7, <1>8, StepOfControls

(* A listener that was ever called finds every control set, however long   *)
(* after its session its last call ends.                                   *)
THEOREM ListenerAlwaysFindsControls == WindowSpec => []ListenerFindsControls
  <1>1. WindowInit => LabelOK /\ TextOK /\ View!OrderFollowsText /\ StartedMeansSet
    BY ButtonFacts
       DEF WindowInit, Init, View!Init, LabelOK, IdleText, Buttons, TextOK,
           View!OrderFollowsText, StartedMeansSet, RunBegun, Busy
  <1>2. LabelOK /\ [WindowNext]_allVars => LabelOK'
    BY StepOfButtons, LabelStep DEF buttons
  <1>3. StartedMeansSet => ListenerFindsControls
    BY DEF StartedMeansSet, RunBegun, ListenerFindsControls, ControlsSet
  <1>q. QED  BY <1>1, <1>2, <1>3, OrderStep, SetStep, PTL DEF WindowSpec

-----------------------------------------------------------------------------
(* A scale that was set is its slider's place, or Prepare's 1.             *)
ScaleInv ==
    /\ DOMAIN scale = View!Colours /\ DOMAIN slider = View!Colours
    /\ \A c \in View!Colours : scale[c] \in {View!Unset, 1, slider[c]}

LEMMA ScaleStep == ScaleInv /\ [WindowNext]_allVars => ScaleInv'
  <1> SUFFICES ASSUME ScaleInv, [WindowNext]_allVars PROVE ScaleInv'  OBVIOUS
  <1> USE DEF ScaleInv
  <1>1. CASE View!PrepareView  BY <1>1 DEF View!PrepareView
  <1>2. CASE View!ResetScales  BY <1>2 DEF View!ResetScales
  <1>3. ASSUME NEW c \in View!Colours, NEW value \in Positions, View!MoveSlider(c, value)
        PROVE  ScaleInv'
    <2>1. DOMAIN scale' = View!Colours /\ DOMAIN slider' = View!Colours
      BY <1>3 DEF View!MoveSlider
    <2>2. ASSUME NEW d \in View!Colours
          PROVE  scale'[d] \in {View!Unset, 1, slider'[d]}
      <3>1. CASE d = c  BY <1>3, <3>1 DEF View!MoveSlider
      <3>2. CASE d # c  BY <1>3, <3>2 DEF View!MoveSlider
      <3>q. QED  BY <3>1, <3>2
    <2>q. QED  BY <2>1, <2>2
  <1>4. CASE UNCHANGED View!scaleVars  BY <1>4 DEF View!scaleVars
  <1>q. QED
    BY <1>1, <1>2, <1>3, <1>4, StepOfControls
       DEF View!Control, View!SwitchOrder, View!StartRecord, View!StopRecord,
           View!SetMatrices, viewVars, View!scaleVars

(* In the first order each channel of the screen is scaled by the slider   *)
(* of its name, whichever matrix it comes from.                            *)
LEMMA FirstOrder ==
    ASSUME frameOrder = 1, NEW c \in View!Colours
    PROVE  View!Picture(c).scale = scale[c]
  <1>1. View!Orders[1] = [red |-> "b", green |-> "r", blue |-> "g"]
    BY DEF View!Orders
  <1>2. CASE c = "red"  BY <1>1, <1>2 DEF View!Picture, View!Slider
  <1>3. CASE c = "green"  BY <1>1, <1>3 DEF View!Picture, View!Slider
  <1>4. CASE c = "blue"  BY <1>1, <1>4 DEF View!Picture, View!Slider
  <1>q. QED  BY <1>2, <1>3, <1>4 DEF View!Colours

(* The sliders and the picture agree as long as the order is the first.    *)
THEOREM AlwaysScaledByItsSlider == WindowSpec => []ScaledByItsSlider
  <1>1. WindowInit => ScaleInv
    BY DEF WindowInit, View!Init, ScaleInv, View!Colours
  <1>2. ScaleInv => ScaledByItsSlider
    BY FirstOrder DEF ScaleInv, ScaledByItsSlider, View!ScaledByItsSlider, View!Unset
  <1>q. QED  BY <1>1, <1>2, ScaleStep, PTL DEF WindowSpec
=============================================================================
