---------------------------- MODULE CaptureButtons ----------------------------
(***************************************************************************)
(* The buttons of the automatic-calibration window NaneyeinterfaceUSB2.m   *)
(* that start and stop captures.  Each of the four is a state machine whose*)
(* state is the text on the button; all four share one camera provider and *)
(* one mode register.  No other callback runs while one does, but the FPGA *)
(* does: a callback is split where a read of the code or the start of the  *)
(* capture can fall on either side of an end of frame.                     *)
(*                                                                         *)
(* The start callback repeats "switch choice" while keep_running; a text   *)
(* that no case names leaves keep_running set and the callback never       *)
(* returns, and MATLAB, being single threaded, with it.                    *)
(*                                                                         *)
(* Reprogram makes a new provider and lets go of the old one as it is: if  *)
(* that one captures, it goes on calling the listeners that were on it.    *)
(* Stop stops the new provider, and deletes the listener of its own button *)
(* from whichever provider it is on.                                       *)
(***************************************************************************)
EXTENDS Naturals

CONSTANTS
    Sessions,               \* the buttons the operator uses
    OneAtATime              \* the operator ends a session before beginning
                            \* the next, reprogramming or closing

ASSUME OperatorAssumption == OneAtATime \in BOOLEAN

VARIABLES
    label,                  \* the text on each button
    attached,               \* listeners on the provider's ImageProcessed
    capturing,              \* StartCapture has been called on it last
    orphaned,               \* listeners on earlier providers that still capture
    status,                 \* "open", "hung" or "closed"
    calling,                \* what the running callback does next
    Button_comp             \* the mode register in the FPGA

buttonVars == <<label, attached, capturing, orphaned, status, calling>>

Buttons == {"StartSynchronous", "Calibrate", "Bayer", "Monochrome"}
Listener == [StartSynchronous |-> "lh1", Calibrate |-> "lh2",
             Bayer |-> "lh3", Monochrome |-> "lh4"]
IdleText == [StartSynchronous |-> "Prepare for Synchronous", Calibrate |-> "Calibrate",
             Bayer |-> "Start Bayer", Monochrome |-> "Start Monochrome"]
BusyText == [StartSynchronous |-> {"Confirm Start", "Stop"}, Calibrate |-> {"End Calibration"},
             Bayer |-> {"Stop"}, Monochrome |-> {"Stop"}]

ASSUME SessionsAssumption == Sessions \subseteq Buttons

TypeOK ==
    /\ label \in [Buttons -> {"Prepare for Synchronous", "Confirm Start", "Stop",
                              "Prepare to Start", "Start", "Calibrate", "End Calibration",
                              "Start Bayer", "Start Monochrome"}]
    /\ attached \subseteq {Listener[b] : b \in Buttons}
    /\ orphaned \subseteq {Listener[b] : b \in Buttons}
    /\ capturing \in BOOLEAN
    /\ status \in {"open", "hung", "closed"}
    /\ calling \in {"nothing", "readCode", "startCalibration", "startSynchronous"}

(* The window opens with the LEDs commanded off.                           *)
Init ==
    /\ label = IdleText
    /\ attached = {} /\ orphaned = {}
    /\ capturing = FALSE
    /\ status = "open"
    /\ calling = "nothing"
    /\ Button_comp = 0

Busy(b) == label[b] \in BusyText[b]

(* MATLAB serves events, and the window can be operated, too.              *)
Serving == status # "hung" /\ calling = "nothing"
Idle == status = "open" /\ calling = "nothing"

NoneBusy == \A b \in Buttons : ~Busy(b)

MayBegin(b) ==
    /\ Idle /\ b \in Sessions
    /\ OneAtATime => NoneBusy

-----------------------------------------------------------------------------
(* What the sessions have in common: a listener on a capturing provider.   *)
BeginCapture(b, text) ==
    /\ attached' = attached \cup {Listener[b]}
    /\ capturing' = TRUE
    /\ label' = [label EXCEPT ![b] = text]
    /\ calling' = "nothing"
    /\ UNCHANGED <<orphaned, status>>

(* Mutant: the listener is left on the provider.                           *)
EndCaptureKeepsListener(b, text) ==
    /\ Idle
    /\ capturing' = FALSE
    /\ Button_comp' = 0
    /\ label' = [label EXCEPT ![b] = text]
    /\ UNCHANGED <<attached, orphaned, status, calling>>

(* Mutant: the LEDs go off only when they are white.                       *)
EndCaptureLeavesMode(b, text) ==
    /\ Idle
    /\ capturing' = FALSE
    /\ attached' = attached \ {Listener[b]}
    /\ orphaned' = orphaned \ {Listener[b]}
    /\ Button_comp' = IF Button_comp = 3 THEN 0 ELSE Button_comp
    /\ label' = [label EXCEPT ![b] = text]
    /\ UNCHANGED <<status, calling>>

EndCapture(b, text) ==
    /\ Idle
    /\ capturing' = FALSE
    /\ attached' = attached \ {Listener[b]}
    /\ orphaned' = orphaned \ {Listener[b]}
    /\ Button_comp' = 0
    /\ label' = [label EXCEPT ![b] = text]
    /\ UNCHANGED <<status, calling>>

(* The three texts of the start button that its callback knows.            *)
Prepare ==
    /\ MayBegin("StartSynchronous")
    /\ label["StartSynchronous"] = "Prepare for Synchronous"
    /\ Button_comp' = 2
    /\ label' = [label EXCEPT !["StartSynchronous"] = "Confirm Start"]
    /\ UNCHANGED <<attached, capturing, orphaned, status, calling>>

(* The code is read first, and the capture started after.                  *)
ConfirmStart ==
    /\ Idle
    /\ label["StartSynchronous"] = "Confirm Start"
    /\ calling' = "startSynchronous"
    /\ UNCHANGED <<label, attached, capturing, orphaned, status, Button_comp>>

StartSynchronous ==
    /\ calling = "startSynchronous"
    /\ BeginCapture("StartSynchronous", "Stop")
    /\ UNCHANGED Button_comp

StopSynchronous ==
    /\ label["StartSynchronous"] = "Stop"
    /\ EndCapture("StartSynchronous", "Prepare to Start")

(* The two texts it does not know: the callback loops for ever.            *)
PressUnknown ==
    /\ MayBegin("StartSynchronous")
    /\ label["StartSynchronous"] \in {"Prepare to Start", "Start"}
    /\ status' = "hung"
    /\ UNCHANGED <<label, attached, capturing, orphaned, calling, Button_comp>>

(* The mode is written, then the code is read, then the capture started.   *)
Calibrate ==
    /\ MayBegin("Calibrate")
    /\ label["Calibrate"] = "Calibrate"
    /\ Button_comp' = 1
    /\ calling' = "readCode"
    /\ UNCHANGED <<label, attached, capturing, orphaned, status>>

ReadCode ==
    /\ calling = "readCode"
    /\ calling' = "startCalibration"
    /\ UNCHANGED <<label, attached, capturing, orphaned, status, Button_comp>>

StartCalibration ==
    /\ calling = "startCalibration"
    /\ BeginCapture("Calibrate", "End Calibration")
    /\ UNCHANGED Button_comp

EndCalibration ==
    /\ label["Calibrate"] = "End Calibration"
    /\ EndCapture("Calibrate", "Calibrate")

(* Bayer and Monochrome light all LEDs.                                    *)
StartWhite(b) ==
    /\ MayBegin(b)
    /\ label[b] = IdleText[b]
    /\ Button_comp' = 3
    /\ BeginCapture(b, "Stop")

StopWhite(b) ==
    /\ label[b] = "Stop"
    /\ EndCapture(b, IdleText[b])

(* A new provider takes the place of the old, which is not stopped.        *)
Reprogram ==
    /\ Idle
    /\ OneAtATime => NoneBusy
    /\ label' = [label EXCEPT !["StartSynchronous"] = "Start"]
    /\ orphaned' = orphaned \cup (IF capturing THEN attached ELSE {})
    /\ attached' = {}
    /\ capturing' = FALSE
    /\ UNCHANGED <<status, calling, Button_comp>>

(* Closing the window disposes of the provider and leaves the LEDs be.     *)
CloseWindow ==
    /\ Idle
    /\ OneAtATime => NoneBusy
    /\ status' = "closed"
    /\ attached' = {}
    /\ capturing' = FALSE
    /\ UNCHANGED <<label, orphaned, calling, Button_comp>>

(* Close in the menu deletes the window and nothing else.                  *)
CloseMenuItem ==
    /\ Idle
    /\ OneAtATime => NoneBusy
    /\ status' = "closed"
    /\ UNCHANGED <<label, attached, capturing, orphaned, calling, Button_comp>>

Next ==
    \/ Prepare \/ ConfirmStart \/ StartSynchronous \/ StopSynchronous \/ PressUnknown
    \/ Calibrate \/ ReadCode \/ StartCalibration \/ EndCalibration
    \/ \E b \in {"Bayer", "Monochrome"} : StartWhite(b) \/ StopWhite(b)
    \/ Reprogram
    \/ CloseWindow \/ CloseMenuItem

Spec == Init /\ [][Next]_<<buttonVars, Button_comp>>

-----------------------------------------------------------------------------
(* When every button offers to begin, no LED has been left commanded on,   *)
(* in whatever order overlapping sessions were started and stopped.        *)
IdleMeansModeZero ==
    (/\ Idle
     /\ \A b \in Buttons \ {"StartSynchronous"} : ~Busy(b)
     /\ label["StartSynchronous"] \in {"Prepare for Synchronous", "Prepare to Start"})
    => Button_comp = 0

(* A frame reaches no listener that cannot be stopped: each one, on the    *)
(* provider in use or on one that was replaced while it captured, belongs  *)
(* to a button that deletes it when pressed.  The one exception is that of *)
(* run mode after Reprogram, which takes its Stop away.                    *)
ListenersHaveASession ==
    \A b \in Buttons : Listener[b] \in attached \cup orphaned =>
        \/ Busy(b) /\ label[b] # "Confirm Start"
        \/ label[b] = "Start" /\ Listener[b] \in orphaned \ attached

(* The header comment of the start callback: the start button starts the   *)
(* displaying.  It cannot if pressing it never returns.                    *)
StartButtonReturns == status # "hung"
=============================================================================
