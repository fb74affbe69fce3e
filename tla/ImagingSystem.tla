---------------------------- MODULE ImagingSystem ----------------------------
(***************************************************************************)
(* The whole system: the operator's buttons, the frame listeners, the LED  *)
(* sequencer in the FPGA, and the camera between them.  The FPGA moves on  *)
(* at the end of each camera frame; the image of that frame reaches the    *)
(* host DELAY frames later, and the host has only the code read at that    *)
(* time to tell which light it was taken under.                            *)
(*                                                                         *)
(* The camera and its driver are external.  A capture delivers frames      *)
(* exposed after it started; a frame that finds MATLAB busy until the next *)
(* one arrives is lost.                                                    *)
(***************************************************************************)
EXTENDS Sequences, ColourMerging

CONSTANTS
    Sessions, OneAtATime,   \* see CaptureButtons
    Noisy, MaxStack,        \* see CaptureListeners
    DELAY,                  \* frames between exposure and delivery
    Prompt,                 \* the host serves a frame before the next ends
    SlowStart,              \* but Confirm Start may take any number of frames
    Settle,                 \* the operator lets the LEDs go off in between
    WithKey                 \* the operator may press KEY on the board, except
                            \* while a calibration is going on

VARIABLES
    Button_comp, LED_output, DATA_OUT, startup_frame, calibration_cnt,
    KEY,                    \* the reset key on the board, 0 while pressed
    label, attached, capturing, orphaned, status, calling,
    stack, previmg, input, oldput, channel,
    previousimg, previousin, slot, cal,
    pipeline,               \* exposed frames not yet delivered, newest first
    image,                  \* the frame being delivered
    pending                 \* listeners it has not been given to yet

Frame == INSTANCE FrameSequencer WITH WriteValues <- 0..3
Gui == INSTANCE CaptureButtons

(* The code as the host reads it: KEY clears the register it is read from. *)
readdata == IF KEY = 0 THEN 0 ELSE DATA_OUT

Host == INSTANCE CaptureListeners WITH DATA_OUT <- readdata

ASSUME BoundsAssumption ==
    Sessions \subseteq Gui!Buttons /\ DELAY \in Nat /\ MaxStack \in Nat \ {0}

ledVars == <<LED_output, DATA_OUT, startup_frame, calibration_cnt>>
buttonVars == <<label, attached, capturing, orphaned, status, calling>>
runVars == <<previmg, input, oldput, channel>>
calVars == <<previousimg, previousin, slot>>
listenerVars == <<stack, runVars, calVars, cal>>
cameraVars == <<pipeline, image, pending>>
vars == <<Button_comp, ledVars, KEY, buttonVars, listenerVars, cameraVars>>

TypeOK ==
    /\ Frame!TypeOK /\ Gui!TypeOK /\ Host!TypeOK
    /\ pipeline \in Seq(Host!Lights) /\ Len(pipeline) <= DELAY
    /\ image \in Host!Lights
    /\ KEY \in {0, 1}
    /\ pending \subseteq attached \cup orphaned

(* The window is open, and the mode 0 it wrote has been seen: the red of   *)
(* power-up is over.                                                       *)
Init ==
    /\ Gui!Init /\ Host!Init
    /\ LED_output = Frame!Dark /\ DATA_OUT = 0
    /\ startup_frame = 0 /\ calibration_cnt = 0
    /\ KEY = 1
    /\ pipeline = <<>>
    /\ image = Host!Dark
    /\ pending = {}

-----------------------------------------------------------------------------
(* A frame has been served when every listener has had it, and a call that *)
(* still waits has seen the present code and waits for the next one.  The  *)
(* callback that starts run mode reads the code and starts the capture     *)
(* within one frame, unless it is slow; the one that starts calibration may*)
(* take two.                                                               *)
Served ==
    /\ pending = {}
    /\ stack # <<>> =>
         IF Host!Top.listener = "lh1" THEN input = readdata /\ oldput = readdata
                                      ELSE Host!Top.input = readdata /\ previousin = readdata
    /\ SlowStart \/ calling # "startSynchronous"
    /\ calling = "startCalibration" => previousin = readdata

(* Who gets the frames: the listeners of the provider in use while it      *)
(* captures, and those of the ones it has replaced.                        *)
Streaming == (IF capturing THEN attached ELSE {}) \cup orphaned
Streams == capturing \/ orphaned # {}

(* The camera: the frame that ends was lit by what was on until now.       *)
Expose ==
    LET exposed == <<LED_output>> \o pipeline
    IN  IF ~Streams
          THEN pipeline' = <<>> /\ UNCHANGED <<image, pending>>
        ELSE IF Len(exposed) <= DELAY
          THEN pipeline' = exposed /\ UNCHANGED <<image, pending>>
        ELSE /\ pipeline' = SubSeq(exposed, 1, DELAY)
             /\ image' = exposed[DELAY + 1]
             /\ pending' = Streaming

EndOfFrame ==
    /\ Prompt /\ status # "hung" => Served
    /\ Frame!EndOfFrame
    /\ Expose
    /\ UNCHANGED <<KEY, buttonVars, listenerVars>>

PressKey ==
    /\ WithKey /\ KEY = 1
    /\ ~Gui!Busy("Calibrate") /\ calling \notin {"readCode", "startCalibration"}
    /\ KEY' = 0
    /\ Frame!ResetButton
    /\ UNCHANGED <<buttonVars, listenerVars, cameraVars>>

ReleaseKey ==
    /\ KEY = 0
    /\ KEY' = 1
    /\ UNCHANGED <<Button_comp, ledVars, buttonVars, listenerVars, cameraVars>>

-----------------------------------------------------------------------------
(* The frame reaches a listener: when MATLAB is idle, or from the pause of *)
(* a listener that waits.  Bayer and Monochrome only display it.           *)
Deliver(lh, same) ==
    /\ Gui!Serving /\ lh \in pending
    /\ pending' = pending \ {lh}
    /\ IF lh \in {"lh3", "lh4"} \/ Host!Waiting(lh) \/ Len(stack) = MaxStack
         THEN UNCHANGED listenerVars
         ELSE IF lh = "lh1" THEN Host!BeginRunMode(image, same)
                            ELSE Host!BeginCalibration(image, same)
    /\ UNCHANGED <<Button_comp, ledVars, KEY, buttonVars, pipeline, image>>

Resume(same) ==
    /\ Gui!Serving
    /\ Host!ResumeRunMode(same) \/ Host!ResumeCalibration(same)
    /\ UNCHANGED <<Button_comp, ledVars, KEY, buttonVars, cameraVars>>

-----------------------------------------------------------------------------
(* The callbacks, with what each does to the listeners' variables.  The    *)
(* mode register is theirs, the rest of the sequencer is not.              *)
Settled ==
    Settle /\ Button_comp = 0 => DATA_OUT = 0 /\ LED_output = Frame!Dark

PrepareSynchronous == Settled /\ Gui!Prepare /\ Host!PrepareRunMode
ConfirmSynchronous == Gui!ConfirmStart /\ Host!ConfirmRunMode
StopSynchronous ==
    /\ Gui!StopSynchronous
    /\ Host!Delete("lh1")
    /\ UNCHANGED <<runVars, calVars, cal>>

ReadCalibrationCode == Gui!ReadCode /\ Host!PrepareCalibration
EndCalibration == Gui!EndCalibration /\ Host!FinishCalibration

OtherButton ==
    /\ \/ Gui!StartSynchronous \/ Gui!PressUnknown
       \/ Settled /\ Gui!Calibrate
       \/ Gui!StartCalibration
       \/ \E b \in {"Bayer", "Monochrome"} : Gui!StartWhite(b) \/ Gui!StopWhite(b)
       \/ Gui!Reprogram \/ Gui!CloseWindow \/ Gui!CloseMenuItem
    /\ UNCHANGED listenerVars

(* While KEY is held the mode register stays 0, whatever is written to it; *)
(* the operator begins no session then.                                    *)
Callback ==
    /\ \/ PrepareSynchronous \/ ConfirmSynchronous \/ StopSynchronous
       \/ ReadCalibrationCode \/ EndCalibration
       \/ OtherButton
    /\ KEY = 0 => Button_comp' = 0
    /\ UNCHANGED <<ledVars, KEY, image>>
    /\ pipeline' = IF Streams THEN pipeline ELSE <<>>
    /\ pending' = pending \cap (attached' \cup orphaned')

Next ==
    \/ EndOfFrame
    \/ PressKey
    \/ ReleaseKey
    \/ \E same \in BOOLEAN : Resume(same) \/ \E lh \in pending : Deliver(lh, same)
    \/ Callback

Spec == Init /\ [][Next]_vars

(* The camera streams; a pause returns, an event is served and a callback  *)
(* that has begun goes on.                                                 *)
FairSpec ==
    /\ Spec
    /\ WF_vars(EndOfFrame)
    /\ WF_vars(\E same \in BOOLEAN : Resume(same))
    /\ WF_vars(\E same \in BOOLEAN, lh \in pending : Deliver(lh, same))
    /\ WF_vars(Callback /\ calling # "nothing")

-----------------------------------------------------------------------------
(* The light that was on a number of frames before a code, in the sequence *)
(* of run mode and in that of calibration.                                 *)
RunLight(code, ago) == {Frame!Colour[(code - 10 + 3 * ago - ago) % 3]}
CalibrationLight(code, ago) ==
    LET position == (code - 1 + 9 * ago - ago) % 9
    IN  IF position % 3 = 0 THEN {Frame!Colour[position \div 3]} ELSE Host!Dark

LAG == DELAY + 1

(* A prompt host never loses step: from its first lit frame to the last,   *)
(* every channel holds frames of one LED, the one that was on LAG frames   *)
(* before the code it is filed under.                                      *)
ChannelsKeepStep ==
    \A code \in Host!Channels :
        channel[code] \in {Host!Blank[code], Host!Dark, RunLight(code, LAG)}

(* The same for the nine calibration slots, across restarts that the FPGA  *)
(* may or may not have noticed.                                            *)
SlotsKeepStep ==
    \A code \in 1..9 : slot[code] \in {Host!Dark, CalibrationLight(code, LAG)}

(* The operator can always put the colours right: once calibration has met *)
(* each colour and the picture holds one frame of each, one of the orders  *)
(* of Switch Order shows every colour in its place, although run mode may  *)
(* lag behind the codes by another number of frames than calibration did.  *)
(* The two are never mirror images of each other.                          *)
EachColourIn(lights) == {{c} : c \in Colours} \subseteq lights

SomeOrderTrue ==
    (/\ EachColourIn({cal[code] : code \in 1..9})
     /\ EachColourIn({channel[code] : code \in Host!Channels}))
    => \E order \in 1..3 : Fits(order, cal, channel)

(* A run session that is left alone settles: each channel comes to hold    *)
(* its light, and a new frame of that light is filed again and again; the  *)
(* wait for the code never starves and the comparison with the other two   *)
(* channels never locks the picture.                                       *)
AboutToFile(code) ==
    /\ stack # <<>> /\ Host!Top.listener = "lh1" /\ Host!Top.live
    /\ input = code /\ oldput # code
    /\ \A other \in Host!Channels \ {code} : Host!Top.image # channel[other]

Running == status = "open" /\ label["StartSynchronous"] = "Stop"

RunSettles ==
    <>[]Running => \A code \in Host!Channels :
        /\ <>[](channel[code] = RunLight(code, LAG))
        /\ []<>AboutToFile(code)

(* A calibration that is left alone captures the response to every colour: *)
(* the three slots that are lit after the lag come to hold their light.    *)
Calibrating == status = "open" /\ label["Calibrate"] = "End Calibration"

CalibrationFillsLitSlots ==
    <>[]Calibrating => \A code \in 1..9 :
        CalibrationLight(code, LAG) # Host!Dark =>
            <>[](slot[code] = CalibrationLight(code, LAG))
=============================================================================
