------------------------- MODULE PushButtonController -------------------------
(***************************************************************************)
(* The stand-alone controller, mainOperationalAndCalibration.vhd: no host  *)
(* writes a mode, the board's KEY and its three push buttons choose what   *)
(* the LEDs do.  Both are looked at on every edge of the clock, while the  *)
(* LEDs move only on the edges where an end of frame is detected, and the  *)
(* sequencer itself moves startup_frame on such an edge, so what the       *)
(* operator asked for on that very edge may be lost.                       *)
(*                                                                         *)
(* The detector is the one of IlluminationFPGA; here it is only armed or   *)
(* locked out.  Pins are active low: Button holds the pressed ones, KEY    *)
(* says whether it is held, LED_output is the set of lit colours.          *)
(***************************************************************************)
EXTENDS Naturals

VARIABLES
    KEY, Button,            \* what the operator holds down
    LED_output, DATA_OUT,   \* the lit colours and the code sent to the host
    startup_frame,          \* 0 dark, 1 to 3 a colour, 4 normal operation
    cal_cnt,                \* on, off, staying off
    Calibration,            \* the flag sent to the host
    NEW_FRAME, DATA_BUFFER  \* end-of-frame output; detector locked out

inputs == <<KEY, Button>>
ledVars == <<LED_output, DATA_OUT, cal_cnt, Calibration>>
eofVars == <<NEW_FRAME, DATA_BUFFER>>
vars == <<inputs, ledVars, startup_frame, eofVars>>

Buttons == 1..3
Colour == [s \in Buttons |-> CASE s = 1 -> "red" [] s = 2 -> "green" [] s = 3 -> "blue"]
Dark == {}
Normal == 4

TypeOK ==
    /\ KEY \in BOOLEAN /\ Button \subseteq Buttons
    /\ LED_output \in {Dark} \cup {{Colour[s]} : s \in Buttons}
    /\ DATA_OUT \in 0..9
    /\ startup_frame \in 0..Normal
    /\ cal_cnt \in 0..2
    /\ Calibration \in BOOLEAN
    /\ NEW_FRAME \in BOOLEAN /\ DATA_BUFFER \in BOOLEAN

(* DATA_BUFFER has no initial value in the source.                         *)
Init ==
    /\ KEY \in BOOLEAN /\ Button \in SUBSET Buttons
    /\ LED_output = {"red"}
    /\ DATA_OUT = 0
    /\ startup_frame = Normal
    /\ cal_cnt = 0
    /\ Calibration = FALSE
    /\ NEW_FRAME = FALSE
    /\ DATA_BUFFER \in BOOLEAN

-----------------------------------------------------------------------------
(* Mutant: KEY is looked at in normal operation only.                      *)
RequestedOnceNormal ==
    CASE \E s \in Buttons : Button = {s} -> CHOOSE s \in Buttons : Button = {s}
      [] OTHER -> IF KEY /\ startup_frame = Normal THEN 0 ELSE startup_frame

(* What the inputs ask of startup_frame: a single button its colour, two   *)
(* or more nothing; KEY the start-up sequence, unless a button is held.    *)
Requested ==
    CASE \E s \in Buttons : Button = {s} -> CHOOSE s \in Buttons : Button = {s}
      [] OTHER -> IF KEY THEN 0 ELSE startup_frame

(* Every frame of the start-up sequence counts, the third one clears.      *)
CountNext == (cal_cnt + 1) % 3

(* Mutant: what the inputs ask wins over the sequence.                     *)
PhaseAsRequested == startup_frame' = Requested

(* The third frame of a phase moves on to the next, whatever the inputs    *)
(* ask: the later assignment of the process is the one that counts.        *)
PhaseNext ==
    startup_frame' = IF cal_cnt = 2 THEN startup_frame + 1 ELSE Requested

(* startup_frame 0: three dark frames, and the host told of calibration.   *)
DarkPhase ==
    /\ startup_frame = 0
    /\ Calibration' = TRUE
    /\ LED_output' = Dark
    /\ DATA_OUT' = 0
    /\ cal_cnt' = CountNext
    /\ PhaseNext

(* Mutant: the dark frames keep the code of the lit one.                   *)
ColourPhaseOneCode ==
    /\ startup_frame \in Buttons
    /\ LED_output' = IF cal_cnt = 0 THEN {Colour[startup_frame]} ELSE Dark
    /\ DATA_OUT' = 2 * startup_frame - 1
    /\ cal_cnt' = CountNext
    /\ PhaseNext
    /\ UNCHANGED Calibration

(* startup_frame 1 to 3: the colour lit for one frame, then dark for two.  *)
ColourPhase ==
    /\ startup_frame \in Buttons
    /\ LED_output' = IF cal_cnt = 0 THEN {Colour[startup_frame]} ELSE Dark
    /\ DATA_OUT' = IF cal_cnt = 0 THEN 2 * startup_frame - 1 ELSE 2 * startup_frame
    /\ cal_cnt' = CountNext
    /\ PhaseNext
    /\ UNCHANGED Calibration

(* Mutant: the flag is left as the start-up sequence set it.               *)
NormalKeepsFlag ==
    /\ startup_frame = Normal
    /\ LED_output' = CASE LED_output = {"red"}   -> {"green"}
                       [] LED_output = {"green"} -> {"blue"}
                       [] OTHER                  -> {"red"}
    /\ DATA_OUT' = CASE LED_output = {"red"}   -> 8
                     [] LED_output = {"green"} -> 9
                     [] OTHER                  -> 7
    /\ startup_frame' = Requested
    /\ UNCHANGED <<cal_cnt, Calibration>>

(* Normal operation: the colours rotate, from dark they start at red, and  *)
(* any other pattern is an error.                                          *)
NormalOperation ==
    /\ startup_frame = Normal
    /\ Calibration' = FALSE
    /\ LED_output' = CASE LED_output = {"red"}   -> {"green"}
                       [] LED_output = {"green"} -> {"blue"}
                       [] LED_output = {"blue"}  -> {"red"}
                       [] LED_output = Dark      -> {"red"}
                       [] OTHER                  -> Dark
    /\ DATA_OUT' = CASE LED_output = {"red"}   -> 8
                     [] LED_output = {"green"} -> 9
                     [] LED_output = {"blue"}  -> 7
                     [] LED_output = Dark      -> 7
                     [] OTHER                  -> 10
    /\ startup_frame' = Requested
    /\ UNCHANGED cal_cnt

(* An edge on which 62 zeros have gathered and the detector is armed.      *)
EndOfFrame ==
    /\ DATA_BUFFER = FALSE
    /\ NEW_FRAME' = TRUE
    /\ DATA_BUFFER' = TRUE
    /\ \/ DarkPhase
       \/ ColourPhase
       \/ NormalOperation
    /\ UNCHANGED inputs

(* The edge on which the lockout has counted past 250000.                  *)
Rearm ==
    /\ DATA_BUFFER = TRUE
    /\ NEW_FRAME' = FALSE
    /\ DATA_BUFFER' = FALSE
    /\ startup_frame' = Requested
    /\ UNCHANGED <<inputs, ledVars>>

(* Every other edge: the inputs alone.                                     *)
Sample ==
    /\ startup_frame' = Requested
    /\ UNCHANGED <<inputs, ledVars, eofVars>>

(* The operator presses or releases KEY or a push button.                  *)
MoveKey ==
    /\ KEY' = ~KEY
    /\ UNCHANGED <<Button, ledVars, startup_frame, eofVars>>

MoveButton(b) ==
    /\ Button' = IF b \in Button THEN Button \ {b} ELSE Button \cup {b}
    /\ UNCHANGED <<KEY, ledVars, startup_frame, eofVars>>

Operator == MoveKey \/ \E b \in Buttons : MoveButton(b)

Next == EndOfFrame \/ Rearm \/ Sample \/ Operator

Spec == Init /\ [][Next]_vars

(* The camera keeps sending frames and the oscillator keeps running.  The  *)
(* operator need not do anything.                                          *)
FairSpec == Spec /\ WF_vars(EndOfFrame) /\ WF_vars(Rearm) /\ WF_vars(Sample)

-----------------------------------------------------------------------------
LightOf(code) ==
    CASE code \in {1, 7} -> {"red"}
      [] code \in {3, 8} -> {"green"}
      [] code \in {5, 9} -> {"blue"}
      [] OTHER           -> Dark

PowerUp == LED_output = {"red"} /\ DATA_OUT = 0

(* Wherever in a colour's three frames the operator jumps to another one,  *)
(* the code the host captures names the light that is lit; only the red of *)
(* power-up has no code.                                                   *)
CodeNamesLight == PowerUp \/ LED_output = LightOf(DATA_OUT)

(* The host takes Calibration for the start-up sequence: while it is up    *)
(* the code is one of that sequence, and the dark code of its first phase  *)
(* never shows without it.                                                 *)
FlagNamesSequence ==
    /\ Calibration => DATA_OUT \in 0..6
    /\ DATA_OUT = 0 => (Calibration \/ PowerUp)

(* "If the FPGA is turned off, turn the LEDs off": with KEY held and no    *)
(* button touched, darkness returns however often the sequence goes on to  *)
(* red before the next edge sends it back.                                 *)
KeyDarkens ==
    <>[](KEY /\ Button = {}) => <>[](LED_output = Dark)

(* Hands off the board, every start-up sequence ends, and the colours      *)
(* rotate.                                                                 *)
ReleasedRotates ==
    <>[](~KEY /\ Button = {}) => \A s \in Buttons : []<>(LED_output = {Colour[s]})
=============================================================================
