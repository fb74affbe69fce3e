--------------------- MODULE PushButtonController_proof ---------------------
(***************************************************************************)
(* Theorems about PushButtonController, whatever the operator and the      *)
(* camera do.  TypeOK is inductive, and with it each of the two statements *)
(* about what the host is told.                                            *)
(***************************************************************************)
EXTENDS PushButtonController, TLAPS

LEMMA RequestedType == TypeOK => Requested \in 0..Normal
  BY DEF TypeOK, Requested, Buttons, Normal

LEMMA Phases ==
    ASSUME TypeOK
    PROVE  /\ CountNext \in 0..2
           /\ PhaseNext /\ startup_frame # Normal => startup_frame' \in 0..Normal
           /\ \A s \in Buttons : /\ Colour[s] \in {"red", "green", "blue"}
                                 /\ 2 * s - 1 \in 0..9 /\ 2 * s \in 0..9
  <1>1. CountNext \in 0..2
    <2>1. cal_cnt = 0 \/ cal_cnt = 1 \/ cal_cnt = 2  BY DEF TypeOK
    <2>q. QED  BY <2>1 DEF CountNext
  <1>2. PhaseNext /\ startup_frame # Normal => startup_frame' \in 0..Normal
    BY RequestedType DEF PhaseNext, TypeOK, Normal
  <1>3. \A s \in Buttons : /\ Colour[s] \in {"red", "green", "blue"}
                           /\ 2 * s - 1 \in 0..9 /\ 2 * s \in 0..9
    BY DEF Buttons, Colour
  <1>q. QED  BY <1>1, <1>2, <1>3

(* The LEDs a frame may light.                                             *)
LEMMA Lights == {Dark} \cup {{Colour[s]} : s \in Buttons} = {Dark, {"red"}, {"green"}, {"blue"}}
  BY DEF Buttons, Colour

LEMMA Distinct ==
    /\ {"red"} # {"green"} /\ {"red"} # {"blue"} /\ {"green"} # {"blue"}
    /\ {"red"} # Dark /\ {"green"} # Dark /\ {"blue"} # Dark
  <1>1. "red" # "green" /\ "red" # "blue" /\ "green" # "blue"  OBVIOUS
  <1>q. QED  BY <1>1 DEF Dark

(* What one frame of a colour shows and sends.                             *)
LEMMA ColourFrame ==
    ASSUME ColourPhase
    PROVE  \/ /\ DATA_OUT' \in {2, 4, 6} /\ LED_output' = Dark
           \/ DATA_OUT' = 1 /\ LED_output' = {"red"}
           \/ DATA_OUT' = 3 /\ LED_output' = {"green"}
           \/ DATA_OUT' = 5 /\ LED_output' = {"blue"}
  <1>1. startup_frame = 1 \/ startup_frame = 2 \/ startup_frame = 3
    BY DEF ColourPhase, Buttons
  <1>2. Colour[1] = "red" /\ Colour[2] = "green" /\ Colour[3] = "blue"
    BY DEF Colour, Buttons
  <1>3. CASE cal_cnt = 0
    <2>1. LED_output' = {Colour[startup_frame]} /\ DATA_OUT' = 2 * startup_frame - 1
      BY <1>3 DEF ColourPhase
    <2>2. CASE startup_frame = 1  BY <2>1, <2>2, <1>2
    <2>3. CASE startup_frame = 2  BY <2>1, <2>3, <1>2
    <2>4. CASE startup_frame = 3  BY <2>1, <2>4, <1>2
    <2>q. QED  BY <1>1, <2>2, <2>3, <2>4
  <1>4. CASE cal_cnt # 0
    <2>1. LED_output' = Dark /\ DATA_OUT' = 2 * startup_frame
      BY <1>4 DEF ColourPhase
    <2>q. QED  BY <1>1, <2>1
  <1>q. QED  BY <1>3, <1>4

(* What one frame of normal operation shows and sends.                     *)
LEMMA NormalFrame ==
    ASSUME TypeOK, NormalOperation
    PROVE  \/ DATA_OUT' = 7 /\ LED_output' = {"red"}
           \/ DATA_OUT' = 8 /\ LED_output' = {"green"}
           \/ DATA_OUT' = 9 /\ LED_output' = {"blue"}
  <1>1. \/ LED_output = Dark \/ LED_output = {"red"}
        \/ LED_output = {"green"} \/ LED_output = {"blue"}
    BY Lights DEF TypeOK
  <1>2. CASE LED_output = Dark  BY <1>2, Distinct DEF NormalOperation
  <1>3. CASE LED_output = {"red"}  BY <1>3, Distinct DEF NormalOperation
  <1>4. CASE LED_output = {"green"}  BY <1>4, Distinct DEF NormalOperation
  <1>5. CASE LED_output = {"blue"}  BY <1>5, Distinct DEF NormalOperation
  <1>q. QED  BY <1>1, <1>2, <1>3, <1>4, <1>5

LEMMA LightsOfCodes ==
    /\ LightOf(0) = Dark /\ LightOf(2) = Dark /\ LightOf(4) = Dark /\ LightOf(6) = Dark
    /\ LightOf(1) = {"red"} /\ LightOf(7) = {"red"}
    /\ LightOf(3) = {"green"} /\ LightOf(8) = {"green"}
    /\ LightOf(5) = {"blue"} /\ LightOf(9) = {"blue"}
  BY DEF LightOf

LEMMA InitType == Init => TypeOK
  <1> SUFFICES ASSUME Init PROVE TypeOK  OBVIOUS
  <1>1. LED_output \in {Dark} \cup {{Colour[s]} : s \in Buttons}
    <2>1. LED_output \in {Dark, {"red"}, {"green"}, {"blue"}}  BY DEF Init
    <2>q. QED  BY <2>1, Lights
  <1>2. startup_frame \in 0..Normal /\ DATA_OUT \in 0..9 /\ cal_cnt \in 0..2
    BY DEF Init, Normal
  <1>q. QED  BY <1>1, <1>2 DEF Init, TypeOK

LEMMA NextType == TypeOK /\ [Next]_vars => TypeOK'
  <1> SUFFICES ASSUME TypeOK, [Next]_vars PROVE TypeOK'  OBVIOUS
  <1> USE Lights DEF TypeOK
  <1>1. CASE EndOfFrame
    <2>1. CASE DarkPhase
      BY <1>1, <2>1, Phases DEF EndOfFrame, DarkPhase, inputs, Normal
    <2>2. CASE ColourPhase
      <3>1. /\ LED_output' \in {Dark} \cup {{Colour[s]} : s \in Buttons}
            /\ DATA_OUT' \in 0..9
        BY <2>2, ColourFrame
      <3>2. startup_frame # Normal
        BY <2>2 DEF ColourPhase, Normal, Buttons
      <3>3. startup_frame' \in 0..Normal /\ cal_cnt' \in 0..2 /\ Calibration' \in BOOLEAN
        BY <2>2, <3>2, Phases DEF ColourPhase
      <3>q. QED  BY <1>1, <3>1, <3>3 DEF EndOfFrame, inputs
    <2>3. CASE NormalOperation
      <3>1. LED_output' \in {Dark} \cup {{Colour[s]} : s \in Buttons} /\ DATA_OUT' \in 0..9
        BY <2>3, NormalFrame
      <3>q. QED  BY <1>1, <2>3, <3>1, RequestedType DEF EndOfFrame, NormalOperation, inputs
    <2>q. QED  BY <1>1, <2>1, <2>2, <2>3 DEF EndOfFrame
  <1>2. CASE Rearm  BY <1>2, RequestedType DEF Rearm, inputs, ledVars
  <1>3. CASE Sample  BY <1>3, RequestedType DEF Sample, inputs, ledVars, eofVars
  <1>4. CASE Operator
    BY <1>4 DEF Operator, MoveKey, MoveButton, ledVars, eofVars
  <1>5. CASE UNCHANGED vars
    BY <1>5 DEF vars, inputs, ledVars, eofVars
  <1>q. QED  BY <1>1, <1>2, <1>3, <1>4, <1>5 DEF Next

(* Every register keeps its range, cal_cnt and startup_frame included,     *)
(* though an edge and a frame assign startup_frame in the same process.    *)
THEOREM TypeCorrect == Spec => []TypeOK
  BY InitType, NextType, PTL DEF Spec

(* Steps other than frames leave the LEDs, the code and the flag alone.    *)
LEMMA OnlyFrames == [Next]_vars => EndOfFrame \/ UNCHANGED ledVars
  BY DEF Next, Rearm, Sample, Operator, MoveKey, MoveButton, vars

LEMMA CodeStep == TypeOK /\ CodeNamesLight /\ [Next]_vars => CodeNamesLight'
  <1> SUFFICES ASSUME TypeOK, CodeNamesLight, [Next]_vars PROVE CodeNamesLight'
    OBVIOUS
  <1> USE DEF CodeNamesLight, PowerUp
  <1>1. CASE UNCHANGED ledVars  BY <1>1 DEF ledVars, LightOf
  <1>2. CASE EndOfFrame
    <2>1. CASE DarkPhase  BY <2>1, LightsOfCodes DEF DarkPhase
    <2>2. CASE ColourPhase  BY <2>2, ColourFrame, LightsOfCodes
    <2>3. CASE NormalOperation  BY <2>3, NormalFrame, LightsOfCodes
    <2>q. QED  BY <1>2, <2>1, <2>2, <2>3 DEF EndOfFrame
  <1>q. QED  BY <1>1, <1>2, OnlyFrames

(* The code the host captures names the light that is lit.                 *)
THEOREM CodeAlwaysNamesLight == Spec => []CodeNamesLight
  <1>1. Init => CodeNamesLight  BY DEF Init, CodeNamesLight, PowerUp
  <1>q. QED  BY <1>1, InitType, NextType, CodeStep, PTL DEF Spec

LEMMA FlagStep == TypeOK /\ FlagNamesSequence /\ [Next]_vars => FlagNamesSequence'
  <1> SUFFICES ASSUME TypeOK, FlagNamesSequence, [Next]_vars PROVE FlagNamesSequence'
    OBVIOUS
  <1> USE DEF FlagNamesSequence
  <1>1. CASE UNCHANGED ledVars  BY <1>1 DEF ledVars, PowerUp
  <1>2. CASE EndOfFrame
    <2>1. CASE DarkPhase  BY <2>1 DEF DarkPhase
    <2>2. CASE ColourPhase
      <3>1. DATA_OUT' \in 1..6  BY <2>2, ColourFrame
      <3>q. QED  BY <2>2, <3>1 DEF ColourPhase
    <2>3. CASE NormalOperation
      <3>1. DATA_OUT' # 0  BY <2>3, NormalFrame
      <3>q. QED  BY <2>3, <3>1 DEF NormalOperation
    <2>q. QED  BY <1>2, <2>1, <2>2, <2>3 DEF EndOfFrame
  <1>q. QED  BY <1>1, <1>2, OnlyFrames

(* The calibration flag and the codes of the start-up sequence go together.*)
THEOREM FlagAlwaysNamesSequence == Spec => []FlagNamesSequence
  <1>1. Init => FlagNamesSequence  BY DEF Init, FlagNamesSequence, PowerUp
  <1>q. QED  BY <1>1, InitType, NextType, FlagStep, PTL DEF Spec
=============================================================================
