------------------------- MODULE ImagingSystem_proof -------------------------
(***************************************************************************)
(* What the whole system keeps, for every set of sessions, every bound on  *)
(* the waiting calls and every delay between exposure and delivery.  That  *)
(* every frame is filed under the light it was taken in needs the          *)
(* discipline named below, and an invariant that follows each frame from   *)
(* the sensor through the pipeline and the waiting call to its slot.  That *)
(* one of the orders of Switch Order then shows the colours in their places*)
(* is a matter of the tables, for any two lags.                            *)
(***************************************************************************)
EXTENDS ImagingSystem, TLAPS

(* The colours are different lights, and none is dark, white or a constant *)
(* the channels start with.                                                *)
LEMMA LightFacts ==
    /\ \A i \in 0..2 : {Frame!Colour[i]} # {}
    /\ \A i, j \in 0..2 : i # j => {Frame!Colour[i]} # {Frame!Colour[j]}
    /\ \A i \in 0..2 : {Frame!Colour[i]} # {"red", "green", "blue"}
    /\ \A i \in 0..2, c \in Host!Channels : {Frame!Colour[i]} # Host!Blank[c]
    /\ \A i \in 0..2 : {Frame!Colour[i]} \in Host!Lights
    /\ \A c \in Host!Channels : Host!Blank[c] # {} 
<1>1. \A i, j \in 0..2 : i # j => Frame!Colour[i] # Frame!Colour[j]
  BY DEF Frame!Colour
<1>2. \A i \in 0..2 : Frame!Colour[i] \in {"red", "green", "blue"}
  BY DEF Frame!Colour
<1>3. \A i \in 0..2 : {Frame!Colour[i]} # {"red", "green", "blue"}
  BY <1>2
<1>4. \A i \in 0..2, c \in Host!Channels : {Frame!Colour[i]} # Host!Blank[c]
  <2>1. \A c \in Host!Channels : Host!Blank[c] \in {{"ones"}, {"twos"}, {"sixes"}}
    BY DEF Host!Blank, Host!Channels
  <2>2. \A x \in {"red", "green", "blue"} : x \notin {"ones", "twos", "sixes"}
    OBVIOUS
  <2> QED  BY <1>2, <2>1, <2>2
<1>5. \A i \in 0..2 : {Frame!Colour[i]} \in Host!Lights
  BY DEF Frame!Colour, Host!Lights
<1> QED  BY <1>1, <1>3, <1>4, <1>5 DEF Host!Blank, Host!Channels

(* The code of run mode after a code, and that of calibration.             *)
NextRun(code) == IF code = 12 THEN 10 ELSE code + 1
NextCalibration(code) == IF code = 9 THEN 1 ELSE code + 1

(* Seen from the next code, the same light was on one frame longer ago.    *)
LEMMA RunLightMoves ==
    ASSUME NEW code \in Host!Channels, NEW ago \in Nat
    PROVE  /\ RunLight(NextRun(code), ago + 1) = RunLight(code, ago)
           /\ RunLight(code, ago + 1) # RunLight(code, ago)
           /\ RunLight(code, ago) # {}
           /\ RunLight(code, 0) = Frame!LightOf(code)
<1> DEFINE Index(c, n) == (c - 10 + 3 * n - n) % 3
<1>1. /\ Index(NextRun(code), ago + 1) = Index(code, ago)
      /\ Index(code, ago + 1) # Index(code, ago)
      /\ Index(code, ago) \in 0..2 /\ Index(code, ago + 1) \in 0..2
      /\ Index(code, 0) = code - 10
  <2>1. CASE code = 10  BY <2>1 DEF NextRun
  <2>2. CASE code = 11  BY <2>2 DEF NextRun
  <2>3. CASE code = 12  BY <2>3 DEF NextRun
  <2> QED  BY <2>1, <2>2, <2>3 DEF Host!Channels
<1>2. \A c, n : RunLight(c, n) = {Frame!Colour[Index(c, n)]}
  BY DEF RunLight
<1> HIDE DEF Index
<1>3. {Frame!Colour[code - 10]} = Frame!LightOf(code)
  BY DEF Frame!Colour, Frame!LightOf, Host!Channels
<1> QED  BY <1>1, <1>2, <1>3, LightFacts

(* The same for calibration, where two of three lights are dark.           *)
LEMMA CalibrationLightMoves ==
    ASSUME NEW code \in 1..9, NEW ago \in Nat
    PROVE  /\ CalibrationLight(NextCalibration(code), ago + 1) = CalibrationLight(code, ago)
           /\ CalibrationLight(code, ago) # {} <=> (code - 1 + 8 * ago) % 3 = 0
           /\ CalibrationLight(code, 0) = Frame!LightOf(code)
           /\ CalibrationLight(1, 1) = {}
<1> DEFINE Pos(c, n) == (c - 1 + 9 * n - n) % 9
           Light(p) == IF p % 3 = 0 THEN {Frame!Colour[p \div 3]} ELSE {}
<1>1. Pos(NextCalibration(code), ago + 1) = Pos(code, ago)
  BY DEF NextCalibration
<1>2. Pos(code, ago) \in 0..8 /\ Pos(code, ago) % 3 = (code - 1 + 8 * ago) % 3
  OBVIOUS
<1>3. Pos(code, 0) = code - 1 /\ Pos(1, 1) = 8
  OBVIOUS
<1>4. \A c, n : CalibrationLight(c, n) = Light(Pos(c, n))
  BY DEF CalibrationLight, Host!Dark
<1> HIDE DEF Pos
<1>5. Light(Pos(code, ago)) # {} <=> Pos(code, ago) % 3 = 0
  <2>1. Pos(code, ago) \div 3 \in 0..2  BY <1>2
  <2> QED  BY <2>1, LightFacts
<1>6. Light(code - 1) = Frame!LightOf(code)
  <2>1. CASE code \in {1, 4, 7}
    <3>1. (code - 1) % 3 = 0 /\ {Frame!Colour[(code - 1) \div 3]} = Frame!LightOf(code)
      BY <2>1 DEF Frame!Colour, Frame!LightOf
    <3> QED  BY <3>1
  <2>2. CASE code \notin {1, 4, 7}
    <3>1. (code - 1) % 3 # 0 /\ Frame!LightOf(code) = {}
      BY <2>2 DEF Frame!LightOf, Frame!Dark
    <3> QED  BY <3>1
  <2> QED  BY <2>1, <2>2
<1>7. Light(8) = {}
  OBVIOUS
<1> HIDE DEF Light
<1> QED  BY <1>1, <1>2, <1>3, <1>4, <1>5, <1>6, <1>7
-----------------------------------------------------------------------------
(* Types, one component at a time.                                         *)
LEMMA FrameTypes ==
    ASSUME Frame!TypeOK, Frame!EndOfFrame
    PROVE  Frame!TypeOK'
<1> USE DEF Frame!TypeOK
<1>1. CASE Frame!StandbyFrame
  BY <1>1 DEF Frame!EndOfFrame, Frame!StandbyFrame
<1>2. CASE Frame!CalibrationFrame
  <2>1. /\ Frame!Colour[startup_frame] \in Frame!Colours
        /\ Frame!Position + 1 \in 0..13
    BY DEF Frame!Colour, Frame!Colours, Frame!Position
  <2>2. /\ LED_output' \in {Frame!Dark} \cup {{c} : c \in Frame!Colours}
        /\ DATA_OUT' \in 0..13 /\ startup_frame' \in 0..2 /\ calibration_cnt' \in 0..2
    BY <1>2, <2>1 DEF Frame!CalibrationFrame
  <2> QED  BY <2>2 DEF Frame!EndOfFrame
<1>3. CASE Frame!RunFrame
  <2>1. /\ Frame!RunLed(LED_output) \in {Frame!Dark} \cup {{c} : c \in Frame!Colours}
        /\ Frame!RunCode(LED_output) \in 0..13
    BY DEF Frame!RunLed, Frame!RunCode, Frame!Colours
  <2> QED  BY <1>3, <2>1 DEF Frame!EndOfFrame, Frame!RunFrame
<1>4. CASE Frame!WhiteFrame \/ Frame!InvalidFrame
  BY <1>4 DEF Frame!EndOfFrame, Frame!WhiteFrame, Frame!InvalidFrame
<1> QED  BY <1>1, <1>2, <1>3, <1>4 DEF Frame!EndOfFrame

(* What is lit is a light a frame can be taken in.                         *)
LEMMA FrameLights == Frame!TypeOK => LED_output \in Host!Lights
BY DEF Frame!TypeOK, Frame!Dark, Frame!White, Frame!Colours, Host!Lights, Host!Dark

(* A step of the buttons, whatever the listeners do in it.                 *)
GuiNext ==
    \/ Gui!Prepare \/ Gui!ConfirmStart \/ Gui!StartSynchronous \/ Gui!StopSynchronous
    \/ Gui!PressUnknown \/ Gui!Calibrate \/ Gui!ReadCode \/ Gui!StartCalibration
    \/ Gui!EndCalibration \/ Gui!Reprogram \/ Gui!CloseWindow
    \/ Gui!CloseMenuItem
    \/ \E b \in {"Bayer", "Monochrome"} : Gui!StartWhite(b) \/ Gui!StopWhite(b)

(* Callbacks write 0, 1, 2 or 3 to the mode register, or leave it alone.   *)
LEMMA ModeTypes ==
    ASSUME Button_comp \in 0..7, GuiNext
    PROVE  Button_comp' \in 0..7
<1>1. Button_comp' \in {0, 1, 2, 3, Button_comp}
  BY DEF GuiNext, Gui!Prepare, Gui!ConfirmStart, Gui!StartSynchronous, Gui!StopSynchronous,
         Gui!PressUnknown, Gui!Calibrate, Gui!ReadCode, Gui!StartCalibration,
         Gui!EndCalibration, Gui!Reprogram, Gui!CloseWindow, Gui!CloseMenuItem,
         Gui!StartWhite, Gui!StopWhite, Gui!BeginCapture, Gui!EndCapture
<1> QED  BY <1>1

(* The buttons keep to the texts they know.                                *)
LEMMA ButtonTypes ==
    ASSUME Gui!TypeOK, GuiNext
    PROVE  Gui!TypeOK'
<1> DEFINE Texts == {"Prepare for Synchronous", "Confirm Start", "Stop",
                     "Prepare to Start", "Start", "Calibrate", "End Calibration",
                     "Start Bayer", "Start Monochrome"}
<1> USE DEF Gui!TypeOK
<1>1. Gui!IdleText["Bayer"] \in Texts /\ Gui!IdleText["Monochrome"] \in Texts
  BY DEF Gui!IdleText
<1>2. CASE Gui!Prepare \/ Gui!ConfirmStart \/ Gui!PressUnknown \/ Gui!Calibrate \/ Gui!ReadCode
  BY <1>2 DEF Gui!Prepare, Gui!ConfirmStart, Gui!PressUnknown, Gui!Calibrate, Gui!ReadCode
<1>3. CASE Gui!Reprogram \/ Gui!CloseWindow \/ Gui!CloseMenuItem
  BY <1>3 DEF Gui!Reprogram, Gui!CloseWindow, Gui!CloseMenuItem
<1>4. ASSUME NEW b \in Gui!Buttons, NEW text \in Texts, Gui!BeginCapture(b, text)
      PROVE  Gui!TypeOK'
  BY <1>4 DEF Gui!BeginCapture
<1>5. ASSUME NEW b \in Gui!Buttons, NEW text \in Texts, Gui!EndCapture(b, text)
      PROVE  Gui!TypeOK'
  BY <1>5 DEF Gui!EndCapture
<1>6. CASE Gui!StartSynchronous \/ Gui!StartCalibration
  BY <1>4, <1>6 DEF Gui!StartSynchronous, Gui!StartCalibration, Gui!Buttons
<1>7. CASE Gui!StopSynchronous \/ Gui!EndCalibration
  BY <1>5, <1>7 DEF Gui!StopSynchronous, Gui!EndCalibration, Gui!Buttons
<1>8. ASSUME NEW b \in {"Bayer", "Monochrome"}, Gui!StartWhite(b) \/ Gui!StopWhite(b)
      PROVE  Gui!TypeOK'
  <2>1. b \in Gui!Buttons /\ Gui!IdleText[b] \in Texts
    BY <1>1 DEF Gui!Buttons
  <2> QED  BY <2>1, <1>4, <1>5, <1>8 DEF Gui!StartWhite, Gui!StopWhite
<1> QED  BY <1>2, <1>3, <1>6, <1>7, <1>8 DEF GuiNext

(* A call that is pushed, popped, refreshed or whose listener is deleted.  *)
LEMMA StackTypes ==
    ASSUME stack \in Seq(Host!Call), Len(stack) <= MaxStack
    PROVE  /\ \A call \in Host!Call : Len(stack) # MaxStack /\ Host!Push(call)
                => stack' \in Seq(Host!Call) /\ Len(stack') <= MaxStack
           /\ stack # <<>> => Host!Top \in Host!Call
           /\ stack # <<>> /\ Host!Pop
                => stack' \in Seq(Host!Call) /\ Len(stack') <= MaxStack
           /\ \A code \in 0..13 :
                stack # <<>> /\ stack' = [stack EXCEPT ![Len(stack)].input = code]
                  => stack' \in Seq(Host!Call) /\ Len(stack') <= MaxStack
           /\ \A lh : Host!Delete(lh) => stack' \in Seq(Host!Call) /\ Len(stack') <= MaxStack
<1>b. MaxStack \in Nat  BY BoundsAssumption
<1>1. ASSUME NEW call \in Host!Call, Len(stack) # MaxStack, Host!Push(call)
      PROVE  stack' \in Seq(Host!Call) /\ Len(stack') <= MaxStack
  BY <1>b, <1>1 DEF Host!Push
<1>2. stack # <<>> => Len(stack) \in 1..Len(stack)
  OBVIOUS
<1>3. stack # <<>> => Host!Top \in Host!Call
  BY <1>2 DEF Host!Top
<1>4. ASSUME stack # <<>>, Host!Pop
      PROVE  stack' \in Seq(Host!Call) /\ Len(stack') <= MaxStack
  BY <1>b, <1>2, <1>4 DEF Host!Pop
<1>5. ASSUME NEW code \in 0..13, stack # <<>>,
             stack' = [stack EXCEPT ![Len(stack)].input = code]
      PROVE  stack' \in Seq(Host!Call) /\ Len(stack') <= MaxStack
  <2>1. [Host!Top EXCEPT !.input = code] \in Host!Call
    BY <1>3, <1>5 DEF Host!Call
  <2>2. stack' = [stack EXCEPT ![Len(stack)] = [Host!Top EXCEPT !.input = code]]
    BY <1>5, <1>2 DEF Host!Top
  <2> QED  BY <1>b, <1>2, <1>5, <2>1, <2>2
<1>6. ASSUME NEW lh, Host!Delete(lh)
      PROVE  stack' \in Seq(Host!Call) /\ Len(stack') <= MaxStack
  <2>1. \A i \in 1..Len(stack) : [stack[i] EXCEPT !.live = FALSE] \in Host!Call
    <3>1. \A c \in Host!Call : [c EXCEPT !.live = FALSE] \in Host!Call BY DEF Host!Call
    <3> QED BY <3>1
  <2>2. \A i \in 1..Len(stack) : stack[i] \in Host!Call
    OBVIOUS
  <2> DEFINE Deleted(i) == IF stack[i].listener = lh
                             THEN [stack[i] EXCEPT !.live = FALSE] ELSE stack[i]
  <2>3. \A i \in 1..Len(stack) : Deleted(i) \in Host!Call
    BY <2>1, <2>2
  <2>4. stack' = [i \in 1..Len(stack) |-> Deleted(i)]
    BY <1>6 DEF Host!Delete
  <2>5. Len(stack) \in Nat
    OBVIOUS
  <2> HIDE DEF Deleted
  <2>6. stack' \in Seq(Host!Call)
    BY <2>3, <2>4, <2>5
  <2>7. Len(stack') = Len(stack)
    BY <2>4, <2>5, <2>6
  <2> QED  BY <2>6, <2>7
<1> QED  BY <1>1, <1>3, <1>4, <1>5, <1>6
(* What a channel may hold: a frame, or what no frame has overwritten yet. *)
ChannelValues == Host!Lights \cup {Host!Blank[code] : code \in Host!Channels}

(* Everything but the stack.                                               *)
StoreOK ==
    /\ previmg \in Host!Lights /\ previousimg \in Host!Lights
    /\ input \in 0..13 /\ oldput \in 0..13 /\ previousin \in 0..13
    /\ channel \in [Host!Channels -> ChannelValues]
    /\ slot \in [Host!Slots -> Host!Lights]
    /\ cal \in [Host!Slots -> Host!Lights]

(* The listeners' types are those of the store and of the stack.           *)
LEMMA StoreAndStack ==
    /\ Host!TypeOK => StoreOK /\ stack \in Seq(Host!Call) /\ Len(stack) <= MaxStack
    /\ StoreOK' /\ stack' \in Seq(Host!Call) /\ Len(stack') <= MaxStack => Host!TypeOK'
BY DEF Host!TypeOK, StoreOK, ChannelValues

(* A frame that arrives and a call that goes on keep the types.            *)
LEMMA ListenerTypes ==
    ASSUME Host!TypeOK, readdata \in 0..13, NEW same \in BOOLEAN
    PROVE  /\ \A light \in Host!Lights :
                Len(stack) # MaxStack /\ (\/ Host!BeginRunMode(light, same)
                                          \/ Host!BeginCalibration(light, same))
                  => Host!TypeOK'
           /\ Host!ResumeRunMode(same) => Host!TypeOK'
           /\ Host!ResumeCalibration(same) => Host!TypeOK'
<1> USE StoreAndStack
<1>0. Host!TypeOK /\ UNCHANGED listenerVars => Host!TypeOK'
  BY DEF Host!TypeOK, listenerVars, runVars, calVars
<1>1. ASSUME NEW light \in Host!Lights, Len(stack) # MaxStack, Host!BeginRunMode(light, same)
      PROVE  Host!TypeOK'
  <2>1. CASE ~Host!Differ(light, previmg, same)
    BY <1>0, <1>1, <2>1 DEF Host!BeginRunMode, Host!listenerVars, Host!runVars, Host!calVars,
       listenerVars, runVars, calVars
  <2>2. CASE Host!Differ(light, previmg, same)
    <3> DEFINE call == [listener |-> "lh1", image |-> light, live |-> TRUE, input |-> 0]
    <3>1. call \in Host!Call /\ Host!Push(call)
      BY <1>1, <2>2 DEF Host!BeginRunMode, Host!Call
    <3>2. StoreOK'
      BY <1>1, <2>2 DEF Host!BeginRunMode, Host!calVars, StoreOK
    <3> QED  BY <1>1, <3>1, <3>2, StackTypes
  <2> QED  BY <2>1, <2>2
<1>2. ASSUME NEW light \in Host!Lights, Len(stack) # MaxStack, Host!BeginCalibration(light, same)
      PROVE  Host!TypeOK'
  <2>1. CASE ~Host!Differ(light, previousimg, same)
    BY <1>0, <1>2, <2>1 DEF Host!BeginCalibration, Host!listenerVars, Host!runVars, Host!calVars,
       listenerVars, runVars, calVars
  <2>2. CASE Host!Differ(light, previousimg, same)
    <3> DEFINE call == [listener |-> "lh2", image |-> light, live |-> TRUE, input |-> readdata]
    <3>1. call \in Host!Call /\ Host!Push(call)
      BY <1>2, <2>2 DEF Host!BeginCalibration, Host!Call
    <3>2. StoreOK'
      BY <1>2, <2>2 DEF Host!BeginCalibration, Host!runVars, StoreOK
    <3> QED  BY <1>2, <3>1, <3>2, StackTypes
  <2> QED  BY <2>1, <2>2
<1>3. ASSUME Host!ResumeRunMode(same)
      PROVE  Host!TypeOK'
  <2>0. stack # <<>> /\ Host!Top \in Host!Call
    BY <1>3, StackTypes DEF Host!ResumeRunMode
  <2>1. CASE input = oldput
    BY <1>3, <2>1 DEF Host!ResumeRunMode, Host!calVars, StoreOK
  <2>2. CASE input # oldput
    <3>1. Host!Top.image \in Host!Lights
      BY <2>0 DEF Host!Call
    <3>2. channel' \in [Host!Channels -> ChannelValues]
      BY <1>3, <2>2, <3>1 DEF Host!ResumeRunMode, Host!FileInChannel, StoreOK,
                                ChannelValues
    <3>3. StoreOK'
      BY <1>3, <2>2, <3>2 DEF Host!ResumeRunMode, Host!calVars, StoreOK
    <3> QED  BY <1>3, <2>0, <2>2, <3>3, StackTypes DEF Host!ResumeRunMode
  <2> QED  BY <2>1, <2>2
<1>4. ASSUME Host!ResumeCalibration(same)
      PROVE  Host!TypeOK'
  <2>0. stack # <<>> /\ Host!Top \in Host!Call
    BY <1>4, StackTypes DEF Host!ResumeCalibration
  <2>1. CASE Host!Top.input = previousin
    BY <1>4, <2>0, <2>1, StackTypes DEF Host!ResumeCalibration, Host!runVars, StoreOK
  <2>2. CASE Host!Top.input # previousin
    <3>1. Host!Top.image \in Host!Lights /\ Host!Top.input \in 0..13
      BY <2>0 DEF Host!Call
    <3>2. slot' \in [Host!Slots -> Host!Lights]
      BY <1>4, <2>2, <3>1 DEF Host!ResumeCalibration, Host!FileInSlot, StoreOK
    <3>3. StoreOK'
      BY <1>4, <2>2, <3>1, <3>2 DEF Host!ResumeCalibration, Host!runVars, StoreOK
    <3> QED  BY <1>4, <2>0, <2>2, <3>3, StackTypes DEF Host!ResumeCalibration
  <2> QED  BY <2>1, <2>2
<1> QED  BY <1>1, <1>2, <1>3, <1>4

(* So does what the callbacks do to the listeners' variables.              *)
LEMMA CallbackTypes ==
    ASSUME Host!TypeOK, readdata \in 0..13
    PROVE  /\ Host!PrepareRunMode => Host!TypeOK'
           /\ Host!ConfirmRunMode => Host!TypeOK'
           /\ Host!PrepareCalibration => Host!TypeOK'
           /\ Host!FinishCalibration => Host!TypeOK'
           /\ Host!Delete("lh1") /\ UNCHANGED <<runVars, calVars, cal>> => Host!TypeOK'
<1> USE StoreAndStack DEF Host!runVars, Host!calVars, runVars, calVars
<1>1. ASSUME Host!PrepareRunMode PROVE Host!TypeOK'
  <2>1. /\ Host!Blank \in [Host!Channels -> ChannelValues]
        /\ Host!Dark \in Host!Lights
    BY DEF Host!Blank, Host!Lights, ChannelValues
  <2> QED  BY <1>1, <2>1 DEF Host!PrepareRunMode, StoreOK
<1>2. ASSUME Host!ConfirmRunMode PROVE Host!TypeOK'
  BY <1>2 DEF Host!ConfirmRunMode, StoreOK
<1>3. ASSUME Host!PrepareCalibration PROVE Host!TypeOK'
  <2>1. /\ Host!NoSlots \in [Host!Slots -> Host!Lights]
        /\ Host!Dark \in Host!Lights
    BY DEF Host!NoSlots, Host!Lights
  <2>2. slot[0] \in Host!Lights
    BY DEF StoreOK, Host!Slots
  <2> QED  BY <1>3, <2>1, <2>2 DEF Host!PrepareCalibration, StoreOK
<1>4. ASSUME Host!FinishCalibration PROVE Host!TypeOK'
  BY <1>4, StackTypes DEF Host!FinishCalibration, StoreOK
<1>5. ASSUME Host!Delete("lh1"), UNCHANGED <<runVars, calVars, cal>> PROVE Host!TypeOK'
  BY <1>5, StackTypes DEF StoreOK
<1> QED  BY <1>1, <1>2, <1>3, <1>4, <1>5
-----------------------------------------------------------------------------
(* What a frame does to the pipeline: it shifts, and once it is full its   *)
(* oldest element is delivered.                                            *)
Exposed == <<LED_output>> \o pipeline

(* The exposed frame is first in the longer pipeline, the others move up.  *)
LEMMA ExposedFrames ==
    ASSUME NEW S, pipeline \in Seq(S), LED_output \in S
    PROVE  /\ Exposed \in Seq(S)
           /\ Len(Exposed) = Len(pipeline) + 1
           /\ Exposed[1] = LED_output
           /\ \A i \in 1..Len(pipeline) : Exposed[i + 1] = pipeline[i]
           /\ \A n \in Nat : n <= Len(pipeline) =>
                /\ SubSeq(Exposed, 1, n) \in Seq(S)
                /\ Len(SubSeq(Exposed, 1, n)) = n
                /\ \A i \in 1..n : SubSeq(Exposed, 1, n)[i] = Exposed[i]
<1>1. Exposed \in Seq(S) /\ Len(Exposed) = Len(pipeline) + 1
  BY DEF Exposed
<1>2. Exposed[1] = LED_output
  BY DEF Exposed
<1>3. \A i \in 1..Len(pipeline) : Exposed[i + 1] = pipeline[i]
  BY DEF Exposed
<1>4. ASSUME NEW n \in Nat, n <= Len(pipeline)
      PROVE  /\ SubSeq(Exposed, 1, n) \in Seq(S)
             /\ Len(SubSeq(Exposed, 1, n)) = n
             /\ \A i \in 1..n : SubSeq(Exposed, 1, n)[i] = Exposed[i]
  BY <1>1, <1>4
<1> QED  BY <1>1, <1>2, <1>3, <1>4

(* An end of frame empties the pipeline of a camera that does not stream, *)
(* makes it longer, or delivers its oldest frame.                          *)
LEMMA ExposeSteps ==
    ASSUME pipeline \in Seq(Host!Lights), Len(pipeline) <= DELAY,
           LED_output \in Host!Lights, Expose
    PROVE  \/ ~Streams /\ pipeline' = <<>> /\ UNCHANGED <<image, pending>>
           \/ /\ Streams /\ Len(pipeline) < DELAY
              /\ pipeline' = Exposed /\ UNCHANGED <<image, pending>>
           \/ /\ Streams /\ Len(pipeline) = DELAY
              /\ pipeline' \in Seq(Host!Lights) /\ Len(pipeline') = DELAY
              /\ \A i \in 1..DELAY : pipeline'[i] = Exposed[i]
              /\ image' = Exposed[DELAY + 1]
              /\ pending' = Streaming
<1>1. DELAY \in Nat
  BY BoundsAssumption
<1>2. CASE ~Streams
  BY <1>2 DEF Expose
<1>3. CASE Streams /\ Len(Exposed) <= DELAY
  BY <1>1, <1>3, ExposedFrames DEF Expose, Exposed
<1>4. CASE Streams /\ ~(Len(Exposed) <= DELAY)
  <2>1. Len(pipeline) = DELAY
    BY <1>1, <1>4, ExposedFrames
  <2>2. /\ pipeline' = SubSeq(Exposed, 1, DELAY)
        /\ image' = Exposed[DELAY + 1] /\ pending' = Streaming
    BY <1>4 DEF Expose, Exposed
  <2> QED  BY <1>1, <1>4, <2>1, <2>2, ExposedFrames
<1> QED  BY <1>2, <1>3, <1>4

(* With no provider left behind, the one in use has all the listeners.     *)
LEMMA SessionExposes ==
    ASSUME pipeline \in Seq(Host!Lights), Len(pipeline) <= DELAY,
           LED_output \in Host!Lights, Expose, orphaned = {}
    PROVE  \/ ~capturing /\ pipeline' = <<>> /\ UNCHANGED <<image, pending>>
           \/ /\ capturing /\ Len(pipeline) < DELAY
              /\ pipeline' = Exposed /\ UNCHANGED <<image, pending>>
           \/ /\ capturing /\ Len(pipeline) = DELAY
              /\ pipeline' \in Seq(Host!Lights) /\ Len(pipeline') = DELAY
              /\ \A i \in 1..DELAY : pipeline'[i] = Exposed[i]
              /\ image' = Exposed[DELAY + 1]
              /\ pending' = attached
<1>1. (Streams <=> capturing) /\ (capturing => Streaming = attached)
  BY DEF Streams, Streaming
<1> QED  BY <1>1, ExposeSteps

(* The variables keep their types for every set of sessions, every delay   *)
(* and every bound on the waiting calls, whatever the host misses.         *)
THEOREM SystemTypeCorrect == Spec => []TypeOK
<1>1. Init => TypeOK
  <2> SUFFICES ASSUME Init PROVE TypeOK  OBVIOUS
  <2>1. Frame!TypeOK
    BY DEF Init, Gui!Init, Frame!TypeOK
  <2>2. Gui!TypeOK
    <3>1. Gui!IdleText \in [Gui!Buttons -> {"Prepare for Synchronous", "Calibrate",
                                            "Start Bayer", "Start Monochrome"}]
      <4>1. Gui!IdleText = [b \in Gui!Buttons |-> Gui!IdleText[b]]
        BY DEF Gui!IdleText, Gui!Buttons
      <4>2. \A b \in Gui!Buttons : Gui!IdleText[b] \in {"Prepare for Synchronous", "Calibrate",
                                            "Start Bayer", "Start Monochrome"}
        <5>1. /\ Gui!IdleText["StartSynchronous"] = "Prepare for Synchronous"
              /\ Gui!IdleText["Calibrate"] = "Calibrate"
              /\ Gui!IdleText["Bayer"] = "Start Bayer"
              /\ Gui!IdleText["Monochrome"] = "Start Monochrome"
          BY DEF Gui!IdleText
        <5> QED  BY <5>1 DEF Gui!Buttons
      <4> QED  BY <4>1, <4>2
    <3> QED  BY <3>1 DEF Init, Gui!Init, Gui!TypeOK
  <2>3. Host!TypeOK
    <3>1. /\ Host!Blank \in [Host!Channels -> ChannelValues]
          /\ Host!NoSlots \in [Host!Slots -> Host!Lights]
          /\ Host!Dark \in Host!Lights
      BY DEF Host!Blank, Host!NoSlots, Host!Lights, ChannelValues
    <3>2. StoreOK
      BY <3>1 DEF Init, Host!Init, StoreOK
    <3>3. stack = <<>> /\ MaxStack \in Nat
      BY BoundsAssumption DEF Init, Host!Init
    <3> QED  BY <3>2, <3>3 DEF Host!TypeOK, StoreOK, ChannelValues
  <2>4. /\ pipeline \in Seq(Host!Lights) /\ Len(pipeline) <= DELAY
        /\ image \in Host!Lights /\ pending \subseteq attached \cup orphaned
        /\ KEY \in {0, 1}
    BY BoundsAssumption DEF Init, Host!Lights
  <2> QED  BY <2>1, <2>2, <2>3, <2>4 DEF TypeOK
<1>2. TypeOK /\ [Next]_vars => TypeOK'
  <2> SUFFICES ASSUME TypeOK, [Next]_vars PROVE TypeOK'  OBVIOUS
  <2>0. /\ Frame!TypeOK /\ Gui!TypeOK /\ Host!TypeOK
        /\ Button_comp \in 0..7 /\ DATA_OUT \in 0..13
        /\ pipeline \in Seq(Host!Lights) /\ Len(pipeline) <= DELAY
        /\ image \in Host!Lights /\ pending \subseteq attached \cup orphaned
        /\ KEY \in {0, 1}
    BY DEF TypeOK, Frame!TypeOK
  <2>r. readdata \in 0..13
    BY <2>0 DEF readdata
  <2>l. UNCHANGED listenerVars => Host!TypeOK'
    BY <2>0 DEF listenerVars, runVars, calVars, Host!TypeOK
  <2>b. UNCHANGED buttonVars => Gui!TypeOK'
    BY <2>0 DEF buttonVars, Gui!TypeOK
  <2>f. UNCHANGED ledVars /\ Button_comp' \in 0..7 => Frame!TypeOK'
    BY <2>0 DEF ledVars, Frame!TypeOK
  <2>1. CASE EndOfFrame
    <3>1. Frame!TypeOK' /\ Gui!TypeOK' /\ Host!TypeOK'
      BY <2>0, <2>1, <2>l, <2>b, FrameTypes DEF EndOfFrame
    <3>2. LED_output \in Host!Lights
      BY <2>0, FrameLights
    <3>3. DELAY \in Nat
      BY BoundsAssumption
    <3>4. /\ pipeline' \in Seq(Host!Lights) /\ Len(pipeline') <= DELAY
          /\ image' \in Host!Lights /\ pending' \subseteq attached' \cup orphaned'
      <4>1. Exposed \in Seq(Host!Lights) /\ Len(Exposed) = Len(pipeline) + 1
            /\ \A i \in 1..Len(Exposed) : Exposed[i] \in Host!Lights
        BY <2>0, <3>2, ExposedFrames
      <4>2. Expose /\ attached' = attached /\ orphaned' = orphaned
        BY <2>1 DEF EndOfFrame, buttonVars
      <4>3. CASE pipeline' = <<>> /\ UNCHANGED <<image, pending>>
        BY <2>0, <3>3, <4>2, <4>3
      <4>4. CASE Len(pipeline) < DELAY /\ pipeline' = Exposed /\ UNCHANGED <<image, pending>>
        BY <2>0, <3>3, <4>1, <4>2, <4>4
      <4>5. CASE /\ Len(pipeline) = DELAY
                 /\ pipeline' \in Seq(Host!Lights) /\ Len(pipeline') = DELAY
                 /\ image' = Exposed[DELAY + 1]
                 /\ pending' = Streaming
        <5>1. pending' \subseteq attached' \cup orphaned'
          BY <4>2, <4>5 DEF Streaming
        <5> QED  BY <2>0, <3>3, <4>1, <4>5, <5>1
      <4> QED  BY <2>0, <3>2, <4>2, <4>3, <4>4, <4>5, ExposeSteps
    <3> QED  BY <2>0, <2>1, <3>1, <3>4 DEF TypeOK, EndOfFrame
  <2>2. CASE PressKey
    <3>1. Button_comp' \in 0..7
      BY <2>2 DEF PressKey, Frame!ResetButton
    <3>2. Frame!TypeOK' /\ Gui!TypeOK' /\ Host!TypeOK'
      BY <2>2, <3>1, <2>l, <2>b, <2>f DEF PressKey, Frame!ResetButton, Frame!ledVars, ledVars
    <3> QED  BY <2>0, <2>2, <3>2 DEF TypeOK, PressKey, cameraVars, buttonVars
  <2>7. CASE ReleaseKey
    <3>1. Frame!TypeOK' /\ Gui!TypeOK' /\ Host!TypeOK'
      BY <2>0, <2>7, <2>l, <2>b, <2>f DEF ReleaseKey
    <3> QED  BY <2>0, <2>7, <3>1 DEF TypeOK, ReleaseKey, cameraVars, buttonVars
  <2>3. ASSUME NEW same \in BOOLEAN, Resume(same) PROVE TypeOK'
    <3>1. Host!TypeOK'
      BY <2>0, <2>r, <2>3, ListenerTypes DEF Resume
    <3>2. Frame!TypeOK' /\ Gui!TypeOK'
      BY <2>0, <2>3, <2>b, <2>f DEF Resume
    <3> QED  BY <2>0, <2>3, <3>1, <3>2 DEF TypeOK, Resume, cameraVars, buttonVars
  <2>4. ASSUME NEW same \in BOOLEAN, NEW lh \in pending, Deliver(lh, same) PROVE TypeOK'
    <3>1. Host!TypeOK'
      BY <2>0, <2>r, <2>4, <2>l, ListenerTypes DEF Deliver
    <3>2. Frame!TypeOK' /\ Gui!TypeOK'
      BY <2>0, <2>4, <2>b, <2>f DEF Deliver
    <3> QED  BY <2>0, <2>4, <3>1, <3>2 DEF TypeOK, Deliver, buttonVars
  <2>5. CASE Callback
    <3>1. GuiNext
      BY <2>5 DEF Callback, PrepareSynchronous, ConfirmSynchronous, StopSynchronous,
                  ReadCalibrationCode, EndCalibration, OtherButton, GuiNext
    <3>2. Gui!TypeOK' /\ Button_comp' \in 0..7
      BY <2>0, <3>1, ButtonTypes, ModeTypes
    <3>3. Frame!TypeOK'
      BY <2>5, <3>2, <2>f DEF Callback
    <3>4. Host!TypeOK'
      BY <2>0, <2>r, <2>5, <2>l, CallbackTypes
         DEF Callback, PrepareSynchronous, ConfirmSynchronous, StopSynchronous,
             ReadCalibrationCode, EndCalibration, OtherButton
    <3>5. pipeline' \in Seq(Host!Lights) /\ Len(pipeline') <= DELAY
      <4>1. DELAY \in Nat  BY BoundsAssumption
      <4>2. pipeline' = pipeline \/ pipeline' = <<>>
        BY <2>5 DEF Callback
      <4>3. CASE pipeline' = pipeline  BY <2>0, <4>3
      <4>4. CASE pipeline' = <<>>
        <5>1. <<>> \in Seq(Host!Lights) /\ Len(<<>>) = 0  OBVIOUS
        <5> QED  BY <4>1, <4>4, <5>1
      <4> QED  BY <4>2, <4>3, <4>4
    <3> QED  BY <2>0, <2>5, <3>2, <3>3, <3>4, <3>5 DEF TypeOK, Callback
  <2>6. CASE UNCHANGED vars
    BY <2>0, <2>6, <2>l, <2>b, <2>f DEF TypeOK, vars, cameraVars, buttonVars
  <2> QED  BY <2>1, <2>2, <2>3, <2>4, <2>5, <2>6, <2>7 DEF Next
<1> QED  BY <1>1, <1>2, PTL DEF Spec
-----------------------------------------------------------------------------
(* The system moves the sequencer as FrameSequencer does: the mode register *)
(* changes by what the callbacks write and by KEY, all else at an end of   *)
(* frame.                                                                  *)
THEOREM SystemHasSequencer == Spec => [][Frame!Next]_(Frame!vars)
<1>1. [Next]_vars => [Frame!Next]_(Frame!vars)
  <2> SUFFICES ASSUME [Next]_vars PROVE [Frame!Next]_(Frame!vars)
    OBVIOUS
  <2> USE DEF Frame!vars, Frame!ledVars, ledVars
  <2>1. CASE EndOfFrame
    BY <2>1 DEF EndOfFrame, Frame!Next
  <2>2. CASE PressKey \/ ReleaseKey
    BY <2>2 DEF PressKey, ReleaseKey, Frame!Next
  <2>3. CASE \E same \in BOOLEAN : Resume(same) \/ \E lh \in pending : Deliver(lh, same)
    BY <2>3 DEF Resume, Deliver
  <2>4. CASE Callback
    <3>1. GuiNext /\ UNCHANGED ledVars
      BY <2>4 DEF Callback, PrepareSynchronous, ConfirmSynchronous, StopSynchronous,
                  ReadCalibrationCode, EndCalibration, OtherButton, GuiNext
    <3>2. Button_comp' \in {0, 1, 2, 3, Button_comp}
      BY <3>1 DEF GuiNext, Gui!Prepare, Gui!ConfirmStart, Gui!StartSynchronous,
             Gui!StopSynchronous, Gui!PressUnknown, Gui!Calibrate, Gui!ReadCode,
             Gui!StartCalibration, Gui!EndCalibration, Gui!Reprogram, Gui!CloseWindow,
             Gui!CloseMenuItem, Gui!StartWhite, Gui!StopWhite, Gui!BeginCapture, Gui!EndCapture
    <3>3. CASE Button_comp' = Button_comp
      BY <3>1, <3>3
    <3>4. CASE Button_comp' \in 0..3
      <4>1. PICK value \in 0..3 : Button_comp' = value % 8
        BY <3>4
      <4> QED  BY <3>1, <4>1 DEF Frame!Next, Frame!WriteButton
    <3> QED  BY <3>2, <3>3, <3>4
  <2>5. CASE UNCHANGED vars
    BY <2>5 DEF vars
  <2> QED  BY <2>1, <2>2, <2>3, <2>4, <2>5 DEF Next
<1> QED  BY <1>1, PTL DEF Spec

(* And it presses the buttons as CaptureButtons does, unless KEY resets    *)
(* the mode behind the window's back: frames and waiting calls do nothing  *)
(* to the window.                                                          *)
THEOREM SystemHasButtons == ~WithKey => (Spec => Gui!Spec)
<1> SUFFICES ASSUME ~WithKey PROVE Spec => Gui!Spec
  OBVIOUS
<1>1. Init => Gui!Init
  BY DEF Init
<1>2. [Next]_vars => [Gui!Next]_<<Gui!buttonVars, Button_comp>>
  <2> SUFFICES ASSUME [Next]_vars PROVE [Gui!Next]_<<Gui!buttonVars, Button_comp>>
    OBVIOUS
  <2> USE DEF Gui!buttonVars, buttonVars
  <2>1. CASE EndOfFrame
    BY <2>1 DEF EndOfFrame, Frame!EndOfFrame
  <2>2. CASE \E same \in BOOLEAN : Resume(same) \/ \E lh \in pending : Deliver(lh, same)
    BY <2>2 DEF Resume, Deliver
  <2>3. CASE Callback
    BY <2>3 DEF Callback, PrepareSynchronous, ConfirmSynchronous, StopSynchronous,
                ReadCalibrationCode, EndCalibration, OtherButton, Gui!Next
  <2>4. CASE ReleaseKey \/ UNCHANGED vars
    BY <2>4 DEF ReleaseKey, vars
  <2> QED  BY <2>1, <2>2, <2>3, <2>4 DEF Next, PressKey
<1> QED  BY <1>1, <1>2, PTL DEF Spec, Gui!Spec

-----------------------------------------------------------------------------
(* The conditions under which nothing is filed under a wrong code: one     *)
(* session at a time, a host that serves a frame before the next ends and  *)
(* reads the code and starts the capture within one frame, too, an         *)
(* operator who waits for the LEDs to go off, frames of one light that     *)
(* differ only in the dark, and no press of KEY.  The delay matters where  *)
(* the code read before the first frame may come round again by the time   *)
(* that frame arrives: after three codes in run mode, nine in calibration. *)
Disciplined ==
    /\ OneAtATime /\ Prompt /\ ~SlowStart /\ Settle /\ ~WithKey
    /\ Noisy \subseteq {Host!Dark}
    /\ DELAY % 9 \in {0, 1, 3, 4}

Preparing == label["StartSynchronous"] = "Confirm Start"
InRun == label["StartSynchronous"] = "Stop"
InCal == label["Calibrate"] = "End Calibration"
Bayer == label["Bayer"] = "Stop"
Monochrome == label["Monochrome"] = "Stop"
Reading == calling = "readCode"
Ready == calling = "startCalibration"

(* At most one session has begun, and at most one callback is split.       *)
OneSession ==
    /\ Preparing \/ InRun => ~InCal /\ ~Bayer /\ ~Monochrome /\ ~Reading /\ ~Ready
    /\ InCal => ~Bayer /\ ~Monochrome
    /\ Bayer => ~Monochrome
    /\ InRun \/ InCal \/ Bayer \/ Monochrome \/ status # "open" => calling = "nothing"
    /\ calling = "startSynchronous" => Preparing

ModeOfSession ==
    Button_comp = IF Preparing \/ InRun THEN 2
                  ELSE IF Reading \/ Ready \/ InCal THEN 1
                  ELSE IF Bayer \/ Monochrome THEN 3 ELSE 0

(* Who listens and whether frames are captured: no provider is left behind *)
(* with listeners on it.                                                   *)
ListenersOfSession ==
    /\ capturing <=> InRun \/ InCal \/ Bayer \/ Monochrome
    /\ attached = IF InRun THEN {"lh1"} ELSE IF InCal THEN {"lh2"}
                  ELSE IF Bayer THEN {"lh3"} ELSE IF Monochrome THEN {"lh4"} ELSE {}
    /\ orphaned = {}

(* The code and the light agree outside white light, the counters stand    *)
(* where the code says, and a session sees only codes of its own mode.     *)
SequencerInStep ==
    /\ LED_output # Frame!White => LED_output = Frame!LightOf(DATA_OUT)
    /\ Frame!CodeTracksCalibration
    /\ Preparing \/ InRun => LED_output # Frame!White /\ DATA_OUT \in {0} \cup Host!Channels
    /\ Reading \/ Ready \/ InCal => LED_output # Frame!White /\ DATA_OUT \in 0..9

(* A call that waits holds a frame of the light its code stands for, and   *)
(* has not filed under that code last: it is the one the host serves       *)
(* before the code can change.                                             *)
Fresh(call) ==
    \/ /\ call.listener = "lh1"
       /\ DATA_OUT \in Host!Channels /\ input = DATA_OUT /\ oldput # DATA_OUT
       /\ call.image \in {Host!Dark, RunLight(DATA_OUT, LAG)}
    \/ /\ call.listener = "lh2"
       /\ DATA_OUT \in 1..9 /\ call.input = DATA_OUT /\ previousin # DATA_OUT
       /\ call.image = CalibrationLight(DATA_OUT, LAG)

OneFreshCall == Len(stack) = 1 /\ Fresh(stack[1])
Quiet == stack = <<>> /\ pending = {}

(* Between sessions and under white light: a call may be left behind.      *)
Between ==
    /\ stack = <<>> \/ OneFreshCall
    /\ DATA_OUT = 0 /\ LED_output = Frame!Dark => pipeline = <<>>

(* Run mode before the first frame arrives: the pipeline fills with the    *)
(* lights of the codes before, the oldest perhaps still dark, and the code *)
(* read at the start is as many codes back as there are frames in it.      *)
RunWarm ==
    /\ Quiet /\ previmg = Host!Dark
    /\ DATA_OUT = 0 => pipeline = <<>> /\ oldput = 0
    /\ oldput # 0 => /\ oldput \in Host!Channels
                     /\ (DATA_OUT + 3 - oldput) % 3 = Len(pipeline) % 3
    /\ \A i \in 1..Len(pipeline) :
          \/ pipeline[i] = RunLight(DATA_OUT, i)
          \/ i = Len(pipeline) /\ oldput = 0 /\ pipeline[i] = Host!Dark

(* From then on it is full, and every frame is delivered, perhaps waits,   *)
(* and is filed or dropped before the next one.                            *)
RunSteady ==
    /\ Len(pipeline) = DELAY /\ DATA_OUT \in Host!Channels
    /\ \A i \in 1..DELAY : pipeline[i] = RunLight(DATA_OUT, i)

RunDelivered ==
    /\ RunSteady
    /\ stack = <<>> /\ pending = {"lh1"} /\ oldput # DATA_OUT
    /\ \/ /\ image = RunLight(DATA_OUT, LAG)
          /\ previmg \in {Host!Dark, RunLight(DATA_OUT, LAG + 1)}
       \/ image = Host!Dark /\ previmg = Host!Dark /\ oldput = 0

RunWaiting ==
    /\ RunSteady
    /\ pending = {} /\ OneFreshCall /\ stack[1].listener = "lh1"
    /\ previmg = stack[1].image

RunServed ==
    /\ RunSteady
    /\ Quiet /\ oldput \in {0, DATA_OUT}
    /\ previmg \in {Host!Dark, RunLight(DATA_OUT, LAG)}

(* Calibration, likewise.  Two of three frames are dark and may be dropped *)
(* as like the one before, and then the code of the last frame that was    *)
(* filed falls behind: never by all of the nine, because a lit frame,      *)
(* which always differs, comes at every third code.                        *)
Behind == (DATA_OUT + 9 - previousin) % 9
SinceLit == (DATA_OUT - 1 + 8 * LAG) % 3
CalibrationPipeline ==
    \A i \in 1..Len(pipeline) : pipeline[i] = CalibrationLight(DATA_OUT, i)

CalibrationReady ==
    /\ Quiet /\ previousimg = Host!Dark
    /\ previousin \in 0..9
    /\ DATA_OUT = 0 => previousin = 0 /\ pipeline = <<>>

CalibrationWarm ==
    /\ CalibrationReady /\ CalibrationPipeline
    /\ previousin # 0 => Behind \in {Len(pipeline) % 9, (Len(pipeline) + 1) % 9}

CalibrationSteady ==
    /\ Len(pipeline) = DELAY /\ DATA_OUT \in 1..9
    /\ CalibrationPipeline /\ previousin \in 0..9

CalibrationDelivered ==
    /\ CalibrationSteady
    /\ stack = <<>> /\ pending = {"lh2"}
    /\ image = CalibrationLight(DATA_OUT, LAG)
    /\ previousimg \in {Host!Dark, CalibrationLight(DATA_OUT, LAG + 1)}
    /\ previousin # 0 => Behind \in 1..(IF SinceLit = 0 THEN 8 ELSE 5 + SinceLit)

CalibrationWaiting ==
    /\ CalibrationSteady
    /\ pending = {} /\ OneFreshCall /\ stack[1].listener = "lh2"
    /\ previousimg = stack[1].image

CalibrationServed ==
    /\ CalibrationSteady
    /\ Quiet /\ previousimg = CalibrationLight(DATA_OUT, LAG)
    /\ previousin # 0 => Behind \in 0..(5 + SinceLit)

(* Where a frame stands on its way from the sensor to its slot.            *)
Stage ==
    /\ ~Preparing /\ ~InRun /\ ~Reading /\ ~Ready /\ ~InCal => Between
    /\ Preparing => Quiet /\ previmg = Host!Dark /\ pipeline = <<>>
    /\ calling = "startSynchronous" => oldput = DATA_OUT
    /\ InRun => RunWarm \/ RunDelivered \/ RunWaiting \/ RunServed
    /\ Reading => Quiet /\ pipeline = <<>>
    /\ Ready => /\ CalibrationReady /\ pipeline = <<>>
                /\ previousin # 0 => Behind \in {0, 1}
    /\ InCal => \/ CalibrationWarm \/ CalibrationDelivered
                \/ CalibrationWaiting \/ CalibrationServed

(* The calibration matrices come from slots that kept step.                *)
Filed ==
    /\ ChannelsKeepStep /\ SlotsKeepStep
    /\ \A code \in 1..9 : cal[code] \in {Host!Dark, CalibrationLight(code, LAG)}


SessionInv == OneSession /\ ModeOfSession /\ ListenersOfSession

(* No button is busy: none is in a session.                                *)
LEMMA Idling ==
    ASSUME Gui!NoneBusy
    PROVE  ~Preparing /\ ~InRun /\ ~InCal /\ ~Bayer /\ ~Monochrome
<1>1. /\ Gui!BusyText["StartSynchronous"] = {"Confirm Start", "Stop"}
      /\ Gui!BusyText["Calibrate"] = {"End Calibration"}
      /\ Gui!BusyText["Bayer"] = {"Stop"} /\ Gui!BusyText["Monochrome"] = {"Stop"}
  BY DEF Gui!BusyText
<1> QED  BY <1>1 DEF Gui!NoneBusy, Gui!Busy, Gui!Buttons, Preparing, InRun, InCal, Bayer, Monochrome

(* Each button's own listener and idle text.                               *)
LEMMA Texts ==
    /\ Gui!Listener["StartSynchronous"] = "lh1" /\ Gui!Listener["Calibrate"] = "lh2"
    /\ Gui!Listener["Bayer"] = "lh3" /\ Gui!Listener["Monochrome"] = "lh4"
    /\ Gui!IdleText["Bayer"] = "Start Bayer" /\ Gui!IdleText["Monochrome"] = "Start Monochrome"
BY DEF Gui!Listener, Gui!IdleText

(* No callback begins a session over another, and each session has its     *)
(* own mode and its own listener.                                          *)
LEMMA SessionsStep ==
    ASSUME OneAtATime, Gui!TypeOK, SessionInv, GuiNext
    PROVE  SessionInv'
<1> USE DEF Preparing, InRun, InCal, Bayer, Monochrome, Reading, Ready, Gui!Buttons,
            SessionInv, OneSession, ModeOfSession, ListenersOfSession
<1>a. DOMAIN label = Gui!Buttons
  BY DEF Gui!TypeOK
<1>1. CASE Gui!Prepare
  BY <1>1, <1>a, Idling DEF Gui!Prepare, Gui!MayBegin, Gui!Idle
<1>2. CASE Gui!ConfirmStart
  BY <1>2 DEF Gui!ConfirmStart, Gui!Idle
<1>3. CASE Gui!StartSynchronous
  BY <1>3, <1>a, Texts DEF Gui!StartSynchronous, Gui!BeginCapture
<1>4. CASE Gui!StopSynchronous
  BY <1>4, <1>a, Texts DEF Gui!StopSynchronous, Gui!EndCapture, Gui!Idle
<1>5. CASE Gui!PressUnknown
  BY <1>5, Idling DEF Gui!PressUnknown, Gui!MayBegin, Gui!Idle
<1>6. CASE Gui!Calibrate
  BY <1>6, Idling DEF Gui!Calibrate, Gui!MayBegin, Gui!Idle
<1>7. CASE Gui!ReadCode
  BY <1>7 DEF Gui!ReadCode
<1>8. CASE Gui!StartCalibration
  BY <1>8, <1>a, Texts DEF Gui!StartCalibration, Gui!BeginCapture
<1>9. CASE Gui!EndCalibration
  BY <1>9, <1>a, Texts DEF Gui!EndCalibration, Gui!EndCapture, Gui!Idle
<1>10. ASSUME NEW b \in {"Bayer", "Monochrome"}, Gui!StartWhite(b) PROVE SessionInv'
  <2>1. CASE b = "Bayer"
    BY <1>10, <2>1, <1>a, Idling, Texts
       DEF Gui!StartWhite, Gui!MayBegin, Gui!BeginCapture, Gui!Idle
  <2>2. CASE b = "Monochrome"
    BY <1>10, <2>2, <1>a, Idling, Texts
       DEF Gui!StartWhite, Gui!MayBegin, Gui!BeginCapture, Gui!Idle
  <2> QED  BY <2>1, <2>2
<1>11. ASSUME NEW b \in {"Bayer", "Monochrome"}, Gui!StopWhite(b) PROVE SessionInv'
  <2>1. CASE b = "Bayer"
    BY <1>11, <2>1, <1>a, Texts DEF Gui!StopWhite, Gui!EndCapture, Gui!Idle
  <2>2. CASE b = "Monochrome"
    BY <1>11, <2>2, <1>a, Texts DEF Gui!StopWhite, Gui!EndCapture, Gui!Idle
  <2> QED  BY <2>1, <2>2
<1>12. CASE Gui!Reprogram
  BY <1>12, <1>a, Idling DEF Gui!Reprogram, Gui!Idle
<1>13. CASE Gui!CloseWindow \/ Gui!CloseMenuItem
  <2>1. /\ ~Preparing /\ ~InRun /\ ~InCal /\ ~Bayer /\ ~Monochrome
        /\ calling = "nothing" /\ calling' = "nothing"
        /\ UNCHANGED <<label, orphaned, Button_comp>>
    BY <1>13, Idling DEF Gui!CloseWindow, Gui!CloseMenuItem, Gui!Idle
  <2>2. attached = {} /\ ~capturing
    BY <2>1
  <2>3. CASE Gui!CloseWindow
    <3>1. attached' = {} /\ capturing' = FALSE
      BY <2>3 DEF Gui!CloseWindow
    <3> QED  BY <2>1, <3>1
  <2>4. CASE Gui!CloseMenuItem
    <3>1. UNCHANGED <<attached, capturing>>
      BY <2>4 DEF Gui!CloseMenuItem
    <3> QED  BY <2>1, <2>2, <3>1
  <2> QED  BY <1>13, <2>3, <2>4
<1> QED
  BY <1>1, <1>2, <1>3, <1>4, <1>5, <1>6, <1>7, <1>8, <1>9, <1>10, <1>11, <1>12, <1>13
     DEF GuiNext

-----------------------------------------------------------------------------
(* The mode of the session decides what an end of frame does.              *)
LEMMA FrameSteps ==
    ASSUME Frame!TypeOK, OneSession, ModeOfSession, SequencerInStep, Frame!EndOfFrame
    PROVE  \/ /\ ~Preparing /\ ~InRun /\ ~Reading /\ ~Ready /\ ~InCal
              /\ \/ ~Bayer /\ ~Monochrome /\ Frame!StandbyFrame
                 \/ (Bayer \/ Monochrome) /\ Frame!WhiteFrame
           \/ /\ Reading \/ Ready \/ InCal
              /\ ~Preparing /\ ~InRun
              /\ Frame!CalibrationFrame
              /\ DATA_OUT' = IF DATA_OUT = 0 THEN 1 ELSE NextCalibration(DATA_OUT)
              /\ LED_output' = Frame!LightOf(DATA_OUT')
           \/ /\ Preparing \/ InRun
              /\ ~Reading /\ ~Ready /\ ~InCal
              /\ Frame!RunFrame
              /\ DATA_OUT' = IF DATA_OUT = 0 THEN 10 ELSE NextRun(DATA_OUT)
              /\ LED_output' = Frame!LightOf(DATA_OUT')
<1>0. Button_comp \in 0..3
  BY DEF ModeOfSession
<1>1. CASE Frame!StandbyFrame \/ Frame!WhiteFrame
  BY <1>1 DEF ModeOfSession, Frame!StandbyFrame, Frame!WhiteFrame
<1>2. CASE Frame!CalibrationFrame
  <2>1. (Reading \/ Ready \/ InCal) /\ ~Preparing /\ ~InRun
    BY <1>2 DEF ModeOfSession, Frame!CalibrationFrame
  <2>2. DATA_OUT \in 0..9
    BY <2>1 DEF SequencerInStep
  <2>3. /\ startup_frame \in 0..2 /\ calibration_cnt \in 0..2
        /\ DATA_OUT' = 3 * startup_frame + calibration_cnt + 1
        /\ LED_output' = IF calibration_cnt = 0 THEN {Frame!Colour[startup_frame]} ELSE Frame!Dark
    BY <1>2 DEF Frame!CalibrationFrame, Frame!TypeOK, Frame!Position
  <2>4. DATA_OUT' = IF DATA_OUT = 0 THEN 1 ELSE NextCalibration(DATA_OUT)
    BY <2>2, <2>3 DEF SequencerInStep, Frame!CodeTracksCalibration, Frame!Position, NextCalibration
  <2>5. LED_output' = Frame!LightOf(DATA_OUT')
    <3>1. CASE calibration_cnt = 0
      <4>1. \/ DATA_OUT' = 1 /\ LED_output' = {"red"}
            \/ DATA_OUT' = 4 /\ LED_output' = {"green"}
            \/ DATA_OUT' = 7 /\ LED_output' = {"blue"}
        BY <2>3, <3>1 DEF Frame!Colour
      <4> QED  BY <4>1 DEF Frame!LightOf
    <3>2. CASE calibration_cnt # 0
      <4>1. LED_output' = Frame!Dark /\ DATA_OUT' \in {2, 3, 5, 6, 8, 9}
        BY <2>3, <3>2
      <4> QED  BY <4>1 DEF Frame!LightOf
    <3> QED  BY <3>1, <3>2
  <2> QED  BY <1>2, <2>1, <2>4, <2>5
<1>3. CASE Frame!RunFrame
  <2>1. Preparing \/ InRun
    BY <1>3 DEF ModeOfSession, Frame!RunFrame
  <2>2. ~Reading /\ ~Ready /\ ~InCal
    BY <2>1 DEF OneSession
  <2>3. DATA_OUT \in {0, 10, 11, 12} /\ LED_output = Frame!LightOf(DATA_OUT)
    BY <2>1 DEF SequencerInStep, Host!Channels
  <2>4. /\ {"red"} # {"green"} /\ {"red"} # {"blue"} /\ {"green"} # {"blue"}
        /\ {} # {"red"} /\ {} # {"green"} /\ {} # {"blue"}
    OBVIOUS
  <2>5. LED_output' = Frame!RunLed(LED_output) /\ DATA_OUT' = Frame!RunCode(LED_output)
    BY <1>3 DEF Frame!RunFrame
  <2>6. \/ DATA_OUT = 0 /\ LED_output = {}
        \/ DATA_OUT = 10 /\ LED_output = {"red"}
        \/ DATA_OUT = 11 /\ LED_output = {"green"}
        \/ DATA_OUT = 12 /\ LED_output = {"blue"}
    BY <2>3 DEF Frame!LightOf, Frame!Dark
  <2>7. \/ DATA_OUT = 0 /\ DATA_OUT' = 10 /\ LED_output' = {"red"}
        \/ DATA_OUT = 10 /\ DATA_OUT' = 11 /\ LED_output' = {"green"}
        \/ DATA_OUT = 11 /\ DATA_OUT' = 12 /\ LED_output' = {"blue"}
        \/ DATA_OUT = 12 /\ DATA_OUT' = 10 /\ LED_output' = {"red"}
    BY <2>4, <2>5, <2>6 DEF Frame!RunLed, Frame!RunCode, Frame!Dark
  <2>8. DATA_OUT' = IF DATA_OUT = 0 THEN 10 ELSE NextRun(DATA_OUT)
    BY <2>7 DEF NextRun
  <2>9. LED_output' = Frame!LightOf(DATA_OUT')
    BY <2>7 DEF Frame!LightOf
  <2> QED  BY <1>3, <2>1, <2>2, <2>8, <2>9
<1> QED  BY <1>0, <1>1, <1>2, <1>3 DEF Frame!EndOfFrame, Frame!InvalidFrame

(* The sequencer stays in step with its code at every end of frame.        *)
LEMMA FrameKeepsStep ==
    ASSUME Frame!TypeOK, OneSession, ModeOfSession, SequencerInStep, Frame!EndOfFrame,
           UNCHANGED buttonVars
    PROVE  SequencerInStep'
<1>0. UNCHANGED <<label, calling>>
  BY DEF buttonVars
<1>1. /\ Frame!CodeTracksCalibration'
  <2>1. CASE Frame!StandbyFrame \/ Frame!WhiteFrame
    BY <2>1 DEF Frame!StandbyFrame, Frame!WhiteFrame, SequencerInStep,
                Frame!CodeTracksCalibration, Frame!Position
  <2>2. CASE Frame!CalibrationFrame
    <3>1. /\ startup_frame \in 0..2 /\ calibration_cnt \in 0..2
          /\ DATA_OUT' = 3 * startup_frame + calibration_cnt + 1
          /\ calibration_cnt' = (calibration_cnt + 1) % 3
          /\ startup_frame' = IF calibration_cnt = 2 THEN (startup_frame + 1) % 3
                                                     ELSE startup_frame
      BY <2>2 DEF Frame!CalibrationFrame, Frame!TypeOK, Frame!Position
    <3>2. DATA_OUT' \in 1..9 /\ DATA_OUT' % 9 = 3 * startup_frame' + calibration_cnt'
      BY <3>1
    <3> QED  BY <3>2 DEF Frame!CodeTracksCalibration, Frame!Position
  <2>3. CASE Frame!RunFrame
    <3>1. Frame!RunCode(LED_output) \in 10..13
      BY DEF Frame!RunCode
    <3>2. DATA_OUT' \in 10..13
      BY <2>3, <3>1 DEF Frame!RunFrame
    <3> QED  BY <3>2 DEF Frame!CodeTracksCalibration
  <2> QED  BY <2>1, <2>2, <2>3, FrameSteps
<1>2. CASE Frame!StandbyFrame /\ ~Preparing /\ ~InRun /\ ~Reading /\ ~Ready /\ ~InCal
  <2>1. LED_output' = Frame!LightOf(DATA_OUT')
    BY <1>2 DEF Frame!StandbyFrame, Frame!LightOf
  <2> QED  BY <1>0, <1>1, <1>2, <2>1
           DEF SequencerInStep, Preparing, InRun, Reading, Ready, InCal
<1>3. CASE Frame!WhiteFrame /\ ~Preparing /\ ~InRun /\ ~Reading /\ ~Ready /\ ~InCal
  BY <1>0, <1>1, <1>3 DEF SequencerInStep, Preparing, InRun, Reading, Ready, InCal,
                          Frame!WhiteFrame, Frame!White
<1>l. \A code : Frame!LightOf(code) # Frame!White
  <2>1. Frame!White # {"red"}
        /\ Frame!White # {"green"} /\ Frame!White # {"blue"} /\ Frame!White # {}
    <3>1. "red" # "green" /\ "red" # "blue"  OBVIOUS
    <3> QED  BY <3>1 DEF Frame!White, Frame!Colours
  <2> QED  BY <2>1 DEF Frame!LightOf, Frame!Dark
<1>4. CASE /\ ~Preparing /\ ~InRun
           /\ Reading \/ Ready \/ InCal
           /\ DATA_OUT' = IF DATA_OUT = 0 THEN 1 ELSE NextCalibration(DATA_OUT)
           /\ LED_output' = Frame!LightOf(DATA_OUT')
  <2>1. DATA_OUT' \in 0..9
    BY <1>4 DEF SequencerInStep, NextCalibration
  <2> QED  BY <1>0, <1>1, <1>4, <1>l, <2>1
           DEF SequencerInStep, Preparing, InRun, Reading, Ready, InCal
<1>5. CASE /\ ~Reading /\ ~Ready /\ ~InCal
           /\ Preparing \/ InRun
           /\ DATA_OUT' = IF DATA_OUT = 0 THEN 10 ELSE NextRun(DATA_OUT)
           /\ LED_output' = Frame!LightOf(DATA_OUT')
  <2>1. DATA_OUT' \in Host!Channels
    BY <1>5 DEF SequencerInStep, NextRun, Host!Channels
  <2> QED  BY <1>0, <1>1, <1>5, <1>l, <2>1
           DEF SequencerInStep, Preparing, InRun, Reading, Ready, InCal
<1> QED  BY <1>2, <1>3, <1>4, <1>5, FrameSteps
-----------------------------------------------------------------------------
(* In every stage at most one call waits, and it is fresh; so a frame that *)
(* has been served leaves none.                                            *)
LEMMA CallsInStage ==
    ASSUME OneSession, Stage
    PROVE  stack = <<>> \/ OneFreshCall
BY DEF OneSession, Stage, Between, Quiet, RunWarm, RunDelivered, RunWaiting, RunServed,
       CalibrationReady, CalibrationWarm, CalibrationDelivered, CalibrationWaiting,
       CalibrationServed

(* What the prompt host waits for: nothing under way at an end of frame.   *)
LEMMA ServedIsQuiet ==
    ASSUME ~SlowStart, KEY = 1, OneSession, Stage, Served
    PROVE  /\ Quiet /\ calling # "startSynchronous"
           /\ Ready => previousin = DATA_OUT
<1>r. readdata = DATA_OUT
  BY DEF readdata
<1>1. ~OneFreshCall
  <2> SUFFICES ASSUME OneFreshCall PROVE FALSE  OBVIOUS
  <2>1. stack # <<>> /\ Host!Top = stack[1] /\ Fresh(stack[1])
    BY DEF OneFreshCall, Host!Top
  <2> QED  BY <1>r, <2>1 DEF Served, Fresh
<1> QED  BY <1>r, <1>1, CallsInStage DEF Served, Quiet, Ready

(* Run mode at an end of frame.                                            *)
LEMMA RunFrameMoves ==
    ASSUME Disciplined, TypeOK, SequencerInStep, InRun, Quiet,
           RunWarm \/ RunServed,
           capturing, attached = {"lh1"}, orphaned = {}, Expose, UNCHANGED listenerVars,
           DATA_OUT' = IF DATA_OUT = 0 THEN 10 ELSE NextRun(DATA_OUT)
    PROVE  RunWarm' \/ RunDelivered'
<1>0. /\ DELAY \in Nat /\ LAG = DELAY + 1 /\ DELAY % 3 \in {0, 1}
      /\ LAG \in Nat
  <2>1. DELAY \in Nat  BY BoundsAssumption
  <2>2. DELAY % 9 \in {0, 1, 3, 4}  BY DEF Disciplined
  <2>3. DELAY % 3 \in {0, 1}  BY <2>1, <2>2
  <2> QED  BY <2>1, <2>3 DEF LAG
<1>1. /\ pipeline \in Seq(Host!Lights) /\ Len(pipeline) \in Nat /\ Len(pipeline) <= DELAY
      /\ LED_output \in Host!Lights
  BY FrameLights DEF TypeOK
<1>2. DATA_OUT \in {0} \cup Host!Channels /\ LED_output = Frame!LightOf(DATA_OUT)
  BY DEF SequencerInStep
<1>3. /\ DATA_OUT' \in Host!Channels /\ DATA_OUT' # 0
      /\ DATA_OUT # 0 => DATA_OUT' = NextRun(DATA_OUT)
  BY <1>2 DEF NextRun, Host!Channels
<1>u. UNCHANGED <<stack, previmg, input, oldput>>
  BY DEF listenerVars, runVars
<1>d. 0 \notin Host!Channels
  BY DEF Host!Channels
(* What the longer pipeline holds, seen from the new code.                 *)
<1>4. /\ Len(Exposed) = Len(pipeline) + 1
      /\ \A i \in 1..Len(pipeline) : Exposed[i + 1] = pipeline[i]
      /\ Exposed[1] = LED_output
  BY <1>1, ExposedFrames
<1>5. \A n \in Nat : DATA_OUT # 0 => RunLight(DATA_OUT', n + 1) = RunLight(DATA_OUT, n)
  BY <1>2, <1>3, RunLightMoves
<1>6. IF DATA_OUT = 0 THEN LED_output = {} ELSE LED_output = RunLight(DATA_OUT', 1)
  <2>1. CASE DATA_OUT = 0
    BY <1>2, <2>1 DEF Frame!LightOf, Frame!Dark
  <2>2. CASE DATA_OUT # 0
    BY <1>2, <1>5, <2>2, RunLightMoves
  <2> QED  BY <2>1, <2>2
<1>7. ASSUME NEW i \in 1..Len(Exposed)
      PROVE  \/ Exposed[i] = RunLight(DATA_OUT', i)
             \/ RunWarm /\ i = Len(Exposed) /\ oldput = 0 /\ Exposed[i] = {}
  <2>1. CASE i = 1
    <3>1. CASE DATA_OUT # 0  BY <1>4, <1>6, <2>1, <3>1
    <3>2. CASE DATA_OUT = 0
      <4>1. RunWarm
        BY <1>d, <3>2 DEF RunServed, RunSteady
      <4>2. pipeline = <<>> /\ oldput = 0
        BY <3>2, <4>1 DEF RunWarm
      <4> QED  BY <1>4, <1>6, <2>1, <3>2, <4>1, <4>2
    <3> QED  BY <3>1, <3>2
  <2>2. CASE i # 1
    <3> DEFINE j == i - 1
    <3>1. j \in 1..Len(pipeline) /\ i = j + 1 /\ j \in Nat
      BY <1>1, <1>4, <2>2
    <3>2. Exposed[i] = pipeline[j] /\ DATA_OUT # 0
      <4>1. pipeline # <<>>  BY <3>1
      <4> QED  BY <1>4, <1>d, <3>1, <4>1 DEF RunWarm, RunServed, RunSteady
    <3>3. \/ pipeline[j] = RunLight(DATA_OUT, j)
          \/ RunWarm /\ j = Len(pipeline) /\ oldput = 0 /\ pipeline[j] = {}
      BY <3>1 DEF RunWarm, RunServed, RunSteady, Host!Dark
    <3> HIDE DEF j
    <3> QED  BY <1>4, <1>5, <3>1, <3>2, <3>3
  <2> QED  BY <2>1, <2>2
<1>8. CASE Len(pipeline) < DELAY /\ pipeline' = Exposed /\ UNCHANGED <<image, pending>>
  <2>1. RunWarm
    BY <1>1, <1>8 DEF RunServed, RunSteady
  <2>2. oldput # 0 => (DATA_OUT' + 3 - oldput) % 3 = Len(pipeline') % 3
    <3>1. SUFFICES ASSUME oldput # 0
                   PROVE  (DATA_OUT' + 3 - oldput) % 3 = (Len(pipeline) + 1) % 3
      BY <1>4, <1>8
    <3>2. /\ oldput \in 10..12 /\ DATA_OUT \in 10..12
          /\ (DATA_OUT + 3 - oldput) % 3 = Len(pipeline) % 3
      BY <1>2, <2>1, <3>1 DEF RunWarm, Host!Channels
    <3>3. DATA_OUT' = IF DATA_OUT = 12 THEN 10 ELSE DATA_OUT + 1
      BY <3>2 DEF NextRun
    <3>4. (DATA_OUT' + 3 - oldput) % 3 = (((DATA_OUT + 3 - oldput) % 3) + 1) % 3
      BY <3>2, <3>3
    <3>5. (Len(pipeline) + 1) % 3 = ((Len(pipeline) % 3) + 1) % 3
      BY <1>1
    <3> QED  BY <3>2, <3>4, <3>5
  <2>3. \A i \in 1..Len(pipeline') :
          \/ pipeline'[i] = RunLight(DATA_OUT', i)
          \/ i = Len(pipeline') /\ oldput = 0 /\ pipeline'[i] = {}
    BY <1>7, <1>8
  <2>4. Quiet' /\ previmg' = {} /\ oldput' = oldput
    BY <1>8, <1>u, <2>1 DEF Quiet, RunWarm, Host!Dark
  <2>5. oldput # 0 => oldput \in Host!Channels
    BY <2>1 DEF RunWarm
  <2> QED  BY <1>3, <2>2, <2>3, <2>4, <2>5 DEF RunWarm, Host!Dark
<1>9. CASE /\ Len(pipeline) = DELAY
           /\ pipeline' \in Seq(Host!Lights) /\ Len(pipeline') = DELAY
           /\ \A i \in 1..DELAY : pipeline'[i] = Exposed[i]
           /\ image' = Exposed[DELAY + 1]
           /\ pending' = attached
  <2>1. RunSteady'
    <3>1. \A i \in 1..DELAY : i \in 1..Len(Exposed) /\ i # Len(Exposed)
      BY <1>0, <1>4, <1>9
    <3>2. \A i \in 1..DELAY : pipeline'[i] = RunLight(DATA_OUT', i)
      BY <1>7, <1>9, <3>1
    <3> QED  BY <1>3, <1>9, <3>2 DEF RunSteady
  <2>2. \/ image' = RunLight(DATA_OUT', LAG)
        \/ RunWarm /\ oldput = 0 /\ image' = {}
    <3>1. DELAY + 1 \in 1..Len(Exposed)
      BY <1>0, <1>4, <1>9
    <3> QED  BY <1>0, <1>7, <1>9, <3>1
  <2>3. oldput # DATA_OUT'
    <3>1. CASE RunServed
      <4>1. oldput \in {0, DATA_OUT} /\ DATA_OUT \in 10..12
        BY <3>1 DEF RunServed, RunSteady, Host!Channels
      <4>2. NextRun(DATA_OUT) # DATA_OUT
        BY <4>1 DEF NextRun
      <4> QED  BY <1>3, <4>1, <4>2
    <3>2. CASE RunWarm
      <4>1. CASE oldput = 0  BY <1>3, <4>1
      <4>2. CASE oldput # 0
        <5>1. /\ oldput \in 10..12 /\ DATA_OUT \in 10..12
              /\ (DATA_OUT + 3 - oldput) % 3 = DELAY % 3
          BY <1>2, <1>9, <3>2, <4>2 DEF RunWarm, Host!Channels
        <5>2. DATA_OUT' = IF DATA_OUT = 12 THEN 10 ELSE DATA_OUT + 1
          BY <5>1 DEF NextRun
        <5> QED  BY <1>0, <5>1, <5>2
      <4> QED  BY <4>1, <4>2
    <3> QED  BY <3>1, <3>2
  <2>4. \/ previmg = {}
        \/ previmg = RunLight(DATA_OUT', LAG + 1)
    <3>1. CASE RunWarm  BY <3>1 DEF RunWarm, Host!Dark
    <3>2. CASE RunServed
      <4>1. DATA_OUT # 0 /\ previmg \in {{}, RunLight(DATA_OUT, LAG)}
        BY <1>d, <3>2 DEF RunServed, RunSteady, Host!Dark
      <4> QED  BY <1>0, <1>5, <4>1
    <3> QED  BY <3>1, <3>2
  <2>5. RunWarm => previmg = {}
    BY DEF RunWarm, Host!Dark
  <2>6. stack' = <<>> /\ pending' = {"lh1"}
    BY <1>9, <1>u DEF Quiet
  <2> QED  BY <1>u, <2>1, <2>2, <2>3, <2>4, <2>5, <2>6 DEF RunDelivered, Host!Dark
<1> QED  BY <1>1, <1>8, <1>9, SessionExposes
(* Calibration at an end of frame.                                         *)
LEMMA CalibrationFrameMoves ==
    ASSUME Disciplined, TypeOK, SequencerInStep, InCal, Quiet,
           CalibrationWarm \/ CalibrationServed,
           capturing, attached = {"lh2"}, orphaned = {}, Expose, UNCHANGED listenerVars,
           DATA_OUT' = IF DATA_OUT = 0 THEN 1 ELSE NextCalibration(DATA_OUT)
    PROVE  CalibrationWarm' \/ CalibrationDelivered'
<1>0. /\ DELAY \in Nat /\ LAG = DELAY + 1 /\ LAG \in Nat
      /\ DELAY % 9 \in {0, 1, 3, 4}
  BY BoundsAssumption DEF Disciplined, LAG
<1>1. /\ pipeline \in Seq(Host!Lights) /\ Len(pipeline) \in Nat /\ Len(pipeline) <= DELAY
      /\ LED_output \in Host!Lights
  BY FrameLights DEF TypeOK
<1>2. DATA_OUT \in 0..9 /\ LED_output = Frame!LightOf(DATA_OUT)
  BY DEF SequencerInStep
<1>3. /\ DATA_OUT' \in 1..9
      /\ DATA_OUT # 0 => DATA_OUT' = NextCalibration(DATA_OUT)
  BY <1>2 DEF NextCalibration
<1>u. UNCHANGED <<stack, previousimg, previousin>>
  BY DEF listenerVars, calVars
<1>p. previousin \in 0..9
  BY DEF CalibrationWarm, CalibrationReady, CalibrationServed, CalibrationSteady
<1>4. /\ Len(Exposed) = Len(pipeline) + 1
      /\ \A i \in 1..Len(pipeline) : Exposed[i + 1] = pipeline[i]
      /\ Exposed[1] = LED_output
  BY <1>1, ExposedFrames
<1>5. \A n \in Nat :
           DATA_OUT # 0 => CalibrationLight(DATA_OUT', n + 1) = CalibrationLight(DATA_OUT, n)
  <2> SUFFICES ASSUME NEW n \in Nat, DATA_OUT # 0
               PROVE  CalibrationLight(DATA_OUT', n + 1) = CalibrationLight(DATA_OUT, n)
    OBVIOUS
  <2>1. DATA_OUT \in 1..9 /\ DATA_OUT' = NextCalibration(DATA_OUT)
    BY <1>2, <1>3
  <2> QED  BY <2>1, CalibrationLightMoves
<1>6. LED_output = CalibrationLight(DATA_OUT', 1)
  <2>1. CASE DATA_OUT = 0
    <3>1. DATA_OUT' = 1 /\ LED_output = {}
      BY <1>2, <2>1 DEF Frame!LightOf, Frame!Dark
    <3>2. 1 \in 1..9 /\ 0 \in Nat  OBVIOUS
    <3> QED  BY <3>1, <3>2, CalibrationLightMoves
  <2>2. CASE DATA_OUT # 0
    <3>1. DATA_OUT \in 1..9 /\ 0 \in Nat  BY <1>2, <2>2
    <3>2. CalibrationLight(DATA_OUT, 0) = Frame!LightOf(DATA_OUT)
      BY <3>1, CalibrationLightMoves
    <3> QED  BY <1>2, <1>5, <2>2, <3>2
  <2> QED  BY <2>1, <2>2
<1>7. ASSUME NEW i \in 1..Len(Exposed)
      PROVE  Exposed[i] = CalibrationLight(DATA_OUT', i)
  <2>1. CASE i = 1  BY <1>4, <1>6, <2>1
  <2>2. CASE i # 1
    <3> DEFINE j == i - 1
    <3>1. j \in 1..Len(pipeline) /\ i = j + 1 /\ j \in Nat
      BY <1>1, <1>4, <2>2
    <3>2. DATA_OUT # 0
      <4>1. pipeline # <<>>  BY <3>1
      <4> QED  BY <4>1 DEF CalibrationWarm, CalibrationReady, CalibrationServed, CalibrationSteady
    <3>3. Exposed[i] = pipeline[j] /\ pipeline[j] = CalibrationLight(DATA_OUT, j)
      BY <1>4, <3>1 DEF CalibrationWarm, CalibrationServed, CalibrationSteady, CalibrationPipeline
    <3> HIDE DEF j
    <3> QED  BY <1>5, <3>1, <3>2, <3>3
  <2> QED  BY <2>1, <2>2
(* The code of the last frame filed falls one further behind.              *)
<1>b. previousin # 0 => /\ Behind \in 0..8 /\ Behind' = (Behind + 1) % 9
                        /\ DATA_OUT # 0
  <2>1. SUFFICES ASSUME previousin # 0
                 PROVE  Behind \in 0..8 /\ Behind' = (Behind + 1) % 9 /\ DATA_OUT # 0
    OBVIOUS
  <2>2. DATA_OUT # 0
    BY <2>1 DEF CalibrationWarm, CalibrationReady, CalibrationServed, CalibrationSteady
  <2>3. DATA_OUT' = IF DATA_OUT = 9 THEN 1 ELSE DATA_OUT + 1
    BY <1>3, <2>2 DEF NextCalibration
  <2> QED  BY <1>p, <1>u, <1>2, <2>1, <2>2, <2>3 DEF Behind
<1>8. CASE Len(pipeline) < DELAY /\ pipeline' = Exposed /\ UNCHANGED <<image, pending>>
  <2>1. CalibrationWarm
    BY <1>1, <1>8 DEF CalibrationServed, CalibrationSteady
  <2>2. previousin # 0 => Behind' \in {(Len(pipeline) + 1) % 9, (Len(pipeline) + 2) % 9}
    <3>1. SUFFICES ASSUME previousin # 0
                   PROVE  Behind' \in {(Len(pipeline) + 1) % 9, (Len(pipeline) + 2) % 9}
      OBVIOUS
    <3>2. Behind \in {Len(pipeline) % 9, (Len(pipeline) + 1) % 9} /\ Behind' = (Behind + 1) % 9
      BY <1>b, <2>1, <3>1 DEF CalibrationWarm
    <3>3. (Len(pipeline) + 1) % 9 = ((Len(pipeline) % 9) + 1) % 9
      BY <1>1
    <3>4. (Len(pipeline) + 2) % 9 = (((Len(pipeline) + 1) % 9) + 1) % 9
      BY <1>1
    <3> QED  BY <3>2, <3>3, <3>4
  <2>3. CalibrationPipeline'
    BY <1>7, <1>8 DEF CalibrationPipeline
  <2>4. CalibrationReady'
    BY <1>3, <1>8, <1>p, <1>u, <2>1 DEF CalibrationWarm, CalibrationReady, Quiet
  <2>5. Len(pipeline') = Len(pipeline) + 1 /\ Len(pipeline') + 1 = Len(pipeline) + 2
    BY <1>1, <1>4, <1>8
  <2> QED  BY <1>u, <2>2, <2>3, <2>4, <2>5 DEF CalibrationWarm
<1>9. CASE /\ Len(pipeline) = DELAY
           /\ pipeline' \in Seq(Host!Lights) /\ Len(pipeline') = DELAY
           /\ \A i \in 1..DELAY : pipeline'[i] = Exposed[i]
           /\ image' = Exposed[DELAY + 1]
           /\ pending' = attached
  <2>1. CalibrationSteady'
    <3>1. \A i \in 1..DELAY : i \in 1..Len(Exposed)
      BY <1>0, <1>4, <1>9
    <3> QED  BY <1>3, <1>7, <1>9, <1>p, <1>u, <3>1 DEF CalibrationSteady, CalibrationPipeline
  <2>2. image' = CalibrationLight(DATA_OUT', LAG)
    <3>1. DELAY + 1 \in 1..Len(Exposed)
      BY <1>0, <1>4, <1>9
    <3> QED  BY <1>0, <1>7, <1>9, <3>1
  <2>3. previousimg \in {{}, CalibrationLight(DATA_OUT', LAG + 1)}
    <3>1. CASE CalibrationWarm
      BY <3>1 DEF CalibrationWarm, CalibrationReady, Host!Dark
    <3>2. CASE CalibrationServed
      <4>1. DATA_OUT # 0 /\ previousimg = CalibrationLight(DATA_OUT, LAG)
        BY <3>2 DEF CalibrationServed, CalibrationSteady
      <4> QED  BY <1>0, <1>5, <4>1
    <3> QED  BY <3>1, <3>2
  <2>4. previousin # 0 => Behind' \in 1..(IF SinceLit' = 0 THEN 8 ELSE 5 + SinceLit')
    <3> SUFFICES ASSUME previousin # 0
                 PROVE  Behind' \in 1..(IF SinceLit' = 0 THEN 8 ELSE 5 + SinceLit')
      OBVIOUS
    <3>1. Behind \in 0..8 /\ Behind' = (Behind + 1) % 9 /\ DATA_OUT \in 1..9
      BY <1>2, <1>b
    <3>2. SinceLit \in 0..2 /\ SinceLit' = (SinceLit + 1) % 3
      <4>1. DATA_OUT' = IF DATA_OUT = 9 THEN 1 ELSE DATA_OUT + 1
        BY <1>3, <3>1 DEF NextCalibration
      <4>2. LAG \in Nat  BY <1>0
      <4> QED  BY <3>1, <4>1, <4>2 DEF SinceLit
    <3>3. CASE CalibrationServed
      <4>1. Behind \in 0..(5 + SinceLit)
        BY <3>3 DEF CalibrationServed
      <4> QED  BY <3>1, <3>2, <4>1
    <3>4. CASE CalibrationWarm
      <4>1. Behind \in {DELAY % 9, (DELAY + 1) % 9}
        BY <1>9, <3>4 DEF CalibrationWarm
      <4>2. (DELAY + 1) % 9 = ((DELAY % 9) + 1) % 9
        BY <1>0
      <4>3. Behind \in 0..5
        BY <1>0, <4>1, <4>2
      <4> QED  BY <3>1, <3>2, <4>3
    <3> QED  BY <3>3, <3>4
  <2>5. stack' = <<>> /\ pending' = {"lh2"}
    BY <1>9, <1>u DEF Quiet
  <2> QED  BY <1>u, <2>1, <2>2, <2>3, <2>4, <2>5 DEF CalibrationDelivered, Host!Dark
<1> QED  BY <1>1, <1>8, <1>9, SessionExposes
(* An end of frame finds the one before it served, and leads each stage to *)
(* the next.                                                               *)
LEMMA FrameMovesStage ==
    ASSUME Disciplined, KEY = 1, TypeOK, OneSession, ModeOfSession, ListenersOfSession,
           SequencerInStep, Stage, Served, Frame!EndOfFrame, Expose,
           UNCHANGED <<buttonVars, listenerVars>>
    PROVE  Stage'
<1> USE DEF Preparing, InRun, InCal, Bayer, Monochrome, Reading, Ready
<1>0. /\ Quiet /\ calling # "startSynchronous"
      /\ Ready => previousin = DATA_OUT
  BY ServedIsQuiet DEF Disciplined
<1>t. /\ Frame!TypeOK
      /\ pipeline \in Seq(Host!Lights) /\ Len(pipeline) <= DELAY /\ LED_output \in Host!Lights
  BY FrameLights DEF TypeOK
<1>u. /\ UNCHANGED <<label, calling, status, attached, capturing>>
      /\ UNCHANGED <<stack, previmg, oldput, input, previousimg, previousin>>
  BY DEF buttonVars, listenerVars, runVars, calVars
<1>e. ~capturing => pipeline' = <<>> /\ UNCHANGED <<image, pending>>
  BY DEF Expose, Streams, ListenersOfSession
<1>q. ~OneFreshCall /\ pending # {"lh1"} /\ pending # {"lh2"}
  <2>1. Len(stack) = 0 /\ pending = {}
    BY <1>0 DEF Quiet
  <2> QED  BY <2>1 DEF OneFreshCall
<1>1. CASE /\ ~Preparing /\ ~InRun /\ ~Reading /\ ~Ready /\ ~InCal
           /\ \/ ~Bayer /\ ~Monochrome /\ Frame!StandbyFrame
              \/ (Bayer \/ Monochrome) /\ Frame!WhiteFrame
  <2>1. stack' = <<>>
    BY <1>0, <1>u DEF Quiet
  <2>2. DATA_OUT' = 0 /\ LED_output' = Frame!Dark => pipeline' = <<>>
    <3>1. CASE ~Bayer /\ ~Monochrome
      BY <1>1, <1>e, <3>1 DEF ListenersOfSession
    <3>2. CASE Frame!WhiteFrame
      BY <3>2 DEF Frame!WhiteFrame, Frame!White, Frame!Dark, Frame!Colours
    <3> QED  BY <1>1, <3>1, <3>2
  <2>3. Between'
    BY <2>1, <2>2 DEF Between
  <2> QED  BY <1>0, <1>1, <1>u, <2>3 DEF Stage
<1>2. CASE /\ Reading \/ Ready \/ InCal
           /\ ~Preparing /\ ~InRun
           /\ DATA_OUT' = IF DATA_OUT = 0 THEN 1 ELSE NextCalibration(DATA_OUT)
  <2>0. DATA_OUT \in 0..9 /\ DATA_OUT' \in 1..9
    <3>1. DATA_OUT \in 0..9  BY <1>2 DEF SequencerInStep
    <3>2. DATA_OUT' = IF DATA_OUT = 0 THEN 1 ELSE IF DATA_OUT = 9 THEN 1 ELSE DATA_OUT + 1
      BY <1>2 DEF NextCalibration
    <3> QED  BY <3>1, <3>2
  <2>1. CASE Reading
    <3>1. ~InCal /\ ~Ready  BY <2>1 DEF OneSession
    <3>2. ~capturing  BY <1>2, <2>1, <3>1 DEF OneSession, ListenersOfSession
    <3>3. Quiet' /\ pipeline' = <<>>
      BY <1>0, <1>e, <1>u, <3>2 DEF Quiet
    <3> QED  BY <1>0, <1>2, <1>u, <2>1, <3>1, <3>3 DEF Stage
  <2>2. CASE Ready
    <3>1. ~InCal /\ ~Reading  BY <2>2 DEF OneSession
    <3>2. ~capturing  BY <1>2, <2>2, <3>1 DEF OneSession, ListenersOfSession
    <3>3. CalibrationReady' /\ pipeline' = <<>>
      <4>1. CalibrationReady /\ pipeline' = <<>>
        BY <1>e, <2>2, <3>2 DEF Stage
      <4>2. Quiet'
        BY <1>0, <1>e, <1>u, <3>2 DEF Quiet
      <4> QED  BY <1>u, <2>0, <4>1, <4>2 DEF CalibrationReady
    <3>4. previousin # 0 => Behind' \in {0, 1}
      <4>1. previousin = DATA_OUT  BY <1>0, <2>2
      <4>2. DATA_OUT # 0 => DATA_OUT' = IF DATA_OUT = 9 THEN 1 ELSE DATA_OUT + 1
        BY <1>2 DEF NextCalibration
      <4>3. CASE DATA_OUT = 9
        BY <1>u, <4>1, <4>2, <4>3 DEF Behind
      <4>4. CASE DATA_OUT \in 1..8
        <5>1. Behind' = (DATA_OUT + 1 + 9 - DATA_OUT) % 9
          BY <1>u, <4>1, <4>2, <4>4 DEF Behind
        <5> QED  BY <4>4, <5>1
      <4> QED  BY <2>0, <4>1, <4>3, <4>4
    <3> QED  BY <1>0, <1>2, <1>u, <2>2, <3>1, <3>3, <3>4 DEF Stage
  <2>3. CASE InCal
    <3>1. ~Ready /\ ~Reading  BY <2>3 DEF OneSession
    <3>2. capturing /\ attached = {"lh2"} /\ orphaned = {}
      BY <1>2, <2>3 DEF OneSession, ListenersOfSession
    <3>3. CalibrationWarm \/ CalibrationServed
      BY <1>0, <1>q, <2>3 DEF Stage, Quiet, CalibrationDelivered, CalibrationWaiting
    <3>4. CalibrationWarm' \/ CalibrationDelivered'
      BY <1>0, <1>2, <2>3, <3>2, <3>3, CalibrationFrameMoves
    <3> QED  BY <1>0, <1>2, <1>u, <2>3, <3>1, <3>4 DEF Stage
  <2> QED  BY <1>2, <2>1, <2>2, <2>3
<1>3. CASE /\ Preparing \/ InRun
           /\ ~Reading /\ ~Ready /\ ~InCal
           /\ DATA_OUT' = IF DATA_OUT = 0 THEN 10 ELSE NextRun(DATA_OUT)
  <2>1. CASE Preparing
    <3>1. ~capturing /\ ~InRun
      BY <1>3, <2>1 DEF OneSession, ListenersOfSession
    <3>2. Quiet' /\ previmg' = Host!Dark /\ pipeline' = <<>>
      BY <1>0, <1>e, <1>u, <2>1, <3>1 DEF Quiet, Stage
    <3> QED  BY <1>0, <1>3, <1>u, <2>1, <3>1, <3>2 DEF Stage
  <2>2. CASE InRun
    <3>1. capturing /\ attached = {"lh1"} /\ orphaned = {}
      BY <1>3, <2>2 DEF OneSession, ListenersOfSession
    <3>2. RunWarm \/ RunServed
      BY <1>0, <1>q, <2>2 DEF Stage, Quiet, RunDelivered, RunWaiting
    <3>3. RunWarm' \/ RunDelivered'
      BY <1>0, <1>3, <2>2, <3>1, <3>2, RunFrameMoves
    <3> QED  BY <1>0, <1>3, <1>u, <2>2, <3>3 DEF Stage
  <2> QED  BY <1>3, <2>1, <2>2
<1> QED  BY <1>t, <1>1, <1>2, <1>3, FrameSteps
-----------------------------------------------------------------------------
(* Delivery: a frame of run mode or calibration is dropped only if it is   *)
(* dark like the one before, and then nothing is lost; else a fresh call   *)
(* waits.                                                                  *)
LEMMA DeliveryMovesStage ==
    ASSUME Disciplined, KEY = 1, TypeOK, OneSession, ListenersOfSession, Stage,
           NEW same \in BOOLEAN, NEW lh \in pending, Deliver(lh, same)
    PROVE  Stage'
<1> USE DEF Preparing, InRun, InCal, Bayer, Monochrome, Reading, Ready
<1>0. /\ calling = "nothing" /\ ~Reading /\ ~Ready
      /\ pending' = pending \ {lh}
      /\ UNCHANGED <<label, calling, DATA_OUT, LED_output, pipeline, image>>
  BY DEF Deliver, Gui!Serving, ledVars, buttonVars
<1>r. readdata = DATA_OUT
  BY DEF readdata
<1>1. pending # {} /\ pending \subseteq attached /\ ~Quiet
  BY DEF TypeOK, Quiet, ListenersOfSession
<1>b. MaxStack \in Nat /\ MaxStack # 0
  BY BoundsAssumption
<1>2. CASE ~InRun /\ ~InCal
  <2>1. lh \in {"lh3", "lh4"}
    BY <1>1, <1>2 DEF ListenersOfSession
  <2>2. UNCHANGED listenerVars
    BY <2>1 DEF Deliver
  <2>3. ~Preparing
    BY <1>1 DEF Stage
  <2>4. Between'
    BY <1>0, <1>2, <2>2, <2>3
       DEF Stage, Between, OneFreshCall, Fresh, listenerVars, runVars, calVars
  <2> QED  BY <1>0, <1>2, <2>3, <2>4 DEF Stage
<1>3. CASE InRun
  <2>1. ~InCal /\ ~Preparing
    BY <1>3 DEF OneSession
  <2>2. RunDelivered
    BY <1>1, <1>3 DEF Stage, RunWarm, RunWaiting, RunServed
  <2>3. lh = "lh1" /\ pending' = {}
    BY <1>0, <2>2 DEF RunDelivered
  <2>4. ~Host!Waiting(lh) /\ Len(stack) = 0
    BY <2>2 DEF RunDelivered, Host!Waiting
  <2>5. Host!BeginRunMode(image, same)
    BY <1>b, <2>3, <2>4 DEF Deliver
  <2>6. DATA_OUT \in 10..12 /\ RunSteady /\ RunSteady'
    BY <1>0, <2>2 DEF RunDelivered, RunSteady, Host!Channels
  <2>l. LAG \in Nat
    BY BoundsAssumption DEF LAG
  <2>7. CASE Host!Differ(image, previmg, same)
    <3> DEFINE call == [listener |-> "lh1", image |-> image, live |-> TRUE, input |-> 0]
    <3>1. stack' = Append(stack, call) /\ previmg' = image /\ input' = DATA_OUT /\ oldput' = oldput
      BY <1>r, <2>5, <2>7 DEF Host!BeginRunMode, Host!Push
    <3>2. stack = <<>>
      BY <2>2 DEF RunDelivered
    <3>3. Len(stack') = 1 /\ stack'[1] = call
      BY <3>1, <3>2
    <3>4. OneFreshCall'
      BY <1>0, <2>2, <2>6, <3>1, <3>3 DEF RunDelivered, OneFreshCall, Fresh, Host!Channels
    <3>5. RunWaiting'
      <4>1. stack'[1].listener = "lh1" /\ stack'[1].image = previmg'
        BY <3>1, <3>3
      <4> QED  BY <2>3, <2>6, <3>4, <4>1 DEF RunWaiting
    <3> QED  BY <1>0, <1>3, <2>1, <3>5 DEF Stage
  <2>8. CASE ~Host!Differ(image, previmg, same)
    <3>1. UNCHANGED <<stack, previmg, oldput>> /\ image = previmg
      BY <2>5, <2>8 DEF Host!BeginRunMode, Host!listenerVars, Host!runVars, Host!Differ
    <3>2. RunLight(DATA_OUT, LAG) # {} /\ RunLight(DATA_OUT, LAG + 1) # RunLight(DATA_OUT, LAG)
      BY <2>6, <2>l, RunLightMoves DEF Host!Channels
    <3>3. image = Host!Dark /\ oldput = 0
      BY <2>2, <3>1, <3>2 DEF RunDelivered, Host!Dark
    <3>4. Quiet'
      BY <2>2, <2>3, <3>1 DEF RunDelivered, Quiet
    <3>5. RunServed'
      BY <2>6, <3>1, <3>3, <3>4 DEF RunServed
    <3> QED  BY <1>0, <1>3, <2>1, <3>5 DEF Stage
  <2> QED  BY <2>7, <2>8
<1>4. CASE InCal
  <2>1. ~InRun /\ ~Preparing
    BY <1>4 DEF OneSession
  <2>2. CalibrationDelivered
    BY <1>1, <1>4 DEF Stage, CalibrationWarm, CalibrationReady,
       CalibrationWaiting, CalibrationServed
  <2>3. lh = "lh2" /\ pending' = {}
    BY <1>0, <2>2 DEF CalibrationDelivered
  <2>4. ~Host!Waiting(lh) /\ Len(stack) = 0
    BY <2>2 DEF CalibrationDelivered, Host!Waiting
  <2>5. Host!BeginCalibration(image, same)
    BY <1>b, <2>3, <2>4 DEF Deliver
  <2>6. /\ DATA_OUT \in 1..9 /\ previousin \in 0..9 /\ CalibrationSteady
        /\ image = CalibrationLight(DATA_OUT, LAG)
        /\ previousimg \in {{}, CalibrationLight(DATA_OUT, LAG + 1)}
        /\ previousin # 0 => Behind \in 1..(IF SinceLit = 0 THEN 8 ELSE 5 + SinceLit)
    BY <2>2 DEF CalibrationDelivered, CalibrationSteady, Host!Dark
  <2>l. LAG \in Nat /\ LAG + 1 \in Nat
    BY BoundsAssumption DEF LAG
  <2>7. CASE Host!Differ(image, previousimg, same)
    <3> DEFINE call == [listener |-> "lh2", image |-> image, live |-> TRUE, input |-> DATA_OUT]
    <3>1. stack' = Append(stack, call) /\ previousimg' = image /\ previousin' = previousin
      BY <1>r, <2>5, <2>7 DEF Host!BeginCalibration, Host!Push
    <3>2. stack = <<>>
      BY <2>2 DEF CalibrationDelivered
    <3>3. Len(stack') = 1 /\ stack'[1] = call
      BY <3>1, <3>2
    <3>4. previousin # DATA_OUT
      <4>1. CASE previousin = 0  BY <2>6, <4>1
      <4>2. CASE previousin = DATA_OUT
        <5>1. Behind = 0 /\ previousin # 0
          BY <2>6, <4>2 DEF Behind
        <5> QED  BY <2>6, <5>1
      <4> QED  BY <4>1, <4>2
    <3>5. OneFreshCall'
      BY <1>0, <2>6, <3>1, <3>3, <3>4 DEF OneFreshCall, Fresh
    <3>6. CalibrationSteady'
      BY <1>0, <2>6, <3>1 DEF CalibrationSteady, CalibrationPipeline
    <3>7. CalibrationWaiting'
      <4>1. stack'[1].listener = "lh2" /\ stack'[1].image = previousimg'
        BY <3>1, <3>3
      <4> QED  BY <2>3, <3>5, <3>6, <4>1 DEF CalibrationWaiting
    <3> QED  BY <1>0, <1>4, <2>1, <3>7 DEF Stage
  <2>8. CASE ~Host!Differ(image, previousimg, same)
    <3>1. UNCHANGED <<stack, previousimg, previousin>> /\ image = previousimg
      BY <2>5, <2>8 DEF Host!BeginCalibration, Host!listenerVars, Host!calVars, Host!Differ
    <3>2. /\ image # {} <=> SinceLit = 0
          /\ CalibrationLight(DATA_OUT, LAG + 1) # {} <=> (DATA_OUT - 1 + 8 * (LAG + 1)) % 3 = 0
      BY <2>6, <2>l, CalibrationLightMoves DEF SinceLit
    <3>3. SinceLit = 0 => (DATA_OUT - 1 + 8 * (LAG + 1)) % 3 # 0
      BY <2>6, <2>l DEF SinceLit
    <3>4. SinceLit # 0
      BY <2>6, <3>1, <3>2, <3>3
    <3>5. SinceLit \in 0..2
      BY <2>6, <2>l DEF SinceLit
    <3>6. previousin # 0 => Behind \in 0..(5 + SinceLit)
      BY <2>6, <3>4, <3>5
    <3>7. Behind' = Behind /\ SinceLit' = SinceLit
      BY <1>0, <3>1 DEF Behind, SinceLit
    <3>8. CalibrationSteady' /\ Quiet'
      BY <1>0, <2>2, <2>3, <2>6, <3>1
         DEF CalibrationSteady, CalibrationPipeline, CalibrationDelivered, Quiet
    <3>9. CalibrationServed'
      BY <1>0, <2>6, <3>1, <3>6, <3>7, <3>8 DEF CalibrationServed
    <3> QED  BY <1>0, <1>4, <2>1, <3>9 DEF Stage
  <2> QED  BY <2>7, <2>8
<1> QED  BY <1>2, <1>3, <1>4

(* A call that goes on files its frame under the present code and returns. *)
LEMMA ResumeMovesStage ==
    ASSUME TypeOK, OneSession, Stage,
           NEW same \in BOOLEAN, Resume(same)
    PROVE  /\ Stage'
           /\ \/ /\ DATA_OUT \in Host!Channels
                 /\ \E frame \in {{}, RunLight(DATA_OUT, LAG)} :
                      Host!FileInChannel(DATA_OUT, frame, same)
                 /\ UNCHANGED <<slot, cal>>
              \/ /\ DATA_OUT \in 1..9
                 /\ Host!FileInSlot(DATA_OUT, CalibrationLight(DATA_OUT, LAG), same)
                 /\ UNCHANGED <<channel, cal>>
<1> USE DEF Preparing, InRun, InCal, Reading, Ready
<1>0. /\ calling = "nothing" /\ ~Reading /\ ~Ready
      /\ UNCHANGED <<label, calling, DATA_OUT, LED_output, pipeline, image, pending>>
  BY DEF Resume, Gui!Serving, ledVars, buttonVars, cameraVars
<1>1. stack # <<>>
  BY DEF Resume, Host!ResumeRunMode, Host!ResumeCalibration
<1>2. OneFreshCall /\ ~Quiet
  BY <1>1, CallsInStage DEF Quiet
<1>3. Host!Top = stack[1] /\ Len(stack) = 1 /\ Fresh(Host!Top)
  BY <1>2 DEF OneFreshCall, Host!Top
<1>4. Host!Pop => stack' = <<>>
  BY <1>3 DEF Host!Pop, TypeOK, Host!TypeOK
<1>5. ~Preparing
  BY <1>2 DEF Stage
<1>6. CASE Host!Top.listener = "lh1"
  <2>1. Host!ResumeRunMode(same) /\ DATA_OUT \in Host!Channels
        /\ input = DATA_OUT /\ oldput # DATA_OUT
        /\ Host!Top.image \in {Host!Dark, RunLight(DATA_OUT, LAG)}
    BY <1>3, <1>6 DEF Resume, Host!ResumeCalibration, Fresh
  <2>2. /\ oldput' = DATA_OUT /\ stack' = <<>>
        /\ Host!FileInChannel(DATA_OUT, Host!Top.image, same)
        /\ UNCHANGED <<previmg, slot, cal, previousimg, previousin>>
    BY <1>4, <2>1 DEF Host!ResumeRunMode, Host!calVars
  <2>3. CASE InRun
    <3>1. RunWaiting /\ ~InCal
      BY <1>1, <1>2, <2>3 DEF Stage, RunWarm, RunDelivered, RunServed, OneSession
    <3>2. RunServed'
      BY <1>0, <1>3, <2>1, <2>2, <3>1 DEF RunWaiting, RunServed, RunSteady, Quiet
    <3>3. Stage'
      BY <1>0, <1>5, <2>3, <3>1, <3>2 DEF Stage
    <3> QED  BY <2>1, <2>2, <3>3 DEF Host!Dark
  <2>4. CASE InCal
    <3>1. CalibrationWaiting
      BY <1>1, <1>2, <2>4 DEF Stage, CalibrationWarm, CalibrationReady, CalibrationDelivered,
                        CalibrationServed
    <3> QED  BY <1>3, <1>6, <3>1 DEF CalibrationWaiting
  <2>5. CASE ~InRun /\ ~InCal
    <3>1. Between'
      BY <1>0, <1>5, <2>2, <2>5 DEF Stage, Between
    <3>2. Stage'
      BY <1>0, <1>5, <2>5, <3>1 DEF Stage
    <3> QED  BY <2>1, <2>2, <3>2 DEF Host!Dark
  <2> QED  BY <2>3, <2>4, <2>5
<1>7. CASE Host!Top.listener # "lh1"
  <2>1. Host!ResumeCalibration(same) /\ DATA_OUT \in 1..9
        /\ Host!Top.input = DATA_OUT /\ previousin # DATA_OUT
        /\ Host!Top.image = CalibrationLight(DATA_OUT, LAG)
    BY <1>3, <1>7 DEF Resume, Host!ResumeRunMode, Fresh
  <2>2. /\ previousin' = DATA_OUT /\ stack' = <<>>
        /\ Host!FileInSlot(DATA_OUT, Host!Top.image, same)
        /\ UNCHANGED <<previmg, oldput, input, channel, cal, previousimg>>
    BY <1>4, <2>1 DEF Host!ResumeCalibration, Host!runVars
  <2>3. CASE InRun
    <3>1. RunWaiting
      BY <1>1, <1>2, <2>3 DEF Stage, RunWarm, RunDelivered, RunServed
    <3> QED  BY <1>3, <1>7, <3>1 DEF RunWaiting
  <2>4. CASE InCal
    <3>1. CalibrationWaiting /\ ~InRun
      BY <1>1, <1>2, <2>4 DEF Stage, CalibrationWarm, CalibrationReady, CalibrationDelivered,
                        CalibrationServed, OneSession
    <3>2. CalibrationSteady' /\ Quiet'
      BY <1>0, <2>1, <2>2, <3>1 DEF CalibrationWaiting, CalibrationSteady,
          CalibrationPipeline, Quiet
    <3>3. Behind' = 0 /\ SinceLit' \in 0..2
      <4>1. Behind' = (DATA_OUT + 9 - DATA_OUT) % 9
        BY <1>0, <2>2 DEF Behind
      <4>2. LAG \in Nat
        BY BoundsAssumption DEF LAG
      <4>3. SinceLit' \in 0..2
        BY <1>0, <2>1, <4>2 DEF SinceLit
      <4> QED  BY <2>1, <4>1, <4>3
    <3>4. previousimg' = CalibrationLight(DATA_OUT', LAG)
      BY <1>0, <1>3, <2>1, <2>2, <3>1 DEF CalibrationWaiting
    <3>5. CalibrationServed'
      <4>1. Behind' \in 0..(5 + SinceLit')
        <5>1. \A n \in 0..2 : 0 \in 0..(5 + n)  OBVIOUS
        <5> QED  BY <3>3, <5>1
      <4> QED  BY <3>2, <3>4, <4>1 DEF CalibrationServed
    <3>6. Stage'
      BY <1>0, <1>5, <2>4, <3>1, <3>5 DEF Stage
    <3> QED  BY <2>1, <2>2, <3>6
  <2>5. CASE ~InRun /\ ~InCal
    <3>1. Between'
      BY <1>0, <1>5, <2>2, <2>5 DEF Stage, Between
    <3>2. Stage'
      BY <1>0, <1>5, <2>5, <3>1 DEF Stage
    <3> QED  BY <2>1, <2>2, <3>2
  <2> QED  BY <2>3, <2>4, <2>5
<1> QED  BY <1>6, <1>7
-----------------------------------------------------------------------------
(* A call whose listener is deleted is as fresh as it was.                 *)
LEMMA DeletedCallStaysFresh ==
    ASSUME TypeOK, stack = <<>> \/ OneFreshCall, NEW lh, Host!Delete(lh),
           UNCHANGED <<DATA_OUT, input, oldput, previousin>>
    PROVE  stack' = <<>> \/ OneFreshCall'
<1>0. /\ stack \in Seq(Host!Call)
      /\ stack' = [i \in 1..Len(stack) |->
                      IF stack[i].listener = lh THEN [stack[i] EXCEPT !.live = FALSE] ELSE stack[i]]
  BY DEF Host!Delete, TypeOK, Host!TypeOK
<1>1. CASE stack = <<>>
  BY <1>0, <1>1
<1>2. CASE OneFreshCall
  <2>1. Len(stack) = 1 /\ Fresh(stack[1]) /\ stack[1] \in Host!Call
    BY <1>0, <1>2 DEF OneFreshCall
  <2>2. Len(stack') = 1 /\ stack'[1] = IF stack[1].listener = lh
                                         THEN [stack[1] EXCEPT !.live = FALSE] ELSE stack[1]
    BY <1>0, <2>1
  <2>3. /\ stack'[1].listener = stack[1].listener
        /\ stack'[1].image = stack[1].image
        /\ stack'[1].input = stack[1].input
    BY <2>1, <2>2 DEF Host!Call
  <2> QED  BY <2>1, <2>2, <2>3 DEF OneFreshCall, Fresh
<1> QED  BY <1>1, <1>2

(* The operator begins when no session has anything under way.             *)
LEMMA BeginFromRest ==
    ASSUME OneAtATime, Settle, OneSession, ModeOfSession, ListenersOfSession, SequencerInStep,
           Stage, TypeOK, Gui!NoneBusy, calling = "nothing"
    PROVE  /\ Button_comp = 0 /\ Between /\ ~capturing /\ pending = {}
           /\ ~Preparing /\ ~InRun /\ ~InCal /\ ~Bayer /\ ~Monochrome /\ ~Reading /\ ~Ready
           /\ Settled => Quiet /\ pipeline = <<>> /\ DATA_OUT = 0 /\ LED_output = Frame!Dark
<1>1. ~Preparing /\ ~InRun /\ ~InCal /\ ~Bayer /\ ~Monochrome /\ ~Reading /\ ~Ready
  BY Idling DEF Reading, Ready
<1>2. Button_comp = 0 /\ Between /\ ~capturing /\ attached = {} /\ orphaned = {}
  BY <1>1 DEF ModeOfSession, ListenersOfSession, Stage
<1>3. pending = {}
  BY <1>2 DEF TypeOK
<1>4. ASSUME Settled
      PROVE  Quiet /\ pipeline = <<>> /\ DATA_OUT = 0 /\ LED_output = Frame!Dark
  <2>1. DATA_OUT = 0 /\ LED_output = Frame!Dark
    BY <1>2, <1>4 DEF Settled
  <2>2. ~OneFreshCall
    BY <2>1 DEF OneFreshCall, Fresh, Host!Channels
  <2> QED  BY <1>2, <1>3, <2>1, <2>2 DEF Between, Quiet
<1> QED  BY <1>1, <1>2, <1>3, <1>4

(* What a callback leaves alone.                                           *)
LEMMA CallbackFrame ==
    ASSUME Callback
    PROVE  /\ UNCHANGED <<KEY, LED_output, DATA_OUT, startup_frame, calibration_cnt, image>>
           /\ pipeline' \in {pipeline, <<>>}
           /\ pending' \subseteq pending
           /\ GuiNext
BY DEF Callback, ledVars, PrepareSynchronous, ConfirmSynchronous, StopSynchronous,
       ReadCalibrationCode, EndCalibration, OtherButton, GuiNext

(* A callback takes the stage of one session to that of the next.          *)
LEMMA CallbackMovesStage ==
    ASSUME Disciplined, KEY = 1, TypeOK, OneSession, ModeOfSession, ListenersOfSession,
           SequencerInStep, Stage, Callback, OneSession'
    PROVE  Stage'
<1> USE DEF Preparing, InRun, InCal, Bayer, Monochrome, Reading, Ready
<1>0. /\ UNCHANGED <<LED_output, DATA_OUT, image>>
      /\ pipeline' = pipeline \/ pipeline' = <<>>
      /\ pending = {} => pending' = {}
  BY CallbackFrame
<1>r. readdata = DATA_OUT
  BY DEF readdata
<1>d. OneAtATime /\ Settle /\ DOMAIN label = Gui!Buttons
  BY DEF Disciplined, TypeOK, Gui!TypeOK
<1>l. UNCHANGED listenerVars
        => UNCHANGED <<stack, previmg, input, oldput, previousimg, previousin>>
  BY DEF listenerVars, runVars, calVars
<1>1. CASE PrepareSynchronous
  <2>1. /\ Gui!NoneBusy /\ calling = "nothing" /\ calling' = "nothing" /\ Settled
        /\ label' = [label EXCEPT !["StartSynchronous"] = "Confirm Start"]
        /\ previmg' = Host!Dark /\ stack' = stack
    BY <1>1, <1>d DEF PrepareSynchronous, Gui!Prepare, Gui!MayBegin, Gui!Idle, Host!PrepareRunMode
  <2>2. /\ Quiet /\ pipeline = <<>> /\ ~InCal
    BY <1>d, <2>1, BeginFromRest
  <2>3. Quiet' /\ pipeline' = <<>>
    BY <1>0, <2>1, <2>2 DEF Quiet
  <2>4. Preparing' /\ ~InRun' /\ ~InCal'
    BY <1>d, <2>1, <2>2 DEF Gui!Buttons
  <2> QED  BY <2>1, <2>3, <2>4 DEF Stage
<1>2. CASE ConfirmSynchronous
  <2>1. /\ Preparing /\ label' = label /\ calling' = "startSynchronous"
        /\ oldput' = DATA_OUT /\ stack' = stack /\ previmg' = previmg
        /\ attached' = attached
    BY <1>2, <1>r DEF ConfirmSynchronous, Gui!ConfirmStart, Host!ConfirmRunMode
  <2>2. Quiet /\ previmg = Host!Dark /\ pipeline = <<>>
    BY <2>1 DEF Stage
  <2>3. Quiet' /\ previmg' = Host!Dark /\ pipeline' = <<>>
    BY <1>0, <2>1, <2>2 DEF Quiet
  <2>4. Preparing' /\ ~InRun' /\ ~InCal'
    BY <2>1 DEF OneSession
  <2> QED  BY <1>0, <2>1, <2>3, <2>4 DEF Stage
<1>3. CASE OtherButton /\ Gui!StartSynchronous
  <2>1. /\ Preparing /\ oldput = DATA_OUT /\ Quiet /\ previmg = Host!Dark /\ pipeline = <<>>
    BY <1>3 DEF Gui!StartSynchronous, OneSession, Stage
  <2>2. /\ label' = [label EXCEPT !["StartSynchronous"] = "Stop"] /\ calling' = "nothing"
        /\ UNCHANGED <<stack, previmg, oldput>>
    BY <1>3, <1>l DEF OtherButton, Gui!StartSynchronous, Gui!BeginCapture
  <2>3. InRun' /\ ~Preparing' /\ ~InCal'
    BY <1>d, <2>1, <2>2 DEF Gui!Buttons, OneSession
  <2>4. Quiet' /\ previmg' = Host!Dark /\ pipeline' = <<>> /\ oldput' = DATA_OUT'
    BY <1>0, <2>1, <2>2 DEF Quiet
  <2>5. DATA_OUT' \in {0} \cup Host!Channels
    BY <1>0, <2>1 DEF SequencerInStep
  <2>6. \A c \in Host!Channels : (c + 3 - c) % 3 = 0 % 3
    BY DEF Host!Channels
  <2>7. RunWarm'
    <3>1. oldput' # 0 => /\ oldput' \in Host!Channels
                         /\ (DATA_OUT' + 3 - oldput') % 3 = Len(pipeline') % 3
      <4>1. Len(pipeline') = 0  BY <2>4
      <4> QED  BY <2>4, <2>5, <2>6, <4>1
    <3>2. \A i \in 1..Len(pipeline') : FALSE
      BY <2>4
    <3> QED  BY <2>4, <3>1, <3>2 DEF RunWarm
  <2> QED  BY <2>2, <2>3, <2>7 DEF Stage
<1>4. CASE StopSynchronous
  <2>1. /\ InRun /\ calling = "nothing" /\ calling' = "nothing" /\ Host!Delete("lh1")
        /\ label' = [label EXCEPT !["StartSynchronous"] = "Prepare to Start"]
        /\ UNCHANGED <<input, oldput, previousin>>
    BY <1>4 DEF StopSynchronous, Gui!StopSynchronous, Gui!EndCapture, Gui!Idle, runVars, calVars
  <2>2. stack' = <<>> \/ OneFreshCall'
    BY <1>0, <2>1, CallsInStage, DeletedCallStaysFresh
  <2>3. DATA_OUT = 0 => pipeline = <<>>
    <3>1. 0 \notin Host!Channels  BY DEF Host!Channels
    <3> QED  BY <2>1, <3>1 DEF Stage, RunWarm, RunDelivered, RunWaiting, RunServed, RunSteady
  <2>4. ~Preparing' /\ ~InRun' /\ ~InCal'
    BY <1>d, <2>1 DEF Gui!Buttons, OneSession
  <2>5. Between'
    BY <1>0, <2>2, <2>3 DEF Between
  <2> QED  BY <2>1, <2>4, <2>5 DEF Stage
<1>5. CASE OtherButton /\ Settled /\ Gui!Calibrate
  <2>1. /\ Gui!NoneBusy /\ calling = "nothing" /\ calling' = "readCode" /\ Settled
        /\ label' = label /\ stack' = stack
    BY <1>5, <1>d, <1>l DEF OtherButton, Gui!Calibrate, Gui!MayBegin, Gui!Idle
  <2>2. /\ Quiet /\ pipeline = <<>> /\ ~InCal /\ ~InRun /\ ~Preparing
    BY <1>d, <2>1, BeginFromRest
  <2>3. Quiet' /\ pipeline' = <<>>
    BY <1>0, <2>1, <2>2 DEF Quiet
  <2> QED  BY <2>1, <2>2, <2>3 DEF Stage
<1>6. CASE ReadCalibrationCode
  <2>1. /\ Reading /\ calling' = "startCalibration" /\ label' = label /\ stack' = stack
        /\ previousin' = DATA_OUT /\ previousimg' = Host!Dark
    BY <1>6, <1>r DEF ReadCalibrationCode, Gui!ReadCode, Host!PrepareCalibration
  <2>2. /\ Quiet /\ pipeline = <<>> /\ ~InCal /\ ~InRun /\ ~Preparing /\ DATA_OUT \in 0..9
    BY <2>1 DEF Stage, OneSession, SequencerInStep
  <2>3. CalibrationReady' /\ pipeline' = <<>>
    BY <1>0, <2>1, <2>2 DEF CalibrationReady, Quiet
  <2>4. Behind' \in {0, 1}
    <3>1. Behind' = (DATA_OUT + 9 - DATA_OUT) % 9
      BY <1>0, <2>1 DEF Behind
    <3>2. \A n \in 0..9 : (n + 9 - n) % 9 = 0  OBVIOUS
    <3> QED  BY <2>2, <3>1, <3>2
  <2> QED  BY <2>1, <2>2, <2>3, <2>4 DEF Stage
<1>7. CASE OtherButton /\ Gui!StartCalibration
  <2>1. /\ Ready /\ CalibrationReady /\ pipeline = <<>>
        /\ previousin # 0 => Behind \in {0, 1}
        /\ ~InRun /\ ~Preparing
    BY <1>7 DEF Gui!StartCalibration, OneSession, Stage
  <2>2. /\ label' = [label EXCEPT !["Calibrate"] = "End Calibration"] /\ calling' = "nothing"
        /\ UNCHANGED <<stack, previousimg, previousin>>
    BY <1>7, <1>l DEF OtherButton, Gui!StartCalibration, Gui!BeginCapture
  <2>3. InCal' /\ ~Preparing' /\ ~InRun'
    BY <1>d, <2>1, <2>2 DEF Gui!Buttons
  <2>4. CalibrationReady' /\ pipeline' = <<>>
    BY <1>0, <2>1, <2>2 DEF CalibrationReady, Quiet
  <2>5. Behind' = Behind
    BY <1>0, <2>2 DEF Behind
  <2>6. CalibrationWarm'
    <3>1. Len(pipeline') % 9 = 0 /\ (Len(pipeline') + 1) % 9 = 1
      <4>1. Len(pipeline') = 0  BY <2>4
      <4> QED  BY <4>1
    <3>2. CalibrationPipeline'
      BY <2>4 DEF CalibrationPipeline
    <3> QED  BY <2>1, <2>2, <2>4, <2>5, <3>1, <3>2 DEF CalibrationWarm
  <2> QED  BY <2>2, <2>3, <2>6 DEF Stage
<1>8. CASE EndCalibration
  <2>1. /\ InCal /\ calling = "nothing" /\ calling' = "nothing" /\ Host!Delete("lh2")
        /\ label' = [label EXCEPT !["Calibrate"] = "Calibrate"]
        /\ UNCHANGED <<input, oldput, previousin>>
    BY <1>8 DEF EndCalibration, Gui!EndCalibration, Gui!EndCapture, Gui!Idle,
                Host!FinishCalibration, Host!runVars, Host!calVars
  <2>2. stack' = <<>> \/ OneFreshCall'
    BY <1>0, <2>1, CallsInStage, DeletedCallStaysFresh
  <2>3. DATA_OUT = 0 => pipeline = <<>>
    <3>1. 0 \notin 1..9  OBVIOUS
    <3> QED  BY <2>1, <3>1
             DEF Stage, CalibrationWarm, CalibrationReady, CalibrationDelivered,
                 CalibrationWaiting, CalibrationServed, CalibrationSteady
  <2>4. ~Preparing' /\ ~InRun' /\ ~InCal'
    BY <1>d, <2>1 DEF Gui!Buttons, OneSession
  <2>5. Between'
    BY <1>0, <2>2, <2>3 DEF Between
  <2> QED  BY <2>1, <2>4, <2>5 DEF Stage
(* The rest neither enters nor leaves run mode or calibration.             *)
<1>9. ASSUME ~Preparing, ~InRun, ~InCal, ~Reading, ~Ready,
             ~Preparing', ~InRun', ~InCal', calling' = "nothing", UNCHANGED listenerVars
      PROVE  Stage'
  <2>1. Between'
    BY <1>0, <1>9 DEF Stage, Between, OneFreshCall, Fresh, listenerVars, runVars, calVars
  <2> QED  BY <1>9, <2>1 DEF Stage
<1>10. ASSUME OtherButton, NEW b \in {"Bayer", "Monochrome"}, Gui!StartWhite(b)
       PROVE  Stage'
  <2>1. /\ Gui!NoneBusy /\ calling = "nothing" /\ calling' = "nothing"
        /\ label' = [label EXCEPT ![b] = "Stop"]
    BY <1>10, <1>d DEF Gui!StartWhite, Gui!MayBegin, Gui!Idle, Gui!BeginCapture
  <2>2. ~Preparing /\ ~InRun /\ ~InCal
    BY <1>d, <2>1, BeginFromRest
  <2>3. ~Preparing' /\ ~InRun' /\ ~InCal'
    BY <1>d, <2>1, <2>2 DEF Gui!Buttons
  <2> QED  BY <1>9, <1>10, <2>1, <2>2, <2>3 DEF OtherButton
<1>11. ASSUME OtherButton, NEW b \in {"Bayer", "Monochrome"}, Gui!StopWhite(b)
       PROVE  Stage'
  <2>1. /\ calling = "nothing" /\ calling' = "nothing" /\ (Bayer \/ Monochrome)
        /\ label' = [label EXCEPT ![b] = Gui!IdleText[b]]
    BY <1>11 DEF Gui!StopWhite, Gui!EndCapture, Gui!Idle
  <2>2. ~Preparing /\ ~InRun /\ ~InCal
    BY <2>1 DEF OneSession
  <2>3. ~Preparing' /\ ~InRun' /\ ~InCal'
    BY <1>d, <2>1, <2>2 DEF Gui!Buttons
  <2>4. ~Reading /\ ~Ready
    BY <2>1
  <2> QED  BY <1>9, <1>11, <2>1, <2>2, <2>3, <2>4 DEF OtherButton
<1>12. CASE OtherButton /\ Gui!Reprogram
  <2>1. /\ Gui!NoneBusy /\ calling = "nothing" /\ calling' = "nothing"
        /\ label' = [label EXCEPT !["StartSynchronous"] = "Start"]
    BY <1>12, <1>d DEF Gui!Reprogram, Gui!Idle
  <2>2. ~Preparing /\ ~InRun /\ ~InCal
    BY <1>d, <2>1, BeginFromRest
  <2>3. ~Preparing' /\ ~InRun' /\ ~InCal'
    BY <1>d, <2>1, <2>2 DEF Gui!Buttons
  <2> QED  BY <1>9, <1>12, <2>1, <2>2, <2>3 DEF OtherButton
<1>13. CASE OtherButton /\ Gui!PressUnknown
  <2>1. /\ Gui!NoneBusy /\ calling = "nothing" /\ calling' = "nothing" /\ label' = label
    BY <1>13, <1>d DEF Gui!PressUnknown, Gui!MayBegin, Gui!Idle
  <2>2. ~Preparing /\ ~InRun /\ ~InCal
    BY <1>d, <2>1, BeginFromRest
  <2> QED  BY <1>9, <1>13, <2>1, <2>2 DEF OtherButton
<1>14. CASE OtherButton /\ (Gui!CloseWindow \/ Gui!CloseMenuItem)
  <2>1. /\ Gui!NoneBusy /\ calling = "nothing" /\ calling' = "nothing" /\ label' = label
    BY <1>14, <1>d DEF Gui!CloseWindow, Gui!CloseMenuItem, Gui!Idle
  <2>2. ~Preparing /\ ~InRun /\ ~InCal
    BY <1>d, <2>1, BeginFromRest
  <2> QED  BY <1>9, <1>14, <2>1, <2>2 DEF OtherButton
<1> QED
  BY <1>1, <1>2, <1>3, <1>4, <1>5, <1>6, <1>7, <1>8, <1>10, <1>11, <1>12, <1>13, <1>14
     DEF Callback, OtherButton
-----------------------------------------------------------------------------
(* A callback never moves the sequencer, and enters a session only where   *)
(* the codes are those of its mode.                                        *)
LEMMA CallbackKeepsStep ==
    ASSUME Disciplined, TypeOK, OneSession, ModeOfSession, ListenersOfSession, SequencerInStep,
           Stage, Callback
    PROVE  SequencerInStep'
<1> USE DEF Preparing, InRun, InCal, Reading, Ready
<1>0. /\ UNCHANGED <<LED_output, DATA_OUT, startup_frame, calibration_cnt>>
      /\ OneAtATime /\ Settle /\ DOMAIN label = Gui!Buttons
  BY CallbackFrame DEF Disciplined, TypeOK, Gui!TypeOK
<1>w. {} # Frame!White
  BY DEF Frame!White, Frame!Colours
<1>1. ASSUME Preparing' \/ InRun' => Preparing \/ InRun,
             Reading' \/ Ready' \/ InCal' => Reading \/ Ready \/ InCal
      PROVE  SequencerInStep'
  BY <1>0, <1>1 DEF SequencerInStep, Frame!CodeTracksCalibration, Frame!Position
<1>2. ASSUME Settled, Gui!NoneBusy, calling = "nothing"
      PROVE  SequencerInStep'
  <2>1. DATA_OUT = 0 /\ LED_output = {}
    BY <1>0, <1>2, BeginFromRest DEF Frame!Dark
  <2>2. LED_output' # Frame!White /\ DATA_OUT' = 0 /\ DATA_OUT' \in 0..9
    BY <1>0, <1>w, <2>1
  <2>3. Frame!CodeTracksCalibration' /\ LED_output' = Frame!LightOf(DATA_OUT')
    BY <1>0, <1>w, <2>1 DEF SequencerInStep, Frame!CodeTracksCalibration, Frame!Position
  <2> QED  BY <2>2, <2>3 DEF SequencerInStep
<1>3. CASE PrepareSynchronous \/ (Settled /\ Gui!Calibrate)
  BY <1>0, <1>2, <1>3 DEF PrepareSynchronous, Gui!Prepare, Gui!Calibrate, Gui!MayBegin, Gui!Idle
<1>4. CASE \/ ConfirmSynchronous \/ ReadCalibrationCode \/ Gui!PressUnknown
           \/ Gui!CloseWindow \/ Gui!CloseMenuItem
  BY <1>1, <1>4 DEF ConfirmSynchronous, Gui!ConfirmStart, ReadCalibrationCode, Gui!ReadCode,
                    Gui!PressUnknown, Gui!CloseWindow, Gui!CloseMenuItem
<1>5. CASE Gui!StartSynchronous \/ StopSynchronous \/ Gui!Reprogram
  <2>1. /\ calling' \in {"nothing", calling}
        /\ label' \in {[label EXCEPT !["StartSynchronous"] = text] :
                          text \in {"Stop", "Prepare to Start", "Start"}}
        /\ Gui!StartSynchronous => Preparing
        /\ StopSynchronous \/ Gui!Reprogram => label'["StartSynchronous"] # "Stop"
    BY <1>0, <1>5 DEF Gui!StartSynchronous, Gui!BeginCapture, StopSynchronous,
                      Gui!StopSynchronous, Gui!EndCapture, Gui!Reprogram, OneSession, Gui!Buttons
  <2>2. /\ label'["Calibrate"] = label["Calibrate"]
        /\ label'["StartSynchronous"] \in {"Stop", "Prepare to Start", "Start"}
    BY <1>0, <2>1 DEF Gui!Buttons
  <2> QED  BY <1>1, <1>5, <2>1, <2>2
<1>6. CASE Gui!StartCalibration \/ EndCalibration
  <2>1. /\ calling' \in {"nothing", calling}
        /\ label' \in {[label EXCEPT !["Calibrate"] = text] :
                          text \in {"End Calibration", "Calibrate"}}
        /\ Gui!StartCalibration => Ready
        /\ EndCalibration => InCal
    BY <1>6 DEF Gui!StartCalibration, Gui!BeginCapture, EndCalibration,
                Gui!EndCalibration, Gui!EndCapture
  <2>2. label'["StartSynchronous"] = label["StartSynchronous"]
    BY <1>0, <2>1 DEF Gui!Buttons
  <2> QED  BY <1>1, <1>6, <2>1, <2>2
<1>7. ASSUME NEW b \in {"Bayer", "Monochrome"}, Gui!StartWhite(b) \/ Gui!StopWhite(b)
      PROVE  SequencerInStep'
  <2>1. /\ calling' \in {"nothing", calling}
        /\ \E text : label' = [label EXCEPT ![b] = text]
    BY <1>7 DEF Gui!StartWhite, Gui!StopWhite, Gui!BeginCapture, Gui!EndCapture
  <2>2. /\ label'["StartSynchronous"] = label["StartSynchronous"]
        /\ label'["Calibrate"] = label["Calibrate"]
    BY <1>0, <2>1 DEF Gui!Buttons
  <2> QED  BY <1>1, <2>1, <2>2
<1> QED  BY <1>3, <1>4, <1>5, <1>6, <1>7 DEF Callback, OtherButton

(* Whatever leaves the slots alone, and what files in one.                 *)
LEMMA FiledStep ==
    ASSUME TypeOK, OneSession, status # "hung" => Stage, Filed, [Next]_vars
    PROVE  Filed'
<1> USE DEF Filed, ChannelsKeepStep, SlotsKeepStep
<1>0. UNCHANGED <<channel, slot, cal>> => Filed'
  OBVIOUS
<1>t. DOMAIN channel = Host!Channels /\ DOMAIN slot = 0..9
  BY DEF TypeOK, Host!TypeOK, Host!Slots
<1>1. CASE EndOfFrame \/ PressKey \/ ReleaseKey \/ UNCHANGED vars
  BY <1>0, <1>1 DEF EndOfFrame, PressKey, ReleaseKey, vars, listenerVars, runVars, calVars
<1>2. ASSUME NEW same \in BOOLEAN, Resume(same) PROVE Filed'
  <2>0. Stage
    BY <1>2 DEF Resume, Gui!Serving
  <2>1. ASSUME DATA_OUT \in Host!Channels, UNCHANGED <<slot, cal>>,
               NEW frame \in {{}, RunLight(DATA_OUT, LAG)},
               Host!FileInChannel(DATA_OUT, frame, same)
        PROVE  Filed'
    <3>1. channel' = channel \/ channel' = [channel EXCEPT ![DATA_OUT] = frame]
      BY <2>1 DEF Host!FileInChannel
    <3>2. \A code \in Host!Channels :
             channel'[code] \in {Host!Blank[code], Host!Dark, RunLight(code, LAG)}
      BY <1>t, <2>1, <3>1 DEF Host!Dark
    <3> QED  BY <2>1, <3>2
  <2>2. ASSUME DATA_OUT \in 1..9, UNCHANGED <<channel, cal>>,
               Host!FileInSlot(DATA_OUT, CalibrationLight(DATA_OUT, LAG), same)
        PROVE  Filed'
    <3>1. slot' = slot \/ slot' = [slot EXCEPT ![DATA_OUT] = CalibrationLight(DATA_OUT, LAG)]
      BY <2>2 DEF Host!FileInSlot
    <3>2. \A code \in 1..9 : slot'[code] \in {Host!Dark, CalibrationLight(code, LAG)}
      BY <1>t, <2>2, <3>1
    <3> QED  BY <2>2, <3>2
  <2> QED  BY <1>2, <2>0, <2>1, <2>2, ResumeMovesStage
<1>3. ASSUME NEW same \in BOOLEAN, NEW lh \in pending, Deliver(lh, same) PROVE Filed'
  BY <1>0, <1>3 DEF Deliver, Host!BeginRunMode, Host!BeginCalibration, listenerVars, runVars,
                    calVars, Host!listenerVars, Host!runVars, Host!calVars
<1>4. CASE Callback
  <2>1. CASE PrepareSynchronous
    BY <2>1 DEF PrepareSynchronous, Host!PrepareRunMode, Host!calVars
  <2>2. CASE ReadCalibrationCode
    <3>1. \A code \in 1..9 : slot'[code] = Host!Dark
      BY <2>2 DEF ReadCalibrationCode, Host!PrepareCalibration, Host!NoSlots, Host!Slots
    <3> QED  BY <2>2, <3>1 DEF ReadCalibrationCode, Host!PrepareCalibration, Host!runVars
  <2>3. CASE EndCalibration
    BY <2>3 DEF EndCalibration, Host!FinishCalibration, Host!runVars, Host!calVars
  <2>4. CASE ConfirmSynchronous \/ StopSynchronous \/ OtherButton
    BY <1>0, <2>4 DEF ConfirmSynchronous, Host!ConfirmRunMode, StopSynchronous, OtherButton,
                      listenerVars, runVars, calVars, Host!calVars
  <2> QED  BY <1>4, <2>1, <2>2, <2>3, <2>4 DEF Callback
<1> QED  BY <1>1, <1>2, <1>3, <1>4 DEF Next
-----------------------------------------------------------------------------
(* The inductive invariant.  Once MATLAB hangs, frames go on but none is   *)
(* served any more; a call left behind by the last session hangs with it.  *)
IInv ==
    /\ Disciplined /\ KEY = 1
    /\ OneSession /\ ModeOfSession /\ ListenersOfSession
    /\ SequencerInStep
    /\ status # "hung" => Stage
    /\ Filed

(* The open window has begun nothing.                                      *)
LEMMA IInvInitially == Disciplined /\ Init => IInv
<1> SUFFICES ASSUME Disciplined, Init PROVE IInv  OBVIOUS
<1>1. /\ label["StartSynchronous"] = "Prepare for Synchronous" /\ label["Calibrate"] = "Calibrate"
      /\ label["Bayer"] = "Start Bayer" /\ label["Monochrome"] = "Start Monochrome"
      /\ calling = "nothing" /\ status = "open"
      /\ Button_comp = 0 /\ capturing = FALSE /\ attached = {} /\ orphaned = {}
      /\ KEY = 1
  BY DEF Init, Gui!Init, Gui!IdleText
<1>2. ~Preparing /\ ~InRun /\ ~InCal /\ ~Bayer /\ ~Monochrome /\ ~Reading /\ ~Ready
  BY <1>1 DEF Preparing, InRun, InCal, Bayer, Monochrome, Reading, Ready
<1>3. OneSession /\ ModeOfSession /\ ListenersOfSession
  BY <1>1, <1>2 DEF OneSession, ModeOfSession, ListenersOfSession
<1>4. SequencerInStep
  <2>1. DATA_OUT = 0 /\ LED_output = Frame!Dark /\ startup_frame = 0 /\ calibration_cnt = 0
    BY DEF Init
  <2>2. Frame!CodeTracksCalibration /\ LED_output = Frame!LightOf(DATA_OUT)
    BY <2>1 DEF Frame!CodeTracksCalibration, Frame!Position, Frame!LightOf
  <2> QED  BY <1>2, <2>2 DEF SequencerInStep
<1>5. Stage
  BY <1>1, <1>2 DEF Init, Host!Init, Stage, Between
<1>6. Filed
  BY DEF Init, Host!Init, Filed, ChannelsKeepStep, SlotsKeepStep, Host!NoSlots, Host!Slots
<1> QED  BY <1>1, <1>3, <1>4, <1>5, <1>6 DEF IInv

(* One action at a time.                                                   *)
LEMMA IInvStep == TypeOK /\ TypeOK' /\ IInv /\ [Next]_vars => IInv'
<1> SUFFICES ASSUME TypeOK, TypeOK', IInv, [Next]_vars PROVE IInv'  OBVIOUS
<1>0. /\ Disciplined /\ OneSession /\ ModeOfSession /\ SequencerInStep /\ ListenersOfSession
      /\ KEY = 1
      /\ status # "hung" => Stage
      /\ Frame!TypeOK /\ Gui!TypeOK
  BY DEF IInv, TypeOK
<1>d. Disciplined'
  BY <1>0 DEF Disciplined
<1>f. Filed'
  BY <1>0, FiledStep DEF IInv
<1>b. UNCHANGED <<buttonVars, Button_comp>>
        => /\ OneSession' /\ ModeOfSession' /\ ListenersOfSession'
           /\ UNCHANGED status
  <2> SUFFICES ASSUME UNCHANGED <<label, attached, capturing, orphaned, status, calling,
                                  Button_comp>>
               PROVE  /\ OneSession' /\ ModeOfSession' /\ ListenersOfSession'
                      /\ UNCHANGED status
    BY DEF buttonVars
  <2> USE DEF Preparing, InRun, InCal, Bayer, Monochrome, Reading, Ready
  <2>1. OneSession'  BY <1>0 DEF OneSession
  <2>2. ModeOfSession'  BY <1>0 DEF ModeOfSession
  <2>3. ListenersOfSession'  BY <1>0 DEF ListenersOfSession
  <2> QED  BY <2>1, <2>2, <2>3
<1>s. UNCHANGED <<ledVars, buttonVars>> => SequencerInStep'
  BY <1>0 DEF ledVars, buttonVars, SequencerInStep, Frame!CodeTracksCalibration,
              Frame!Position, Preparing, InRun, InCal, Reading, Ready
<1>1. CASE EndOfFrame
  <2>1. /\ Frame!EndOfFrame /\ Expose
        /\ UNCHANGED <<KEY, buttonVars, listenerVars, Button_comp>>
    BY <1>1 DEF EndOfFrame, Frame!EndOfFrame
  <2>2. SequencerInStep'
    BY <1>0, <2>1, FrameKeepsStep
  <2>3. status' # "hung" => Stage'
    <3> SUFFICES ASSUME status # "hung" PROVE Stage'
      BY <1>b, <2>1
    <3>1. Served
      BY <1>0, <1>1 DEF EndOfFrame, Disciplined
    <3> QED  BY <1>0, <2>1, <3>1, FrameMovesStage
  <2> QED  BY <1>0, <1>b, <1>d, <1>f, <2>1, <2>2, <2>3 DEF IInv
<1>2. CASE PressKey \/ ReleaseKey
  BY <1>0, <1>2 DEF PressKey, ReleaseKey, Disciplined
<1>3. ASSUME NEW same \in BOOLEAN, Resume(same) PROVE IInv'
  <2>1. status # "hung" /\ UNCHANGED <<KEY, Button_comp, ledVars, buttonVars>>
    BY <1>3 DEF Resume, Gui!Serving
  <2>2. Stage'
    BY <1>0, <1>3, <2>1, ResumeMovesStage
  <2> QED  BY <1>0, <1>b, <1>d, <1>f, <1>s, <2>1, <2>2 DEF IInv
<1>4. ASSUME NEW same \in BOOLEAN, NEW lh \in pending, Deliver(lh, same) PROVE IInv'
  <2>1. status # "hung" /\ UNCHANGED <<KEY, Button_comp, ledVars, buttonVars>>
    BY <1>4 DEF Deliver, Gui!Serving
  <2>2. Stage'
    BY <1>0, <1>4, <2>1, DeliveryMovesStage
  <2> QED  BY <1>0, <1>b, <1>d, <1>f, <1>s, <2>1, <2>2 DEF IInv
<1>5. CASE Callback
  <2>1. GuiNext /\ KEY' = 1
    BY <1>0, <1>5, CallbackFrame
  <2>2. status = "open"
    BY <1>0, <2>1 DEF OneSession, GuiNext, Gui!Prepare, Gui!ConfirmStart,
       Gui!StartSynchronous, Gui!StopSynchronous, Gui!PressUnknown, Gui!Calibrate,
       Gui!ReadCode, Gui!StartCalibration, Gui!EndCalibration, Gui!Reprogram,
       Gui!CloseWindow, Gui!CloseMenuItem, Gui!StartWhite, Gui!StopWhite, Gui!EndCapture,
       Gui!MayBegin, Gui!Idle
  <2>3. /\ OneSession' /\ ModeOfSession' /\ ListenersOfSession'
    BY <1>0, <2>1, SessionsStep DEF SessionInv, Disciplined
  <2>s. Stage
    BY <1>0, <2>2
  <2>4. SequencerInStep'
    BY <1>0, <1>5, <2>s, CallbackKeepsStep
  <2>5. Stage'
    BY <1>0, <1>5, <2>s, <2>3, CallbackMovesStage
  <2> QED  BY <1>d, <1>f, <2>1, <2>3, <2>4, <2>5 DEF IInv
<1>6. CASE UNCHANGED vars
  <2>1. UNCHANGED <<KEY, Button_comp, ledVars, buttonVars, listenerVars, cameraVars>>
    BY <1>6 DEF vars
  <2>2. Stage => Stage'
    <3> SUFFICES ASSUME Stage PROVE Stage'  OBVIOUS
    <3>1. /\ UNCHANGED <<label, calling, LED_output, DATA_OUT, pipeline, image, pending>>
          /\ UNCHANGED <<stack, previmg, input, oldput, previousimg, previousin>>
      BY <2>1 DEF ledVars, buttonVars, listenerVars, cameraVars, runVars, calVars
    <3> HIDE <1>0
    <3>2. (OneFreshCall => OneFreshCall') /\ (Quiet => Quiet') /\ (RunSteady => RunSteady')
      BY <3>1 DEF OneFreshCall, Fresh, Quiet, RunSteady
    <3>3. Between => Between'
      BY <3>1, <3>2 DEF Between
    <3>4. /\ RunWarm => RunWarm'
          /\ RunDelivered => RunDelivered'
          /\ RunWaiting => RunWaiting'
          /\ RunServed => RunServed'
      BY <3>1, <3>2 DEF RunWarm, RunDelivered, RunWaiting, RunServed
    <3>5. /\ Behind' = Behind /\ SinceLit' = SinceLit
          /\ CalibrationPipeline => CalibrationPipeline'
          /\ CalibrationReady => CalibrationReady'
      BY <3>1, <3>2 DEF Behind, SinceLit, CalibrationPipeline, CalibrationReady
    <3>6. CalibrationWarm => CalibrationWarm'
      BY <3>1, <3>2, <3>5 DEF CalibrationWarm
    <3>7. CalibrationSteady => CalibrationSteady'
      BY <3>1, <3>5 DEF CalibrationSteady
    <3>8. /\ CalibrationDelivered => CalibrationDelivered'
          /\ CalibrationWaiting => CalibrationWaiting'
          /\ CalibrationServed => CalibrationServed'
      BY <3>1, <3>2, <3>5, <3>7 DEF CalibrationDelivered, CalibrationWaiting, CalibrationServed
    <3> QED
      BY <3>1, <3>2, <3>3, <3>4, <3>5, <3>6, <3>8
         DEF Stage, Preparing, InRun, InCal, Reading, Ready
  <2> QED  BY <1>0, <1>b, <1>d, <1>f, <1>s, <2>1, <2>2 DEF IInv
<1> QED  BY <1>1, <1>2, <1>3, <1>4, <1>5, <1>6 DEF Next

(* So a disciplined system stays in one of the stages.                     *)
LEMMA InductiveInvariant == Disciplined /\ Spec => []IInv
  BY IInvInitially, IInvStep, SystemTypeCorrect, PTL DEF Spec

(* A prompt host never files a run-mode frame under another light's code.  *)
THEOREM ChannelsAlwaysKeepStep == Disciplined /\ Spec => []ChannelsKeepStep
<1>1. IInv => ChannelsKeepStep
  BY DEF IInv, Filed
<1> QED  BY <1>1, InductiveInvariant, PTL

(* Nor a calibration frame.                                                *)
THEOREM SlotsAlwaysKeepStep == Disciplined /\ Spec => []SlotsKeepStep
<1>1. IInv => SlotsKeepStep
  BY DEF IInv, Filed
<1> QED  BY <1>1, InductiveInvariant, PTL

-----------------------------------------------------------------------------
(* In each column of CAL one row is lit, and it moves down with the lag.   *)
LitRow(column, lag) == (((column - 1) + (lag % 3)) % 3) + 1

LEMMA OneRowIsLit ==
    ASSUME NEW lag \in Nat, NEW row \in 1..3, NEW column \in 1..3
    PROVE  /\ CAL[row][column] \in 1..9
           /\ CalibrationLight(CAL[row][column], lag) # {} <=> row = LitRow(column, lag)
<1> DEFINE code == CAL[row][column]
<1>1. \/ row = 1 /\ column = 1 /\ code = 1
      \/ row = 1 /\ column = 2 /\ code = 6
      \/ row = 1 /\ column = 3 /\ code = 8
      \/ row = 2 /\ column = 1 /\ code = 2
      \/ row = 2 /\ column = 2 /\ code = 4
      \/ row = 2 /\ column = 3 /\ code = 9
      \/ row = 3 /\ column = 1 /\ code = 3
      \/ row = 3 /\ column = 2 /\ code = 5
      \/ row = 3 /\ column = 3 /\ code = 7
  BY DEF CAL
<1>2. code \in 1..9
  BY <1>1
<1>3. CalibrationLight(code, lag) # {} <=> (code - 1 + 8 * lag) % 3 = 0
  BY <1>2, CalibrationLightMoves
<1> HIDE DEF code
<1>4. (code - 1 + 8 * lag) % 3 = 0 <=> lag % 3 = (code - 1) % 3
  BY <1>2
<1>5. lag % 3 = (code - 1) % 3 <=> row = LitRow(column, lag)
  <2>1. lag % 3 \in 0..2
    OBVIOUS
  <2> DEFINE rest == lag % 3
  <2> HIDE DEF rest
  <2>2. rest = (code - 1) % 3 <=> row = (((column - 1) + rest) % 3) + 1
    BY <1>1, <2>1 DEF rest
  <2> QED  BY <2>2 DEF rest, LitRow
<1> QED  BY <1>2, <1>3, <1>4, <1>5 DEF code

(* The colour a column shows is its own, moved by the two lags.            *)
LEMMA ColourOfColumn ==
    ASSUME NEW m \in Nat, NEW n \in Nat, NEW column \in 1..3
    PROVE  /\ LitRow(column, n) \in 1..3
           /\ RunLight(9 + LitRow(column, n), m)
                = {Frame!Colour[((column - 1) + (n % 3) + 2 * (m % 3)) % 3]}
<1> DEFINE row == LitRow(column, n)
<1>1. n % 3 \in 0..2 /\ m % 3 \in 0..2
  OBVIOUS
<1>2. row = (((column - 1) + (n % 3)) % 3) + 1
  BY DEF LitRow
<1>3. row \in 1..3
  BY <1>1, <1>2
<1>4. ((9 + row) - 10 + 3 * m - m) % 3 = (row - 1 + 2 * (m % 3)) % 3
  <2> HIDE DEF row
  <2> QED  BY <1>3
<1>5. (row - 1 + 2 * (m % 3)) % 3 = ((column - 1) + (n % 3) + 2 * (m % 3)) % 3
  <2> DEFINE a == n % 3
             b == m % 3
  <2>1. a \in 0..2 /\ b \in 0..2 /\ row = (((column - 1) + a) % 3) + 1
    BY <1>1, <1>2
  <2> HIDE DEF a, b, row
  <2>2. (row - 1 + 2 * b) % 3 = ((column - 1) + a + 2 * b) % 3
    BY <2>1
  <2> QED  BY <2>2 DEF a, b
<1> QED  BY <1>3, <1>4, <1>5 DEF RunLight

(* The channels lag m frames behind and the slots n.                       *)
Lagging(lights, frames, m, n) ==
    /\ \A code \in Host!Channels : frames[code] = RunLight(code, m)
    /\ \A code \in 1..9 : lights[code] = CalibrationLight(code, n)

(* The colour a column of CAL shows at these lags.                         *)
Turned(column, m, n) == {{Frame!Colour[((column - 1) + (n % 3) + 2 * (m % 3)) % 3]}}

(* What an order shows in a channel of the screen.                         *)
LEMMA WhatIsShown ==
    ASSUME NEW m \in Nat, NEW n \in Nat, NEW frames, NEW lights,
           Lagging(lights, frames, m, n)
    PROVE  \A order \in 1..3, c \in Colours, column \in 1..3 :
              Column[Orders[order][c]] = column =>
                 Shown(order, c, lights, frames) = Turned(column, m, n)
<1> SUFFICES ASSUME NEW order \in 1..3, NEW c \in Colours, NEW column \in 1..3,
                    Column[Orders[order][c]] = column
             PROVE  Shown(order, c, lights, frames) = Turned(column, m, n)
  OBVIOUS
<1>1. \A row \in 1..3 : lights[CAL[row][column]] # {} <=> row = LitRow(column, n)
  BY OneRowIsLit DEF Lagging
<1>r. LitRow(column, n) \in 1..3
  BY ColourOfColumn
<1>2. {i \in 1..3 : lights[CAL[i][column]] # {}} = {LitRow(column, n)}
  BY <1>1, <1>r
<1>3. 9 + LitRow(column, n) \in Host!Channels
  BY <1>r DEF Host!Channels
<1>4. Shown(order, c, lights, frames) = {frames[9 + LitRow(column, n)]}
  BY <1>2 DEF Shown
<1> QED  BY <1>3, <1>4, ColourOfColumn DEF Lagging, Turned

(* Whatever the lags of run mode and of calibration, one of the three      *)
(* orders shows each colour in its place: the orders turn the pictures the *)
(* way in which a lag turns them.                                          *)
THEOREM SomeOrderFits ==
    ASSUME NEW m \in Nat, NEW n \in Nat, NEW frames, NEW lights,
           \A code \in Host!Channels : frames[code] = RunLight(code, m),
           \A code \in 1..9 : lights[code] = CalibrationLight(code, n)
    PROVE  \E order \in 1..3 : Fits(order, lights, frames)
<1> DEFINE turn == ((n % 3) + 2 * (m % 3)) % 3
           Is(k) == Turned(k, m, n)
<1>1. /\ Column[Orders[1]["red"]] = 3 /\ Column[Orders[1]["green"]] = 1
      /\ Column[Orders[1]["blue"]] = 2
      /\ Column[Orders[2]["red"]] = 2 /\ Column[Orders[2]["green"]] = 3
      /\ Column[Orders[2]["blue"]] = 1
      /\ Column[Orders[3]["red"]] = 1 /\ Column[Orders[3]["green"]] = 2
      /\ Column[Orders[3]["blue"]] = 3
  BY DEF Column, Orders
<1>2. \A order \in 1..3, c \in Colours, column \in 1..3 :
         Column[Orders[order][c]] = column => Shown(order, c, lights, frames) = Is(column)
  <2>1. Lagging(lights, frames, m, n)
    BY DEF Lagging
  <2> QED  BY <2>1, WhatIsShown
<1>3. /\ turn \in 0..2
      /\ \A k \in 1..3 : Is(k) = {{Frame!Colour[((k - 1) + turn) % 3]}}
  <2> DEFINE a == n % 3
             b == m % 3
  <2>1. a \in 0..2 /\ b \in 0..2
    OBVIOUS
  <2>2. turn = (a + 2 * b) % 3
    OBVIOUS
  <2> HIDE DEF a, b, turn
  <2>3. turn \in 0..2 /\ \A k \in 1..3 : ((k - 1) + a + 2 * b) % 3 = ((k - 1) + turn) % 3
    BY <2>1, <2>2
  <2> QED  BY <2>3 DEF a, b, Turned
<1> HIDE DEF turn, Is
<1>4. Frame!Colour[0] = "red" /\ Frame!Colour[1] = "green" /\ Frame!Colour[2] = "blue"
  BY DEF Frame!Colour
<1>5. CASE turn = 0
  <2>1. Is(1) = {{"red"}} /\ Is(2) = {{"green"}} /\ Is(3) = {{"blue"}}
    BY <1>3, <1>4, <1>5
  <2>2. Fits(3, lights, frames)
    BY <1>1, <1>2, <2>1 DEF Fits, Colours
  <2> QED  BY <2>2
<1>6. CASE turn = 1
  <2>1. Is(1) = {{"green"}} /\ Is(2) = {{"blue"}} /\ Is(3) = {{"red"}}
    BY <1>3, <1>4, <1>6
  <2>2. Fits(1, lights, frames)
    BY <1>1, <1>2, <2>1 DEF Fits, Colours
  <2> QED  BY <2>2
<1>7. CASE turn = 2
  <2>1. Is(1) = {{"blue"}} /\ Is(2) = {{"red"}} /\ Is(3) = {{"green"}}
    BY <1>3, <1>4, <1>7
  <2>2. Fits(2, lights, frames)
    BY <1>1, <1>2, <2>1 DEF Fits, Colours
  <2> QED  BY <2>2
<1> QED  BY <1>3, <1>5, <1>6, <1>7

(* At a given lag each colour belongs to one code.                         *)
LEMMA OneCodeForEachLight ==
    ASSUME NEW ago \in Nat
    PROVE  /\ \A code, other \in Host!Channels :
                RunLight(code, ago) = RunLight(other, ago) => code = other
           /\ \A code \in Host!Channels : \E c \in Colours : RunLight(code, ago) = {c}
           /\ \A code, other \in 1..9 :
                /\ CalibrationLight(code, ago) # {}
                /\ CalibrationLight(code, ago) = CalibrationLight(other, ago)
                => code = other
           /\ \A code \in 1..9 : CalibrationLight(code, ago) # {}
                => \E c \in Colours : CalibrationLight(code, ago) = {c}
<1> DEFINE Index(c) == (c - 10 + 3 * ago - ago) % 3
           Pos(c) == (c - 1 + 9 * ago - ago) % 9
           Light(p) == IF p % 3 = 0 THEN {Frame!Colour[p \div 3]} ELSE {}
<1>1. /\ \A c \in 10..12 : Index(c) \in 0..2
      /\ \A c, d \in 10..12 : Index(c) = Index(d) => c = d
  OBVIOUS
<1>2. \A c \in 1..9 : Pos(c) \in 0..8
  OBVIOUS
<1>3. \A c, d \in 1..9 : Pos(c) = Pos(d) => c = d
  OBVIOUS
<1>4. /\ \A c : RunLight(c, ago) = {Frame!Colour[Index(c)]}
      /\ \A c : CalibrationLight(c, ago) = Light(Pos(c))
  BY DEF RunLight, CalibrationLight, Host!Dark
<1>5. /\ \A i \in 0..2 : Frame!Colour[i] \in Colours
      /\ \A i, j \in 0..2 : {Frame!Colour[i]} = {Frame!Colour[j]} => i = j
  <2>1. \A i \in 0..2 : Frame!Colour[i] \in Colours
    BY DEF Frame!Colour, Colours
  <2> QED  BY <2>1, LightFacts
<1>6. \A p, q \in 0..8 : Light(p) # {} /\ Light(p) = Light(q) => p = q
  <2> SUFFICES ASSUME NEW p \in 0..8, NEW q \in 0..8, Light(p) # {}, Light(p) = Light(q)
               PROVE  p = q
    OBVIOUS
  <2>1. p % 3 = 0 /\ q % 3 = 0
    OBVIOUS
  <2>2. p \div 3 \in 0..2 /\ q \div 3 \in 0..2
    OBVIOUS
  <2>3. {Frame!Colour[p \div 3]} = {Frame!Colour[q \div 3]}
    BY <2>1
  <2>4. p \div 3 = q \div 3
    BY <1>5, <2>2, <2>3
  <2> QED  BY <2>1, <2>4
<1>7. \A p \in 0..8 : Light(p) # {} => \E c \in Colours : Light(p) = {c}
  <2> SUFFICES ASSUME NEW p \in 0..8, Light(p) # {} PROVE \E c \in Colours : Light(p) = {c}
    OBVIOUS
  <2>1. p \div 3 \in 0..2 /\ Light(p) = {Frame!Colour[p \div 3]}
    OBVIOUS
  <2> QED  BY <1>5, <2>1
<1> HIDE DEF Index, Pos, Light
<1>8. \A code, other \in Host!Channels :
         RunLight(code, ago) = RunLight(other, ago) => code = other
  BY <1>1, <1>4, <1>5 DEF Host!Channels
<1>9. \A code \in Host!Channels : \E c \in Colours : RunLight(code, ago) = {c}
  BY <1>1, <1>4, <1>5 DEF Host!Channels
<1> QED  BY <1>2, <1>3, <1>4, <1>6, <1>7, <1>8, <1>9

(* What a disciplined system has filed fits one of the orders, as soon as  *)
(* both of its halves have met every colour.                               *)
LEMMA FiledFits == Filed => SomeOrderTrue
<1> SUFFICES ASSUME Filed,
                    EachColourIn({cal[code] : code \in 1..9}),
                    EachColourIn({channel[code] : code \in Host!Channels})
             PROVE  \E order \in 1..3 : Fits(order, cal, channel)
  BY DEF SomeOrderTrue
<1>0. LAG \in Nat
  BY BoundsAssumption DEF LAG
<1>1. \A c \in Colours :
         /\ \E code \in 1..9 : cal[code] = {c}
         /\ \E code \in Host!Channels : channel[code] = {c}
  BY DEF EachColourIn
<1>2. ASSUME NEW code \in Host!Channels PROVE channel[code] = RunLight(code, LAG)
  <2>1. PICK c \in Colours : RunLight(code, LAG) = {c}
    BY <1>0, OneCodeForEachLight
  <2>2. PICK other \in Host!Channels : channel[other] = {c}
    BY <1>1
  <2>3. channel[other] \in {Host!Blank[other], {}, RunLight(other, LAG)}
    BY DEF Filed, ChannelsKeepStep, Host!Dark
  <2>4. Host!Blank[other] # {c}
    <3>1. Host!Blank[other] \in {{"ones"}, {"twos"}, {"sixes"}}
      BY DEF Host!Blank, Host!Channels
    <3>2. c # "ones" /\ c # "twos" /\ c # "sixes"
      BY DEF Colours
    <3> QED  BY <3>1, <3>2
  <2>5. RunLight(other, LAG) = RunLight(code, LAG)
    BY <2>1, <2>2, <2>3, <2>4
  <2>6. other = code
    BY <1>0, <2>5, OneCodeForEachLight
  <2> QED  BY <2>1, <2>2, <2>6
<1>3. ASSUME NEW code \in 1..9 PROVE cal[code] = CalibrationLight(code, LAG)
  <2>0. \A other \in 1..9 : cal[other] \in {{}, CalibrationLight(other, LAG)}
    BY DEF Filed, Host!Dark
  <2>1. CASE CalibrationLight(code, LAG) = {}
    BY <2>0, <2>1
  <2>2. CASE CalibrationLight(code, LAG) # {}
    <3>1. PICK c \in Colours : CalibrationLight(code, LAG) = {c}
      BY <1>0, <2>2, OneCodeForEachLight
    <3>2. PICK other \in 1..9 : cal[other] = {c}
      BY <1>1
    <3>3. CalibrationLight(other, LAG) = CalibrationLight(code, LAG)
      BY <2>0, <3>1, <3>2
    <3>4. other = code
      BY <1>0, <2>2, <3>3, OneCodeForEachLight
    <3> QED  BY <3>1, <3>2, <3>4
  <2> QED  BY <2>1, <2>2
<1> QED  BY <1>0, <1>2, <1>3, SomeOrderFits

(* A disciplined system can always put its colours right.                  *)
THEOREM SomeOrderAlwaysTrue == Disciplined /\ Spec => []SomeOrderTrue
<1>1. IInv => SomeOrderTrue
  BY FiledFits DEF IInv
<1> QED  BY <1>1, InductiveInvariant, PTL
=============================================================================
