--------------------------- MODULE CaptureListeners ---------------------------
(***************************************************************************)
(* The functions that run for every processed frame: displayobjRunMode and *)
(* displayobjCalibration.  Each drops a frame that hardly differs from the *)
(* one before, then reads the FPGA's code until it differs from the code   *)
(* of the frame before, and files the frame under that code.  The pause in *)
(* that loop lets button callbacks and other listeners run, on top of the  *)
(* waiting one: the waiting calls form a stack and only its top goes on.   *)
(*                                                                         *)
(* An image is abstracted to the light that was on while it was exposed, a *)
(* set of colours; Dark is also the zero matrix the slots start with.  Two *)
(* images of different light always differ in enough pixels to pass the    *)
(* thresholds; two of the same light differ in enough only if the light is *)
(* in Noisy, and then may or may not.                                      *)
(***************************************************************************)
EXTENDS Naturals, Sequences

CONSTANTS
    Noisy,                  \* lights under which equal scenes may differ
    MaxStack                \* bound on the calls waiting at a time

VARIABLES
    DATA_OUT,               \* the code, read over the bus
    stack,                  \* the waiting calls, the innermost last
    previmg, input, oldput, \* globals of displayobjRunMode
    channel,                \* its A, B and C, filed under 10, 11 and 12
    previousimg, previousin,\* globals of displayobjCalibration
    slot,                   \* its ZeroCal, RedOn, ... BlueZero, under 0..9
    cal                     \* the slots the calibration matrices came from

runVars == <<previmg, input, oldput, channel>>
calVars == <<previousimg, previousin, slot>>
listenerVars == <<stack, runVars, calVars, cal>>

Dark == {}
Lights == {Dark, {"red"}, {"green"}, {"blue"}, {"red", "green", "blue"}}
Channels == 10..12
Slots == 0..9

(* A, B and C before their first frame: the constants 1, 2 and 6.          *)
Blank == [code \in Channels |-> CASE code = 10 -> {"ones"}
                                  [] code = 11 -> {"twos"}
                                  [] code = 12 -> {"sixes"}]
NoSlots == [code \in Slots |-> Dark]

Call == [listener : {"lh1", "lh2"}, image : Lights, live : BOOLEAN, input : 0..13]

TypeOK ==
    /\ stack \in Seq(Call) /\ Len(stack) <= MaxStack
    /\ previmg \in Lights /\ previousimg \in Lights
    /\ input \in 0..13 /\ oldput \in 0..13 /\ previousin \in 0..13
    /\ channel \in [Channels -> Lights \cup {Blank[code] : code \in Channels}]
    /\ slot \in [Slots -> Lights]
    /\ cal \in [Slots -> Lights]

Init ==
    /\ stack = <<>>
    /\ previmg = Dark /\ previousimg = Dark
    /\ input = 0 /\ oldput = 0 /\ previousin = 0
    /\ channel = Blank
    /\ slot = NoSlots
    /\ cal = NoSlots

(* More pixels than the threshold changed; same: the noise is below it.    *)
Differ(x, y, same) == x # y \/ (x \in Noisy /\ ~same)

Push(call) == stack' = Append(stack, call)
Pop == stack' = SubSeq(stack, 1, Len(stack) - 1)
Top == stack[Len(stack)]

(* A listener does not run inside itself.                                  *)
Waiting(lh) == \E i \in 1..Len(stack) : stack[i].listener = lh /\ stack[i].live

-----------------------------------------------------------------------------
(* displayobjRunMode up to the pause of its first turn of the loop.        *)
BeginRunMode(image, same) ==
    IF Differ(image, previmg, same)
      THEN /\ previmg' = image
           /\ input' = DATA_OUT
           /\ Push([listener |-> "lh1", image |-> image, live |-> TRUE, input |-> 0])
           /\ UNCHANGED <<oldput, channel, calVars, cal>>
      ELSE UNCHANGED listenerVars

(* The frame goes to its channel if it differs from both of the others.    *)
FileInChannel(code, image, same) ==
    channel' = IF /\ code \in Channels
                  /\ \A other \in Channels \ {code} : Differ(image, channel[other], same)
                 THEN [channel EXCEPT ![code] = image]
                 ELSE channel

(* Mutant: the code is not remembered for the next frame.                  *)
ResumeForgetsCode(same) ==
    /\ stack # <<>> /\ Top.listener = "lh1"
    /\ IF input = oldput
         THEN /\ input' = DATA_OUT
              /\ UNCHANGED <<stack, channel>>
         ELSE /\ FileInChannel(input, Top.image, same)
              /\ Pop
              /\ UNCHANGED input
    /\ UNCHANGED <<oldput, previmg, calVars, cal>>

(* After the pause: read again, or file the frame under the new code.      *)
ResumeRunMode(same) ==
    /\ stack # <<>> /\ Top.listener = "lh1"
    /\ IF input = oldput
         THEN /\ input' = DATA_OUT
              /\ UNCHANGED <<stack, oldput, channel>>
         ELSE /\ oldput' = input
              /\ FileInChannel(input, Top.image, same)
              /\ Pop
              /\ UNCHANGED input
    /\ UNCHANGED <<previmg, calVars, cal>>

-----------------------------------------------------------------------------
(* displayobjCalibration, likewise; its input is local to the call.        *)
BeginCalibration(image, same) ==
    IF Differ(image, previousimg, same)
      THEN /\ previousimg' = image
           /\ Push([listener |-> "lh2", image |-> image, live |-> TRUE, input |-> DATA_OUT])
           /\ UNCHANGED <<previousin, slot, runVars, cal>>
      ELSE UNCHANGED listenerVars

(* The slots before and after a code, around the sequence of nine.         *)
Neighbours(code) == {((code + 7) % 9) + 1, (code % 9) + 1}

(* Mutant: the comparison with the thresholds is the wrong way round.      *)
FileWhenAlike(code, image, same) ==
    slot' = IF \/ code = 0
               \/ /\ code \in 1..9
                  /\ \A other \in Neighbours(code) : ~Differ(image, slot[other], same)
              THEN [slot EXCEPT ![code] = image]
              ELSE slot

FileInSlot(code, image, same) ==
    slot' = IF \/ code = 0
               \/ /\ code \in 1..9
                  /\ \A other \in Neighbours(code) : Differ(image, slot[other], same)
              THEN [slot EXCEPT ![code] = image]
              ELSE slot

(* Mutant: the code is not remembered for the next frame.                  *)
ResumeCalibrationForgets(same) ==
    /\ stack # <<>> /\ Top.listener = "lh2"
    /\ IF Top.input = previousin
         THEN /\ stack' = [stack EXCEPT ![Len(stack)].input = DATA_OUT]
              /\ UNCHANGED slot
         ELSE /\ FileInSlot(Top.input, Top.image, same)
              /\ Pop
    /\ UNCHANGED <<previousin, previousimg, runVars, cal>>

ResumeCalibration(same) ==
    /\ stack # <<>> /\ Top.listener = "lh2"
    /\ IF Top.input = previousin
         THEN /\ stack' = [stack EXCEPT ![Len(stack)].input = DATA_OUT]
              /\ UNCHANGED <<previousin, slot>>
         ELSE /\ previousin' = Top.input
              /\ FileInSlot(Top.input, Top.image, same)
              /\ Pop
    /\ UNCHANGED <<previousimg, runVars, cal>>

-----------------------------------------------------------------------------
(* What the buttons do to this state.  Deleting a listener does not stop a *)
(* call of it that is waiting.                                             *)
Delete(lh) ==
    stack' = [i \in 1..Len(stack) |->
                IF stack[i].listener = lh THEN [stack[i] EXCEPT !.live = FALSE] ELSE stack[i]]

PrepareRunMode ==
    /\ channel' = Blank
    /\ previmg' = Dark
    /\ UNCHANGED <<stack, input, oldput, calVars, cal>>

ConfirmRunMode ==
    /\ oldput' = DATA_OUT
    /\ UNCHANGED <<stack, previmg, input, channel, calVars, cal>>

PrepareCalibration ==
    /\ previousin' = DATA_OUT
    /\ previousimg' = Dark
    /\ slot' = [NoSlots EXCEPT ![0] = slot[0]]
    /\ UNCHANGED <<stack, runVars, cal>>

FinishCalibration ==
    /\ Delete("lh2")
    /\ cal' = slot
    /\ UNCHANGED <<runVars, calVars>>
=============================================================================
