----------------------------- MODULE PacedFrames -----------------------------
(***************************************************************************)
(* What the LED controller promises the camera side: the sequencer steps   *)
(* by whole frames, and between two of its steps at least MIN_GAP clock    *)
(* edges go by.  How an end of frame is recognised is left open.  This is  *)
(* the abstract specification that IlluminationFPGA implements.            *)
(***************************************************************************)
EXTENDS Naturals

CONSTANTS
    WriteValues,            \* the words the host writes
    MIN_GAP                 \* clock edges between two frame steps

VARIABLES
    Button_comp, LED_output, DATA_OUT, startup_frame, calibration_cnt,
    elapsed                 \* edges since the last step, up to MIN_GAP

Frame == INSTANCE FrameSequencer

vars == <<Frame!vars, elapsed>>

Init ==
    /\ Frame!Init
    /\ elapsed \in {0, MIN_GAP}

Tick ==
    /\ elapsed < MIN_GAP
    /\ elapsed' = elapsed + 1
    /\ UNCHANGED Frame!vars

Step ==
    /\ elapsed = MIN_GAP
    /\ elapsed' = 0
    /\ Frame!EndOfFrame

HostWrite ==
    /\ \/ \E value \in WriteValues : Frame!WriteButton(value)
       \/ Frame!ResetButton
    /\ UNCHANGED elapsed

Next == Tick \/ Step \/ HostWrite

Spec == Init /\ [][Next]_vars
=============================================================================
