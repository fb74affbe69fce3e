----------------------------- MODULE Countdowns -----------------------------
(***************************************************************************)
(* What the alarms of the Nios II HAL promise: an alarm started for n      *)
(* ticks goes off at the tick after the n-th, whenever the tick counter    *)
(* wraps round; its callback then names the ticks to the next time, or 0   *)
(* to be dropped.                                                          *)
(***************************************************************************)
EXTENDS Naturals

CONSTANTS Alarms, MaxTicks

VARIABLES left              \* the ticks to go for each alarm, 0 when not set

Init == left = [a \in Alarms |-> 0]

Start(a, n) ==
    /\ left[a] = 0
    /\ left' = [left EXCEPT ![a] = n + 1]

Stop(a) == left' = [left EXCEPT ![a] = 0]

(* Every alarm counts down, and one that reaches 0 is set again to what    *)
(* its callback returns.                                                   *)
Tick ==
    \E again \in [Alarms -> 0..MaxTicks] :
        left' = [a \in Alarms |-> IF left[a] > 1 THEN left[a] - 1
                                  ELSE IF left[a] = 1 THEN again[a] ELSE 0]

Next ==
    \/ \E a \in Alarms : Stop(a) \/ \E n \in 0..MaxTicks : Start(a, n)
    \/ Tick

Spec == Init /\ [][Next]_left
=============================================================================
