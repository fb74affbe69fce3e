------------------------------- MODULE Alarms -------------------------------
(***************************************************************************)
(* The alarms of the Nios II HAL, alt_alarm_start.c and alt_tick.c: a tick *)
(* counter of fixed width, and for each alarm set the tick it is due at    *)
(* and whether the counter has to roll over first.                         *)
(*                                                                         *)
(* Starting and stopping disable interrupts and a tick is one, so each is  *)
(* a step.  A callback, run by the tick, returns the ticks to the next     *)
(* call and neither starts nor stops an alarm: the HAL's own callbacks,    *)
(* altera_avalon_jtag_uart_timeout and nios2_pcsample, do neither.  The    *)
(* order of the list is then of no account, and the list a set.  An alarm  *)
(* that is set is not started again, which would tie the list into a knot. *)
(***************************************************************************)
EXTENDS Integers

CONSTANTS
    Alarm,                  \* the alarm structures of the application
    WRAP,                   \* 2^32, the range of alt_u32
    MaxTicks                \* the longest interval asked for

(* An interval of WRAP - 1 does not work: see Start.                       *)
ASSUME AlarmAssumption == WRAP \in Nat /\ MaxTicks \in Nat /\ MaxTicks <= WRAP - 2

VARIABLES
    nticks,                 \* _alt_nticks
    alt_alarm_list,         \* the alarms that are set
    time, rollover          \* the fields of each alarm

vars == <<nticks, alt_alarm_list, time, rollover>>

TypeOK ==
    /\ nticks \in 0..WRAP - 1
    /\ alt_alarm_list \subseteq Alarm
    /\ time \in [Alarm -> 0..WRAP - 1]
    /\ rollover \in [Alarm -> BOOLEAN]

Init ==
    /\ nticks = 0
    /\ alt_alarm_list = {}
    /\ time = [a \in Alarm |-> 0]
    /\ rollover = [a \in Alarm |-> FALSE]

(* Mutant: the interval counts from the last tick, not from the next.      *)
DueFromLast(n) == (n + nticks) % WRAP

Due(n) == (n + nticks + 1) % WRAP

(* alt_alarm_start, on a system with a clock.  For n = WRAP - 1 the time   *)
(* would be nticks itself, and the alarm would go off at the next tick.    *)
Start(a, n) ==
    /\ a \notin alt_alarm_list
    /\ alt_alarm_list' = alt_alarm_list \cup {a}
    /\ time' = [time EXCEPT ![a] = Due(n)]
    /\ rollover' = [rollover EXCEPT ![a] = Due(n) < nticks]
    /\ UNCHANGED nticks

(* alt_alarm_stop.  It changes nothing for an alarm that has gone off and  *)
(* left the list; the program stops none that was never set, whose list    *)
(* pointers are null.                                                      *)
Stop(a) ==
    /\ a \in alt_alarm_list
    /\ alt_alarm_list' = alt_alarm_list \ {a}
    /\ UNCHANGED <<nticks, time, rollover>>

(* Mutant: the flag is cleared one tick late.                              *)
StillAheadLate(a, now) == rollover[a] /\ now # 1

(* The flag of an alarm that is set, cleared when the counter rolls over.  *)
StillAhead(a, now) == rollover[a] /\ now # 0

(* alt_tick: again[a] is what the callback of a returns if it is called.   *)
TickTo(now, again) ==
    LET fires == {a \in alt_alarm_list : time[a] <= now /\ ~StillAhead(a, now)}
        next(a) == (time[a] + again[a]) % WRAP
    IN /\ nticks' = now
       /\ alt_alarm_list' = alt_alarm_list \ {a \in fires : again[a] = 0}
       /\ time' = [a \in Alarm |->
                     IF a \in fires /\ again[a] # 0 THEN next(a) ELSE time[a]]
       /\ rollover' = [a \in Alarm |->
                     IF a \notin alt_alarm_list THEN rollover[a]
                     ELSE IF a \in fires /\ again[a] # 0 THEN next(a) < now
                     ELSE StillAhead(a, now)]

Tick == \E again \in [Alarm -> 0..MaxTicks] : TickTo((nticks + 1) % WRAP, again)

Next ==
    \/ \E a \in Alarm : Stop(a) \/ \E n \in 0..MaxTicks : Start(a, n)
    \/ Tick

Spec == Init /\ [][Next]_vars

-----------------------------------------------------------------------------
(* Properties.                                                             *)

(* The flag of an alarm that is set tells whether the counter rolls over   *)
(* before the alarm is due: without it, the due time lies ahead.           *)
RolloverTellsWrap ==
    \A a \in alt_alarm_list : rollover[a] <=> time[a] <= nticks

TicksLeft(a) ==
    IF a \notin alt_alarm_list THEN 0
    ELSE IF rollover[a] THEN time[a] + WRAP - nticks ELSE time[a] - nticks

Abstract == INSTANCE Countdowns WITH
    Alarms <- Alarm, left <- [a \in Alarm |-> TicksLeft(a)]

(* Every alarm goes off at its tick and at no other, though the counter    *)
(* and the due times wrap round at different moments.                      *)
FiresOnTime == Abstract!Spec
=============================================================================
