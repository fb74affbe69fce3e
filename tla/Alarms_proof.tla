---------------------------- MODULE Alarms_proof ----------------------------
(***************************************************************************)
(* Theorems about Alarms, for any set of alarms and any range of the tick  *)
(* counter.  The inductive invariant is TypeOK with RolloverTellsWrap;     *)
(* under it the ticks left of every alarm follow Countdowns.               *)
(***************************************************************************)
EXTENDS Alarms, TLAPS

(* A sum of two words wraps round once at most.                            *)
LEMMA ModOnce ==
    ASSUME NEW w \in Nat, NEW x \in Nat, x < 2 * w
    PROVE  x % w = IF x < w THEN x ELSE x - w
  <1>1. CASE x < w  BY <1>1
  <1>2. CASE x >= w
    <2>1. (x - w) \in Nat /\ x - w < w  BY <1>2
    <2>2. x = 1 * w + (x - w)  OBVIOUS
    <2>q. QED  BY <1>2, <2>1, <2>2, Z3
  <1>q. QED  BY <1>1, <1>2

IInv == TypeOK /\ RolloverTellsWrap

(* The due time k ticks from now: the flag says whether it lies beyond the *)
(* roll-over, and k ticks are left.                                        *)
LEMMA DueIn ==
    ASSUME NEW now \in 0..WRAP - 1, NEW k \in 1..WRAP - 1,
           NEW d, d = (k + now) % WRAP
    PROVE  /\ d \in 0..WRAP - 1
           /\ d < now <=> d <= now
           /\ k = IF d < now THEN d + WRAP - now ELSE d - now
  <1>1. WRAP \in Nat /\ k + now \in Nat /\ k + now < 2 * WRAP  BY AlarmAssumption
  <1>2. /\ k + now < WRAP => d = k + now
        /\ ~(k + now < WRAP) => d = k + now - WRAP
    <2> DEFINE Mod(x) == x % WRAP
    <2>1. d = Mod(k + now)  OBVIOUS
    <2>2. \A x \in Nat : x < 2 * WRAP => Mod(x) = IF x < WRAP THEN x ELSE x - WRAP
      BY <1>1, ModOnce, Zenon
    <2> HIDE DEF Mod
    <2>q. QED  BY <1>1, <2>1, <2>2
  <1>q. QED  BY <1>1, <1>2

(* The counter steps by one or rolls over.                                 *)
LEMMA NextTick ==
    ASSUME TypeOK
    PROVE  /\ WRAP \in Nat /\ nticks \in 0..WRAP - 1
           /\ (nticks + 1) % WRAP = IF nticks = WRAP - 1 THEN 0 ELSE nticks + 1
  <1>1. WRAP \in Nat /\ nticks \in 0..WRAP - 1  BY AlarmAssumption DEF TypeOK
  <1>2. nticks + 1 \in Nat /\ nticks + 1 < 2 * WRAP  BY <1>1, AlarmAssumption
  <1>3. /\ nticks + 1 < WRAP => (nticks + 1) % WRAP = nticks + 1
        /\ ~(nticks + 1 < WRAP) => (nticks + 1) % WRAP = nticks + 1 - WRAP
    <2> DEFINE Mod(x) == x % WRAP
    <2>1. (nticks + 1) % WRAP = Mod(nticks + 1)  OBVIOUS
    <2>2. \A x \in Nat : x < 2 * WRAP => Mod(x) = IF x < WRAP THEN x ELSE x - WRAP
      BY <1>1, ModOnce, Zenon
    <2> HIDE DEF Mod
    <2>q. QED  BY <1>1, <1>2, <2>1, <2>2
  <1>q. QED  BY <1>1, <1>3

(* What a start does to the alarm it starts, and to no other.              *)
LEMMA StartStep ==
    ASSUME IInv, NEW a \in Alarm, NEW n \in 0..MaxTicks, Start(a, n)
    PROVE  /\ IInv'
           /\ TicksLeft(a) = 0 /\ TicksLeft(a)' = n + 1
           /\ \A b \in Alarm \ {a} : TicksLeft(b)' = TicksLeft(b)
  <1>1. n + 1 \in 1..WRAP - 1 /\ nticks \in 0..WRAP - 1
    BY AlarmAssumption DEF IInv, TypeOK
  <1>2. Due(n) = ((n + 1) + nticks) % WRAP
    <2>1. n + nticks + 1 = (n + 1) + nticks  BY <1>1, AlarmAssumption
    <2>q. QED  BY <2>1 DEF Due
  <1>3. /\ Due(n) \in 0..WRAP - 1
        /\ Due(n) < nticks <=> Due(n) <= nticks
        /\ n + 1 = IF Due(n) < nticks THEN Due(n) + WRAP - nticks ELSE Due(n) - nticks
    BY <1>1, <1>2, DueIn
  <1>4. /\ time'[a] = Due(n) /\ (rollover'[a] <=> Due(n) < nticks)
        /\ \A b \in Alarm \ {a} : time'[b] = time[b] /\ rollover'[b] = rollover[b]
    BY DEF Start, IInv, TypeOK
  <1>5. TypeOK'  BY <1>3 DEF Start, IInv, TypeOK
  <1>6. RolloverTellsWrap'
    BY <1>3, <1>4 DEF Start, IInv, RolloverTellsWrap
  <1>7. TicksLeft(a) = 0 /\ TicksLeft(a)' = n + 1
    BY <1>3, <1>4 DEF Start, TicksLeft
  <1>8. \A b \in Alarm \ {a} : TicksLeft(b)' = TicksLeft(b)
    BY <1>4 DEF Start, TicksLeft
  <1>q. QED  BY <1>5, <1>6, <1>7, <1>8 DEF IInv

(* A stop clears one alarm.                                                *)
LEMMA StopStep ==
    ASSUME IInv, NEW a \in Alarm, Stop(a)
    PROVE  /\ IInv'
           /\ \A b \in Alarm : TicksLeft(b)' = IF b = a THEN 0 ELSE TicksLeft(b)
  BY DEF Stop, IInv, TypeOK, RolloverTellsWrap, TicksLeft

(* What a tick does to one alarm: it goes off when one tick is left.       *)
LEMMA TickStep ==
    ASSUME IInv, NEW again \in [Alarm -> 0..MaxTicks],
           TickTo((nticks + 1) % WRAP, again), NEW a \in Alarm
    PROVE  /\ time'[a] \in 0..WRAP - 1 /\ rollover'[a] \in BOOLEAN
           /\ a \in alt_alarm_list' => (rollover'[a] <=> time'[a] <= nticks')
           /\ TicksLeft(a)' = IF TicksLeft(a) > 1 THEN TicksLeft(a) - 1
                              ELSE IF TicksLeft(a) = 1 THEN again[a] ELSE 0
  <1> DEFINE now == (nticks + 1) % WRAP
             fires == time[a] <= now /\ ~StillAhead(a, now)
             due == (time[a] + again[a]) % WRAP
  <1>1. /\ WRAP \in Nat /\ nticks \in 0..WRAP - 1
        /\ now = IF nticks = WRAP - 1 THEN 0 ELSE nticks + 1
    BY NextTick DEF IInv
  <1>2. /\ time[a] \in 0..WRAP - 1 /\ rollover[a] \in BOOLEAN
        /\ a \in alt_alarm_list => (rollover[a] <=> time[a] <= nticks)
    BY DEF IInv, TypeOK, RolloverTellsWrap
  <1>3. again[a] \in 0..MaxTicks /\ MaxTicks \in Nat /\ MaxTicks <= WRAP - 2
    BY AlarmAssumption
  <1>4. nticks' = now  BY DEF TickTo
  <1>5. CASE a \notin alt_alarm_list
    <2>1. a \notin alt_alarm_list' /\ time'[a] = time[a] /\ rollover'[a] = rollover[a]
      BY <1>5 DEF TickTo
    <2>q. QED  BY <1>2, <1>5, <2>1 DEF TicksLeft
  <1>6. CASE a \in alt_alarm_list /\ ~fires
    <2>1. a \in alt_alarm_list' /\ time'[a] = time[a] /\ rollover'[a] = StillAhead(a, now)
      BY <1>6 DEF TickTo
    <2> HIDE DEF now
    <2>2. /\ StillAhead(a, now) \in BOOLEAN
          /\ StillAhead(a, now) <=> time[a] <= now
      BY <1>1, <1>2, <1>6 DEF StillAhead
    <2>3. /\ TicksLeft(a) = IF rollover[a] THEN time[a] + WRAP - nticks ELSE time[a] - nticks
          /\ TicksLeft(a)' = IF StillAhead(a, now) THEN time[a] + WRAP - now ELSE time[a] - now
      BY <1>4, <1>6, <2>1 DEF TicksLeft
    <2>4. TicksLeft(a) > 1 /\ TicksLeft(a)' = TicksLeft(a) - 1
      BY <1>1, <1>2, <1>6, <2>2, <2>3 DEF StillAhead
    <2>q. QED  BY <1>2, <1>4, <2>1, <2>2, <2>4
  <1>7. CASE a \in alt_alarm_list /\ fires
    <2>1. time[a] = now /\ TicksLeft(a) = 1
      <3> HIDE DEF now
      <3>q. QED  BY <1>1, <1>2, <1>7 DEF StillAhead, TicksLeft
    <2>2. CASE again[a] = 0
      <3>1. a \notin alt_alarm_list' /\ time'[a] = time[a] /\ rollover'[a] \in BOOLEAN
        BY <1>7, <2>2 DEF TickTo, StillAhead
      <3>q. QED  BY <1>2, <2>1, <2>2, <3>1 DEF TicksLeft
    <2>3. CASE again[a] # 0
      <3>1. /\ a \in alt_alarm_list' /\ time'[a] = due
            /\ rollover'[a] \in BOOLEAN /\ (rollover'[a] <=> due < now)
        <4>1. a \in alt_alarm_list' /\ time'[a] = due /\ rollover'[a] = (due < now)
          BY <1>7, <2>3 DEF TickTo
        <4> HIDE DEF due, now
        <4>2. rollover'[a] \in BOOLEAN  BY <4>1
        <4>3. rollover'[a] <=> due < now  BY <4>1
        <4>q. QED  BY <4>1, <4>2, <4>3
      <3>2. again[a] \in 1..WRAP - 1 /\ now \in 0..WRAP - 1  BY <1>1, <1>3, <2>3
      <3>3. due = (again[a] + now) % WRAP
        <4>1. time[a] + again[a] = again[a] + now  BY <2>1, <3>2
        <4>q. QED  BY <4>1
      <3> HIDE DEF now, due
      <3>4. /\ due \in 0..WRAP - 1
            /\ due < now <=> due <= now
            /\ again[a] = IF due < now THEN due + WRAP - now ELSE due - now
        BY <3>2, <3>3, DueIn
      <3>5. TicksLeft(a)' = IF due < now THEN due + WRAP - now ELSE due - now
        BY <1>4, <3>1 DEF TicksLeft
      <3>6. TicksLeft(a)' = again[a]  BY <3>4, <3>5
      <3>7. TicksLeft(a)' = IF TicksLeft(a) > 1 THEN TicksLeft(a) - 1
                           ELSE IF TicksLeft(a) = 1 THEN again[a] ELSE 0
        BY <2>1, <3>6
      <3>8. rollover'[a] <=> time'[a] <= nticks'
        <4>1. time'[a] <= nticks' <=> due <= now  BY <1>4, <3>1
        <4>q. QED  BY <3>1, <3>4, <4>1
      <3>q. QED  BY <3>1, <3>4, <3>7, <3>8
    <2>q. QED  BY <2>2, <2>3
  <1>q. QED  BY <1>5, <1>6, <1>7

(* A tick keeps the invariant and takes one tick from every alarm.         *)
LEMMA TickAll ==
    ASSUME IInv, NEW again \in [Alarm -> 0..MaxTicks],
           TickTo((nticks + 1) % WRAP, again)
    PROVE  /\ IInv'
           /\ \A a \in Alarm :
                 TicksLeft(a)' = IF TicksLeft(a) > 1 THEN TicksLeft(a) - 1
                                 ELSE IF TicksLeft(a) = 1 THEN again[a] ELSE 0
  <1>1. \A a \in Alarm :
          /\ time'[a] \in 0..WRAP - 1 /\ rollover'[a] \in BOOLEAN
          /\ a \in alt_alarm_list' => (rollover'[a] <=> time'[a] <= nticks')
          /\ TicksLeft(a)' = IF TicksLeft(a) > 1 THEN TicksLeft(a) - 1
                             ELSE IF TicksLeft(a) = 1 THEN again[a] ELSE 0
    BY TickStep
  <1>2. nticks' \in 0..WRAP - 1 /\ alt_alarm_list' \subseteq Alarm
    BY NextTick DEF TickTo, IInv, TypeOK
  <1>3. /\ time' = [a \in Alarm |-> time'[a]]
        /\ rollover' = [a \in Alarm |-> rollover'[a]]
    BY DEF TickTo
  <1>4. TypeOK'  BY <1>1, <1>2, <1>3 DEF TypeOK
  <1>5. RolloverTellsWrap'  BY <1>1, <1>2 DEF RolloverTellsWrap
  <1>q. QED  BY <1>1, <1>4, <1>5 DEF IInv

LEMMA InitIInv == Init => IInv
  BY AlarmAssumption DEF Init, IInv, TypeOK, RolloverTellsWrap

LEMMA NextIInv == IInv /\ [Next]_vars => IInv'
  <1> SUFFICES ASSUME IInv, [Next]_vars PROVE IInv'  OBVIOUS
  <1>1. CASE \E a \in Alarm : Stop(a)  BY <1>1, StopStep
  <1>2. CASE \E a \in Alarm, n \in 0..MaxTicks : Start(a, n)  BY <1>2, StartStep
  <1>3. CASE Tick  BY <1>3, TickAll DEF Tick
  <1>4. CASE UNCHANGED vars
    BY <1>4 DEF vars, IInv, TypeOK, RolloverTellsWrap
  <1>q. QED  BY <1>1, <1>2, <1>3, <1>4 DEF Next

(* The counter, the list and the fields of the alarms keep their types,    *)
(* and the roll-over flag of every alarm that is set is right.             *)
THEOREM RolloverAlwaysTells == Spec => [](TypeOK /\ RolloverTellsWrap)
  <1>1. IInv => TypeOK /\ RolloverTellsWrap  BY DEF IInv
  <1>q. QED  BY <1>1, InitIInv, NextIInv, PTL DEF Spec

(* The alarms are countdowns: each goes off at its tick and at no other,   *)
(* for every width of the counter.                                         *)
THEOREM AlarmsAreCountdowns == Spec => FiresOnTime
  <1> DEFINE left == [a \in Alarm |-> TicksLeft(a)]
  <1>1. Init => Abstract!Init
    BY DEF Init, Abstract!Init, TicksLeft
  <1>2. IInv /\ [Next]_vars => [Abstract!Next]_left
    <2> SUFFICES ASSUME IInv, [Next]_vars PROVE Abstract!Next \/ UNCHANGED left
      OBVIOUS
    <2>1. CASE \E a \in Alarm : Stop(a)
      <3>1. PICK a \in Alarm : Stop(a)  BY <2>1
      <3>2. left' = [left EXCEPT ![a] = 0]  BY <3>1, StopStep
      <3>q. QED  BY <3>2 DEF Abstract!Next, Abstract!Stop
    <2>2. CASE \E a \in Alarm, n \in 0..MaxTicks : Start(a, n)
      <3>1. PICK a \in Alarm, n \in 0..MaxTicks : Start(a, n)  BY <2>2
      <3>2. left[a] = 0 /\ left' = [left EXCEPT ![a] = n + 1]  BY <3>1, StartStep
      <3>q. QED  BY <3>2 DEF Abstract!Next, Abstract!Start
    <2>3. CASE Tick
      <3>1. PICK again \in [Alarm -> 0..MaxTicks] : TickTo((nticks + 1) % WRAP, again)
        BY <2>3 DEF Tick
      <3>2. left' = [a \in Alarm |-> IF left[a] > 1 THEN left[a] - 1
                                     ELSE IF left[a] = 1 THEN again[a] ELSE 0]
        BY <3>1, TickAll
      <3>q. QED  BY <3>2 DEF Abstract!Next, Abstract!Tick
    <2>4. CASE UNCHANGED vars
      BY <2>4 DEF vars, TicksLeft
    <2>q. QED  BY <2>1, <2>2, <2>3, <2>4 DEF Next
  <1>q. QED
    BY <1>1, <1>2, InitIInv, NextIInv, PTL DEF Spec, FiresOnTime, Abstract!Spec
=============================================================================
