----------------------------- MODULE TimeProofs -----------------------------
(***************************************************************************)
(* Theorems about TimeDriver, for a counter of any width, any period and    *)
(* any deadlines that its assumptions admit; no fairness is needed.         *)
(***************************************************************************)
EXTENDS TimeDriver, Integers, TLAPS

(***************************************************************************)
(* Caller and driver agree.                                                 *)
(***************************************************************************)

\* While set_alarm is under way nothing is promised.
AlarmInv ==
  /\ pc \in {"idle", "first", "second", "compare"}
  /\ pc # "idle" => promised = None /\ timestamp \in Deadlines
  /\ promised = None \/ promised \in Deadlines
  /\ PromiseArmed

\* It starts with nothing promised.
LEMMA AlarmInit == Init => AlarmInv
  BY DEF Init, AlarmInv, PromiseArmed

\* Every step of the driver and of the counter keeps the two apart.
LEMMA AlarmStep == AlarmInv /\ [Next]_vars => AlarmInv'
<1> SUFFICES ASSUME AlarmInv, [Next]_vars PROVE AlarmInv'
  OBVIOUS
<1> USE ConstantsAssumption, InRangeAssumption DEF AlarmInv, PromiseArmed
<1>1. ASSUME NEW ts \in Deadlines, SetAlarm(ts) PROVE AlarmInv'
  BY <1>1 DEF SetAlarm
<1>2. CASE ReadFirst
  BY <1>2 DEF ReadFirst
<1>3. CASE ReadSecond
  BY <1>3 DEF ReadSecond
<1>4. CASE Decide
  BY <1>4 DEF Decide
<1>5. CASE MachineTimer
  BY <1>5 DEF MachineTimer
<1>6. CASE Count
  BY <1>6 DEF Count
<1>7. CASE UNCHANGED vars
  BY <1>7 DEF vars
<1> QED
  BY <1>1, <1>2, <1>3, <1>4, <1>5, <1>6, <1>7 DEF Next

\* Between calls of set_alarm, the alarm the caller counts on is the one the driver
\* has armed, and when the caller counts on none, none is.
THEOREM AlarmAgreed == Safety => []PromiseArmed
<1>1. AlarmInv => PromiseArmed
  BY DEF AlarmInv
<1> QED
  BY <1>1, AlarmInit, AlarmStep, PTL DEF Safety

(***************************************************************************)
(* Never early.                                                             *)
(***************************************************************************)

\* Once the counter has reached (ts + 1) * Period, ts ticks are over.
LEMMA TickOver ==
  ASSUME NEW t \in Nat, NEW ts \in Nat, NEW p \in Nat \ {0}, t >= (ts + 1) * p
  PROVE  ts <= t \div p
<1> DEFINE q == t \div p
         r == t % p
<1>1. q \in Int /\ r \in 0 .. p - 1 /\ t = p * q + r
  OBVIOUS
<1>2. (ts + 1) * p = p * (ts + 1) /\ p * (ts + 1) \in Nat
  OBVIOUS
<1>3. SUFFICES ASSUME q < ts PROVE FALSE
  BY <1>1
<1>4. q + 1 <= ts /\ q + 1 <= ts + 1
  BY <1>1, <1>3
<1>5. p * (q + 1) <= p * (ts + 1)
  BY <1>1, <1>4
<1>6. p * (q + 1) = p * q + p
  BY <1>1
<1> QED
  BY <1>1, <1>2, <1>5, <1>6

\* An armed comparator is the one of the timestamp.
CompareInv ==
  /\ mtime \in 0 .. MaxTime
  /\ pc = "idle" /\ mtie => timestamp \in Deadlines /\ mtimecmp = Comparator(timestamp)

\* Every step keeps the comparator that of the armed deadline.
LEMMA CompareStep == AlarmInv /\ CompareInv /\ [Next]_vars => CompareInv'
<1> SUFFICES ASSUME AlarmInv, CompareInv, [Next]_vars PROVE CompareInv'
  OBVIOUS
<1> USE ConstantsAssumption DEF CompareInv
<1>1. ASSUME NEW ts \in Deadlines, SetAlarm(ts) PROVE CompareInv'
  BY <1>1 DEF SetAlarm
<1>2. CASE ReadFirst
  BY <1>2 DEF ReadFirst
<1>3. CASE ReadSecond
  BY <1>3 DEF ReadSecond
<1>4. CASE Decide
  BY <1>4 DEF Decide, AlarmInv
<1>5. CASE MachineTimer
  BY <1>5 DEF MachineTimer
<1>6. CASE Count
  BY <1>6 DEF Count
<1>7. CASE UNCHANGED vars
  BY <1>7 DEF vars
<1> QED
  BY <1>1, <1>2, <1>3, <1>4, <1>5, <1>6, <1>7 DEF Next

\* The comparator of a deadline in range is not before its end, and that of u64::MAX
\* is out of the counter's reach.
LEMMA ComparatorSafe ==
  ASSUME NEW ts \in Deadlines, NEW t \in 0 .. MaxTime, t >= Comparator(ts)
  PROVE  ts <= Ticks(t)
<1> USE ConstantsAssumption, InRangeAssumption
<1>1. Wrap \in Nat /\ Period \in Nat /\ Period > 0 /\ ts \in Nat /\ t \in Nat
  BY DEF Wrap
<1>2. CASE ts # Never
  <2>1. (ts + 1) * Period \in Nat /\ (ts + 1) * Period < Wrap
    BY <1>1, <1>2
  <2>2. Comparator(ts) = (ts + 1) * Period
    <3>1. ((ts + 1) * Period) % Wrap = (ts + 1) * Period
      BY <1>1, <2>1
    <3> QED
      BY <1>2, <3>1 DEF Comparator
  <2> QED
    BY <1>1, <2>2, TickOver DEF Ticks
<1>3. CASE ts = Never
  <2>1. ts * Period = Wrap * (Period - 1) + (Wrap - Period)
    BY <1>1, <1>3 DEF Never
  <2>2. Wrap - Period \in 0 .. Wrap - 1
    BY <1>1
  <2>3. (ts * Period) % Wrap = Wrap - Period
    BY <1>1, <2>1, <2>2
  <2>4. Comparator(ts) = Wrap - Period
    BY <1>3, <2>3 DEF Comparator
  <2> QED
    BY <1>1, <2>4
<1> QED
  BY <1>2, <1>3

\* The timer interrupt never comes before the deadline of the alarm, whatever the
\* halves of the counter were when set_alarm read them.
THEOREM NeverFiresEarly == Safety => []NeverEarly
<1>1. Init => CompareInv
  BY ConstantsAssumption DEF Init, CompareInv
<1>2. CompareInv => NeverEarly
  BY ComparatorSafe DEF CompareInv, NeverEarly
<1> QED
  BY <1>1, <1>2, AlarmInit, AlarmStep, CompareStep, PTL DEF Safety
=============================================================================
