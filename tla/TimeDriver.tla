----------------------------- MODULE TimeDriver -----------------------------
(***************************************************************************)
(* The embassy time driver of hpm-hal on the machine timer                  *)
(* (src/embassy/time_driver_mchtmr.rs): now, set_alarm and the timer        *)
(* interrupt with the callback it makes.                                    *)
(*                                                                          *)
(* The counter is 64 bits wide and the hart is 32 bits wide, so the driver  *)
(* reads the counter as two halves, in the order the compiler chooses,      *)
(* while it keeps counting.  set_alarm is a critical section: the interrupt *)
(* is not taken inside.                                                     *)
(***************************************************************************)
EXTENDS Naturals

CONSTANTS
  Half,         \* values of half a counter, 2^32 in the hardware
  MaxTime,      \* the counter stops here in the model
  Period,       \* counts per tick of embassy time
  Deadlines,    \* timestamps, in ticks, that alarms are set to
  None          \* no alarm is promised

Wrap == Half * Half

\* u64::MAX: the timestamp of a disarmed alarm, and the deadline that the
\* executor asks for when no timer is pending.
Never == Wrap - 1

ASSUME ConstantsAssumption ==
  /\ Half \in Nat \ {0, 1}
  /\ Period \in Nat \ {0}
  /\ MaxTime \in Nat /\ MaxTime + Period < Wrap
  /\ None \notin Nat

\* The comparator of a deadline that is ever reached fits the counter: in 64
\* bits that is so for thousands of years.
ASSUME InRangeAssumption ==
  \A ts \in Deadlines : ts \in Nat /\ (ts = Never \/ (ts + 1) * Period < Wrap)

VARIABLES
  mtime,        \* the counter
  mtimecmp,     \* the timer interrupt is pending while mtime >= mtimecmp
  mtie,         \* mie.mtimer: the interrupt is enabled
  timestamp,    \* AlarmState.timestamp
  pc,           \* where set_alarm is
  half,         \* the half of the counter read first: which, and its value
  now,          \* local `t` of set_alarm
  promised      \* deadline of the alarm the caller counts on, or None

vars == <<mtime, mtimecmp, mtie, timestamp, pc, half, now, promised>>

TypeOK ==
  /\ mtime \in 0 .. MaxTime
  /\ mtimecmp \in 0 .. Wrap - 1
  /\ mtie \in BOOLEAN
  /\ timestamp \in Deadlines \cup {Never}
  /\ pc \in {"idle", "first", "second", "compare"}
  /\ half \in [which : {"low", "high"}, value : 0 .. Half - 1]
  /\ now \in 0 .. Wrap - 1
  /\ promised \in Deadlines \cup {None}

NotRead == [which |-> "low", value |-> 0]

Low(t) == t % Half
High(t) == t \div Half

\* After init: the comparator is as far away as it goes.
Init ==
  /\ mtime \in 0 .. MaxTime
  /\ mtimecmp = Wrap - 2
  /\ mtie = FALSE
  /\ timestamp = Never
  /\ pc = "idle"
  /\ half = NotRead
  /\ now = 0
  /\ promised = None

\* A new alarm replaces the one that is set.
SetAlarm(ts) ==
  /\ pc = "idle"
  /\ timestamp' = ts
  /\ promised' = None
  /\ pc' = "first"
  /\ UNCHANGED <<mtime, mtimecmp, mtie, half, now>>

ReadFirst ==
  /\ pc = "first"
  /\ half' \in {[which |-> "low", value |-> Low(mtime)], [which |-> "high", value |-> High(mtime)]}
  /\ pc' = "second"
  /\ UNCHANGED <<mtime, mtimecmp, mtie, timestamp, now, promised>>

ReadSecond ==
  /\ pc = "second"
  /\ now' = IF half.which = "low" THEN High(mtime) * Half + half.value
            ELSE half.value * Half + Low(mtime)
  /\ half' = NotRead
  /\ pc' = "compare"
  /\ UNCHANGED <<mtime, mtimecmp, mtie, timestamp, promised>>

Ticks(count) == count \div Period

\* Mutant of Comparator: plain addition, which wraps.
Comparator_Wraps(ts) == ((ts + 1) % Wrap * Period) % Wrap

\* The first count of the tick after the deadline, with a saturating addition
\* and a wrapping multiplication.
Comparator(ts) == ((IF ts = Never THEN ts ELSE ts + 1) * Period) % Wrap

\* Mutant of Decide: the interrupt is enabled at init only.
Decide_NoEnable ==
  /\ pc = "compare"
  /\ IF timestamp <= Ticks(now)
     THEN /\ mtie' = FALSE /\ timestamp' = Never
          /\ UNCHANGED <<mtimecmp, promised>>
     ELSE /\ mtimecmp' = Comparator(timestamp)
          /\ promised' = timestamp /\ UNCHANGED <<timestamp, mtie>>
  /\ pc' = "idle" /\ now' = 0
  /\ UNCHANGED <<mtime, half>>

\* A deadline that has passed is refused and disarms the alarm.
Decide ==
  /\ pc = "compare"
  /\ IF timestamp <= Ticks(now)
     THEN /\ mtie' = FALSE /\ timestamp' = Never
          /\ UNCHANGED <<mtimecmp, promised>>
     ELSE /\ mtimecmp' = Comparator(timestamp) /\ mtie' = TRUE
          /\ promised' = timestamp /\ UNCHANGED timestamp
  /\ pc' = "idle" /\ now' = 0
  /\ UNCHANGED <<mtime, half>>

\* The interrupt disables itself, clears the alarm and calls back; the callback
\* may set the next alarm.
MachineTimer ==
  /\ pc = "idle" /\ mtie /\ mtime >= mtimecmp
  /\ mtie' = FALSE
  /\ timestamp' = Never
  /\ promised' = None
  /\ UNCHANGED <<mtime, mtimecmp, pc, half, now>>

Count ==
  /\ mtime < MaxTime
  /\ mtime' = mtime + 1
  /\ UNCHANGED <<mtimecmp, mtie, timestamp, pc, half, now, promised>>

Next == \/ \E ts \in Deadlines : SetAlarm(ts)
        \/ ReadFirst \/ ReadSecond \/ Decide
        \/ MachineTimer
        \/ Count

Safety == Init /\ [][Next]_vars

\* Time goes on, and so does the hart: a critical section ends and a pending
\* interrupt is taken, also when alarms are set over and over.
Fairness == /\ WF_vars(Count) /\ WF_vars(ReadFirst \/ ReadSecond \/ Decide)
            /\ SF_vars(MachineTimer)

Spec == Safety /\ Fairness

(***************************************************************************)
(* Properties.                                                              *)
(***************************************************************************)

\* The callback never comes before its deadline, whatever alarm was set before
\* and wherever the counter was when the halves were read.
NeverEarly ==
  pc = "idle" /\ mtie /\ mtime >= mtimecmp => timestamp <= Ticks(mtime)

\* The caller and the driver agree on whether an alarm is set, and one that is
\* set can interrupt: no order of refused, replaced and fired alarms leaves a
\* caller waiting for an alarm the driver has dropped.
PromiseArmed == pc = "idle" =>
  IF promised = None THEN timestamp = Never /\ ~mtie ELSE timestamp = promised /\ mtie

\* An accepted alarm fires, or is replaced, if time gets that far.
AcceptedFires == \A ts \in Deadlines :
  ts # Never /\ (ts + 1) * Period <= MaxTime => (promised = ts ~> promised # ts)
============================================================================
