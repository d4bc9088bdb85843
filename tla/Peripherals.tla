---------------------------- MODULE Peripherals ----------------------------
(***************************************************************************)
(* The small drivers: the real time clock (src/src/rtc.rs), whose counter   *)
(* runs and whose alarms go off between any two register accesses, the      *)
(* random number generator (rng.rs), and the constructors of QEI, MCAN and  *)
(* TRGM, which hand out the registers.                                      *)
(***************************************************************************)
EXTENDS ClockTree

CONSTANTS
  RtcSubs,      \* subseconds per second, 2^32 in the hardware
  RtcSeconds,   \* the counter wraps here, at 2^32 in the hardware
  RtcTimes,     \* times of alarms
  RtcIntervals, \* increments of alarms, 0 for none
  SmallUnits,   \* constructors called
  SmallCalls    \* bound on the calls

ASSUME RtcAssumption ==
  /\ RtcSubs \in Nat \ {0} /\ RtcSeconds \in Nat \ {0}
  /\ RtcTimes \subseteq Nat /\ RtcIntervals \subseteq Nat

Alarms == {"Alarm0", "Alarm1"}

VARIABLES
  rtc_count,    \* seconds and subseconds
  rtc_snap,     \* the latches of both
  rtc_alarm,    \* alarm_n, alarm_n_inc and its enable bit
  rtc_flag,     \* ALARM_FLAG
  rtc_call,     \* the method being executed, its arguments and what it has read
  rtc_seen,     \* the moments a running snapshot or now may report
  rtc_asked,    \* what each alarm was scheduled for
  rng_pc,       \* "off", "seed", "ready", "test" or "failed"
  rng_reseeds,  \* CTRL.AUTRSD
  sm_pins,      \* units whose pins have their alternate function
  sm_calls

smallVars == <<rtc_count, rtc_snap, rtc_alarm, rtc_flag, rtc_call, rtc_seen, rtc_asked,
               rng_pc, rng_reseeds, sm_pins, sm_calls>>
rtcRest == <<rng_pc, rng_reseeds, sm_pins>>
rngRest == <<rtc_count, rtc_snap, rtc_alarm, rtc_flag, rtc_call, rtc_seen, rtc_asked, sm_pins>>

Zero == [sec |-> 0, sub |-> 0]
NoRtcCall == [pc |-> "idle", alarm |-> "Alarm0", at |-> 0, inc |-> 0, sec |-> 0]

SmallInit ==
  /\ rtc_count = Zero /\ rtc_snap = Zero
  /\ rtc_alarm = [a \in Alarms |-> [at |-> 0, inc |-> 0, en |-> FALSE]]
  /\ rtc_flag = {} /\ rtc_call = NoRtcCall /\ rtc_seen = {Zero}
  /\ rtc_asked = [a \in Alarms |-> [at |-> 0, inc |-> 0]]
  /\ rng_pc = "off" /\ rng_reseeds = FALSE
  /\ sm_pins = {}
  /\ sm_calls = 0

Called == sm_calls < SmallCalls /\ sm_calls' = sm_calls + 1

(***************************************************************************)
(* RTC.                                                                     *)
(***************************************************************************)
\* restore writes the subseconds first, and the counter may carry before it
\* writes the seconds; set_datetime writes its seconds there, and no seconds.
Restore(sec, sub) ==
  /\ rtc_call.pc = "idle" /\ Called
  /\ rtc_count' = [rtc_count EXCEPT !.sub = sub]
  /\ rtc_call' = [NoRtcCall EXCEPT !.pc = "restore", !.sec = sec]
  /\ rtc_seen' = {}
  /\ UNCHANGED <<rtc_snap, rtc_alarm, rtc_flag, rtc_asked>>
  /\ UNCHANGED rtcRest /\ UNCHANGED clkVars

RestoreSeconds ==
  /\ rtc_call.pc = "restore"
  /\ rtc_count' = [rtc_count EXCEPT !.sec = rtc_call.sec]
  /\ rtc_call' = NoRtcCall
  /\ UNCHANGED <<rtc_snap, rtc_alarm, rtc_flag, rtc_seen, rtc_asked, sm_calls>>
  /\ UNCHANGED rtcRest /\ UNCHANGED clkVars

SetDatetime(sec) ==
  /\ rtc_call.pc = "idle" /\ Called
  /\ rtc_count' = [rtc_count EXCEPT !.sub = sec % RtcSubs]
  /\ rtc_seen' = {}
  /\ UNCHANGED <<rtc_snap, rtc_alarm, rtc_flag, rtc_call, rtc_asked>>
  /\ UNCHANGED rtcRest /\ UNCHANGED clkVars

\* Mutant of Latch: the latches are left alone.
Latch_Not == rtc_snap

\* A write to either latch takes the counter into both.
Latch == rtc_count

\* snapshot and now.
Snapshot ==
  /\ \/ /\ rtc_call.pc = "idle" /\ Called
        /\ rtc_snap' = Latch
        /\ rtc_seen' = {rtc_count}
        /\ rtc_call' = [NoRtcCall EXCEPT !.pc = "latched"]
     \/ /\ rtc_call.pc = "latched"
        /\ rtc_call' = [rtc_call EXCEPT !.pc = "half", !.sec = rtc_snap.sec]
        /\ UNCHANGED <<rtc_snap, rtc_seen, sm_calls>>
     \/ /\ rtc_call.pc = "half"
        /\ rtc_seen' = rtc_seen \cap {[sec |-> rtc_call.sec, sub |-> rtc_snap.sub]}
        /\ rtc_call' = [rtc_call EXCEPT !.pc = "read"]
        /\ UNCHANGED <<rtc_snap, sm_calls>>
     \/ /\ rtc_call.pc = "read"
        /\ rtc_call' = NoRtcCall
        /\ UNCHANGED <<rtc_snap, rtc_seen, sm_calls>>
  /\ UNCHANGED <<rtc_count, rtc_alarm, rtc_flag, rtc_asked>> /\ UNCHANGED rtcRest /\ UNCHANGED clkVars

DisableAlarm(a) == [rtc_alarm EXCEPT ![a].en = FALSE]

CancelAlarm(a) ==
  /\ rtc_call.pc = "idle" /\ Called
  /\ rtc_alarm' = DisableAlarm(a)
  /\ UNCHANGED <<rtc_count, rtc_snap, rtc_flag, rtc_call, rtc_seen, rtc_asked>>
  /\ UNCHANGED rtcRest /\ UNCHANGED clkVars

\* schedule_alarm: disable, time, increment, enable.
ScheduleAlarm(a, at, inc) ==
  /\ rtc_call.pc = "idle" /\ Called
  /\ rtc_alarm' = DisableAlarm(a)
  /\ rtc_call' = [NoRtcCall EXCEPT !.pc = "time", !.alarm = a, !.at = at, !.inc = inc]
  /\ rtc_asked' = [rtc_asked EXCEPT ![a] = [at |-> at, inc |-> inc]]
  /\ UNCHANGED <<rtc_count, rtc_snap, rtc_flag, rtc_seen>> /\ UNCHANGED rtcRest /\ UNCHANGED clkVars

ScheduleStep ==
  /\ rtc_call.pc \in {"time", "increment", "enable"}
  /\ LET a == rtc_call.alarm IN
       CASE rtc_call.pc = "time" -> /\ rtc_alarm' = [rtc_alarm EXCEPT ![a].at = rtc_call.at]
                                    /\ rtc_call' = [rtc_call EXCEPT !.pc = "increment"]
         [] rtc_call.pc = "increment" -> /\ rtc_alarm' = [rtc_alarm EXCEPT ![a].inc = rtc_call.inc]
                                         /\ rtc_call' = [rtc_call EXCEPT !.pc = "enable"]
         [] rtc_call.pc = "enable" -> /\ rtc_alarm' = [rtc_alarm EXCEPT ![a].en = TRUE]
                                      /\ rtc_call' = NoRtcCall
  /\ UNCHANGED <<rtc_count, rtc_snap, rtc_flag, rtc_seen, rtc_asked, sm_calls>>
  /\ UNCHANGED rtcRest /\ UNCHANGED clkVars

\* The flags are cleared by writing ones, and modify writes back the other one.
ClearInterrupt(a) ==
  /\ a \in rtc_flag
  /\ rtc_flag' = {}
  /\ UNCHANGED <<rtc_count, rtc_snap, rtc_alarm, rtc_call, rtc_seen, rtc_asked, sm_calls>>
  /\ UNCHANGED rtcRest /\ UNCHANGED clkVars

MovedOn(alarm) == [alarm EXCEPT !.at = (@ + alarm.inc) % RtcSeconds]

\* The counter runs; an enabled alarm goes off in its second and moves on by its
\* increment.
RtcTicks ==
  LET carry == rtc_count.sub + 1 = RtcSubs
      count == [sec |-> (rtc_count.sec + (IF carry THEN 1 ELSE 0)) % RtcSeconds,
                sub |-> (rtc_count.sub + 1) % RtcSubs]
      due == {a \in Alarms : carry /\ rtc_alarm[a].en /\ rtc_alarm[a].at = count.sec}
  IN /\ rtc_count' = count
     /\ rtc_flag' = rtc_flag \cup due
     /\ rtc_alarm' = [a \in Alarms |-> IF a \in due
                        THEN MovedOn(rtc_alarm[a]) ELSE rtc_alarm[a]]
     /\ rtc_asked' = [a \in Alarms |-> IF a \in due
                        THEN MovedOn(rtc_asked[a]) ELSE rtc_asked[a]]
     /\ rtc_seen' = IF rtc_call.pc \in {"latched", "half"} THEN rtc_seen \cup {count} ELSE rtc_seen
     /\ UNCHANGED <<rtc_snap, rtc_call, sm_calls>> /\ UNCHANGED rtcRest /\ UNCHANGED clkVars

(***************************************************************************)
(* RNG.                                                                     *)
(***************************************************************************)
\* new, or reset: a seed is generated, with the reseed still as it was.
RngInit ==
  /\ rng_pc # "seed" /\ rng_pc # "test" /\ clk_pc = "up" /\ Called
  /\ rng_pc' = "seed"
  /\ ClkOn("RNG0")
  /\ UNCHANGED rng_reseeds /\ UNCHANGED rngRest

\* The loop on FSDDN and FUNCERR ends.
RngSeeded ==
  /\ rng_pc = "seed"
  /\ \/ rng_pc' = "ready" /\ rng_reseeds' = TRUE
     \/ rng_pc' = "failed" /\ UNCHANGED rng_reseeds
  /\ UNCHANGED rngRest /\ UNCHANGED <<sm_calls, clkVars>>

\* run_selftest: done, with a check that failed, or a function error.
RunSelftest ==
  /\ \/ rng_pc = "ready" /\ rng_pc' = "test" /\ Called
     \/ rng_pc = "test" /\ rng_pc' \in {"ready", "failed"} /\ UNCHANGED sm_calls
  /\ UNCHANGED rng_reseeds /\ UNCHANGED rngRest /\ UNCHANGED clkVars

(***************************************************************************)
(* QEI, MCAN, TRGM.                                                         *)
(***************************************************************************)
\* The clock resource of each unit; the trigger manager has none.
Resource == [QEI0 |-> "MOT0", QEI1 |-> "MOT0", MCAN0 |-> "CAN0"]

ASSUME UnitAssumption == SmallUnits \subseteq {"QEI0", "QEI1", "MCAN0", "TRGM0"}

\* new_uninited of QEI and TRGM, Dependencies::new of MCAN.
NewUnit(unit) ==
  /\ clk_pc = "up" /\ Called
  /\ sm_pins' = IF unit = "TRGM0" THEN sm_pins ELSE sm_pins \cup {unit}
  /\ IF unit = "TRGM0" THEN UNCHANGED clkVars ELSE ClkOn(Resource[unit])
  /\ UNCHANGED <<rtc_count, rtc_snap, rtc_alarm, rtc_flag, rtc_call, rtc_seen, rtc_asked, rng_pc, rng_reseeds>>

SmallNext ==
  \/ \E sec \in 0 .. RtcSeconds - 1, sub \in 0 .. RtcSubs - 1 : Restore(sec, sub)
  \/ \E sec \in 0 .. RtcSeconds - 1 : SetDatetime(sec)
  \/ RestoreSeconds
  \/ Snapshot
  \/ \E a \in Alarms : CancelAlarm(a) \/ ClearInterrupt(a)
  \/ \E a \in Alarms, at \in RtcTimes, inc \in RtcIntervals : ScheduleAlarm(a, at, inc)
  \/ ScheduleStep
  \/ RtcTicks
  \/ RngInit
  \/ RngSeeded
  \/ RunSelftest
  \/ \E unit \in SmallUnits : NewUnit(unit)

\* The drivers, beside whatever else uses the clocks.
SmallSpec == SmallInit /\ [][SmallNext]_smallVars

(***************************************************************************)
(* Property.                                                                *)
(***************************************************************************)
\* The RTC counts and its alarms go off while the driver reads and writes one
\* register after the other: a pair that snapshot or now returns is one moment
\* of its own call, and an alarm goes off with the time and increment of one
\* call of schedule_alarm, the latest.
RtcNoMixture ==
  /\ rtc_call.pc = "read" => rtc_seen # {}
  /\ \A a \in Alarms : rtc_alarm[a].en => [at |-> rtc_alarm[a].at, inc |-> rtc_alarm[a].inc] = rtc_asked[a]
============================================================================
