----------------------------- MODULE GpioInput -----------------------------
(***************************************************************************)
(* Waiting for input pins in hpm-hal: the wait_for_* methods, InputFuture   *)
(* and on_interrupt of src/gpio/input_future.rs.                            *)
(*                                                                          *)
(* A pin is a port and a line.  Configuration registers and flags exist per *)
(* port and line (dual-edge detection per port); the wakers, PORT_WAKERS,   *)
(* exist per line only.  Polls of tasks do not overlap (one hart, one       *)
(* executor); the hardware and the handler come in between their register   *)
(* writes, and the handler is one step.                                     *)
(***************************************************************************)
EXTENDS Naturals, FiniteSets

CONSTANTS
  Pins,         \* the pins that are waited for, pairs of a port and a line
  Tasks,        \* executor tasks
  NoTask,       \* "no waker registered"
  TaskOf,       \* which task waits for which pin
  Wants,        \* the kinds of wait that are used
  DualEdge,     \* gpio_v53: the port has dual-edge detection
  LatchesAll    \* the hardware raises the flag of a pin not enabled, too

ASSUME ConstantsAssumption ==
  /\ TaskOf \in [Pins -> Tasks]
  /\ NoTask \notin Tasks
  /\ DualEdge \in BOOLEAN /\ LatchesAll \in BOOLEAN
  /\ Wants \subseteq {"high", "low", "rising", "falling", "any"}
  /\ "any" \in Wants => DualEdge

Port(p) == p[1]
Line(p) == p[2]
Ports == {Port(p) : p \in Pins}
Lines == {Line(p) : p \in Pins}

VARIABLES
  level,        \* pins whose input is high
  irq_flag,     \* IF: pins whose event has occurred
  irq_en,       \* IE: pins whose interrupt is enabled
  irq_pol,      \* PL: pins that look for low level or falling edge
  irq_type,     \* TP: pins that look for an edge
  irq_dual,     \* PD: ports that look for both edges
  waker,        \* PORT_WAKERS: per line, the task registered
  woken,        \* pins whose task is scheduled to poll them
  pc,           \* per pin: where its wait is
  want          \* per pin: what it waits for

regs == <<irq_pol, irq_type, irq_dual>>
vars == <<level, irq_flag, irq_en, regs, waker, woken, pc, want>>

Labels == {"idle", "polarity", "dual", "type", "enable", "register", "check", "pending"}

TypeOK ==
  /\ level \subseteq Pins
  /\ irq_flag \subseteq Pins
  /\ irq_en \subseteq Pins
  /\ irq_pol \subseteq Pins
  /\ irq_type \subseteq Pins
  /\ irq_dual \subseteq Ports /\ (irq_dual # {} => DualEdge)
  /\ waker \in [Lines -> Tasks \cup {NoTask}]
  /\ woken \subseteq Pins
  /\ pc \in [Pins -> Labels]
  /\ want \in [Pins -> {"high", "low", "rising", "falling", "any"}]
  /\ \A p \in Pins : pc[p] = "dual" => DualEdge /\ want[p] \notin {"high", "low"}

\* After hpm_hal::init: port interrupts on, every pin's interrupt off.
Init ==
  /\ level \in SUBSET Pins
  /\ irq_flag = {} /\ irq_en = {}
  /\ irq_pol = {} /\ irq_type = {} /\ irq_dual = {}
  /\ waker = [l \in Lines |-> NoTask]
  /\ woken = {}
  /\ pc = [p \in Pins |-> "idle"]
  /\ want = [p \in Pins |-> "high"]

(***************************************************************************)
(* The driver.                                                              *)
(***************************************************************************)
Goto(p, label) == pc' = [pc EXCEPT ![p] = label]

\* A task is between two awaits, so no other task runs.
Busy == \E p \in Pins : pc[p] \notin {"idle", "pending"}

\* Input::wait_for_high and wait_for_low return at once if the level is there;
\* every other call starts to configure the pin.
Call(p, w) ==
  /\ pc[p] = "idle" /\ ~ Busy
  /\ ~ (w = "high" /\ p \in level) /\ ~ (w = "low" /\ p \notin level)
  /\ want' = [want EXCEPT ![p] = w]
  /\ woken' = woken \ {p}
  /\ Goto(p, IF w = "any" THEN "type" ELSE "polarity")
  /\ UNCHANGED <<level, irq_flag, irq_en, regs, waker>>

\* Mutant of Polarity: wait_for_low looks for the high level.
Polarity_HighOnly(p) ==
  /\ pc[p] = "polarity"
  /\ irq_pol' = IF want[p] = "falling" THEN irq_pol \cup {p} ELSE irq_pol \ {p}
  /\ Goto(p, IF DualEdge /\ want[p] \in {"rising", "falling"} THEN "dual" ELSE "type")
  /\ UNCHANGED <<level, irq_flag, irq_en, irq_type, irq_dual, waker, woken, want>>

Polarity(p) ==
  /\ pc[p] = "polarity"
  /\ irq_pol' = IF want[p] \in {"low", "falling"} THEN irq_pol \cup {p} ELSE irq_pol \ {p}
  /\ Goto(p, IF DualEdge /\ want[p] \in {"rising", "falling"} THEN "dual" ELSE "type")
  /\ UNCHANGED <<level, irq_flag, irq_en, irq_type, irq_dual, waker, woken, want>>

\* wait_for_any_edge sets the port's bit.  The other edge waits write FALSE to
\* the set register, which changes nothing.
Dual(p) ==
  /\ pc[p] = "dual"
  /\ irq_dual' = IF want[p] = "any" THEN irq_dual \cup {Port(p)} ELSE irq_dual
  /\ Goto(p, IF want[p] = "any" THEN "enable" ELSE "type")
  /\ UNCHANGED <<level, irq_flag, irq_en, irq_pol, irq_type, waker, woken, want>>

Type(p) ==
  /\ pc[p] = "type"
  /\ irq_type' = IF want[p] \in {"high", "low"} THEN irq_type \ {p} ELSE irq_type \cup {p}
  /\ Goto(p, IF want[p] = "any" THEN "dual" ELSE "enable")
  /\ UNCHANGED <<level, irq_flag, irq_en, irq_pol, irq_dual, waker, woken, want>>

\* The flag of an earlier event is not cleared first.
Enable(p) ==
  /\ pc[p] = "enable"
  /\ irq_en' = irq_en \cup {p}
  /\ Goto(p, "register")
  /\ UNCHANGED <<level, irq_flag, regs, waker, woken, want>>

\* InputFuture::poll registers the waker ...
Register(p) ==
  /\ pc[p] = "register"
  /\ waker' = [waker EXCEPT ![Line(p)] = TaskOf[p]]
  /\ Goto(p, "check")
  /\ UNCHANGED <<level, irq_flag, irq_en, regs, woken, want>>

\* ... and is ready if the handler has disabled the interrupt.  A future that
\* is ready is dropped, which disables it again.
Check(p) ==
  /\ pc[p] = "check"
  /\ Goto(p, IF p \in irq_en THEN "pending" ELSE "idle")
  /\ UNCHANGED <<level, irq_flag, irq_en, regs, waker, woken, want>>

\* A woken task polls each of its futures.
Poll(p) ==
  /\ pc[p] = "pending" /\ p \in woken /\ ~ Busy
  /\ woken' = woken \ {p}
  /\ Goto(p, "register")
  /\ UNCHANGED <<level, irq_flag, irq_en, regs, waker, want>>

\* Mutant of Cancel: no Drop, the interrupt stays enabled.
Cancel_KeepsEnabled(p) ==
  /\ pc[p] = "pending" /\ ~ Busy
  /\ Goto(p, "idle")
  /\ UNCHANGED <<level, irq_flag, irq_en, regs, waker, woken, want>>

\* The user drops the future before it is ready.
Cancel(p) ==
  /\ pc[p] = "pending" /\ ~ Busy
  /\ irq_en' = irq_en \ {p}
  /\ Goto(p, "idle")
  /\ UNCHANGED <<level, irq_flag, regs, waker, woken, want>>

(***************************************************************************)
(* The interrupt handler and the hardware.                                  *)
(***************************************************************************)
\* The handler walks all flags of the port, enabled or not.
Flagged(port) == {p \in irq_flag : Port(p) = port}

\* Mutant of ToWake: the handler serves one flag per interrupt and clears all.
ToWake_First(port) == {waker[Line(CHOOSE p \in Flagged(port) : TRUE)]}

\* The tasks it wakes: those registered for the flagged lines.
ToWake(port) == {waker[Line(p)] : p \in Flagged(port)}

OnInterrupt(port) ==
  /\ Flagged(port) \cap irq_en # {}
  /\ irq_flag' = irq_flag \ Flagged(port)
  /\ irq_en' = irq_en \ Flagged(port)
  /\ woken' = woken \cup {p \in Pins : TaskOf[p] \in ToWake(port)}
  /\ UNCHANGED <<level, regs, waker, pc, want>>

Latches(p) == LatchesAll \/ p \in irq_en

\* The edge that turns the input to `high` is one the pin looks for.
IsEdge(p, high) == /\ p \in irq_type
                   /\ Port(p) \in irq_dual \/ (high <=> p \notin irq_pol)

InputChanges(p) ==
  /\ level' = IF p \in level THEN level \ {p} ELSE level \cup {p}
  /\ irq_flag' = IF IsEdge(p, p \notin level) /\ Latches(p) THEN irq_flag \cup {p}
                 ELSE irq_flag
  /\ UNCHANGED <<irq_en, regs, waker, woken, pc, want>>

LevelFlag(p) ==
  /\ p \notin irq_type /\ p \notin irq_flag /\ Latches(p)
  /\ p \in level <=> p \notin irq_pol
  /\ irq_flag' = irq_flag \cup {p}
  /\ UNCHANGED <<level, irq_en, regs, waker, woken, pc, want>>

Step(p) == \/ Polarity(p) \/ Dual(p) \/ Type(p) \/ Enable(p)
           \/ Register(p) \/ Check(p)

Next ==
  \/ \E p \in Pins : \/ \E w \in Wants : Call(p, w)
                     \/ Step(p) \/ Poll(p) \/ Cancel(p)
                     \/ InputChanges(p) \/ LevelFlag(p)
  \/ \E port \in Ports : OnInterrupt(port)

Safety == Init /\ [][Next]_vars

\* Code between awaits runs on; the executor serves every woken task, however
\* busy the others are; interrupts are taken; a level is flagged.
Fairness ==
  /\ \A p \in Pins : WF_vars(Step(p)) /\ SF_vars(Poll(p)) /\ WF_vars(LevelFlag(p))
  /\ \A port \in Ports : WF_vars(OnInterrupt(port))

Spec == Safety /\ Fairness

(***************************************************************************)
(* Properties.                                                              *)
(***************************************************************************)

\* A pending future whose interrupt the handler has served (line 55: "IE is
\* cleared in irq handler") is scheduled to be polled.  PORT_WAKERS is indexed
\* by the line alone ("Px00 to Px31", line 10), so this needs the pins of one
\* line to be awaited by one task.
NoLostWakeup == \A p \in Pins : pc[p] = "pending" /\ p \notin irq_en => p \in woken

\* A pin interrupts only while somebody awaits it: whatever way a wait has
\* ended, the next owner of the pin inherits no enabled interrupt.
EnabledOnlyWhileAwaited ==
  \A p \in irq_en : pc[p] \in {"register", "check", "pending"}

\* A wait for a level ends if the level comes and stays, with other pins of the
\* port being awaited, served and abandoned meanwhile.
LevelWaitEnds == \A p \in Pins :
  /\ pc[p] = "pending" /\ want[p] = "high" /\ p \in level
       ~> pc[p] # "pending" \/ p \notin level
  /\ pc[p] = "pending" /\ want[p] = "low" /\ p \notin level
       ~> pc[p] # "pending" \/ p \in level
============================================================================
