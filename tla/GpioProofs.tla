----------------------------- MODULE GpioProofs -----------------------------
(***************************************************************************)
(* Theorems about GpioInput, for any pins, ports, lines and tasks, and      *)
(* about GpioPins, for any pins and drivers.                                *)
(***************************************************************************)
EXTENDS GpioInput, GpioPins, SequenceTheorems, TLAPS

\* Both edges can be asked for only where the port can detect them.
AnyHasDual == \A p \in Pins : want[p] = "any" => DualEdge

TypeInv == TypeOK /\ AnyHasDual

\* The types hold after init_gpio.
LEMMA TypeInit == Init => TypeInv
  BY ConstantsAssumption DEF Init, TypeInv, TypeOK, AnyHasDual, Labels

\* Every step keeps the types.
LEMMA TypeStep == TypeInv /\ [Next]_vars => TypeInv'
<1> SUFFICES ASSUME TypeInv, [Next]_vars PROVE TypeInv'
  OBVIOUS
<1> USE ConstantsAssumption DEF TypeInv, TypeOK, AnyHasDual, Labels, Goto, regs
<1>1. ASSUME NEW p \in Pins, NEW w \in Wants, Call(p, w) PROVE TypeInv'
  BY <1>1 DEF Call
<1>2. ASSUME NEW p \in Pins, Polarity(p) PROVE TypeInv'
  BY <1>2 DEF Polarity
<1>3. ASSUME NEW p \in Pins, Dual(p) PROVE TypeInv'
  BY <1>3 DEF Dual, Ports
<1>4. ASSUME NEW p \in Pins, Type(p) PROVE TypeInv'
  BY <1>4 DEF Type
<1>5. ASSUME NEW p \in Pins, Enable(p) PROVE TypeInv'
  BY <1>5 DEF Enable
<1>6. ASSUME NEW p \in Pins, Register(p) PROVE TypeInv'
  BY <1>6 DEF Register, Lines
<1>7. ASSUME NEW p \in Pins, Check(p) \/ Poll(p) \/ Cancel(p) PROVE TypeInv'
  BY <1>7 DEF Check, Poll, Cancel
<1>8. ASSUME NEW p \in Pins, InputChanges(p) \/ LevelFlag(p) PROVE TypeInv'
  BY <1>8 DEF InputChanges, LevelFlag
<1>9. ASSUME NEW port \in Ports, OnInterrupt(port) PROVE TypeInv'
  BY <1>9 DEF OnInterrupt
<1>10. CASE UNCHANGED vars
  BY <1>10 DEF vars
<1> QED
  BY <1>1, <1>2, <1>3, <1>4, <1>5, <1>6, <1>7, <1>8, <1>9, <1>10 DEF Next, Step

\* The registers and the state of every wait keep their types.
THEOREM TypeCorrect == Spec => []TypeOK
<1>1. TypeInv => TypeOK
  BY DEF TypeInv
<1> QED
  BY <1>1, TypeInit, TypeStep, PTL DEF Spec, Safety

(***************************************************************************)
(* No pin is left enabled.                                                  *)
(***************************************************************************)
LEMMA EnabledStep ==
  TypeOK /\ EnabledOnlyWhileAwaited /\ [Next]_vars => EnabledOnlyWhileAwaited'
<1> SUFFICES ASSUME TypeOK, EnabledOnlyWhileAwaited, [Next]_vars
             PROVE  EnabledOnlyWhileAwaited'
  OBVIOUS
<1> USE DEF TypeOK, EnabledOnlyWhileAwaited, Goto, regs
<1>1. ASSUME NEW p \in Pins, NEW w \in Wants, Call(p, w) PROVE EnabledOnlyWhileAwaited'
  BY <1>1 DEF Call
<1>2. ASSUME NEW p \in Pins, Polarity(p) \/ Dual(p) \/ Type(p)
      PROVE  EnabledOnlyWhileAwaited'
  BY <1>2 DEF Polarity, Dual, Type
<1>3. ASSUME NEW p \in Pins, Enable(p) PROVE EnabledOnlyWhileAwaited'
  BY <1>3 DEF Enable
<1>4. ASSUME NEW p \in Pins, Register(p) \/ Check(p) \/ Poll(p)
      PROVE  EnabledOnlyWhileAwaited'
  BY <1>4 DEF Register, Check, Poll
<1>5. ASSUME NEW p \in Pins, Cancel(p) PROVE EnabledOnlyWhileAwaited'
  BY <1>5 DEF Cancel
<1>6. ASSUME NEW p \in Pins, InputChanges(p) \/ LevelFlag(p)
      PROVE  EnabledOnlyWhileAwaited'
  BY <1>6 DEF InputChanges, LevelFlag
<1>7. ASSUME NEW port \in Ports, OnInterrupt(port) PROVE EnabledOnlyWhileAwaited'
  BY <1>7 DEF OnInterrupt
<1>8. CASE UNCHANGED vars
  BY <1>8 DEF vars
<1> QED
  BY <1>1, <1>2, <1>3, <1>4, <1>5, <1>6, <1>7, <1>8 DEF Next, Step

\* However a wait ends, resolved or dropped at any await, the pin's interrupt is
\* disabled for the next owner.
THEOREM NothingLeftEnabled == Spec => []EnabledOnlyWhileAwaited
<1>1. Init => EnabledOnlyWhileAwaited
  BY DEF Init, EnabledOnlyWhileAwaited
<1> QED
  BY <1>1, EnabledStep, TypeCorrect, PTL DEF Spec, Safety

(***************************************************************************)
(* Wakeups.  A line's waker slot serves the pins of that line on all ports, *)
(* so they have to belong to one task.                                      *)
(***************************************************************************)
LineOfOneTask == \A p, q \in Pins : Line(p) = Line(q) => TaskOf[p] = TaskOf[q]

\* A future that has registered keeps its slot.
Registered == \A p \in Pins : pc[p] \in {"check", "pending"} => waker[Line(p)] = TaskOf[p]

WakeInv == Registered /\ NoLostWakeup

\* The handler reads the slot of the pin it disables, and schedules its task.
LEMMA HandlerWakes ==
  ASSUME TypeOK, WakeInv, NEW port \in Ports, OnInterrupt(port),
         NEW p \in Pins, pc[p] = "pending", p \in irq_en, p \notin irq_en'
  PROVE  p \in woken'
<1>1. p \in Flagged(port)
  BY DEF OnInterrupt
<1>2. waker[Line(p)] \in ToWake(port)
  BY <1>1 DEF ToWake
<1>3. TaskOf[p] \in ToWake(port)
  BY <1>2 DEF WakeInv, Registered
<1> QED
  BY <1>3 DEF OnInterrupt

\* Every step keeps a wakeup due to whoever waits, if a line has one task.
LEMMA WakeStep == LineOfOneTask /\ TypeOK /\ WakeInv /\ [Next]_vars => WakeInv'
<1> SUFFICES ASSUME LineOfOneTask, TypeOK, WakeInv, [Next]_vars PROVE WakeInv'
  OBVIOUS
<1> USE DEF TypeOK, WakeInv, Registered, NoLostWakeup, Goto, regs
<1>1. ASSUME NEW p \in Pins, NEW w \in Wants, Call(p, w) PROVE WakeInv'
  BY <1>1 DEF Call
<1>2. ASSUME NEW p \in Pins, Polarity(p) \/ Dual(p) \/ Type(p) PROVE WakeInv'
  BY <1>2 DEF Polarity, Dual, Type
<1>3. ASSUME NEW p \in Pins, Enable(p) PROVE WakeInv'
  BY <1>3 DEF Enable
<1>4. ASSUME NEW p \in Pins, Register(p) PROVE WakeInv'
  <2>1. \A q \in Pins : Line(q) \in Lines
    BY DEF Lines
  <2>2. ASSUME NEW q \in Pins, pc'[q] \in {"check", "pending"}
        PROVE  waker'[Line(q)] = TaskOf[q]
    <3>1. CASE Line(q) = Line(p)
      BY <1>4, <2>1, <3>1 DEF Register, LineOfOneTask
    <3>2. CASE Line(q) # Line(p)
      BY <1>4, <2>1, <2>2, <3>2 DEF Register
    <3> QED
      BY <3>1, <3>2
  <2>3. NoLostWakeup'
    BY <1>4 DEF Register
  <2> QED
    BY <2>2, <2>3
<1>5. ASSUME NEW p \in Pins, Check(p) PROVE WakeInv'
  BY <1>5 DEF Check
<1>6. ASSUME NEW p \in Pins, Poll(p) PROVE WakeInv'
  BY <1>6 DEF Poll
<1>7. ASSUME NEW p \in Pins, Cancel(p) PROVE WakeInv'
  BY <1>7 DEF Cancel
<1>8. ASSUME NEW p \in Pins, InputChanges(p) \/ LevelFlag(p) PROVE WakeInv'
  BY <1>8 DEF InputChanges, LevelFlag
<1>9. ASSUME NEW port \in Ports, OnInterrupt(port) PROVE WakeInv'
  <2>1. Registered'
    BY <1>9 DEF OnInterrupt
  <2>2. ASSUME NEW p \in Pins, pc'[p] = "pending", p \notin irq_en' PROVE p \in woken'
    <3>1. CASE p \in irq_en
      BY <1>9, <2>2, <3>1, HandlerWakes DEF OnInterrupt
    <3>2. CASE p \notin irq_en
      BY <1>9, <2>2, <3>2 DEF OnInterrupt
    <3> QED
      BY <3>1, <3>2
  <2> QED
    BY <2>1, <2>2
<1>10. CASE UNCHANGED vars
  BY <1>10 DEF vars
<1> QED
  BY <1>1, <1>2, <1>3, <1>4, <1>5, <1>6, <1>7, <1>8, <1>9, <1>10 DEF Next, Step

\* Where every line is awaited by one task, a wait whose interrupt was served is
\* polled again, with any number of pins configured, served and dropped meanwhile.
THEOREM WakeupsKept == LineOfOneTask /\ Spec => []NoLostWakeup
<1>1. Init => WakeInv
  BY DEF Init, WakeInv, Registered, NoLostWakeup
<1>2. LineOfOneTask => []LineOfOneTask
  <2>1. LineOfOneTask => LineOfOneTask'
    BY DEF LineOfOneTask
  <2> QED
    BY <2>1, PTL
<1>3. WakeInv => NoLostWakeup
  BY DEF WakeInv
<1> QED
  BY <1>1, <1>2, <1>3, WakeStep, TypeCorrect, PTL DEF Spec, Safety

(***************************************************************************)
(* The pin drivers (GpioPins).  A constructor is always at one of a few     *)
(* points, and what holds of a pin's registers follows from what is left of *)
(* it.  The invariant says so of each pin on its own.                       *)
(***************************************************************************)
\* The kinds of drivers, and the levels they are asked for.
Kinds == {"flex", "input", "output", "od", "free"}
Levels == {"low", "high", "any"}

\* What is left of a constructor, for each kind of driver.
Left(kind) ==
  CASE kind = "flex" -> {<<>>, <<"float">>, <<"delegate", "float">>}
    [] kind = "input" -> {<<>>, <<"input">>, <<"float", "input">>, <<"delegate", "float", "input">>}
    [] kind = "output" -> {<<>>, <<"output">>, <<"level", "output">>, <<"float", "level", "output">>,
                           <<"delegate", "float", "level", "output">>}
    [] kind = "od" -> {<<>>, <<"od">>, <<"pull", "od">>, <<"output", "pull", "od">>,
                       <<"level", "output", "pull", "od">>, <<"float", "level", "output", "pull", "od">>,
                       <<"delegate", "float", "level", "output", "pull", "od">>}
    [] kind = "free" -> {<<>>}

\* What comes after the first step of what is left.
Follows(kind, step, rest) ==
  /\ step = "delegate" => rest # <<>> /\ Head(rest) = "float"
  /\ step = "float" => \/ kind = "flex" /\ rest = <<>>
                       \/ kind = "input" /\ rest # <<>> /\ Head(rest) = "input"
                       \/ kind \in {"output", "od"} /\ rest # <<>> /\ Head(rest) = "level"
  /\ step = "level" => kind \in {"output", "od"} /\ rest # <<>> /\ Head(rest) = "output"
  /\ step = "output" => \/ kind = "output" /\ rest = <<>>
                        \/ kind = "od" /\ rest # <<>> /\ Head(rest) = "pull"
  /\ step = "pull" => kind = "od" /\ rest # <<>> /\ Head(rest) = "od"
  /\ step = "input" => kind = "input" /\ rest = <<>>
  /\ step = "od" => kind = "od" /\ rest = <<>>

Steps == {"delegate", "float", "level", "output", "pull", "input", "od"}

\* The first element of a short list, and the rest.
LEMMA ShortLists ==
  /\ \A a : <<a>> # <<>> /\ Head(<<a>>) = a /\ Tail(<<a>>) = <<>>
  /\ \A a, b : <<a, b>> # <<>> /\ Head(<<a, b>>) = a /\ Tail(<<a, b>>) = <<b>>
  /\ \A a, b, c : <<a, b, c>> # <<>> /\ Head(<<a, b, c>>) = a /\ Tail(<<a, b, c>>) = <<b, c>>
  /\ \A a, b, c, d : <<a, b, c, d>> # <<>> /\ Head(<<a, b, c, d>>) = a /\ Tail(<<a, b, c, d>>) = <<b, c, d>>
  /\ \A a, b, c, d, e : <<a, b, c, d, e>> # <<>> /\ Head(<<a, b, c, d, e>>) = a /\ Tail(<<a, b, c, d, e>>) = <<b, c, d, e>>
  /\ \A a, b, c, d, e, f : <<a, b, c, d, e, f>> # <<>> /\ Head(<<a, b, c, d, e, f>>) = a
                           /\ Tail(<<a, b, c, d, e, f>>) = <<b, c, d, e, f>>
<1>1. \A a : <<a>> # <<>> /\ Head(<<a>>) = a /\ Tail(<<a>>) = <<>>
  OBVIOUS
<1>2. \A a, b : <<a, b>> # <<>> /\ Head(<<a, b>>) = a /\ Tail(<<a, b>>) = <<b>>
  OBVIOUS
<1>3. \A a, b, c : <<a, b, c>> # <<>> /\ Head(<<a, b, c>>) = a /\ Tail(<<a, b, c>>) = <<b, c>>
  OBVIOUS
<1>4. \A a, b, c, d : <<a, b, c, d>> # <<>> /\ Head(<<a, b, c, d>>) = a /\ Tail(<<a, b, c, d>>) = <<b, c, d>>
  OBVIOUS
<1>5. \A a, b, c, d, e : <<a, b, c, d, e>> # <<>> /\ Head(<<a, b, c, d, e>>) = a /\ Tail(<<a, b, c, d, e>>) = <<b, c, d, e>>
  OBVIOUS
<1>6. \A a, b, c, d, e, f : <<a, b, c, d, e, f>> # <<>> /\ Head(<<a, b, c, d, e, f>>) = a
                           /\ Tail(<<a, b, c, d, e, f>>) = <<b, c, d, e, f>>
  OBVIOUS
<1> QED
  BY <1>1, <1>2, <1>3, <1>4, <1>5, <1>6

\* What follows in each constructor, read off the scripts.
LEMMA LeftFollows ==
  ASSUME NEW kind \in Kinds, NEW todo \in Left(kind), todo # <<>>
  PROVE  /\ Tail(todo) \in Left(kind)
         /\ Head(todo) \in Steps
         /\ Follows(kind, Head(todo), Tail(todo))
<1>1. CASE kind = "flex"
  <2>0. \/ todo = <<"float">>
        \/ todo = <<"delegate", "float">>
    BY <1>1 DEF Left
  <2>1. CASE todo = <<"float">>
    <3>1. Head(todo) = "float" /\ Tail(todo) = <<>>
      BY <2>1, ShortLists
    <3> QED
      BY <1>1, <3>1 DEF Left, Follows, Steps
  <2>2. CASE todo = <<"delegate", "float">>
    <3>1. Head(todo) = "delegate" /\ Tail(todo) = <<"float">>
      BY <2>2, ShortLists
    <3>2. Head(<<"float">>) = "float" /\ <<"float">> # <<>>
      OBVIOUS
    <3> QED
      BY <1>1, <3>1, <3>2 DEF Left, Follows, Steps
  <2> QED
    BY <2>0, <2>1, <2>2
<1>2. CASE kind = "input"
  <2>0. \/ todo = <<"input">>
        \/ todo = <<"float", "input">>
        \/ todo = <<"delegate", "float", "input">>
    BY <1>2 DEF Left
  <2>1. CASE todo = <<"input">>
    <3>1. Head(todo) = "input" /\ Tail(todo) = <<>>
      BY <2>1, ShortLists
    <3> QED
      BY <1>2, <3>1 DEF Left, Follows, Steps
  <2>2. CASE todo = <<"float", "input">>
    <3>1. Head(todo) = "float" /\ Tail(todo) = <<"input">>
      BY <2>2, ShortLists
    <3>2. Head(<<"input">>) = "input" /\ <<"input">> # <<>>
      OBVIOUS
    <3> QED
      BY <1>2, <3>1, <3>2 DEF Left, Follows, Steps
  <2>3. CASE todo = <<"delegate", "float", "input">>
    <3>1. Head(todo) = "delegate" /\ Tail(todo) = <<"float", "input">>
      BY <2>3, ShortLists
    <3>2. Head(<<"float", "input">>) = "float" /\ <<"float", "input">> # <<>>
      OBVIOUS
    <3> QED
      BY <1>2, <3>1, <3>2 DEF Left, Follows, Steps
  <2> QED
    BY <2>0, <2>1, <2>2, <2>3
<1>3. CASE kind = "output"
  <2>0. \/ todo = <<"output">>
        \/ todo = <<"level", "output">>
        \/ todo = <<"float", "level", "output">>
        \/ todo = <<"delegate", "float", "level", "output">>
    BY <1>3 DEF Left
  <2>1. CASE todo = <<"output">>
    <3>1. Head(todo) = "output" /\ Tail(todo) = <<>>
      BY <2>1, ShortLists
    <3> QED
      BY <1>3, <3>1 DEF Left, Follows, Steps
  <2>2. CASE todo = <<"level", "output">>
    <3>1. Head(todo) = "level" /\ Tail(todo) = <<"output">>
      BY <2>2, ShortLists
    <3>2. Head(<<"output">>) = "output" /\ <<"output">> # <<>>
      OBVIOUS
    <3> QED
      BY <1>3, <3>1, <3>2 DEF Left, Follows, Steps
  <2>3. CASE todo = <<"float", "level", "output">>
    <3>1. Head(todo) = "float" /\ Tail(todo) = <<"level", "output">>
      BY <2>3, ShortLists
    <3>2. Head(<<"level", "output">>) = "level" /\ <<"level", "output">> # <<>>
      OBVIOUS
    <3> QED
      BY <1>3, <3>1, <3>2 DEF Left, Follows, Steps
  <2>4. CASE todo = <<"delegate", "float", "level", "output">>
    <3>1. Head(todo) = "delegate" /\ Tail(todo) = <<"float", "level", "output">>
      BY <2>4, ShortLists
    <3>2. Head(<<"float", "level", "output">>) = "float" /\ <<"float", "level", "output">> # <<>>
      OBVIOUS
    <3> QED
      BY <1>3, <3>1, <3>2 DEF Left, Follows, Steps
  <2> QED
    BY <2>0, <2>1, <2>2, <2>3, <2>4
<1>4. CASE kind = "od"
  <2>0. \/ todo = <<"od">>
        \/ todo = <<"pull", "od">>
        \/ todo = <<"output", "pull", "od">>
        \/ todo = <<"level", "output", "pull", "od">>
        \/ todo = <<"float", "level", "output", "pull", "od">>
        \/ todo = <<"delegate", "float", "level", "output", "pull", "od">>
    BY <1>4 DEF Left
  <2>1. CASE todo = <<"od">>
    <3>1. Head(todo) = "od" /\ Tail(todo) = <<>>
      BY <2>1, ShortLists
    <3> QED
      BY <1>4, <3>1 DEF Left, Follows, Steps
  <2>2. CASE todo = <<"pull", "od">>
    <3>1. Head(todo) = "pull" /\ Tail(todo) = <<"od">>
      BY <2>2, ShortLists
    <3>2. Head(<<"od">>) = "od" /\ <<"od">> # <<>>
      OBVIOUS
    <3> QED
      BY <1>4, <3>1, <3>2 DEF Left, Follows, Steps
  <2>3. CASE todo = <<"output", "pull", "od">>
    <3>1. Head(todo) = "output" /\ Tail(todo) = <<"pull", "od">>
      BY <2>3, ShortLists
    <3>2. Head(<<"pull", "od">>) = "pull" /\ <<"pull", "od">> # <<>>
      OBVIOUS
    <3> QED
      BY <1>4, <3>1, <3>2 DEF Left, Follows, Steps
  <2>4. CASE todo = <<"level", "output", "pull", "od">>
    <3>1. Head(todo) = "level" /\ Tail(todo) = <<"output", "pull", "od">>
      BY <2>4, ShortLists
    <3>2. Head(<<"output", "pull", "od">>) = "output" /\ <<"output", "pull", "od">> # <<>>
      OBVIOUS
    <3> QED
      BY <1>4, <3>1, <3>2 DEF Left, Follows, Steps
  <2>5. CASE todo = <<"float", "level", "output", "pull", "od">>
    <3>1. Head(todo) = "float" /\ Tail(todo) = <<"level", "output", "pull", "od">>
      BY <2>5, ShortLists
    <3>2. Head(<<"level", "output", "pull", "od">>) = "level" /\ <<"level", "output", "pull", "od">> # <<>>
      OBVIOUS
    <3> QED
      BY <1>4, <3>1, <3>2 DEF Left, Follows, Steps
  <2>6. CASE todo = <<"delegate", "float", "level", "output", "pull", "od">>
    <3>1. Head(todo) = "delegate" /\ Tail(todo) = <<"float", "level", "output", "pull", "od">>
      BY <2>6, ShortLists
    <3>2. Head(<<"float", "level", "output", "pull", "od">>) = "float" /\ <<"float", "level", "output", "pull", "od">> # <<>>
      OBVIOUS
    <3> QED
      BY <1>4, <3>1, <3>2 DEF Left, Follows, Steps
  <2> QED
    BY <2>0, <2>1, <2>2, <2>3, <2>4, <2>5, <2>6
<1>5. kind # "free"
  BY DEF Left
<1> QED
  BY <1>1, <1>2, <1>3, <1>4, <1>5 DEF Kinds

\* The pin is not taken over yet; nor is its level set; nor is its pull.
NotTaken(todo) == todo # <<>> /\ Head(todo) \in {"delegate", "float"}
NotLevelled(todo) == todo # <<>> /\ Head(todo) \in {"delegate", "float", "level"}
NotPulled(todo) == todo # <<>> /\ Head(todo) \in {"delegate", "float", "level", "output", "input", "pull"}

Todos == UNION {Left(kind) : kind \in Kinds}
NothingRead == {{}}
Drivers == [kind : Kinds, todo : Todos, read : NothingRead, out : BOOLEAN, level : Levels, pull : Pulls,
            od : BOOLEAN, analog : BOOLEAN]
Pads == [pull : Pulls, od : BOOLEAN, analog : BOOLEAN]

\* One pin: its driver, whether it is an output, whether its latch is high, its pad.
PinOk(own, out, high, pad) ==
  /\ own.todo \in Left(own.kind)
  /\ pad.od = own.od /\ pad.analog = own.analog
  /\ own.kind = "free" => own.od = FALSE /\ own.analog = FALSE
  /\ NotLevelled(own.todo) => own.out = FALSE
  /\ NotTaken(own.todo) /\ own.kind \in {"flex", "output"} => own.pull = "down"
  /\ NotTaken(own.todo) /\ own.kind \in {"flex", "input"} => own.level = "any"
  /\ own.kind # "free" /\ ~NotTaken(own.todo) => (out <=> own.out)
  /\ own.kind # "free" /\ ~NotLevelled(own.todo) /\ own.level # "any" => (own.level = "high" <=> high)
  /\ own.kind # "free" /\ (~NotPulled(own.todo) \/ (own.kind \in {"flex", "output"} /\ ~NotTaken(own.todo)))
       => pad.pull = own.pull

PinInv ==
  /\ pin_own \in [PinPads -> Drivers] /\ pin_pad \in [PinPads -> Pads]
  /\ \A p \in PinPads : PinOk(pin_own[p], p \in pin_oe, p \in pin_do, pin_pad[p])

\* A driver with a field changed is a driver.
LEMMA OwnerKept ==
  ASSUME NEW own \in Drivers, NEW todo \in Todos, NEW drive \in Levels, NEW pull \in Pulls,
         NEW b \in BOOLEAN
  PROVE  /\ [own EXCEPT !.todo = todo] \in Drivers
         /\ [own EXCEPT !.level = drive] \in Drivers
         /\ [own EXCEPT !.level = drive, !.pull = pull] \in Drivers
         /\ [own EXCEPT !.read = {}] \in Drivers
         /\ [own EXCEPT !.out = b] \in Drivers
         /\ [own EXCEPT !.od = b] \in Drivers
         /\ [own EXCEPT !.analog = b] \in Drivers
<1>1. {} \in NothingRead
  BY DEF NothingRead
<1>2. [own EXCEPT !.todo = todo] \in Drivers
  BY DEF Drivers
<1>3. [own EXCEPT !.level = drive] \in Drivers
  BY DEF Drivers
<1>4. [own EXCEPT !.level = drive, !.pull = pull] \in Drivers
  BY DEF Drivers
<1>5. [own EXCEPT !.read = {}] \in Drivers
  BY <1>1 DEF Drivers
<1>6. [own EXCEPT !.out = b] \in Drivers
  BY DEF Drivers
<1>7. [own EXCEPT !.od = b] \in Drivers
  BY DEF Drivers
<1>8. [own EXCEPT !.analog = b] \in Drivers
  BY DEF Drivers
<1> QED
  BY <1>2, <1>3, <1>4, <1>5, <1>6, <1>7, <1>8

\* The step that each name stands for.
LEMMA DoesWhat ==
  ASSUME NEW p, NEW own
  PROVE  /\ Does(p, own, "delegate") => Delegate(p, own)
         /\ Does(p, own, "float") => Float(p, own)
         /\ Does(p, own, "input") => SetAsInput(p, own)
         /\ Does(p, own, "output") => SetAsOutput(p, own)
         /\ Does(p, own, "level") => SetLevel(p, own)
         /\ Does(p, own, "toggle") => Toggle(p, own)
         /\ Does(p, own, "pull") => SetPull(p, own)
         /\ Does(p, own, "push_pull") => SetMode(p, own, "od", FALSE)
         /\ Does(p, own, "od") => SetMode(p, own, "od", TRUE)
         /\ Does(p, own, "analog") => SetMode(p, own, "analog", TRUE)
  BY DEF Does

\* What the invariant says of one pin.
LEMMA PinFacts ==
  ASSUME PinInv, NEW p \in PinPads
  PROVE  /\ pin_own[p] \in Drivers /\ pin_pad[p] \in Pads
         /\ pin_own[p].kind \in Kinds /\ pin_own[p].level \in Levels /\ pin_own[p].pull \in Pulls
         /\ pin_own[p].read = {}
         /\ PinOk(pin_own[p], p \in pin_oe, p \in pin_do, pin_pad[p])
  BY DEF PinInv, Drivers, NothingRead

\* A step that changes one pin and leaves it in order.
LEMMA OnePin ==
  ASSUME PinInv, NEW p \in PinPads, NEW own \in Drivers, NEW pad \in Pads,
         pin_own' = [pin_own EXCEPT ![p] = own], pin_pad' = [pin_pad EXCEPT ![p] = pad],
         \A q \in PinPads \ {p} : (q \in pin_oe' <=> q \in pin_oe) /\ (q \in pin_do' <=> q \in pin_do),
         PinOk(own, p \in pin_oe', p \in pin_do', pad)
  PROVE  PinInv'
<1>1. pin_own' \in [PinPads -> Drivers] /\ pin_pad' \in [PinPads -> Pads]
  BY DEF PinInv
<1>2. ASSUME NEW q \in PinPads PROVE PinOk(pin_own'[q], q \in pin_oe', q \in pin_do', pin_pad'[q])
  <2>1. CASE q = p
    <3>1. pin_own'[q] = own /\ pin_pad'[q] = pad
      BY <2>1 DEF PinInv
    <3> QED
      BY <3>1, <2>1
  <2>2. CASE q # p
    <3>1. pin_own'[q] = pin_own[q] /\ pin_pad'[q] = pin_pad[q]
      BY <2>2 DEF PinInv
    <3>2. PinOk(pin_own[q], q \in pin_oe, q \in pin_do, pin_pad[q]) /\ (q \in pin_oe' <=> q \in pin_oe) /\ (q \in pin_do' <=> q \in pin_do)
      BY <2>2 DEF PinInv
    <3> QED
      BY <3>1, <3>2 DEF PinOk
  <2> QED
    BY <2>1, <2>2
<1> QED
  BY <1>1, <1>2 DEF PinInv

\* A pad that does not change, in the form OnePin takes.
LEMMA PadSame ==
  ASSUME PinInv, NEW p \in PinPads, pin_pad' = pin_pad
  PROVE  pin_pad' = [pin_pad EXCEPT ![p] = pin_pad[p]]
  BY DEF PinInv

\* A pad with a field changed is a pad.
\* A step of a constructor, by the step it is at.
LEMMA PinStepKeeps ==
  ASSUME PinReadsBack = FALSE, PinInv, NEW p \in PinPads, PinStep(p)
  PROVE  PinInv'
<1> DEFINE was == pin_own[p]
           rest == Tail(was.todo)
           own == [was EXCEPT !.todo = rest]
<1>1. /\ was \in Drivers /\ pin_pad[p] \in Pads /\ was.kind \in Kinds /\ was.pull \in Pulls
      /\ was.read = {}
      /\ PinOk(was, p \in pin_oe, p \in pin_do, pin_pad[p])
  BY PinFacts
<1>2. was.todo \in Left(was.kind) /\ was.todo # <<>>
  BY <1>1 DEF PinStep, PinOk
<1>3. rest \in Left(was.kind) /\ Head(was.todo) \in Steps /\ Follows(was.kind, Head(was.todo), rest)
  BY <1>1, <1>2, LeftFollows
<1>4. rest \in Todos
  BY <1>1, <1>3 DEF Todos
<1>5. /\ own \in Drivers /\ own.todo = rest /\ own.kind = was.kind /\ own.out = was.out
      /\ own.level = was.level
      /\ own.pull = was.pull /\ own.od = was.od /\ own.analog = was.analog /\ own.read = {}
  BY <1>1, <1>4, OwnerKept DEF Drivers
<1>6. Does(p, own, Head(was.todo))
  BY DEF PinStep
<1>7. pin_pad' = pin_pad => pin_pad' = [pin_pad EXCEPT ![p] = pin_pad[p]]
  BY PadSame
<1> HIDE DEF own, rest, was
<1>8. CASE Head(was.todo) = "delegate"
  <2>1. Delegate(p, own)
    BY <1>6, <1>8, DoesWhat
  <2> DEFINE new == [own EXCEPT !.read = {}]
  <2>2. /\ pin_own' = [pin_own EXCEPT ![p] = new] /\ pin_pad' = pin_pad /\ pin_oe' = pin_oe
        /\ pin_do' = pin_do
    BY <2>1 DEF Delegate, ReadClear
  <2>3. new \in Drivers /\ new.todo = rest /\ new.kind = own.kind /\ new.out = own.out /\ new.level = own.level
        /\ new.pull = own.pull /\ new.od = own.od /\ new.analog = own.analog
    BY <1>5, OwnerKept DEF Drivers
  <2> HIDE DEF new
  <2>4. rest # <<>> /\ Head(rest) = "float"
    BY <1>3, <1>8 DEF Follows
  <2>5. PinOk(new, p \in pin_oe', p \in pin_do', pin_pad[p])
    BY <1>1, <1>2, <1>3, <1>5, <1>8, <2>2, <2>3, <2>4 DEF PinOk, NotTaken, NotLevelled, NotPulled
  <2> QED
    BY <1>1, <1>7, <2>2, <2>3, <2>5, OnePin
<1>9. CASE Head(was.todo) = "float"
  <2>1. Float(p, own)
    BY <1>6, <1>9, DoesWhat
  <2> DEFINE pad == [pin_pad[p] EXCEPT !.pull = "down"]
  <2>2. /\ pin_own' = [pin_own EXCEPT ![p] = own] /\ pin_pad' = [pin_pad EXCEPT ![p] = pad]
        /\ pin_oe' = pin_oe \ {p} /\ pin_do' = pin_do
    BY <2>1, <1>5 DEF Float
  <2>3. pad \in Pads /\ pad.od = pin_pad[p].od /\ pad.analog = pin_pad[p].analog /\ pad.pull = "down"
    BY <1>1 DEF Pads, Pulls
  <2> HIDE DEF pad
  <2>4. \/ own.kind = "flex" /\ rest = <<>>
        \/ own.kind = "input" /\ rest # <<>> /\ Head(rest) = "input"
        \/ own.kind \in {"output", "od"} /\ rest # <<>> /\ Head(rest) = "level"
    BY <1>3, <1>5, <1>9 DEF Follows
  <2>5. was.out = FALSE /\ (own.kind \in {"flex", "output"} => own.pull = "down")
    BY <1>1, <1>2, <1>5, <1>9 DEF PinOk, NotTaken, NotLevelled
  <2>6. own.kind \in {"flex", "input"} => own.level = "any"
    BY <1>1, <1>2, <1>5, <1>9 DEF PinOk, NotTaken
  <2>7. PinOk(own, p \in pin_oe', p \in pin_do', pad)
    BY <1>1, <1>3, <1>5, <2>2, <2>3, <2>4, <2>5, <2>6 DEF PinOk, NotTaken, NotLevelled, NotPulled
  <2> QED
    BY <1>5, <2>2, <2>3, <2>7, OnePin
<1>10. CASE Head(was.todo) = "level"
  <2>1. SetLevel(p, own)
    BY <1>6, <1>10, DoesWhat
  <2>2. /\ pin_own' = [pin_own EXCEPT ![p] = own] /\ pin_pad' = pin_pad /\ pin_oe' = pin_oe
        /\ pin_do' = IF own.level = "high" THEN pin_do \cup {p} ELSE pin_do \ {p}
    BY <2>1 DEF SetLevel
  <2>3. (p \in pin_do' <=> own.level = "high") /\ \A q \in PinPads \ {p} : q \in pin_do' <=> q \in pin_do
    BY <2>2
  <2>4. own.kind \in {"output", "od"} /\ rest # <<>> /\ Head(rest) = "output"
    BY <1>3, <1>5, <1>10 DEF Follows
  <2>5. PinOk(own, p \in pin_oe', p \in pin_do', pin_pad[p])
    BY <1>1, <1>2, <1>3, <1>5, <1>10, <2>2, <2>3, <2>4 DEF PinOk, NotTaken, NotLevelled, NotPulled
  <2> QED
    BY <1>1, <1>5, <1>7, <2>2, <2>3, <2>5, OnePin
<1>11. CASE Head(was.todo) = "output"
  <2>1. SetAsOutput(p, own)
    BY <1>6, <1>11, DoesWhat
  <2> DEFINE new == [own EXCEPT !.out = TRUE]
  <2>2. /\ pin_own' = [pin_own EXCEPT ![p] = new] /\ pin_pad' = pin_pad
        /\ pin_oe' = pin_oe \cup {p} /\ pin_do' = pin_do
    BY <2>1 DEF SetAsOutput
  <2>3. new \in Drivers /\ new.todo = rest /\ new.kind = own.kind /\ new.out = TRUE /\ new.level = own.level
        /\ new.pull = own.pull /\ new.od = own.od /\ new.analog = own.analog
    BY <1>5, OwnerKept DEF Drivers
  <2> HIDE DEF new
  <2>4. \/ own.kind = "output" /\ rest = <<>>
        \/ own.kind = "od" /\ rest # <<>> /\ Head(rest) = "pull"
    BY <1>3, <1>5, <1>11, SMTT(60) DEF Follows
  <2>5. PinOk(new, p \in pin_oe', p \in pin_do', pin_pad[p])
    BY <1>1, <1>2, <1>3, <1>5, <1>11, <2>2, <2>3, <2>4 DEF PinOk, NotTaken, NotLevelled, NotPulled
  <2> QED
    BY <1>1, <1>7, <2>2, <2>3, <2>5, OnePin
<1>12. CASE Head(was.todo) = "pull"
  <2>1. SetPull(p, own)
    BY <1>6, <1>12, DoesWhat
  <2> DEFINE pad == [pin_pad[p] EXCEPT !.pull = own.pull]
  <2>2. /\ pin_own' = [pin_own EXCEPT ![p] = own] /\ pin_pad' = [pin_pad EXCEPT ![p] = pad]
        /\ pin_oe' = pin_oe /\ pin_do' = pin_do
    BY <2>1 DEF SetPull
  <2>3. pad \in Pads /\ pad.od = pin_pad[p].od /\ pad.analog = pin_pad[p].analog /\ pad.pull = own.pull
    BY <1>1, <1>5 DEF Pads
  <2> HIDE DEF pad
  <2>4. own.kind = "od" /\ rest # <<>> /\ Head(rest) = "od"
    BY <1>3, <1>5, <1>12 DEF Follows
  <2>5. PinOk(own, p \in pin_oe', p \in pin_do', pad)
    BY <1>1, <1>2, <1>3, <1>5, <1>12, <2>2, <2>3, <2>4 DEF PinOk, NotTaken, NotLevelled, NotPulled
  <2> QED
    BY <1>5, <2>2, <2>3, <2>5, OnePin
<1>13. CASE Head(was.todo) = "input"
  <2>1. SetAsInput(p, own)
    BY <1>6, <1>13, DoesWhat
  <2> DEFINE pad == [pin_pad[p] EXCEPT !.pull = own.pull]
             new == [own EXCEPT !.out = FALSE]
  <2>2. /\ pin_own' = [pin_own EXCEPT ![p] = new] /\ pin_pad' = [pin_pad EXCEPT ![p] = pad]
        /\ pin_oe' = pin_oe \ {p} /\ pin_do' = pin_do
    BY <2>1 DEF SetAsInput, ReadClear
  <2>3. pad \in Pads /\ pad.od = pin_pad[p].od /\ pad.analog = pin_pad[p].analog /\ pad.pull = own.pull
    BY <1>1, <1>5 DEF Pads
  <2>4. new \in Drivers /\ new.todo = rest /\ new.kind = own.kind /\ new.out = FALSE /\ new.level = own.level
        /\ new.pull = own.pull /\ new.od = own.od /\ new.analog = own.analog
    BY <1>5, OwnerKept DEF Drivers
  <2> HIDE DEF pad, new
  <2>5. own.kind = "input" /\ rest = <<>>
    BY <1>3, <1>5, <1>13 DEF Follows
  <2>6. PinOk(new, p \in pin_oe', p \in pin_do', pad)
    BY <1>1, <1>2, <1>3, <1>5, <1>13, <2>2, <2>3, <2>4, <2>5 DEF PinOk, NotTaken, NotLevelled,
       NotPulled
  <2> QED
    BY <2>2, <2>3, <2>4, <2>6, OnePin
<1>14. CASE Head(was.todo) = "od"
  <2>1. SetMode(p, own, "od", TRUE)
    BY <1>6, <1>14, DoesWhat
  <2> DEFINE pad == [pin_pad[p] EXCEPT !.od = TRUE]
             new == [own EXCEPT !.od = TRUE]
  <2>2. /\ pin_own' = [pin_own EXCEPT ![p] = new] /\ pin_pad' = [pin_pad EXCEPT ![p] = pad]
        /\ pin_oe' = pin_oe /\ pin_do' = pin_do
    BY <2>1 DEF SetMode
  <2>3. pad \in Pads /\ pad.od = TRUE /\ pad.analog = pin_pad[p].analog /\ pad.pull = pin_pad[p].pull
    BY <1>1 DEF Pads
  <2>4. new \in Drivers /\ new.todo = rest /\ new.kind = own.kind /\ new.out = own.out /\ new.level = own.level
        /\ new.pull = own.pull /\ new.od = TRUE /\ new.analog = own.analog
    BY <1>5, OwnerKept DEF Drivers
  <2> HIDE DEF pad, new
  <2>5. own.kind = "od" /\ rest = <<>>
    BY <1>3, <1>5, <1>14 DEF Follows
  <2>6. PinOk(new, p \in pin_oe', p \in pin_do', pad)
    BY <1>1, <1>2, <1>3, <1>5, <1>14, <2>2, <2>3, <2>4, <2>5 DEF PinOk, NotTaken, NotLevelled,
       NotPulled
  <2> QED
    BY <2>2, <2>3, <2>4, <2>6, OnePin
<1> QED
  BY <1>3, <1>8, <1>9, <1>10, <1>11, <1>12, <1>13, <1>14 DEF Steps

\* A finished constructor has taken the pin over and set level and pull.
LEMMA NothingLeft == ~NotTaken(<<>>) /\ ~NotLevelled(<<>>) /\ ~NotPulled(<<>>)
  BY DEF NotTaken, NotLevelled, NotPulled

\* A method of a driver, by the step it makes.
LEMMA PinMethodKeeps ==
  ASSUME PinReadsBack = FALSE, PinInv, NEW p \in PinPads, PinMethod(p)
  PROVE  PinInv'
<1> DEFINE was == pin_own[p]
<1>1. /\ was \in Drivers /\ pin_pad[p] \in Pads /\ was.kind \in Kinds /\ was.pull \in Pulls
      /\ was.level \in Levels
      /\ was.read = {} /\ PinOk(was, p \in pin_oe, p \in pin_do, pin_pad[p])
  BY PinFacts
<1>2. was.todo = <<>>
  BY DEF PinMethod
<1>3. PICK step \in MethodsOf[was.kind], drive \in {"low", "high"}, pull \in Pulls :
        Does(p, [was EXCEPT !.level = IF step = "level" THEN drive ELSE @,
                            !.pull = IF step \in {"input", "pull"} THEN pull ELSE @], step)
  BY DEF PinMethod
<1>4. was.kind # "free" /\ step \in {"input", "output", "analog", "pull", "od", "push_pull", "level", "toggle"}
  BY <1>1 DEF MethodsOf, Kinds
<1> DEFINE own == [was EXCEPT !.level = IF step = "level" THEN drive ELSE was.level,
                              !.pull = IF step \in {"input", "pull"} THEN pull ELSE was.pull]
<1>5. /\ own \in Drivers /\ own.todo = <<>> /\ own.kind = was.kind /\ own.out = was.out
      /\ own.level = (IF step = "level" THEN drive ELSE was.level)
      /\ own.pull = (IF step \in {"input", "pull"} THEN pull ELSE was.pull)
      /\ own.od = was.od /\ own.analog = was.analog
  <2>1. (IF step = "level" THEN drive ELSE was.level) \in Levels /\ (IF step \in {"input", "pull"} THEN pull ELSE was.pull) \in Pulls
    BY <1>1 DEF Levels
  <2> QED
    BY <1>1, <1>2, <2>1, OwnerKept DEF Drivers
<1>6. Does(p, own, step)
  BY <1>3
<1>7. pin_pad' = pin_pad => pin_pad' = [pin_pad EXCEPT ![p] = pin_pad[p]]
  BY PadSame
<1>8. was.kind # "free" => own.todo \in Left(own.kind)
  BY <1>1, <1>2, <1>5 DEF PinOk
<1> HIDE DEF own, was
<1>9. CASE step = "input"
  <2>1. SetAsInput(p, own)
    BY <1>6, <1>9, DoesWhat
  <2> DEFINE pad == [pin_pad[p] EXCEPT !.pull = own.pull]
             new == [own EXCEPT !.out = FALSE]
  <2>2. /\ pin_own' = [pin_own EXCEPT ![p] = new] /\ pin_pad' = [pin_pad EXCEPT ![p] = pad]
        /\ pin_oe' = pin_oe \ {p} /\ pin_do' = pin_do
    BY <2>1 DEF SetAsInput, ReadClear
  <2>3. pad \in Pads /\ pad.od = pin_pad[p].od /\ pad.analog = pin_pad[p].analog /\ pad.pull = own.pull
    BY <1>1, <1>3, <1>5 DEF Pads
  <2>4. new \in Drivers /\ new.todo = <<>> /\ new.kind = own.kind /\ new.out = FALSE /\ new.level = own.level
        /\ new.pull = own.pull /\ new.od = own.od /\ new.analog = own.analog
    BY <1>5, OwnerKept DEF Drivers
  <2> HIDE DEF pad, new
  <2>5. PinOk(new, p \in pin_oe', p \in pin_do', pad)
    BY <1>1, <1>2, <1>4, <1>5, <1>8, <1>9, <2>2, <2>3, <2>4, NothingLeft DEF PinOk
  <2> QED
    BY <2>2, <2>3, <2>4, <2>5, OnePin
<1>10. CASE step = "output"
  <2>1. SetAsOutput(p, own)
    BY <1>6, <1>10, DoesWhat
  <2> DEFINE new == [own EXCEPT !.out = TRUE]
  <2>2. /\ pin_own' = [pin_own EXCEPT ![p] = new] /\ pin_pad' = pin_pad
        /\ pin_oe' = pin_oe \cup {p} /\ pin_do' = pin_do
    BY <2>1 DEF SetAsOutput
  <2>3. new \in Drivers /\ new.todo = <<>> /\ new.kind = own.kind /\ new.out = TRUE /\ new.level = own.level
        /\ new.pull = own.pull /\ new.od = own.od /\ new.analog = own.analog
    BY <1>5, OwnerKept DEF Drivers
  <2> HIDE DEF new
  <2>4. PinOk(new, p \in pin_oe', p \in pin_do', pin_pad[p])
    BY <1>1, <1>2, <1>4, <1>5, <1>8, <1>10, <2>2, <2>3, NothingLeft DEF PinOk
  <2> QED
    BY <1>1, <1>7, <2>2, <2>3, <2>4, OnePin
<1>11. CASE step = "analog"
  <2>1. SetMode(p, own, "analog", TRUE)
    BY <1>6, <1>11, DoesWhat
  <2> DEFINE pad == [pin_pad[p] EXCEPT !.analog = TRUE]
             new == [own EXCEPT !.analog = TRUE]
  <2>2. /\ pin_own' = [pin_own EXCEPT ![p] = new] /\ pin_pad' = [pin_pad EXCEPT ![p] = pad]
        /\ pin_oe' = pin_oe /\ pin_do' = pin_do
    BY <2>1 DEF SetMode
  <2>3. pad \in Pads /\ pad.od = pin_pad[p].od /\ pad.analog = TRUE /\ pad.pull = pin_pad[p].pull
    BY <1>1 DEF Pads
  <2>4. new \in Drivers /\ new.todo = <<>> /\ new.kind = own.kind /\ new.out = own.out /\ new.level = own.level
        /\ new.pull = own.pull /\ new.od = own.od /\ new.analog = TRUE
    BY <1>5, OwnerKept DEF Drivers
  <2> HIDE DEF pad, new
  <2>5. PinOk(new, p \in pin_oe', p \in pin_do', pad)
    BY <1>1, <1>2, <1>4, <1>5, <1>8, <1>11, <2>2, <2>3, <2>4, NothingLeft DEF PinOk
  <2> QED
    BY <2>2, <2>3, <2>4, <2>5, OnePin
<1>12. CASE step = "pull"
  <2>1. SetPull(p, own)
    BY <1>6, <1>12, DoesWhat
  <2> DEFINE pad == [pin_pad[p] EXCEPT !.pull = own.pull]
  <2>2. /\ pin_own' = [pin_own EXCEPT ![p] = own] /\ pin_pad' = [pin_pad EXCEPT ![p] = pad]
        /\ pin_oe' = pin_oe /\ pin_do' = pin_do
    BY <2>1 DEF SetPull
  <2>3. pad \in Pads /\ pad.od = pin_pad[p].od /\ pad.analog = pin_pad[p].analog /\ pad.pull = own.pull
    BY <1>1, <1>3, <1>5 DEF Pads
  <2> HIDE DEF pad
  <2>4. PinOk(own, p \in pin_oe', p \in pin_do', pad)
    BY <1>1, <1>2, <1>4, <1>5, <1>8, <1>12, <2>2, <2>3, NothingLeft DEF PinOk
  <2> QED
    BY <1>5, <2>2, <2>3, <2>4, OnePin
<1>13. CASE step \in {"od", "push_pull"}
  <2>1. PICK on \in BOOLEAN : SetMode(p, own, "od", on)
    BY <1>6, <1>13, DoesWhat
  <2> DEFINE pad == [pin_pad[p] EXCEPT !.od = on]
             new == [own EXCEPT !.od = on]
  <2>2. /\ pin_own' = [pin_own EXCEPT ![p] = new] /\ pin_pad' = [pin_pad EXCEPT ![p] = pad]
        /\ pin_oe' = pin_oe /\ pin_do' = pin_do
    BY <2>1 DEF SetMode
  <2>3. pad \in Pads /\ pad.od = on /\ pad.analog = pin_pad[p].analog /\ pad.pull = pin_pad[p].pull
    BY <1>1 DEF Pads
  <2>4. new \in Drivers /\ new.todo = <<>> /\ new.kind = own.kind /\ new.out = own.out /\ new.level = own.level
        /\ new.pull = own.pull /\ new.od = on /\ new.analog = own.analog
    BY <1>5, OwnerKept DEF Drivers
  <2> HIDE DEF pad, new
  <2>5. PinOk(new, p \in pin_oe', p \in pin_do', pad)
    BY <1>1, <1>2, <1>4, <1>5, <1>8, <1>13, <2>2, <2>3, <2>4, NothingLeft DEF PinOk
  <2> QED
    BY <2>2, <2>3, <2>4, <2>5, OnePin
<1>14. CASE step = "level"
  <2>1. SetLevel(p, own)
    BY <1>6, <1>14, DoesWhat
  <2>2. /\ pin_own' = [pin_own EXCEPT ![p] = own] /\ pin_pad' = pin_pad /\ pin_oe' = pin_oe
        /\ pin_do' = IF own.level = "high" THEN pin_do \cup {p} ELSE pin_do \ {p}
    BY <2>1 DEF SetLevel
  <2>3. (p \in pin_do' <=> own.level = "high") /\ \A q \in PinPads \ {p} : q \in pin_do' <=> q \in pin_do
    BY <2>2
  <2>4. PinOk(own, p \in pin_oe', p \in pin_do', pin_pad[p])
    BY <1>1, <1>2, <1>4, <1>5, <1>8, <1>14, <2>2, <2>3, NothingLeft DEF PinOk
  <2> QED
    BY <1>1, <1>5, <1>7, <2>2, <2>3, <2>4, OnePin
<1>15. CASE step = "toggle"
  <2>1. Toggle(p, own)
    BY <1>6, <1>15, DoesWhat
  <2> DEFINE new == [own EXCEPT !.level = Opposite(was.level)]
  <2>2. /\ pin_own' = [pin_own EXCEPT ![p] = new] /\ pin_pad' = pin_pad /\ pin_oe' = pin_oe
        /\ pin_do' = IF p \in pin_do THEN pin_do \ {p} ELSE pin_do \cup {p}
    BY <2>1 DEF Toggle, IsSetHigh, was
  <2>3. (p \in pin_do' <=> ~(p \in pin_do)) /\ \A q \in PinPads \ {p} : q \in pin_do' <=> q \in pin_do
    BY <2>2
  <2>4. /\ Opposite(was.level) \in Levels /\ (Opposite(was.level) = "any" <=> was.level = "any")
        /\ was.level # "any" => (Opposite(was.level) = "high" <=> was.level # "high")
    BY <1>1 DEF Opposite, Levels
  <2>5. new \in Drivers /\ new.todo = <<>> /\ new.kind = own.kind /\ new.out = own.out /\ new.level = Opposite(was.level)
        /\ new.pull = own.pull /\ new.od = own.od /\ new.analog = own.analog
    BY <1>5, <2>4, OwnerKept DEF Drivers
  <2> HIDE DEF new
  <2>6. PinOk(new, p \in pin_oe', p \in pin_do', pin_pad[p])
    BY <1>1, <1>2, <1>4, <1>5, <1>8, <1>15, <2>2, <2>3, <2>4, <2>5, NothingLeft DEF PinOk
  <2> QED
    BY <1>1, <1>7, <2>2, <2>3, <2>5, <2>6, OnePin
<1> QED
  BY <1>4, <1>9, <1>10, <1>11, <1>12, <1>13, <1>14, <1>15

\* A free pin has a driver record and a pad of the right kind.
LEMMA NoneDrives ==
  /\ Floating \in Pads /\ NoOwner \in Drivers
<1>1. Floating \in Pads
  BY DEF Floating, Pads, Pulls
<1>2. <<>> \in Todos /\ {} \in NothingRead
  BY DEF Todos, Left, Kinds, NothingRead
<1>3. NoOwner \in Drivers
  BY <1>2 DEF NoOwner, Drivers, Kinds, Levels, Pulls
<1> QED
  BY <1>1, <1>3

\* Two elements and one make three.
LEMMA JoinOne ==
  ASSUME NEW a, NEW b, NEW c
  PROVE  <<a, b>> \o <<c>> = <<a, b, c>>
<1> DEFINE S == {a, b, c}
           s == <<a, b>>
           t == <<c>>
           u == <<a, b, c>>
<1>1. s \in Seq(S) /\ Len(s) = 2 /\ s[1] = a /\ s[2] = b
  OBVIOUS
<1>2. t \in Seq(S) /\ Len(t) = 1 /\ t[1] = c
  OBVIOUS
<1>3. u \in Seq(S) /\ Len(u) = 3 /\ u[1] = a /\ u[2] = b /\ u[3] = c
  OBVIOUS
<1> HIDE DEF s, t, u
<1> HIDE DEF S
<1>4. /\ s \o t \in Seq(S) /\ Len(s \o t) = Len(s) + Len(t)
      /\ \A i \in 1 .. Len(s) + Len(t) : (s \o t)[i] = IF i <= Len(s) THEN s[i] ELSE t[i - Len(s)]
  BY <1>1, <1>2, ConcatProperties
<1>5. Len(s \o t) = 3 /\ \A i \in 1 .. 3 : (s \o t)[i] = u[i]
  <2>1. (s \o t)[1] = s[1] /\ (s \o t)[2] = s[2] /\ Len(s \o t) = 3
    BY <1>1, <1>2, <1>4
  <2>2. (s \o t)[3] = t[1]
    BY <1>1, <1>2, <1>4
  <2> QED
    BY <1>1, <1>2, <1>3, <2>1, <2>2
<1>6. s \o t = u
  BY <1>3, <1>4, <1>5, SeqEqual
<1> QED
  BY <1>6 DEF s, t, u

\* Two elements and two make four.
LEMMA JoinTwo ==
  ASSUME NEW a, NEW b, NEW c, NEW d
  PROVE  <<a, b>> \o <<c, d>> = <<a, b, c, d>>
<1> DEFINE S == {a, b, c, d}
           s == <<a, b>>
           t == <<c, d>>
           u == <<a, b, c, d>>
<1>1. s \in Seq(S) /\ Len(s) = 2 /\ s[1] = a /\ s[2] = b
  OBVIOUS
<1>2. t \in Seq(S) /\ Len(t) = 2 /\ t[1] = c /\ t[2] = d
  OBVIOUS
<1>3. u \in Seq(S) /\ Len(u) = 4 /\ u[1] = a /\ u[2] = b /\ u[3] = c /\ u[4] = d
  OBVIOUS
<1> HIDE DEF s, t, u
<1> HIDE DEF S
<1>4. /\ s \o t \in Seq(S) /\ Len(s \o t) = Len(s) + Len(t)
      /\ \A i \in 1 .. Len(s) + Len(t) : (s \o t)[i] = IF i <= Len(s) THEN s[i] ELSE t[i - Len(s)]
  BY <1>1, <1>2, ConcatProperties
<1>5. Len(s \o t) = 4 /\ \A i \in 1 .. 4 : (s \o t)[i] = u[i]
  <2>1. (s \o t)[1] = s[1] /\ (s \o t)[2] = s[2] /\ Len(s \o t) = 4
    BY <1>1, <1>2, <1>4
  <2>2. (s \o t)[3] = t[1] /\ (s \o t)[4] = t[2]
    BY <1>1, <1>2, <1>4
  <2> QED
    BY <1>1, <1>2, <1>3, <2>1, <2>2
<1>6. s \o t = u
  BY <1>3, <1>4, <1>5, SeqEqual
<1> QED
  BY <1>6 DEF s, t, u

\* Two elements and four make six.
LEMMA JoinFour ==
  ASSUME NEW a, NEW b, NEW c, NEW d, NEW e, NEW f
  PROVE  <<a, b>> \o <<c, d, e, f>> = <<a, b, c, d, e, f>>
<1> DEFINE S == {a, b, c, d, e, f}
           s == <<a, b>>
           t == <<c, d, e, f>>
           u == <<a, b, c, d, e, f>>
<1>1. s \in Seq(S) /\ Len(s) = 2 /\ s[1] = a /\ s[2] = b
  OBVIOUS
<1>2. t \in Seq(S) /\ Len(t) = 4 /\ t[1] = c /\ t[2] = d /\ t[3] = e /\ t[4] = f
  OBVIOUS
<1>3. u \in Seq(S) /\ Len(u) = 6 /\ u[1] = a /\ u[2] = b /\ u[3] = c /\ u[4] = d /\ u[5] = e /\ u[6] = f
  OBVIOUS
<1> HIDE DEF s, t, u
<1> HIDE DEF S
<1>4. /\ s \o t \in Seq(S) /\ Len(s \o t) = Len(s) + Len(t)
      /\ \A i \in 1 .. Len(s) + Len(t) : (s \o t)[i] = IF i <= Len(s) THEN s[i] ELSE t[i - Len(s)]
  BY <1>1, <1>2, ConcatProperties
<1>5. Len(s \o t) = 6 /\ \A i \in 1 .. 6 : (s \o t)[i] = u[i]
  <2>1. (s \o t)[1] = s[1] /\ (s \o t)[2] = s[2] /\ Len(s \o t) = 6
    BY <1>1, <1>2, <1>4
  <2>2. (s \o t)[3] = t[1] /\ (s \o t)[4] = t[2] /\ (s \o t)[5] = t[3] /\ (s \o t)[6] = t[4]
    BY <1>1, <1>2, <1>4
  <2> QED
    BY <1>1, <1>2, <1>3, <2>1, <2>2
<1>6. s \o t = u
  BY <1>3, <1>4, <1>5, SeqEqual
<1> QED
  BY <1>6 DEF s, t, u

\* The four constructors, spelled out (Flex::new, Input::new, Output::new,
\* OutputOpenDrain::new).
LEMMA Constructors ==
  /\ Constructor("flex") = <<"delegate", "float">>
  /\ Constructor("input") = <<"delegate", "float", "input">>
  /\ Constructor("output") = <<"delegate", "float", "level", "output">>
  /\ Constructor("od") = <<"delegate", "float", "level", "output", "pull", "od">>
<1>1. Constructor("flex") = <<"delegate", "float">>
  BY DEF Constructor, IocGpio
<1>2. Constructor("input") = <<"delegate", "float", "input">>
  BY JoinOne DEF Constructor, IocGpio
<1>3. Constructor("output") = <<"delegate", "float", "level", "output">>
  BY JoinTwo DEF Constructor, IocGpio
<1>4. Constructor("od") = <<"delegate", "float", "level", "output", "pull", "od">>
  BY JoinFour DEF Constructor, IocGpio
<1> QED
  BY <1>1, <1>2, <1>3, <1>4

\* A driver as PinNew makes it.
LEMMA DriverMade ==
  ASSUME NEW was \in Drivers, NEW kind \in Kinds, NEW todo \in Todos, NEW pull \in Pulls, NEW drive \in Levels
  PROVE  LET own == [was EXCEPT !.kind = kind, !.todo = todo, !.pull = pull, !.level = drive]
         IN /\ own \in Drivers /\ own.kind = kind /\ own.todo = todo /\ own.pull = pull
            /\ own.level = drive
            /\ own.out = was.out /\ own.od = was.od /\ own.analog = was.analog
            /\ own.read = was.read
  BY DEF Drivers

\* A new driver is at the start of its constructor.
LEMMA PinNewKeeps ==
  ASSUME PinInv, NEW p \in PinPads, PinNew(p)
  PROVE  PinInv'
<1>1. PICK kind \in {"flex", "input", "output", "od"}, drive \in {"low", "high"}, pull \in Pulls :
        /\ kind \in {"flex", "output"} => pull = "down"
        /\ pin_own' = [pin_own EXCEPT ![p] = [NoOwner EXCEPT
             !.kind = kind, !.todo = Constructor(kind), !.pull = pull,
             !.level = IF kind \in {"output", "od"} THEN drive ELSE "any"]]
  BY DEF PinNew
<1> DEFINE lvl == IF kind \in {"output", "od"} THEN drive ELSE "any"
           own == [NoOwner EXCEPT !.kind = kind, !.todo = Constructor(kind), !.pull = pull, !.level = lvl]
<1>2. Constructor(kind) \in Left(kind) /\ Constructor(kind) # <<>> /\ Head(Constructor(kind)) = "delegate"
  BY Constructors, ShortLists DEF Left
<1>3. own \in Drivers /\ own.todo = Constructor(kind) /\ own.kind = kind /\ own.out = FALSE /\ own.level = lvl
      /\ own.pull = pull /\ own.od = FALSE /\ own.analog = FALSE
  <2>1. kind \in Kinds /\ Constructor(kind) \in Todos /\ {} \in NothingRead /\ lvl \in Levels
    BY <1>2 DEF Kinds, Todos, NothingRead, Levels
  <2> HIDE DEF lvl
  <2> QED
    BY <2>1, NoneDrives, DriverMade DEF NoOwner
<1>4. /\ pin_own' = [pin_own EXCEPT ![p] = own]
      /\ pin_pad' = pin_pad /\ pin_oe' = pin_oe /\ pin_do' = pin_do
  BY <1>1 DEF PinNew
<1>5. pin_pad' = [pin_pad EXCEPT ![p] = pin_pad[p]] /\ pin_pad[p] \in Pads
  BY <1>4, PadSame, PinFacts
<1>6. pin_pad[p].od = FALSE /\ pin_pad[p].analog = FALSE
  BY PinFacts DEF PinOk, PinNew
<1> HIDE DEF own
<1>7. NotTaken(own.todo) /\ NotLevelled(own.todo) /\ NotPulled(own.todo)
  BY <1>2, <1>3 DEF NotTaken, NotLevelled, NotPulled
<1>8. PinOk(own, p \in pin_oe', p \in pin_do', pin_pad[p])
  BY <1>1, <1>2, <1>3, <1>6, <1>7 DEF PinOk
<1> QED
  BY <1>3, <1>4, <1>5, <1>8, OnePin

\* Drop leaves the pad floating and the pin free.
LEMMA PinDropKeeps ==
  ASSUME PinInv, NEW p \in PinPads, PinDrop(p)
  PROVE  PinInv'
<1>1. /\ pin_own' = [pin_own EXCEPT ![p] = NoOwner] /\ pin_pad' = [pin_pad EXCEPT ![p] = Floating]
      /\ pin_oe' = pin_oe /\ pin_do' = pin_do
  BY DEF PinDrop
<1>2. PinOk(NoOwner, p \in pin_oe', p \in pin_do', Floating)
  BY NothingLeft DEF PinOk, NoOwner, Floating, Left
<1> QED
  BY <1>1, <1>2, NoneDrives, OnePin

\* The registers are what each driver asked for, whatever earlier drivers of its
\* pin left and whatever drivers of other pins do between its steps (Flex::new,
\* set_as_input, set_high, Drop of src/gpio/mod.rs), on any number of pins, if the
\* clear register of OE reads as zero.
THEOREM PinsFollow ==
  ASSUME PinReadsBack = FALSE
  PROVE  PinSpec => []PinsAsAsked
<1>1. PinInit => PinInv
  <2> SUFFICES ASSUME PinInit PROVE PinInv
    OBVIOUS
  <2>1. ASSUME NEW p \in PinPads PROVE PinOk(NoOwner, p \in pin_oe, p \in pin_do, Floating)
    BY NothingLeft DEF PinOk, NoOwner, Floating, Left
  <2> QED
    BY <2>1, NoneDrives DEF PinInit, PinInv
<1>2. PinInv /\ [PinNext]_pinVars => PinInv'
  <2> SUFFICES ASSUME PinInv, [PinNext]_pinVars PROVE PinInv'
    OBVIOUS
  <2>1. CASE PinNext
    BY <2>1, PinNewKeeps, PinStepKeeps, PinMethodKeeps, PinDropKeeps DEF PinNext
  <2>2. CASE UNCHANGED pinVars
    BY <2>2 DEF PinInv, pinVars
  <2> QED
    BY <2>1, <2>2
<1>3. PinInv => PinsAsAsked
  BY DEF PinInv, PinOk, PinsAsAsked, NotTaken, NotLevelled, NotPulled, IsSetHigh
<1> QED
  BY <1>1, <1>2, <1>3, PTL DEF PinSpec
=============================================================================
