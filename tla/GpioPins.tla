------------------------------ MODULE GpioPins ------------------------------
(***************************************************************************)
(* The pin drivers of src/gpio/mod.rs, Flex, Input, Output and              *)
(* OutputOpenDrain, on the registers of a port, which all pins share, and   *)
(* the pads, of which each pin has one.  Tasks own pins and preempt each    *)
(* other between two register writes of a constructor; drivers come and go. *)
(***************************************************************************)
EXTENDS Naturals, Sequences

CONSTANTS
  PinPads,         \* the pins, of one port
  PinDelegated,    \* whether it is PY or PZ, which PIOC or BIOC hands to IOC first
  PinReadsBack,    \* whether reading OE's clear register returns OE
  PinCalls         \* bound on the drivers made and the methods called

ASSUME PinAssumption ==
  /\ PinDelegated \in BOOLEAN /\ PinReadsBack \in BOOLEAN
  /\ PinCalls \in Nat

VARIABLES
  pin_oe,       \* the pins that are outputs: register OE
  pin_do,       \* the pins whose output latch is high: register DO
  pin_soc,      \* the pins that PIOC and BIOC have handed over
  pin_pad,      \* PAD_CTL and FUNC_CTL of each pin
  pin_own,      \* the driver of each pin, what it was asked, what is left to do
  pin_calls     \* drivers made and methods called so far

pinVars == <<pin_oe, pin_do, pin_soc, pin_pad, pin_own, pin_calls>>

Pulls == {"none", "up", "down"}

\* A pad as Drop leaves it and as the program finds it: no pull, push-pull, GPIO.
Floating == [pull |-> "none", od |-> FALSE, analog |-> FALSE]

NoOwner == [kind |-> "free", todo |-> <<>>, read |-> {},
            out |-> FALSE, level |-> "any", pull |-> "none", od |-> FALSE, analog |-> FALSE]

PinInit ==
  /\ pin_oe = {} /\ pin_soc = {}
  /\ pin_do \in {{}, PinPads}
  /\ pin_pad = [p \in PinPads |-> Floating]
  /\ pin_own = [p \in PinPads |-> NoOwner]
  /\ pin_calls = 0

(***************************************************************************)
(* Constructors: each a script of steps between which other tasks run.      *)
(***************************************************************************)
\* set_as_ioc_gpio: delegation and the read of `modify`, then its write, the
\* pull-down and the function.
IocGpio == <<"delegate", "float">>

\* Mutant of Constructor: the pin is an output before its level is set.
Constructor_LevelLast(kind) ==
  CASE kind = "flex" -> IocGpio
    [] kind = "input" -> IocGpio \o <<"input">>
    [] kind = "output" -> IocGpio \o <<"output", "level">>
    [] kind = "od" -> IocGpio \o <<"output", "level", "pull", "od">>

\* Flex::new, Input::new, Output::new, OutputOpenDrain::new.
Constructor(kind) ==
  CASE kind = "flex" -> IocGpio
    [] kind = "input" -> IocGpio \o <<"input">>
    [] kind = "output" -> IocGpio \o <<"level", "output">>
    [] kind = "od" -> IocGpio \o <<"level", "output", "pull", "od">>

PinCalled == pin_calls < PinCalls /\ pin_calls' = pin_calls + 1

\* A driver takes a pin that no driver has.
PinNew(p) ==
  /\ PinCalled
  /\ pin_own[p].kind = "free"
  /\ \E kind \in {"flex", "input", "output", "od"}, level \in {"low", "high"}, pull \in Pulls :
       /\ kind \in {"flex", "input"} => level = "low"
       /\ kind \in {"flex", "output"} => pull = "down"
       /\ pin_own' = [pin_own EXCEPT ![p] = [NoOwner EXCEPT
            !.kind = kind, !.todo = Constructor(kind), !.pull = pull,
            !.level = IF kind \in {"output", "od"} THEN level ELSE "any"]]
  /\ UNCHANGED <<pin_oe, pin_do, pin_soc, pin_pad>>

(***************************************************************************)
(* The steps, each asked for by `own`, which is what the driver is then.    *)
(***************************************************************************)
\* The value `modify` reads from OE's clear register.
ReadClear == IF PinReadsBack THEN pin_oe ELSE {}

Delegate(p, own) ==
  /\ pin_soc' = IF PinDelegated THEN pin_soc \cup {p} ELSE pin_soc
  /\ pin_own' = [pin_own EXCEPT ![p] = [own EXCEPT !.read = ReadClear]]
  /\ UNCHANGED <<pin_oe, pin_do, pin_pad>>

Float(p, own) ==
  /\ pin_oe' = pin_oe \ (own.read \cup {p})
  /\ pin_pad' = [pin_pad EXCEPT ![p].pull = "down"]
  /\ pin_own' = [pin_own EXCEPT ![p] = own]
  /\ UNCHANGED <<pin_do, pin_soc>>

\* set_as_input and set_as_output are critical sections.
SetAsInput(p, own) ==
  /\ pin_oe' = pin_oe \ (ReadClear \cup {p})
  /\ pin_pad' = [pin_pad EXCEPT ![p].pull = own.pull]
  /\ pin_own' = [pin_own EXCEPT ![p] = [own EXCEPT !.out = FALSE]]
  /\ UNCHANGED <<pin_do, pin_soc>>

SetAsOutput(p, own) ==
  /\ pin_oe' = pin_oe \cup {p}
  /\ pin_own' = [pin_own EXCEPT ![p] = [own EXCEPT !.out = TRUE]]
  /\ UNCHANGED <<pin_do, pin_soc, pin_pad>>

\* set_high and set_low write one bit of the set and the clear register.
SetLevel(p, own) ==
  /\ pin_do' = IF own.level = "high" THEN pin_do \cup {p} ELSE pin_do \ {p}
  /\ pin_own' = [pin_own EXCEPT ![p] = own]
  /\ UNCHANGED <<pin_oe, pin_soc, pin_pad>>

IsSetHigh(p) == p \in pin_do
Opposite(level) == CASE level = "low" -> "high" [] level = "high" -> "low" [] OTHER -> "any"

Toggle(p, own) ==
  /\ pin_do' = IF IsSetHigh(p) THEN pin_do \ {p} ELSE pin_do \cup {p}
  /\ pin_own' = [pin_own EXCEPT ![p] = [own EXCEPT !.level = Opposite(pin_own[p].level)]]
  /\ UNCHANGED <<pin_oe, pin_soc, pin_pad>>

\* set_pull, set_open_drain and set_as_analog touch the pin's own pad.
SetPull(p, own) ==
  /\ pin_pad' = [pin_pad EXCEPT ![p].pull = own.pull]
  /\ pin_own' = [pin_own EXCEPT ![p] = own]
  /\ UNCHANGED <<pin_oe, pin_do, pin_soc>>

SetMode(p, own, mode, on) ==
  /\ pin_pad' = [pin_pad EXCEPT ![p][mode] = on]
  /\ pin_own' = [pin_own EXCEPT ![p] = [own EXCEPT ![mode] = on]]
  /\ UNCHANGED <<pin_oe, pin_do, pin_soc>>

Does(p, own, step) ==
  CASE step = "delegate" -> Delegate(p, own)
    [] step = "float" -> Float(p, own)
    [] step = "input" -> SetAsInput(p, own)
    [] step = "output" -> SetAsOutput(p, own)
    [] step = "level" -> SetLevel(p, own)
    [] step = "toggle" -> Toggle(p, own)
    [] step = "pull" -> SetPull(p, own)
    [] step = "push_pull" -> SetMode(p, own, "od", FALSE)
    [] OTHER -> SetMode(p, own, step, TRUE)

\* The next step of a constructor.
PinStep(p) ==
  /\ pin_own[p].todo # <<>>
  /\ Does(p, [pin_own[p] EXCEPT !.todo = Tail(@)], Head(pin_own[p].todo))
  /\ UNCHANGED pin_calls

\* The methods, each one step, of the driver they belong to and of the traits of
\* embedded-hal, which forward to them.
MethodsOf ==
  [flex |-> {"input", "output", "analog", "pull", "od", "push_pull", "level", "toggle"},
   input |-> {}, output |-> {"level", "toggle"}, od |-> {"level", "toggle"}, free |-> {}]

PinMethod(p) ==
  /\ PinCalled
  /\ pin_own[p].todo = <<>>
  /\ \E step \in MethodsOf[pin_own[p].kind], level \in {"low", "high"}, pull \in Pulls :
       /\ step # "level" => level = "low"
       /\ step \notin {"input", "pull"} => pull = "none"
       /\ Does(p, [pin_own[p] EXCEPT !.level = IF step = "level" THEN level ELSE @,
                                     !.pull = IF step \in {"input", "pull"} THEN pull ELSE @], step)

\* Drop resets the pad and the function in a critical section; OE and DO stay.
PinDrop(p) ==
  /\ pin_own[p].kind # "free" /\ pin_own[p].todo = <<>>
  /\ pin_pad' = [pin_pad EXCEPT ![p] = Floating]
  /\ pin_own' = [pin_own EXCEPT ![p] = NoOwner]
  /\ UNCHANGED <<pin_oe, pin_do, pin_soc, pin_calls>>

PinNext == \E p \in PinPads : PinNew(p) \/ PinMethod(p) \/ PinStep(p) \/ PinDrop(p)

PinSpec == PinInit /\ [][PinNext]_pinVars

(***************************************************************************)
(* Property.                                                                *)
(***************************************************************************)
\* From the moment a driver has taken its pin over, the registers are what that
\* driver was asked for, whatever an earlier driver of the pin left there
\* (Drop leaves OE and DO) and whatever drivers of other pins of the port do
\* between its steps: the pin is an output exactly if its driver made it one,
\* and then at the level last asked for, with no other level on the way; the
\* pull is the one asked for; it is open drain or analog only for a driver that
\* said so.
PinsAsAsked ==
  \A p \in PinPads : LET own == pin_own[p] IN
    own.kind # "free" /\ (own.todo = <<>> \/ Head(own.todo) \notin {"delegate", "float"}) =>
      /\ p \in pin_oe <=> own.out
      /\ own.out /\ own.level # "any" => (own.level = "high" <=> IsSetHigh(p))
      /\ own.todo = <<>> => pin_pad[p].pull = own.pull
      /\ pin_pad[p].od = own.od /\ pin_pad[p].analog = own.analog
=============================================================================
