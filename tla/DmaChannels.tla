---------------------------- MODULE DmaChannels ----------------------------
(***************************************************************************)
(* One DMA controller of hpm-hal (src/dma/v1.rs, src/dma/v2.rs): its        *)
(* channels, the controller-wide interrupt status registers, the interrupt  *)
(* handler `dma_on_irq`, and the Transfer futures that own the channels.    *)
(*                                                                          *)
(* Three parties interleave at the granularity of one register access:     *)
(*   - the hardware, which moves data and raises status bits;               *)
(*   - the interrupt handler, which clears status bits and wakes tasks;     *)
(*   - the driver code run by tasks (new_inner, poll, is_running, drop).    *)
(* HDMA and XDMA share no register and use disjoint slots of STATE, so one  *)
(* instance of this module is one controller.                               *)
(***************************************************************************)
EXTENDS Naturals, FiniteSets

CONSTANTS
  Channels,     \* channels of this controller
  Tasks,        \* executor tasks that create and await transfers
  NoTask,       \* "no waker registered"
  MaxLen,       \* longest transfer, in transfer units
  Options,      \* the TransferOptions that callers pass
  Version,      \* "v1": dma/v1.rs (hpm67, 62, 63); "v2": dma/v2.rs (hpm53, 68, 6e)
  Controller    \* "HDMA" or "XDMA"

ASSUME ConstantsAssumption ==
  /\ MaxLen \in Nat \ {0}
  /\ Options \subseteq [circular : BOOLEAN, half_transfer_irq : BOOLEAN,
                        complete_transfer_irq : BOOLEAN]
  /\ NoTask \notin Tasks
  /\ Version \in {"v1", "v2"}
  /\ Controller \in {"HDMA", "XDMA"}

VARIABLES
  enable,       \* channels whose control register has enable set ...
  loop,         \* ... infiniteloop set
  tcmask,       \* ... the terminal count interrupt masked
  halfmask,     \* ... the half-transfer interrupt masked
  tran_size,    \* per channel: transfer units that remain
  size,         \* per channel: size_in_words given to configure
  sts,          \* status registers: register -> channels whose bit is set
  chabort,      \* channels whose abort the hardware has yet to perform
  waker,        \* STATE[ch].waker: the task registered, or NoTask
  woken,        \* tasks in the executor's run queue
  pc,           \* per channel: where the driver code that owns it is
  use,          \* per channel: on whose behalf is_running is evaluated
  owner,        \* per channel: the task that created the transfer
  reg,          \* per channel: the register clear_irqs works on
  snap,         \* per channel: value read by the modify of clear_irqs
  asked,        \* channels whose user called request_abort
  isr,          \* where the interrupt handler is
  seen,         \* the status registers as the handler read them
  todo,         \* channels the handler has yet to wake
  panicked      \* the handler met a bus error and panicked

ctrl       == <<enable, loop, tcmask, halfmask>>
hwVars     == <<ctrl, tran_size, size, sts, chabort>>
taskVars   == <<waker, woken>>
driverVars == <<pc, use, owner, reg, snap, asked>>
isrVars    == <<isr, seen, todo>>
vars == <<hwVars, taskVars, driverVars, isrVars, panicked>>

Registers == {"half", "tc", "abort", "err"}

\* dma_on_irq clears these; an err bit makes it panic instead.
Cleared == {"half", "tc", "abort"}

\* Labels of the driver code.  "free": no Transfer exists for the channel.
Probing == {"readEnable", "readAbort", "readTc", "readLoop"}
Setup   == {"clearRead", "clearWrite", "configure", "start"}
AtRest  == {"free", "created", "pending", "ready"}
Labels  == AtRest \cup Setup \cup Probing \cup {"register", "requestAbort"}

\* Mutant of IrqEnabled: v2 forgets to enable HDMA's interrupt as well.
IrqEnabled_V1Only == Version = "v1"

\* init() enables the HDMA interrupt in both versions, XDMA's only in v1.
IrqEnabled == Controller = "HDMA" \/ Version = "v1"

TypeOK ==
  /\ enable \subseteq Channels
  /\ loop \subseteq Channels
  /\ tcmask \subseteq Channels
  /\ halfmask \subseteq Channels
  /\ tran_size \in [Channels -> 0 .. MaxLen]
  /\ size \in [Channels -> 1 .. MaxLen]
  /\ sts \in [Registers -> SUBSET Channels]
  /\ chabort \subseteq Channels
  /\ waker \in [Channels -> Tasks \cup {NoTask}]
  /\ woken \subseteq Tasks
  /\ pc \in [Channels -> Labels]
  /\ use \in [Channels -> {"poll", "blocking", "drop"}]
  /\ owner \in [Channels -> Tasks]
  /\ reg \in [Channels -> Registers]
  /\ snap \in [Channels -> SUBSET Channels]
  /\ asked \subseteq Channels
  /\ isr \in {"idle", "clear", "wake"}
  /\ seen \in [Cleared -> SUBSET Channels]
  /\ todo \subseteq Channels
  /\ panicked \in BOOLEAN

NoStatus == [r \in Registers |-> {}]
NoSnapshot == [r \in Cleared |-> {}]

\* State after hpm_hal::init: dmactrl.reset has cleared the controller.
Init ==
  /\ enable = {} /\ loop = {} /\ tcmask = {} /\ halfmask = {}
  /\ tran_size = [c \in Channels |-> 0]
  /\ size = [c \in Channels |-> 1]
  /\ sts = NoStatus
  /\ chabort = {}
  /\ waker = [c \in Channels |-> NoTask]
  /\ woken = {}
  /\ pc = [c \in Channels |-> "free"]
  /\ use = [c \in Channels |-> "poll"]
  /\ owner \in [Channels -> Tasks]
  /\ reg = [c \in Channels |-> "half"]
  /\ snap = [c \in Channels |-> {}]
  /\ asked = {}
  /\ isr = "idle" /\ seen = NoSnapshot /\ todo = {}
  /\ panicked = FALSE

(***************************************************************************)
(* Driver code.                                                             *)
(***************************************************************************)
Goto(c, label) == pc' = [pc EXCEPT ![c] = label]

\* The task is between two statements that touch its transfers.
Resting(t) == \A c \in Channels : owner[c] = t => pc[c] \in AtRest

\* Transfer::new_inner up to clear_irqs: the assertion on the length (a caller
\* that breaks it panics and makes no transfer), and the size register of a
\* channel that nobody else owns.
NewTransfer(c, t, n) ==
  /\ pc[c] = "free"
  /\ Resting(t)
  /\ n > 0
  /\ owner' = [owner EXCEPT ![c] = t]
  /\ size' = [size EXCEPT ![c] = n]
  /\ tran_size' = [tran_size EXCEPT ![c] = n]
  /\ Goto(c, IF Version = "v2" THEN "clearRead" ELSE "clearWrite")
  /\ UNCHANGED <<ctrl, sts, chabort, taskVars, use, reg, snap, asked, isrVars, panicked>>

\* v2 clear_irqs goes through its four registers in this order.
NextRegister == [half |-> "tc", tc |-> "abort", abort |-> "err", err |-> "half"]

\* v2 clear_irqs, the read of `modify`: the whole register, every channel's bit.
ClearRead(c) ==
  /\ pc[c] = "clearRead"
  /\ snap' = [snap EXCEPT ![c] = sts[reg[c]]]
  /\ Goto(c, "clearWrite")
  /\ UNCHANGED <<hwVars, taskVars, use, owner, reg, asked, isrVars, panicked>>

\* Mutants of WrittenBack: every channel's bit; no bit at all.
WrittenBack_All(c) == Channels
WrittenBack_None(c) == {}

\* Writing ones clears them: the bits clear_irqs writes back to register r.
\* v2 writes back what `modify` read, with c's own bit set; v1 one `write`.
WrittenBack(c) == IF Version = "v2" THEN snap[c] \cup {c} ELSE {c}

ClearWrite(c) ==
  /\ pc[c] = "clearWrite"
  /\ IF Version = "v2"
       THEN /\ sts' = [sts EXCEPT ![reg[c]] = @ \ WrittenBack(c)]
            /\ reg' = [reg EXCEPT ![c] = NextRegister[@]]
            /\ Goto(c, IF reg[c] = "err" THEN "configure" ELSE "clearRead")
       ELSE /\ sts' = [r \in Registers |-> sts[r] \ WrittenBack(c)]
            /\ Goto(c, "configure")
            /\ UNCHANGED reg
  /\ snap' = [snap EXCEPT ![c] = {}]
  /\ UNCHANGED <<ctrl, tran_size, size, chabort, taskVars, use, owner, asked, isrVars, panicked>>

\* Bit c of S is on or off.
Switch(S, c, on) == IF on THEN S \cup {c} ELSE S \ {c}

\* The write of the control register.  The caller's TransferOptions o are read
\* nowhere else.  v1 has no infinite loop and no half-transfer interrupt.
Configure(c, o) ==
  /\ pc[c] = "configure"
  /\ enable' = enable \ {c}
  /\ loop' = Switch(loop, c, o.circular /\ Version = "v2")
  /\ tcmask' = Switch(tcmask, c, ~o.complete_transfer_irq)
  /\ halfmask' = Switch(halfmask, c, ~(o.half_transfer_irq /\ Version = "v2"))
  /\ Goto(c, "start")
  /\ UNCHANGED <<tran_size, size, sts, chabort, taskVars, use, owner, reg, snap, asked, isrVars, panicked>>

Start(c) ==
  /\ pc[c] = "start"
  /\ enable' = enable \cup {c}
  /\ Goto(c, "created")
  /\ UNCHANGED <<loop, tcmask, halfmask, tran_size, size, sts, chabort, taskVars, use, owner, reg, snap, asked, isrVars, panicked>>

\* The owner awaits the new transfer: its first poll.
Await(c) ==
  /\ pc[c] = "created"
  /\ Resting(owner[c])
  /\ Goto(c, "register")
  /\ UNCHANGED <<hwVars, taskVars, use, owner, reg, snap, asked, isrVars, panicked>>

\* The executor takes t from its run queue and polls it; the poll reaches every
\* transfer t waits for (select and join poll all their branches).
PollTask(t) ==
  /\ t \in woken
  /\ Resting(t)
  /\ woken' = woken \ {t}
  /\ pc' = [c \in Channels |->
              IF owner[c] = t /\ pc[c] = "pending" THEN "register" ELSE pc[c]]
  /\ UNCHANGED <<hwVars, waker, use, owner, reg, snap, asked, isrVars, panicked>>

\* Future::poll stores the waker before it looks at the channel.
RegisterWaker(c) ==
  /\ pc[c] = "register"
  /\ waker' = [waker EXCEPT ![c] = owner[c]]
  /\ Goto(c, "readEnable")
  /\ UNCHANGED <<hwVars, woken, use, owner, reg, snap, asked, isrVars, panicked>>

\* blocking_wait: spins on is_running, then forgets the transfer.
BlockingWait(c) ==
  /\ pc[c] = "created"
  /\ Resting(owner[c])
  /\ Goto(c, "readEnable")
  /\ use' = [use EXCEPT ![c] = "blocking"]
  /\ UNCHANGED <<hwVars, taskVars, owner, reg, snap, asked, isrVars, panicked>>

\* The write of ch_abort.  A running channel aborts later, on its own; for one
\* that is not enabled the hardware may or may not raise the abort status.
AbortWrite(c) ==
  \/ /\ c \in enable
     /\ chabort' = chabort \cup {c}
     /\ UNCHANGED sts
  \/ /\ c \notin enable
     /\ sts' \in {sts, [sts EXCEPT !["abort"] = @ \cup {c}]}
     /\ UNCHANGED chabort

\* Transfer::request_abort, called by the user.
RequestAbort(c) ==
  /\ pc[c] \in {"created", "pending"}
  /\ Resting(owner[c])
  /\ asked' = asked \cup {c}
  /\ AbortWrite(c)
  /\ UNCHANGED <<ctrl, tran_size, size, taskVars, pc, use, owner, reg, snap, isrVars, panicked>>

\* Drop for Transfer: the future resolved and is dropped by its await, or it is
\* cancelled before (select, timeout), or it was never awaited.
Drop(c) ==
  /\ pc[c] \in {"created", "pending", "ready"}
  /\ Resting(owner[c])
  /\ Goto(c, "requestAbort")
  /\ use' = [use EXCEPT ![c] = "drop"]
  /\ UNCHANGED <<hwVars, taskVars, owner, reg, snap, asked, isrVars, panicked>>

\* Mutant of DropAbort: the abort is not requested.
DropAbort_NoRequest(c) ==
  /\ pc[c] = "requestAbort"
  /\ Goto(c, "readEnable")
  /\ UNCHANGED <<hwVars, taskVars, use, owner, reg, snap, asked, isrVars, panicked>>

DropAbort(c) ==
  /\ pc[c] = "requestAbort"
  /\ AbortWrite(c)
  /\ Goto(c, "readEnable")
  /\ UNCHANGED <<ctrl, tran_size, size, taskVars, use, owner, reg, snap, asked, isrVars, panicked>>

\* is_running returned true: a poll is Pending, the spinning callers go round.
Running(c) ==
  /\ Goto(c, IF use[c] = "poll" THEN "pending" ELSE "readEnable")
  /\ UNCHANGED <<use, asked>>

\* is_running returned false: a poll is Ready; the other callers give the
\* buffer and the channel back, and the transfer is no more.
Stopped(c) ==
  IF use[c] = "poll"
    THEN Goto(c, "ready") /\ UNCHANGED <<use, asked>>
    ELSE /\ Goto(c, "free")
         /\ use' = [use EXCEPT ![c] = "poll"]
         /\ asked' = asked \ {c}

ReadNext(c, label) == Goto(c, label) /\ UNCHANGED <<use, asked>>

\* is_running reads up to four registers, one at a time and in this order.
ReadEnable(c) ==
  /\ pc[c] = "readEnable"
  /\ IF c \in enable THEN ReadNext(c, "readAbort") ELSE Stopped(c)

ReadAbort(c) ==
  /\ pc[c] = "readAbort"
  /\ IF c \in sts["abort"] THEN Stopped(c) ELSE ReadNext(c, "readTc")

\* Mutant of ReadTc: the test of the status bit is inverted.
ReadTc_Inverted(c) ==
  /\ pc[c] = "readTc"
  /\ IF c \in sts["tc"] THEN Running(c)
     ELSE IF Version = "v2" THEN ReadNext(c, "readLoop")
     ELSE Stopped(c)

\* Only v2 goes on to read infiniteloop.
ReadTc(c) ==
  /\ pc[c] = "readTc"
  /\ IF c \notin sts["tc"] THEN Running(c)
     ELSE IF Version = "v2" THEN ReadNext(c, "readLoop")
     ELSE Stopped(c)

ReadLoop(c) ==
  /\ pc[c] = "readLoop"
  /\ IF c \in loop THEN Running(c) ELSE Stopped(c)

IsRunning(c) ==
  /\ ReadEnable(c) \/ ReadAbort(c) \/ ReadTc(c) \/ ReadLoop(c)
  /\ UNCHANGED <<hwVars, taskVars, owner, reg, snap, isrVars, panicked>>

(***************************************************************************)
(* Interrupt handler dma_on_irq.                                            *)
(***************************************************************************)

\* The controller's interrupt line.  intabtmask is always set.
IrqPending ==
  \E c \in Channels : \/ c \in sts["tc"] /\ c \notin tcmask
                      \/ c \in sts["half"] /\ c \notin halfmask
                      \/ c \in sts["err"]

\* The four status reads; a bus error panics the firmware.
IsrEnter ==
  /\ isr = "idle"
  /\ IrqEnabled
  /\ IrqPending
  /\ IF sts["err"] # {}
       THEN panicked' = TRUE /\ UNCHANGED <<isr, seen>>
       ELSE /\ isr' = "clear"
            /\ seen' = [r \in Cleared |-> sts[r]]
            /\ UNCHANGED panicked
  /\ UNCHANGED <<hwVars, taskVars, driverVars, todo>>

\* Writes back exactly what was read, before any task is woken.
IsrClear ==
  /\ isr = "clear"
  /\ sts' = [r \in Registers |-> IF r \in Cleared THEN sts[r] \ seen[r] ELSE sts[r]]
  /\ isr' = "wake"
  /\ todo' = seen["half"] \cup seen["tc"] \cup seen["abort"]
  /\ seen' = NoSnapshot
  /\ UNCHANGED <<ctrl, tran_size, size, chabort, taskVars, driverVars, panicked>>

\* AtomicWaker::wake: the waker stays registered.
IsrWake(c) ==
  /\ isr = "wake"
  /\ c \in todo
  /\ woken' = IF waker[c] = NoTask THEN woken ELSE woken \cup {waker[c]}
  /\ todo' = todo \ {c}
  /\ UNCHANGED <<hwVars, waker, driverVars, isr, seen, panicked>>

\* `complete`: the PLIC may deliver the interrupt again.
IsrExit ==
  /\ isr = "wake"
  /\ todo = {}
  /\ isr' = "idle"
  /\ UNCHANGED <<hwVars, taskVars, driverVars, seen, todo, panicked>>

(***************************************************************************)
(* Hardware (external).                                                     *)
(***************************************************************************)

\* One unit is moved, not the last one; half-way the half status is raised.
Beat(c) ==
  /\ c \in enable
  /\ tran_size[c] > 1
  /\ tran_size' = [tran_size EXCEPT ![c] = @ - 1]
  /\ sts' = IF Version = "v2" /\ tran_size[c] - 1 = size[c] \div 2
              THEN [sts EXCEPT !["half"] = @ \cup {c}] ELSE sts
  /\ UNCHANGED <<ctrl, size, chabort, taskVars, driverVars, isrVars, panicked>>

\* The last unit: terminal count.  A looping channel reloads, another stops.
LastBeat(c) ==
  /\ c \in enable
  /\ tran_size[c] = 1
  /\ sts' = [sts EXCEPT !["tc"] = @ \cup {c}]
  /\ IF c \in loop
       THEN /\ tran_size' = [tran_size EXCEPT ![c] = size[c]]
            /\ UNCHANGED <<enable, chabort>>
       ELSE /\ tran_size' = [tran_size EXCEPT ![c] = 0]
            /\ enable' = enable \ {c}
            /\ chabort' = chabort \ {c}
  /\ UNCHANGED <<loop, tcmask, halfmask, size, taskVars, driverVars, isrVars, panicked>>

\* The channel stops before the last unit: on request, or on a bus error.
HwStop(c, r) ==
  /\ c \in enable
  /\ enable' = enable \ {c}
  /\ chabort' = chabort \ {c}
  /\ sts' = [sts EXCEPT ![r] = @ \cup {c}]
  /\ UNCHANGED <<loop, tcmask, halfmask, tran_size, size, taskVars, driverVars, isrVars, panicked>>

HwAbort(c) == c \in chabort /\ HwStop(c, "abort")
BusError(c) == HwStop(c, "err")

\* Another source (a timer, a second branch of a select) wakes t.
WakeElsewhere(t) ==
  /\ t \notin woken
  /\ woken' = woken \cup {t}
  /\ UNCHANGED <<hwVars, waker, driverVars, isrVars, panicked>>

(***************************************************************************)
(* Specification.                                                           *)
(***************************************************************************)
\* What the driver code of channel c does without a decision of its user.
Driver(c) ==
  \/ ClearRead(c)
  \/ ClearWrite(c)
  \/ \E o \in Options : Configure(c, o)
  \/ Start(c)
  \/ RegisterWaker(c)
  \/ DropAbort(c)
  \/ IsRunning(c)

User(c) ==
  \/ \E t \in Tasks, n \in 0 .. MaxLen : NewTransfer(c, t, n)
  \/ Await(c)
  \/ BlockingWait(c)
  \/ RequestAbort(c)
  \/ Drop(c)

Isr == IsrEnter \/ IsrClear \/ (\E c \in Channels : IsrWake(c)) \/ IsrExit

Transfers(c) == Beat(c) \/ LastBeat(c)

Hardware(c) == Transfers(c) \/ HwAbort(c) \/ BusError(c)

Executor(t) == PollTask(t) \/ WakeElsewhere(t)

\* The panic handler loops with interrupts off.
Halted == panicked /\ UNCHANGED vars

Next ==
  \/ /\ ~panicked
     /\ \/ \E c \in Channels : Driver(c) \/ User(c) \/ Hardware(c)
        \/ \E t \in Tasks : Executor(t)
        \/ Isr
  \/ Halted

Spec == Init /\ [][Next]_vars

\* The code's progress: driver code and the handler execute, the peripheral keeps
\* requesting data, an abort takes effect.  The executor polls a woken task when
\* it comes back to rest (strong: the task may do other work in between).
Fairness ==
  /\ \A c \in Channels : /\ WF_vars(~panicked /\ Driver(c))
                         /\ WF_vars(~panicked /\ Transfers(c))
                         /\ WF_vars(~panicked /\ HwAbort(c))
  /\ \A t \in Tasks : SF_vars(~panicked /\ PollTask(t))
  /\ WF_vars(~panicked /\ Isr)

FairSpec == Spec /\ Fairness

(***************************************************************************)
(* Properties.                                                              *)
(***************************************************************************)

\* Memory safety of Transfer: while nobody owns the channel, and the caller has
\* its buffer back, the hardware does not touch it.  is_running decides this
\* from registers read one at a time that the hardware, the handler and other
\* channels' clear_irqs change in between.
BufferReturnedOnlyWhenStopped ==
  \A c \in Channels : pc[c] \in {"free"} \cup Setup \cup {"ready"} => c \notin enable

\* A future that resolved without being aborted has moved all its data, unless
\* a bus error is about to panic the firmware.
ReadyMeansComplete ==
  \A c \in Channels :
    pc[c] = "ready" /\ c \notin asked =>
      tran_size[c] = 0 \/ c \in sts["err"] \/ panicked

\* dma_on_irq will still wake channel c.
WakeDue(c) ==
  \/ IrqEnabled /\ c \in sts["tc"] /\ c \notin tcmask
  \/ isr = "wake" /\ c \in todo
  \/ owner[c] \in woken

\* No lost wakeup: a future that returned Pending and whose transfer has since
\* run to its end is going to be polled again.
NoLostWakeup ==
  \A c \in Channels :
    pc[c] = "pending" /\ tran_size[c] = 0 /\ c \notin tcmask => WakeDue(c)

\* A step of clear_irqs for channel c leaves every other channel's pending
\* status alone ("clear transfer irq status", dma/v2.rs).
ClearsOwnStatusOnly ==
  [][\A c \in Channels :
       ClearWrite(c) => \A r \in Registers : sts[r] \ sts'[r] \subseteq {c}]_vars

\* An awaited transfer with its completion interrupt on resolves.
AwaitedTransferResolves ==
  \A c \in Channels :
    (pc[c] = "pending" /\ c \notin loop /\ c \notin tcmask)
      ~> (pc[c] \notin {"pending", "register"} \cup Probing \/ c \in asked \/ panicked)

\* Dropping a transfer, running or not, circular or not, gives the channel back.
DropTerminates ==
  \A c \in Channels : (pc[c] = "requestAbort") ~> (pc[c] = "free" \/ panicked)

\* The phase of the transfer that channel c carries.
Phase(c) ==
  IF pc[c] = "free" THEN "free"
  ELSE IF pc[c] \in Setup THEN "lent"
  ELSE IF c \in enable THEN "moving"
  ELSE IF tran_size[c] = 0 THEN "complete"
  ELSE "cut"

PhaseMap == [c \in Channels |-> Phase(c)]

Promise == INSTANCE TransferPromise WITH phase <- PhaseMap

\* Registers, handler and polls together implement the promise of Transfer: the
\* buffer comes back only from a transfer that completed or was cut short.
KeepsPromise == Promise!Spec
============================================================================
