----------------------------- MODULE I2cMaster -----------------------------
(***************************************************************************)
(* The I2C master of hpm-hal (src/i2c/mod.rs): the blocking calls with      *)
(* their timeouts, the asynchronous calls on top of a DMA transfer, the     *)
(* frames of a transaction and the interrupt handler, on a bus that has     *)
(* other masters and slaves that may not answer.                            *)
(*                                                                          *)
(* An operation is a direction and a number of bytes.  A byte in the FIFO   *)
(* is "new" if the call under way has put it there or asked for it, "old"   *)
(* if it was there when the call began, and "late" if the transaction of an *)
(* earlier call brings it afterwards.  The driver is used by one call at a  *)
(* time (&mut).                                                             *)
(***************************************************************************)
EXTENDS Naturals, Sequences

CONSTANTS
  Blocking,     \* operations passed to blocking_transaction, _read and _write
  WriteReads,   \* ... to blocking_write_read
  Async,        \* ... to the async transaction, read, write and write_read
  MaxCount,     \* I2C_SOC_TRANSFER_COUNT_MAX
  FifoDepth     \* bytes the FIFO holds

Operation == [dir : {"read", "write"}, size : Nat]
Calls == Blocking \cup WriteReads \cup Async

ASSUME ConstantsAssumption ==
  /\ MaxCount \in Nat \ {0} /\ FifoDepth \in Nat \ {0}
  /\ Calls # {} /\ \A o \in Calls : o \in Seq(Operation) /\ Len(o) > 0
  /\ \A o \in WriteReads :
       /\ Len(o) = 2 /\ o[1].dir = "write" /\ o[2].dir = "read"
       /\ \A n \in 1 .. 2 : o[n].size \in 1 .. MaxCount

VARIABLES
  \* the bus and the controller
  bus,          \* free, or held by us or another master: busbusy
  wire,         \* the direction the slave has been addressed for, or "none"
  hw,           \* what the controller does next
  ctrl,         \* the phases of the transaction, as CTRL has them
  count,        \* CTRL.datacnt: bytes of it not yet on the bus
  txn,          \* whose transaction that is, "new" or "old"
  fifo,         \* bytes in the FIFO
  flags,        \* bits of the status register
  int_en,       \* interrupts enabled
  dmaen,        \* DMA requests enabled
  \* the driver
  pc,           \* where the call is
  kind,         \* which call
  quiet,        \* it began with no transaction of an earlier call under way
  ops,          \* its operations
  k,            \* the operation under way
  left,         \* bytes of it the driver, or the DMA, has yet to move
  int_read,     \* int_en as a modify read it
  waker,        \* whose waker State holds, seen from the current call
  woken,        \* the task is scheduled
  result        \* what the last call returned

busVars == <<bus, wire>>
ctlVars == <<hw, ctrl, count, txn>>
irqVars == <<int_en, int_read, waker, woken>>
opVars == <<kind, quiet, ops, k>>
vars == <<busVars, ctlVars, fifo, flags, dmaen, irqVars, opVars, left, pc, result>>

Flags == {"cmpl", "addrhit", "arblose", "stop"}
Sources == {"cmpl", "arblose", "stop"}

BlockingLabels == {"busy", "clear", "command", "addrhit", "move", "done"}
AsyncLabels == {"check", "stopRead", "stopWrite", "stopPoll", "stopFail", "stopWait",
                "setup",
                "armRead", "armWrite", "request", "transfer", "poll", "opWait"}

TypeOK ==
  /\ bus \in {"free", "ours", "other"}
  /\ wire \in {"none", "read", "write"} /\ (wire # "none" <=> bus = "ours")
  /\ hw \in {"idle", "start", "data", "stop", "cmpl"}
  /\ ctrl \in [start : BOOLEAN, stop : BOOLEAN, dir : {"read", "write"}]
  /\ count \in 0 .. MaxCount
  /\ txn \in {"new", "old"}
  /\ fifo \in Seq({"new", "old", "late"}) /\ Len(fifo) <= FifoDepth
  /\ flags \subseteq Flags
  /\ int_en \subseteq Sources /\ int_read \subseteq Sources
  /\ dmaen \in BOOLEAN
  /\ pc \in {"idle"} \cup BlockingLabels \cup AsyncLabels
  /\ kind \in {"blocking", "write_read", "async"}
  /\ quiet \in BOOLEAN
  /\ ops \in Calls /\ k \in 1 .. Len(ops)
  /\ left \in 0 .. MaxCount
  /\ waker \in {"none", "mine", "other"}
  /\ woken \in BOOLEAN
  /\ result \in {"none", "ok", "error"}

NoPhases == [start |-> FALSE, stop |-> FALSE, dir |-> "write"]

Init ==
  /\ bus = "free" /\ wire = "none"
  /\ hw = "idle" /\ ctrl = NoPhases /\ count = 0 /\ txn = "old"
  /\ fifo = <<>> /\ flags = {}
  /\ int_en = {} /\ int_read = {} /\ dmaen = FALSE
  /\ pc = "idle" /\ kind = "blocking" /\ quiet = TRUE
  /\ ops = (CHOOSE o \in Calls : TRUE) /\ k = 1 /\ left = 0
  /\ waker = "none" /\ woken = FALSE /\ result = "none"

(***************************************************************************)
(* Frames: operation_frames.                                                *)
(***************************************************************************)
\* Mutant of First: every operation starts a frame of its own.
First_Always(n) == TRUE

\* An operation that does not follow one of the same direction starts with a
\* (repeated) START and the address ...
First(n) == n = 1 \/ ops[n].dir # ops[n - 1].dir

\* Mutant of Last: a STOP before each change of direction only.
Last_Turn(n) == n < Len(ops) /\ First(n + 1)

\* ... and the last one ends with a STOP.
Last(n) == n = Len(ops)

Frame(n) == [start |-> First(n), stop |-> Last(n), dir |-> ops[n].dir]
Size(n) == ops[n].size

\* The first statement of an operation checks its length.
Fits(n) == Size(n) <= MaxCount

(***************************************************************************)
(* Calls and their ends.                                                    *)
(***************************************************************************)
Call(kd, o) ==
  /\ pc = "idle"
  /\ kind' = kd /\ ops' = o /\ k' = 1
  /\ quiet' = (hw = "idle" /\ bus # "ours")
  /\ pc' = IF kd = "async" THEN "check" ELSE "busy"
  /\ waker' \in IF waker = "none" THEN {"none"} ELSE {"mine", "other"}
  /\ woken' = FALSE /\ result' = "none"
  /\ fifo' = [n \in 1 .. Len(fifo) |-> "old"]
  /\ UNCHANGED <<busVars, ctlVars, flags, int_en, int_read, dmaen, left>>

\* The controller goes on with the transaction the call has started.
Return(r) ==
  /\ pc' = "idle" /\ result' = r
  /\ txn' = "old"
  /\ waker' = IF waker = "none" THEN "none" ELSE "other"
  /\ k' = 1 /\ left' = 0 /\ woken' = FALSE
  /\ UNCHANGED <<kind, quiet, ops>>

\* The operation is done: the next one, or the end of the call.
NextOperation(label) ==
  \/ /\ k < Len(ops)
     /\ k' = k + 1 /\ pc' = label /\ left' = 0
     /\ UNCHANGED <<kind, quiet, ops, txn, waker, woken, result>>
  \/ k = Len(ops) /\ Return("ok")

(***************************************************************************)
(* Blocking calls.                                                          *)
(***************************************************************************)
TooLong ==
  /\ pc \in {"busy", "setup"} /\ ~ Fits(k)
  /\ Return("error")
  /\ UNCHANGED <<busVars, hw, ctrl, count, fifo, flags, int_en, int_read, dmaen>>

BusFree ==
  /\ pc = "busy" /\ Fits(k)
  /\ bus = "free"
  /\ pc' = "clear"
  /\ UNCHANGED <<busVars, ctlVars, fifo, flags, dmaen, irqVars, opVars, left, result>>

\* Mutant of Clear: CLEAR_FIFO is missing.
Clear_KeepsFifo ==
  /\ pc = "clear"
  /\ flags' = flags \ {"cmpl"}
  /\ pc' = "command"
  /\ UNCHANGED <<busVars, ctlVars, fifo, dmaen, irqVars, opVars, left, result>>

Clear ==
  /\ pc = "clear"
  /\ flags' = flags \ {"cmpl"} /\ fifo' = <<>>
  /\ pc' = "command"
  /\ UNCHANGED <<busVars, ctlVars, dmaen, irqVars, opVars, left, result>>

\* The phases are set and the transaction is started.  blocking_write_read fills
\* the FIFO first, whatever it holds; bytes too many are lost.
Command ==
  /\ pc = "command"
  /\ ctrl' = Frame(k) /\ count' = Size(k) /\ txn' = "new" /\ hw' = "start"
  /\ \/ /\ kind = "blocking"
        /\ left' = Size(k) /\ pc' = "addrhit" /\ UNCHANGED fifo
     \/ /\ kind = "write_read" /\ k = 1
        /\ fifo' = [n \in 1 .. (IF Size(k) < FifoDepth THEN Size(k) ELSE FifoDepth) |-> "new"]
        /\ left' = 0 /\ pc' = "addrhit"
     \/ /\ kind = "write_read" /\ k = 2
        /\ left' = Size(k) /\ pc' = "move" /\ UNCHANGED fifo
  /\ UNCHANGED <<busVars, flags, dmaen, irqVars, opVars, result>>

\* A slave has answered.  An operation without data is over: it is a probe.
AddressHit ==
  /\ pc = "addrhit" /\ "addrhit" \in flags
  /\ flags' = flags \ {"addrhit"}
  /\ \/ kind = "blocking" /\ Size(k) = 0 /\ NextOperation("busy")
     \/ /\ Size(k) > 0
        /\ pc' = IF kind = "blocking" THEN "move" ELSE "done"
        /\ UNCHANGED <<txn, waker, woken, opVars, left, result>>
  /\ UNCHANGED <<busVars, hw, ctrl, count, fifo, int_en, int_read, dmaen>>

\* A byte between the buffer and the FIFO.
MoveByte ==
  /\ pc = "move" /\ left > 0
  /\ \/ ops[k].dir = "read" /\ fifo # <<>> /\ fifo' = Tail(fifo)
     \/ ops[k].dir = "write" /\ Len(fifo) < FifoDepth /\ fifo' = Append(fifo, "new")
  /\ left' = left - 1
  /\ pc' = IF left = 1 THEN "done" ELSE "move"
  /\ UNCHANGED <<busVars, ctlVars, flags, dmaen, irqVars, opVars, result>>

\* Complete.  blocking_write_read does not look at what is left of the count.
Complete ==
  /\ pc = "done" /\ "cmpl" \in flags
  /\ \/ kind = "blocking" /\ count > 0 /\ Return("error")
     \/ kind = "blocking" /\ count = 0 /\ NextOperation("busy")
     \/ kind = "write_read" /\ NextOperation("clear")
  /\ UNCHANGED <<busVars, hw, ctrl, count, fifo, flags, int_en, int_read, dmaen>>

\* What the call looks for before it checks its deadline is not there.
Blocked ==
  \/ pc = "busy" /\ bus # "free"
  \/ pc = "addrhit" /\ "addrhit" \notin flags
  \/ pc = "move" /\ IF ops[k].dir = "read" THEN fifo = <<>> ELSE Len(fifo) = FifoDepth
  \/ pc = "done" /\ "cmpl" \notin flags

\* Mutant of Expires: the last loop has a new deadline in every turn, too.
Expires_NotLast == (pc = "busy" => kind = "blocking") /\ pc # "done"

\* The deadline of the call can pass.  While blocking_write_read waits for the
\* bus it makes a new deadline for every check.
Expires == pc = "busy" => kind = "blocking"

\* The call gives up.  Only blocking_write_read releases the bus: it starts a
\* transaction that consists of a STOP.
TimedOut ==
  /\ Blocked /\ Expires /\ Fits(k)
  /\ \/ /\ kind = "write_read" /\ pc = "addrhit"
        /\ flags' = flags \ {"cmpl"}
        /\ ctrl' = [NoPhases EXCEPT !.stop = TRUE] /\ count' = 0 /\ hw' = "start"
     \/ /\ ~ (kind = "write_read" /\ pc = "addrhit")
        /\ UNCHANGED <<flags, ctrl, count, hw>>
  /\ Return("error")
  /\ UNCHANGED <<busVars, fifo, int_en, int_read, dmaen>>

(***************************************************************************)
(* Asynchronous calls.                                                      *)
(***************************************************************************)
\* A call waits for a STOP if the bus is busy.
CheckBus ==
  /\ pc = "check"
  /\ pc' = IF bus = "free" THEN "setup" ELSE "stopRead"
  /\ UNCHANGED <<busVars, ctlVars, fifo, flags, dmaen, irqVars, opVars, left, result>>

\* A modify of int_en reads it, and then writes it with bits added: what the
\* handler clears in between comes back.
ReadEnables ==
  /\ pc \in {"stopRead", "armRead"}
  /\ int_read' = int_en
  /\ pc' = IF pc = "stopRead" THEN "stopWrite" ELSE "armWrite"
  /\ UNCHANGED <<busVars, ctlVars, fifo, flags, dmaen, int_en, waker, woken, opVars, left,
                 result>>

WriteEnables ==
  /\ \/ pc = "stopWrite" /\ int_en' = int_read \cup {"stop"} /\ pc' = "stopPoll"
     \/ pc = "armWrite" /\ int_en' = int_read \cup {"cmpl", "arblose"} /\ pc' = "request"
  /\ int_read' = {}
  /\ UNCHANGED <<busVars, ctlVars, fifo, flags, dmaen, waker, woken, opVars, left, result>>

\* wait_for_stop: registers, then takes a STOP, whenever it was, or an error.
PollStop ==
  /\ pc = "stopPoll"
  /\ waker' = "mine"
  /\ \/ /\ "stop" \in flags
        /\ flags' = flags \ {"stop"} /\ pc' = "setup"
     \/ "stop" \notin flags /\ "arblose" \in flags /\ pc' = "stopFail" /\ UNCHANGED flags
     \/ "stop" \notin flags /\ "arblose" \notin flags /\ pc' = "stopWait" /\ UNCHANGED flags
  /\ UNCHANGED <<busVars, ctlVars, fifo, dmaen, int_en, int_read, woken, opVars, left,
                 result>>

\* The call ends without an operation: an error, the deadline, or a drop.
AbandonWait ==
  /\ pc \in {"stopFail", "stopWait"}
  /\ Return("error")
  /\ UNCHANGED <<busVars, hw, ctrl, count, fifo, flags, int_en, int_read, dmaen>>

\* An operation: its phases, with CMPL cleared and the FIFO left as it is.
Setup ==
  /\ pc = "setup" /\ Fits(k)
  /\ flags' = flags \ {"cmpl"}
  /\ ctrl' = Frame(k) /\ count' = Size(k)
  /\ pc' = "armRead"
  /\ UNCHANGED <<busVars, hw, txn, fifo, dmaen, irqVars, opVars, left, result>>

\* The DMA transfer starts, and the transaction with it.
Request ==
  /\ pc = "request"
  /\ left' = Size(k) /\ dmaen' = TRUE
  /\ hw' = "start" /\ txn' = "new"
  /\ pc' = "transfer"
  /\ UNCHANGED <<busVars, ctrl, count, fifo, flags, irqVars, opVars, result>>

DmaBeat ==
  /\ pc = "transfer" /\ dmaen /\ left > 0
  /\ \/ ops[k].dir = "read" /\ fifo # <<>> /\ fifo' = Tail(fifo)
     \/ ops[k].dir = "write" /\ Len(fifo) < FifoDepth /\ fifo' = Append(fifo, "new")
  /\ left' = left - 1
  /\ UNCHANGED <<busVars, ctlVars, flags, dmaen, irqVars, opVars, pc, result>>

\* The transfer is awaited first, and the status looked at only then.
Transferred ==
  /\ pc = "transfer" /\ left = 0
  /\ pc' = "poll"
  /\ UNCHANGED <<busVars, ctlVars, fifo, flags, dmaen, irqVars, opVars, left, result>>

\* on_drop, at every end of an operation: what status says is cleared (a bit
\* that is raised between the read and the write stays, as if raised after).
OnDrop == flags' = {} /\ dmaen' = FALSE

PollStatus ==
  /\ pc = "poll"
  /\ \/ /\ "cmpl" \in flags
        /\ OnDrop /\ NextOperation("setup")
     \/ /\ "cmpl" \notin flags /\ "arblose" \in flags
        /\ OnDrop /\ Return("error")
     \/ /\ "cmpl" \notin flags /\ "arblose" \notin flags
        /\ pc' = "opWait" /\ waker' = "mine"
        /\ UNCHANGED <<txn, flags, dmaen, woken, opVars, left, result>>
  /\ UNCHANGED <<busVars, hw, ctrl, count, fifo, int_en, int_read>>

PollAgain ==
  /\ pc \in {"stopWait", "opWait"} /\ woken
  /\ woken' = FALSE
  /\ pc' = IF pc = "stopWait" THEN "stopPoll" ELSE "poll"
  /\ UNCHANGED <<busVars, ctlVars, fifo, flags, dmaen, int_en, int_read, waker, opVars,
                 left, result>>

\* The future is dropped: its transfer stops, then on_drop runs.  The controller
\* goes on.
CancelOperation ==
  /\ pc \in {"transfer", "opWait"}
  /\ OnDrop /\ Return("error")
  /\ UNCHANGED <<busVars, hw, ctrl, count, fifo, int_en, int_read>>

OnInterrupt ==
  /\ flags \cap int_en # {}
  /\ int_en' = int_en \ {"cmpl", "arblose", "stop"}
  /\ woken' = (woken \/ waker = "mine")
  /\ UNCHANGED <<busVars, ctlVars, fifo, flags, dmaen, int_read, waker, opVars, left, pc,
                 result>>

(***************************************************************************)
(* The controller and the bus.                                              *)
(***************************************************************************)
Drivers == <<dmaen, irqVars, opVars, left, pc, result>>

\* Once its bytes are moved, or refused, the transaction ends.
Ending == IF ctrl.stop THEN "stop" ELSE "cmpl"

\* (Repeated) START and address: acknowledged, not acknowledged, or lost to a
\* master that starts at the same time.
Address ==
  /\ hw = "start" /\ ctrl.start /\ bus # "other"
  /\ \/ /\ bus' = "ours" /\ wire' = ctrl.dir
        /\ flags' = flags \cup {"addrhit"} /\ hw' = "data"
     \/ /\ bus' = "ours" /\ wire' = ctrl.dir
        /\ hw' = Ending /\ UNCHANGED flags
     \/ /\ bus' = "other" /\ wire' = "none"
        /\ flags' = flags \cup {"arblose"} /\ hw' = "idle"
  /\ UNCHANGED <<ctrl, count, txn, fifo, Drivers>>

\* A transaction without START goes on with the slave that was addressed.
Continue ==
  /\ hw = "start" /\ ~ ctrl.start
  /\ hw' = IF bus = "ours" THEN "data" ELSE "idle"
  /\ UNCHANGED <<busVars, ctrl, count, txn, fifo, flags, Drivers>>

Mark == IF txn = "new" THEN "new" ELSE "late"

WireByte ==
  /\ hw = "data" /\ count > 0
  /\ \/ ctrl.dir = "write" /\ fifo # <<>> /\ fifo' = Tail(fifo)
     \/ ctrl.dir = "read" /\ Len(fifo) < FifoDepth /\ fifo' = Append(fifo, Mark)
  /\ count' = count - 1
  /\ UNCHANGED <<busVars, hw, ctrl, txn, flags, Drivers>>

RefusedByte ==
  /\ hw = "data" /\ count > 0 /\ ctrl.dir = "write" /\ fifo # <<>>
  /\ fifo' = Tail(fifo) /\ hw' = Ending
  /\ UNCHANGED <<busVars, ctrl, count, txn, flags, Drivers>>

LastByte ==
  /\ hw = "data" /\ count = 0
  /\ hw' = Ending
  /\ UNCHANGED <<busVars, ctrl, count, txn, fifo, flags, Drivers>>

Stop ==
  /\ hw = "stop"
  /\ bus' = "free" /\ wire' = "none"
  /\ flags' = flags \cup {"stop"} /\ hw' = "cmpl"
  /\ UNCHANGED <<ctrl, count, txn, fifo, Drivers>>

RaiseCmpl ==
  /\ hw = "cmpl"
  /\ flags' = flags \cup {"cmpl"} /\ hw' = "idle"
  /\ UNCHANGED <<busVars, ctrl, count, txn, fifo, Drivers>>

OtherMaster ==
  /\ \/ bus = "free" /\ bus' = "other" /\ UNCHANGED flags
     \/ bus = "other" /\ bus' = "free" /\ flags' = flags \cup {"stop"}
  /\ UNCHANGED <<wire, ctlVars, fifo, Drivers>>

BlockingStep == \/ BusFree \/ Clear \/ Command \/ AddressHit \/ MoveByte \/ Complete
                \/ TimedOut \/ TooLong

AsyncStep == \/ CheckBus \/ ReadEnables \/ WriteEnables \/ PollStop \/ AbandonWait
             \/ Setup \/ Request \/ Transferred \/ PollStatus \/ PollAgain
             \/ CancelOperation

Controller == \/ Address \/ Continue \/ WireByte \/ RefusedByte \/ LastByte
              \/ Stop \/ RaiseCmpl

Next == \/ \E o \in Blocking : Call("blocking", o)
        \/ \E o \in WriteReads : Call("write_read", o)
        \/ \E o \in Async : Call("async", o)
        \/ BlockingStep \/ AsyncStep
        \/ DmaBeat \/ OnInterrupt
        \/ Controller \/ OtherMaster

Safety == Init /\ [][Next]_vars

\* A blocking call runs on; time passes with it.  Nothing is asked of the bus.
Spec == Safety /\ WF_vars(BlockingStep)

(***************************************************************************)
(* Properties.                                                              *)
(***************************************************************************)

\* A blocking call moves no byte that an earlier call, given up or cancelled, has
\* left in the FIFO, and if that call's transaction is over, only its own.
FreshBytes ==
  pc \in {"addrhit", "move", "done"} =>
    \A n \in 1 .. Len(fifo) : fifo[n] # "old" /\ (quiet => fifo[n] = "new")

\* A call that returns Ok has released the bus, or the STOP that does is part of
\* the transaction under way.
BusReleased ==
  pc = "idle" /\ result = "ok" /\ bus = "ours" => ctrl.stop /\ hw \in {"start", "data", "stop"}

\* The contract of embedded_hal: within a transaction a START on the held bus
\* changes the direction, bytes move in the direction the slave was addressed
\* for, and a STOP comes only after the bytes of the last operation.
FramingContract ==
  [][quiet /\ txn = "new" =>
       /\ k > 1 /\ bus = "ours" /\ hw = "start" /\ hw' = "data" /\ ctrl.start => wire' # wire
       /\ hw = "data" /\ count' < count => wire = ctrl.dir
       /\ k < Len(ops) => hw # "stop"]_vars

\* Every blocking call ends, whatever slaves and other masters do, but for the
\* first wait of blocking_write_read, which has no deadline.
BlockingEnds ==
  pc \in BlockingLabels /\ (pc = "busy" => kind = "blocking") ~> pc = "idle"
============================================================================
