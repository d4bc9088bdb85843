----------------------------- MODULE I2cProofs -----------------------------
(***************************************************************************)
(* Theorems about I2cMaster, for any operations, FIFO and transfer length.  *)
(***************************************************************************)
EXTENDS I2cMaster, TLAPS

\* Past its length check an operation fits into a transfer.
Checked ==
  /\ pc \in {"clear", "command", "addrhit", "move", "done", "armRead", "armWrite", "request",
             "transfer", "poll", "opWait"} => Size(k) <= MaxCount
  /\ kind = "write_read" => ops \in WriteReads

TypeInv == TypeOK /\ Checked

\* An operation of the call has a direction and a size.
LEMMA OperationType ==
  ASSUME TypeInv, NEW n \in 1 .. Len(ops)
  PROVE  ops[n] \in Operation /\ Size(n) \in Nat /\ ops[n].dir \in {"read", "write"}
<1>1. ops \in Calls
  BY DEF TypeInv, TypeOK
<1>2. ops \in Seq(Operation)
  BY <1>1, ConstantsAssumption
<1>3. ops[n] \in Operation
  BY <1>2
<1> QED
  BY <1>3 DEF Operation, Size

\* The phases of an operation fit the fields of CTRL.
LEMMA FrameType ==
  ASSUME TypeInv
  PROVE  /\ Size(k) \in Nat
         /\ Frame(k) \in [start : BOOLEAN, stop : BOOLEAN, dir : {"read", "write"}]
<1>1. k \in 1 .. Len(ops)
  BY DEF TypeInv, TypeOK
<1>2. Size(k) \in Nat /\ ops[k].dir \in {"read", "write"}
  BY <1>1, OperationType
<1>3. First(k) \in BOOLEAN /\ Last(k) \in BOOLEAN
  BY DEF First, Last
<1> QED
  BY <1>2, <1>3 DEF Frame

\* Type correctness in parts.
FifoType == fifo \in Seq({"new", "old", "late"}) /\ Len(fifo) <= FifoDepth

CallType == ops \in Calls /\ k \in 1 .. Len(ops)

BusType ==
  /\ bus \in {"free", "ours", "other"}
  /\ wire \in {"none", "read", "write"} /\ (wire # "none" <=> bus = "ours")
  /\ hw \in {"idle", "start", "data", "stop", "cmpl"}
  /\ ctrl \in [start : BOOLEAN, stop : BOOLEAN, dir : {"read", "write"}]
  /\ count \in 0 .. MaxCount
  /\ left \in 0 .. MaxCount

FlagType == flags \subseteq Flags /\ int_en \subseteq Sources /\ int_read \subseteq Sources

LabelType ==
  /\ txn \in {"new", "old"}
  /\ pc \in {"idle"} \cup BlockingLabels \cup AsyncLabels
  /\ kind \in {"blocking", "write_read", "async"}
  /\ waker \in {"none", "mine", "other"}
  /\ result \in {"none", "ok", "error"}

BoolType == dmaen \in BOOLEAN /\ quiet \in BOOLEAN /\ woken \in BOOLEAN

\* The parts are the whole.
LEMMA TypeParts == TypeOK <=> FifoType /\ CallType /\ BoolType /\ BusType /\ FlagType /\ LabelType
  BY DEF TypeOK, FifoType, CallType, BoolType, BusType, FlagType, LabelType

\* The types hold of a new driver.
LEMMA TypeInit == Init => TypeInv
<1> SUFFICES ASSUME Init PROVE TypeInv
  OBVIOUS
<1>1. ops \in Calls
  BY ConstantsAssumption DEF Init
<1>2. CallType
  BY <1>1, ConstantsAssumption DEF Init, CallType
<1>3. FifoType
  BY ConstantsAssumption DEF Init, FifoType
<1>4. BusType /\ FlagType /\ LabelType
  BY ConstantsAssumption DEF Init, BusType, FlagType, LabelType, NoPhases
<1>5. Checked
  BY DEF Init, Checked
<1>6. BoolType
  BY DEF Init, BoolType
<1> QED
  BY <1>2, <1>3, <1>4, <1>5, <1>6, TypeParts DEF TypeInv

\* No step overfills the FIFO.
LEMMA FifoStep == TypeInv /\ [Next]_vars => FifoType'
<1> SUFFICES ASSUME TypeInv, [Next]_vars PROVE FifoType'
  OBVIOUS
<1>a. FifoType /\ FifoDepth \in Nat \ {0}
  BY TypeParts, ConstantsAssumption DEF TypeInv
<1>1. CASE UNCHANGED fifo
  BY <1>1, <1>a DEF FifoType
<1>2. CASE \E kd \in {"blocking", "write_read", "async"}, o \in Calls : Call(kd, o)
  BY <1>2, <1>a DEF Call, FifoType
<1>3. CASE fifo # <<>> /\ fifo' = Tail(fifo)
  BY <1>3, <1>a DEF FifoType
<1>4. CASE \E x \in {"new", "late"} : Len(fifo) < FifoDepth /\ fifo' = Append(fifo, x)
  BY <1>4, <1>a DEF FifoType
<1>5. CASE fifo' = <<>>
  BY <1>5, <1>a DEF FifoType
<1>6. CASE Command
  <2>1. Size(k) \in Nat
    BY FrameType
  <2> DEFINE bytes == IF Size(k) < FifoDepth THEN Size(k) ELSE FifoDepth
  <2>2. bytes \in Nat /\ bytes <= FifoDepth
    BY <2>1, <1>a
  <2>3. CASE fifo' = [n \in 1 .. bytes |-> "new"]
    <3> HIDE DEF bytes
    <3> QED
      BY <2>2, <2>3 DEF FifoType
  <2> QED
    BY <1>6, <1>1, <2>3 DEF Command
<1>7. CASE \/ BlockingStep /\ ~ Command
           \/ DmaBeat \/ Controller
  BY <1>7, <1>1, <1>3, <1>4, <1>5
  DEF BlockingStep, BusFree, Clear, AddressHit, MoveByte, Complete, TimedOut, TooLong, DmaBeat,
      Controller, Address, Continue, WireByte, RefusedByte, LastByte, Stop, RaiseCmpl, Mark
<1>8. CASE AsyncStep
  BY <1>8, <1>1
  DEF AsyncStep, CheckBus, ReadEnables, WriteEnables, PollStop, AbandonWait, Setup, Request,
      Transferred, PollStatus, PollAgain, CancelOperation
<1>9. CASE OnInterrupt \/ OtherMaster \/ UNCHANGED vars
  BY <1>9, <1>1 DEF OnInterrupt, OtherMaster, vars
<1> QED
  BY <1>2, <1>6, <1>7, <1>8, <1>9 DEF Next, Calls

\* The operation under way is one of the call's.
LEMMA CallStep == TypeInv /\ [Next]_vars => CallType'
<1> SUFFICES ASSUME TypeInv, [Next]_vars PROVE CallType'
  OBVIOUS
<1>a. CallType /\ \A o \in Calls : Len(o) \in Nat /\ Len(o) > 0
  BY TypeParts, ConstantsAssumption DEF TypeInv
<1>1. CASE UNCHANGED <<ops, k>>
  BY <1>1, <1>a DEF CallType
<1>2. CASE UNCHANGED ops /\ k' = 1
  BY <1>2, <1>a DEF CallType
<1>3. CASE UNCHANGED ops /\ k < Len(ops) /\ k' = k + 1
  BY <1>3, <1>a DEF CallType
<1>4. CASE \E kd \in {"blocking", "write_read", "async"}, o \in Calls : Call(kd, o)
  BY <1>4, <1>a DEF Call, CallType
<1> HIDE <1>a
<1>5. CASE BlockingStep
  BY <1>5, <1>1, <1>2, <1>3
  DEF BlockingStep, BusFree, Clear, Command, AddressHit, MoveByte, Complete, TimedOut, TooLong,
      NextOperation, Return, opVars
<1>6. CASE AsyncStep
  BY <1>6, <1>1, <1>2, <1>3
  DEF AsyncStep, CheckBus, ReadEnables, WriteEnables, PollStop, AbandonWait, Setup, Request,
      Transferred, PollStatus, PollAgain, CancelOperation, NextOperation, Return, opVars
<1>7. CASE Controller \/ OtherMaster \/ DmaBeat \/ OnInterrupt
  BY <1>7, <1>1
  DEF Controller, Address, Continue, WireByte, RefusedByte, LastByte, Stop, RaiseCmpl,
      OtherMaster, DmaBeat, OnInterrupt, Drivers, opVars
<1>8. CASE UNCHANGED vars
  BY <1>8, <1>1 DEF vars, opVars
<1> QED
  BY <1>4, <1>5, <1>6, <1>7, <1>8 DEF Next, Calls

\* The flags of the driver stay flags.
LEMMA BoolStep == TypeInv /\ [Next]_vars => BoolType'
<1> SUFFICES ASSUME TypeInv, [Next]_vars PROVE BoolType'
  OBVIOUS
<1>a. BoolType
  BY TypeParts DEF TypeInv
<1> USE <1>a DEF BoolType, irqVars, opVars, Drivers
<1>1. ASSUME NEW kd \in {"blocking", "write_read", "async"}, NEW o \in Calls, Call(kd, o)
      PROVE  BoolType'
  BY <1>1 DEF Call
<1>2. CASE BlockingStep
  BY <1>2
  DEF BlockingStep, BusFree, Clear, Command, AddressHit, MoveByte, Complete, TimedOut, TooLong,
      NextOperation, Return
<1>3. CASE CheckBus \/ ReadEnables \/ WriteEnables \/ PollStop \/ AbandonWait \/ Setup
  BY <1>3 DEF CheckBus, ReadEnables, WriteEnables, PollStop, AbandonWait, Setup, Return
<1>4. CASE Request \/ Transferred \/ PollStatus \/ PollAgain \/ CancelOperation
  BY <1>4 DEF Request, Transferred, PollStatus, PollAgain, CancelOperation, OnDrop,
              NextOperation, Return
<1>5. CASE Controller \/ OtherMaster
  BY <1>5
  DEF Controller, Address, Continue, WireByte, RefusedByte, LastByte, Stop, RaiseCmpl,
      OtherMaster
<1>6. CASE DmaBeat \/ OnInterrupt
  BY <1>6 DEF DmaBeat, OnInterrupt
<1>7. CASE UNCHANGED vars
  BY <1>7 DEF vars
<1> QED
  BY <1>1, <1>2, <1>3, <1>4, <1>5, <1>6, <1>7 DEF Next, AsyncStep, Calls

\* The counts stay what the counter holds.
LEMMA BusStep == TypeInv /\ [Next]_vars => BusType'
<1> SUFFICES ASSUME TypeInv, [Next]_vars PROVE BusType'
  OBVIOUS
<1>a. BusType /\ MaxCount \in Nat \ {0}
  BY TypeParts, ConstantsAssumption DEF TypeInv
<1>b. /\ Size(k) \in Nat /\ Checked
      /\ Frame(k) \in [start : BOOLEAN, stop : BOOLEAN, dir : {"read", "write"}]
  BY FrameType DEF TypeInv
<1> USE <1>a DEF BusType, busVars, ctlVars, irqVars, opVars, Drivers
<1>1. ASSUME NEW kd \in {"blocking", "write_read", "async"}, NEW o \in Calls, Call(kd, o)
      PROVE  BusType'
  BY <1>1 DEF Call
<1>2. CASE TooLong
  BY <1>2 DEF TooLong, Return
<1>3. CASE BusFree \/ Clear
  BY <1>3 DEF BusFree, Clear
<1>4. CASE Command
  BY <1>4, <1>b DEF Command, Checked
<1>5. CASE AddressHit
  BY <1>5 DEF AddressHit, NextOperation, Return
<1>6. CASE MoveByte
  BY <1>6 DEF MoveByte
<1>7. CASE Complete
  BY <1>7 DEF Complete, NextOperation, Return
<1>8. CASE TimedOut
  <2>1. NoPhases \in [start : BOOLEAN, stop : BOOLEAN, dir : {"read", "write"}]
    BY DEF NoPhases
  <2>2. [NoPhases EXCEPT !.stop = TRUE]
          \in [start : BOOLEAN, stop : BOOLEAN, dir : {"read", "write"}]
    BY <2>1
  <2>3. UNCHANGED <<bus, wire>> /\ left' = 0
    BY <1>8 DEF TimedOut, Return
  <2>4. \/ UNCHANGED <<ctrl, count, hw>>
        \/ /\ ctrl' \in [start : BOOLEAN, stop : BOOLEAN, dir : {"read", "write"}]
           /\ count' = 0 /\ hw' = "start"
    BY <1>8, <2>2 DEF TimedOut
  <2> QED
    BY <2>3, <2>4
<1>9. CASE CheckBus \/ ReadEnables
  BY <1>9 DEF CheckBus, ReadEnables
<1>10. CASE WriteEnables
  BY <1>10 DEF WriteEnables
<1>11. CASE PollStop
  BY <1>11 DEF PollStop
<1>12. CASE AbandonWait
  BY <1>12 DEF AbandonWait, Return
<1>13. CASE Setup
  BY <1>13, <1>b DEF Setup, Fits
<1>14. CASE Request
  BY <1>14, <1>b DEF Request, Checked
<1>15. CASE Transferred
  BY <1>15 DEF Transferred
<1>16. CASE DmaBeat
  BY <1>16 DEF DmaBeat
<1>17. CASE PollStatus
  BY <1>17 DEF PollStatus, OnDrop, NextOperation, Return
<1>18. CASE PollAgain \/ OnInterrupt
  BY <1>18 DEF PollAgain, OnInterrupt
<1>19. CASE CancelOperation
  BY <1>19 DEF CancelOperation, OnDrop, Return
<1>20. CASE Address
  BY <1>20 DEF Address, Ending
<1>21. CASE Continue
  BY <1>21 DEF Continue
<1>22. CASE WireByte
  BY <1>22 DEF WireByte
<1>23. CASE RefusedByte
  BY <1>23 DEF RefusedByte, Ending
<1>24. CASE LastByte
  BY <1>24 DEF LastByte, Ending
<1>25. CASE Stop
  BY <1>25 DEF Stop
<1>26. CASE RaiseCmpl
  BY <1>26 DEF RaiseCmpl
<1>27. CASE OtherMaster
  BY <1>27 DEF OtherMaster
<1>28. CASE UNCHANGED vars
  BY <1>28 DEF vars
<1> HIDE DEF BusType
<1> QED
  BY <1>1, <1>2, <1>3, <1>4, <1>5, <1>6, <1>7, <1>8, <1>9, <1>10, <1>11, <1>12,
     <1>13, <1>14, <1>15, <1>16, <1>17, <1>18, <1>19, <1>20, <1>21, <1>22,
     <1>23, <1>24, <1>25, <1>26, <1>27, <1>28
  DEF Next, BlockingStep, AsyncStep, Controller, Calls

\* Only known status bits are set and enabled.
LEMMA FlagStep == TypeInv /\ [Next]_vars => FlagType'
<1> SUFFICES ASSUME TypeInv, [Next]_vars PROVE FlagType'
  OBVIOUS
<1>a. FlagType
  BY TypeParts DEF TypeInv
<1> USE <1>a DEF FlagType, Flags, Sources, busVars, ctlVars, irqVars, opVars, Drivers
<1>1. ASSUME NEW kd \in {"blocking", "write_read", "async"}, NEW o \in Calls, Call(kd, o)
      PROVE  FlagType'
  BY <1>1 DEF Call
<1>2. CASE TooLong
  BY <1>2 DEF TooLong, Return
<1>3. CASE BusFree \/ Clear
  BY <1>3 DEF BusFree, Clear
<1>4. CASE Command
  BY <1>4 DEF Command
<1>5. CASE AddressHit
  BY <1>5 DEF AddressHit, NextOperation, Return
<1>6. CASE MoveByte \/ DmaBeat
  BY <1>6 DEF MoveByte, DmaBeat
<1>7. CASE Complete
  BY <1>7 DEF Complete, NextOperation, Return
<1>8. CASE TimedOut
  BY <1>8 DEF TimedOut, Return, NoPhases
<1>9. CASE CheckBus \/ ReadEnables
  BY <1>9 DEF CheckBus, ReadEnables
<1>10. CASE WriteEnables
  BY <1>10 DEF WriteEnables
<1>11. CASE PollStop
  BY <1>11 DEF PollStop
<1>12. CASE AbandonWait
  BY <1>12 DEF AbandonWait, Return
<1>13. CASE Setup
  BY <1>13 DEF Setup
<1>14. CASE Request \/ Transferred
  BY <1>14 DEF Request, Transferred
<1>15. CASE PollStatus
  BY <1>15 DEF PollStatus, OnDrop, NextOperation, Return
<1>16. CASE PollAgain \/ OnInterrupt
  BY <1>16 DEF PollAgain, OnInterrupt
<1>17. CASE CancelOperation
  BY <1>17 DEF CancelOperation, OnDrop, Return
<1>18. CASE Address
  BY <1>18 DEF Address, Ending
<1>19. CASE Continue \/ LastByte
  BY <1>19 DEF Continue, LastByte, Ending
<1>20. CASE WireByte \/ RefusedByte
  BY <1>20 DEF WireByte, RefusedByte, Ending
<1>21. CASE Stop \/ RaiseCmpl
  BY <1>21 DEF Stop, RaiseCmpl
<1>22. CASE OtherMaster
  BY <1>22 DEF OtherMaster
<1>23. CASE UNCHANGED vars
  BY <1>23 DEF vars
<1> HIDE DEF FlagType
<1> QED
  BY <1>1, <1>2, <1>3, <1>4, <1>5, <1>6, <1>7, <1>8, <1>9, <1>10, <1>11, <1>12,
     <1>13, <1>14, <1>15, <1>16, <1>17, <1>18, <1>19, <1>20, <1>21, <1>22, <1>23
  DEF Next, BlockingStep, AsyncStep, Controller, Calls

\* A call is always at one of its labels.
LEMMA LabelStep == TypeInv /\ [Next]_vars => LabelType'
<1> SUFFICES ASSUME TypeInv, [Next]_vars PROVE LabelType'
  OBVIOUS
<1>a. LabelType
  BY TypeParts DEF TypeInv
<1> USE <1>a DEF LabelType, BlockingLabels, AsyncLabels, busVars, ctlVars, irqVars, opVars, Drivers
<1>1. ASSUME NEW kd \in {"blocking", "write_read", "async"}, NEW o \in Calls, Call(kd, o)
      PROVE  LabelType'
  BY <1>1 DEF Call
<1>2. CASE TooLong
  BY <1>2 DEF TooLong, Return
<1>3. CASE BusFree \/ Clear
  BY <1>3 DEF BusFree, Clear
<1>4. CASE Command
  BY <1>4 DEF Command
<1>5. CASE AddressHit
  BY <1>5 DEF AddressHit, NextOperation, Return
<1>6. CASE MoveByte \/ DmaBeat
  BY <1>6 DEF MoveByte, DmaBeat
<1>7. CASE Complete
  BY <1>7 DEF Complete, NextOperation, Return
<1>8. CASE TimedOut
  BY <1>8 DEF TimedOut, Return, NoPhases
<1>9. CASE CheckBus \/ ReadEnables
  BY <1>9 DEF CheckBus, ReadEnables
<1>10. CASE WriteEnables
  BY <1>10 DEF WriteEnables
<1>11. CASE PollStop
  BY <1>11 DEF PollStop
<1>12. CASE AbandonWait
  BY <1>12 DEF AbandonWait, Return
<1>13. CASE Setup
  BY <1>13 DEF Setup
<1>14. CASE Request \/ Transferred
  BY <1>14 DEF Request, Transferred
<1>15. CASE PollStatus
  BY <1>15 DEF PollStatus, OnDrop, NextOperation, Return
<1>16. CASE PollAgain \/ OnInterrupt
  BY <1>16 DEF PollAgain, OnInterrupt
<1>17. CASE CancelOperation
  BY <1>17 DEF CancelOperation, OnDrop, Return
<1>18. CASE Address
  BY <1>18 DEF Address, Ending
<1>19. CASE Continue \/ LastByte
  BY <1>19 DEF Continue, LastByte, Ending
<1>20. CASE WireByte \/ RefusedByte
  BY <1>20 DEF WireByte, RefusedByte, Ending
<1>21. CASE Stop \/ RaiseCmpl
  BY <1>21 DEF Stop, RaiseCmpl
<1>22. CASE OtherMaster
  BY <1>22 DEF OtherMaster
<1>23. CASE UNCHANGED vars
  BY <1>23 DEF vars
<1> HIDE DEF LabelType
<1> QED
  BY <1>1, <1>2, <1>3, <1>4, <1>5, <1>6, <1>7, <1>8, <1>9, <1>10, <1>11, <1>12,
     <1>13, <1>14, <1>15, <1>16, <1>17, <1>18, <1>19, <1>20, <1>21, <1>22, <1>23
  DEF Next, BlockingStep, AsyncStep, Controller, Calls

\* The length check comes before every operation.
LEMMA CheckedStep == TypeInv /\ [Next]_vars => Checked'
<1> SUFFICES ASSUME TypeInv, [Next]_vars PROVE Checked'
  OBVIOUS
<1>a. \A o \in WriteReads : Len(o) = 2 /\ \A n \in 1 .. 2 : o[n].size <= MaxCount
  BY ConstantsAssumption
<1>b. k \in Nat /\ k >= 1
  BY DEF TypeInv, TypeOK
<1>c. Checked
  BY DEF TypeInv
<1> USE <1>b, <1>c DEF Checked, Size, busVars, ctlVars, irqVars, opVars, Drivers
<1>1. ASSUME NEW kd \in {"blocking", "write_read", "async"}, NEW o \in Calls,
             kd = "write_read" => o \in WriteReads, Call(kd, o)
      PROVE  Checked'
  BY <1>1 DEF Call
<1>2. CASE TooLong \/ TimedOut \/ AbandonWait \/ CancelOperation
  BY <1>2 DEF TooLong, TimedOut, AbandonWait, CancelOperation, OnDrop, Return
<1>3. CASE BusFree
  BY <1>3 DEF BusFree, Fits
<1>4. CASE Clear \/ Command \/ MoveByte
  BY <1>4 DEF Clear, Command, MoveByte
<1>5. CASE AddressHit
  BY <1>5 DEF AddressHit, NextOperation, Return
<1>6. CASE Complete
  <2>1. CASE kind = "write_read" /\ NextOperation("clear")
    <3>1. CASE k < Len(ops)
      <4>1. ops \in WriteReads
        BY <2>1
      <4>2. Len(ops) = 2 /\ \A n \in 1 .. 2 : ops[n].size <= MaxCount
        BY <4>1, <1>a
      <4>3. k + 1 = 2
        BY <4>2, <3>1
      <4>4. Size(k + 1) <= MaxCount
        BY <4>2, <4>3
      <4> QED
        BY <2>1, <3>1, <4>4 DEF NextOperation, Return
    <3> QED
      BY <2>1, <3>1 DEF NextOperation, Return
  <2> QED
    BY <1>6, <2>1 DEF Complete, NextOperation, Return
<1>7. CASE CheckBus \/ ReadEnables \/ WriteEnables \/ PollStop
  BY <1>7 DEF CheckBus, ReadEnables, WriteEnables, PollStop
<1>8. CASE Setup
  BY <1>8 DEF Setup, Fits
<1>9. CASE Request \/ Transferred \/ DmaBeat \/ OnInterrupt
  BY <1>9 DEF Request, Transferred, DmaBeat, OnInterrupt
<1>10. CASE PollStatus \/ PollAgain
  BY <1>10 DEF PollStatus, PollAgain, OnDrop, NextOperation, Return
<1>11. CASE Controller \/ OtherMaster
  BY <1>11 DEF Controller, OtherMaster, Address, Continue, WireByte, RefusedByte, LastByte,
               Stop, RaiseCmpl
<1>12. CASE UNCHANGED vars
  BY <1>12 DEF vars
<1> HIDE DEF Checked
<1>13. CASE \E o \in Blocking : Call("blocking", o)
  BY <1>13, <1>1 DEF Calls
<1>14. CASE \E o \in WriteReads : Call("write_read", o)
  BY <1>14, <1>1 DEF Calls
<1>15. CASE \E o \in Async : Call("async", o)
  BY <1>15, <1>1 DEF Calls
<1> QED
  BY <1>2, <1>3, <1>4, <1>5, <1>6, <1>7, <1>8, <1>9, <1>10, <1>11, <1>12, <1>13, <1>14, <1>15
  DEF Next, BlockingStep, AsyncStep

\* All parts together.
LEMMA TypeStep == TypeInv /\ [Next]_vars => TypeInv'
  BY FifoStep, CallStep, BoolStep, BusStep, FlagStep, LabelStep, CheckedStep
  DEF TypeInv, TypeOK, FifoType, CallType, BoolType, BusType, FlagType, LabelType

\* The registers, the FIFO and the calls keep their types: in particular no
\* count exceeds what the counter of the controller holds.
THEOREM TypeCorrect == Spec => []TypeOK
<1>1. TypeInv => TypeOK
  BY DEF TypeInv
<1> QED
  BY <1>1, TypeInit, TypeStep, PTL DEF Spec, Safety

(***************************************************************************)
(* Fresh bytes.                                                             *)
(***************************************************************************)
\* All bytes in the FIFO are of one of the kinds in T.
Holds(T) == \A n \in 1 .. Len(fifo) : fifo[n] \in T

\* From CLEAR_FIFO on the FIFO holds no byte from before the call.  A call that
\* began with nothing under way has started every transaction the controller
\* runs, so that no byte is late either.
FreshInv ==
  /\ pc \in {"command", "addrhit", "move", "done"} =>
       Holds({"new", "late"}) /\ (quiet => Holds({"new"}))
  /\ quiet /\ pc \in BlockingLabels => hw = "idle" \/ txn = "new"

\* Taking a byte, or adding one of a kind in T, keeps the kinds in T.
LEMMA HoldsStep ==
  ASSUME TypeInv, NEW T, Holds(T), NEW x \in T, x \in {"new", "late"},
         \/ UNCHANGED fifo
         \/ fifo # <<>> /\ fifo' = Tail(fifo)
         \/ fifo' = Append(fifo, x)
  PROVE  Holds(T)'
<1>1. fifo \in Seq({"new", "old", "late"})
  BY DEF TypeInv, TypeOK
<1>2. CASE UNCHANGED fifo
  BY <1>2 DEF Holds
<1>3. CASE fifo # <<>> /\ fifo' = Tail(fifo)
  BY <1>1, <1>3 DEF Holds
<1>4. CASE fifo' = Append(fifo, x)
  <2>1. Len(fifo') = Len(fifo) + 1 /\ Len(fifo) \in Nat
    BY <1>1, <1>4
  <2>2. ASSUME NEW n \in 1 .. Len(fifo') PROVE fifo'[n] \in T
    <3>1. CASE n = Len(fifo) + 1
      BY <1>1, <1>4, <3>1
    <3>2. CASE n # Len(fifo) + 1
      <4>1. n \in 1 .. Len(fifo)
        BY <2>1, <3>2
      <4> QED
        BY <1>1, <1>4, <4>1 DEF Holds
    <3> QED
      BY <3>1, <3>2
  <2> QED
    BY <2>2 DEF Holds
<1> QED
  BY <1>2, <1>3, <1>4

\* Every step keeps the bytes fresh.
LEMMA FreshStep == TypeInv /\ FreshInv /\ [Next]_vars => FreshInv'
<1> SUFFICES ASSUME TypeInv, FreshInv, [Next]_vars PROVE FreshInv'
  OBVIOUS
<1> USE DEF FreshInv, BlockingLabels, busVars, ctlVars, irqVars, opVars, Drivers
<1>a. ASSUME UNCHANGED fifo, NEW T, Holds(T) PROVE Holds(T)'
  BY <1>a DEF Holds
<1>1. CASE Clear
  <2>1. fifo' = <<>> /\ Len(fifo') = 0
    BY <1>1 DEF Clear
  <2>2. Holds({"new", "late"})' /\ Holds({"new"})'
    BY <2>1 DEF Holds
  <2> QED
    BY <1>1, <2>2 DEF Clear
<1>2. CASE Command
  <2>1. CASE UNCHANGED fifo
    BY <1>2, <1>a, <2>1 DEF Command
  <2>2. CASE \E m \in Nat : fifo' = [n \in 1 .. m |-> "new"]
    <3>1. Holds({"new", "late"})' /\ Holds({"new"})'
      BY <2>2 DEF Holds
    <3> QED
      BY <1>2, <3>1 DEF Command
  <2>3. Size(k) \in Nat /\ FifoDepth \in Nat
    BY FrameType, ConstantsAssumption
  <2> QED
    BY <1>2, <2>1, <2>2, <2>3 DEF Command
<1>3. CASE MoveByte
  <2>1. \/ fifo # <<>> /\ fifo' = Tail(fifo)
        \/ fifo' = Append(fifo, "new")
    BY <1>3 DEF MoveByte
  <2>2. ASSUME NEW T, "new" \in T, Holds(T) PROVE Holds(T)'
    BY <2>1, <2>2, HoldsStep
  <2>3. Holds({"new", "late"})'
    BY <1>3, <2>2 DEF MoveByte
  <2>4. quiet => Holds({"new"})'
    BY <1>3, <2>2 DEF MoveByte
  <2> QED
    BY <1>3, <2>3, <2>4 DEF MoveByte
<1>4. CASE WireByte
  <2>1. Mark \in {"new", "late"}
    BY DEF Mark
  <2>2. \/ fifo # <<>> /\ fifo' = Tail(fifo)
        \/ fifo' = Append(fifo, Mark)
    BY <1>4 DEF WireByte
  <2>3. ASSUME NEW T, Mark \in T, Holds(T) PROVE Holds(T)'
    BY <2>1, <2>2, <2>3, HoldsStep
  <2>4. CASE pc \in {"command", "addrhit", "move", "done"}
    <3>1. Holds({"new", "late"})'
      BY <2>1, <2>3, <2>4
    <3>2. ASSUME quiet PROVE Holds({"new"})'
      <4>1. Mark = "new"
        BY <1>4, <2>4, <3>2 DEF WireByte, Mark
      <4> QED
        BY <2>3, <2>4, <3>2, <4>1
    <3> QED
      BY <1>4, <3>1, <3>2 DEF WireByte
  <2>5. CASE pc \notin {"command", "addrhit", "move", "done"}
    BY <1>4, <2>5 DEF WireByte
  <2> QED
    BY <2>4, <2>5
<1>5. CASE RefusedByte
  <2>1. ASSUME NEW T, "new" \in T, Holds(T) PROVE Holds(T)'
    BY <1>5, <2>1, HoldsStep DEF RefusedByte
  <2> QED
    BY <1>5, <2>1 DEF RefusedByte
<1>6. CASE BusFree \/ TooLong
  BY <1>6, <1>a DEF BusFree, TooLong, Return
<1>7. CASE AddressHit
  BY <1>7, <1>a DEF AddressHit, NextOperation, Return
<1>8. CASE Complete
  BY <1>8, <1>a DEF Complete, NextOperation, Return
<1>9. CASE TimedOut
  BY <1>9, <1>a DEF TimedOut, Return
<1>10. CASE Address \/ Continue \/ LastByte
  BY <1>10, <1>a DEF Address, Continue, LastByte
<1>11. CASE Stop \/ RaiseCmpl \/ OtherMaster
  BY <1>11, <1>a DEF Stop, RaiseCmpl, OtherMaster
<1>12. CASE CheckBus \/ ReadEnables \/ WriteEnables \/ PollStop \/ AbandonWait
  BY <1>12
  DEF CheckBus, ReadEnables, WriteEnables, PollStop, AbandonWait, Return
<1>13. CASE Setup \/ Request \/ Transferred \/ PollAgain \/ CancelOperation
  BY <1>13 DEF Setup, Request, Transferred, PollAgain, CancelOperation, Return
<1>14. CASE PollStatus
  BY <1>14 DEF PollStatus, NextOperation, Return
<1>15. CASE DmaBeat
  BY <1>15 DEF DmaBeat
<1>16. CASE OnInterrupt
  BY <1>16, <1>a DEF OnInterrupt
<1>17. CASE UNCHANGED vars
  BY <1>17, <1>a DEF vars
<1>18. ASSUME NEW kd \in {"blocking", "write_read", "async"}, NEW o \in Calls, Call(kd, o)
       PROVE  FreshInv'
  BY <1>18 DEF Call
<1> HIDE DEF FreshInv
<1> QED
  BY <1>1, <1>2, <1>3, <1>4, <1>5, <1>6, <1>7, <1>8, <1>9, <1>10, <1>11, <1>12, <1>13, <1>14,
     <1>15, <1>16, <1>17, <1>18
  DEF Next, BlockingStep, AsyncStep, Controller, Calls

\* Whatever earlier calls have left behind, timed out or cancelled anywhere, a
\* blocking call moves no byte from before its CLEAR_FIFO, and only its own
\* bytes if no transaction was under way.
THEOREM BytesFresh == Spec => []FreshBytes
<1>1. Init => FreshInv
  BY DEF Init, FreshInv
<1>2. FreshInv => FreshBytes
  BY DEF FreshInv, FreshBytes, Holds
<1> QED
  BY <1>1, <1>2, TypeInit, TypeStep, FreshStep, PTL DEF Spec, Safety

(***************************************************************************)
(* The bus is released.                                                     *)
(***************************************************************************)
\* Where an operation is not yet set up, is set up, and has been started.
Before == {"busy", "clear", "command", "check", "stopRead", "stopWrite", "stopPoll", "stopFail",
           "stopWait", "setup"}
Armed == {"armRead", "armWrite", "request"}
Started == {"addrhit", "move", "done", "transfer", "poll", "opWait"}

\* A transaction with a STOP holds the bus no longer than until that STOP, and
\* the phases of the last operation have one.
ReleasedInv ==
  /\ hw \in {"data", "stop"} => bus = "ours"
  /\ pc \notin Armed /\ ctrl.stop /\ hw \in {"cmpl", "idle"} => bus # "ours"
  /\ pc \in Armed \cup Started => (ctrl.stop <=> Last(k))
  /\ pc = "idle" /\ result = "ok" => ctrl.stop

\* Every step keeps it: CTRL changes only where a transaction is started, or
\* will be before the call looks at the bus again.
LEMMA ReleasedStep == TypeInv /\ ReleasedInv /\ [Next]_vars => ReleasedInv'
<1> SUFFICES ASSUME TypeInv, ReleasedInv, [Next]_vars PROVE ReleasedInv'
  OBVIOUS
<1> USE DEF ReleasedInv, Armed, Started, Last, busVars, ctlVars, irqVars, opVars, Drivers
<1>1. ASSUME NEW kd \in {"blocking", "write_read", "async"}, NEW o \in Calls, Call(kd, o)
      PROVE  ReleasedInv'
  BY <1>1 DEF Call
<1>2. CASE TooLong
  BY <1>2 DEF TooLong, Return
<1>3. CASE BusFree \/ Clear
  BY <1>3 DEF BusFree, Clear
<1>4. CASE Command
  BY <1>4 DEF Command, Frame
<1>5. CASE AddressHit
  BY <1>5 DEF AddressHit, NextOperation, Return
<1>6. CASE MoveByte
  BY <1>6 DEF MoveByte
<1>7. CASE Complete
  BY <1>7 DEF Complete, NextOperation, Return
<1>8. CASE TimedOut
  BY <1>8 DEF TimedOut, Blocked, Return
<1>9. CASE CheckBus \/ ReadEnables
  BY <1>9 DEF CheckBus, ReadEnables
<1>10. CASE WriteEnables
  BY <1>10 DEF WriteEnables
<1>11. CASE PollStop
  BY <1>11 DEF PollStop
<1>12. CASE AbandonWait
  BY <1>12 DEF AbandonWait, Return
<1>13. CASE Setup
  BY <1>13 DEF Setup, Frame
<1>14. CASE Request
  BY <1>14 DEF Request
<1>15. CASE Transferred \/ DmaBeat
  BY <1>15 DEF Transferred, DmaBeat
<1>16. CASE PollStatus
  BY <1>16 DEF PollStatus, OnDrop, NextOperation, Return
<1>17. CASE PollAgain \/ OnInterrupt
  BY <1>17 DEF PollAgain, OnInterrupt
<1>18. CASE CancelOperation
  BY <1>18 DEF CancelOperation, OnDrop, Return
<1>19. CASE Address
  BY <1>19 DEF Address, Ending
<1>20. CASE Continue
  BY <1>20 DEF Continue
<1>21. CASE WireByte
  BY <1>21 DEF WireByte
<1>22. CASE RefusedByte
  BY <1>22 DEF RefusedByte, Ending
<1>23. CASE LastByte
  BY <1>23 DEF LastByte, Ending
<1>24. CASE Stop
  BY <1>24 DEF Stop
<1>25. CASE RaiseCmpl
  BY <1>25 DEF RaiseCmpl
<1>26. CASE OtherMaster
  BY <1>26 DEF OtherMaster
<1>27. CASE UNCHANGED vars
  BY <1>27 DEF vars
<1> HIDE DEF ReleasedInv
<1> QED
  BY <1>1, <1>2, <1>3, <1>4, <1>5, <1>6, <1>7, <1>8, <1>9, <1>10, <1>11, <1>12,
     <1>13, <1>14, <1>15, <1>16, <1>17, <1>18, <1>19, <1>20, <1>21, <1>22,
     <1>23, <1>24, <1>25, <1>26, <1>27
  DEF Next, BlockingStep, AsyncStep, Controller, Calls

\* A call that returns Ok has released the bus, or the STOP that does is part of
\* the transaction under way, whatever was cancelled or timed out before it.
THEOREM BusIsReleased == Spec => []BusReleased
<1>1. Init => ReleasedInv
  BY DEF Init, ReleasedInv, NoPhases, Armed, Started
<1>2. TypeInv /\ ReleasedInv => BusReleased
  BY DEF TypeInv, TypeOK, ReleasedInv, BusReleased, Armed
<1> QED
  BY <1>1, <1>2, TypeInit, TypeStep, ReleasedStep, PTL DEF Spec, Safety

(***************************************************************************)
(* The frames.                                                              *)
(***************************************************************************)
\* The operation whose phases CTRL has, and the one the slave is addressed for
\* while we hold the bus.
Phased == IF pc \in Before THEN k - 1 ELSE k
Addressed == IF pc \in Armed \/ hw = "start" THEN Phased - 1 ELSE Phased

\* Only the calls named blocking go on to an operation before the one before it
\* is over; they look whether the bus is free.
Framed ==
  /\ ctrl = Frame(Phased)
  /\ bus = "ours" => Addressed >= 1 /\ wire = ops[Addressed].dir
  /\ hw = "stop" => ctrl.stop
  /\ kind = "blocking" /\ pc \in {"clear", "command"} /\ bus = "ours" => hw # "start"

\* In a call that began with nothing under way every transaction is its own.
FramesInv ==
  /\ pc = "idle" => txn = "old"
  /\ pc # "idle" => (kind = "async" <=> pc \in AsyncLabels)
  /\ pc \in Armed => ctrl = Frame(k)
  /\ quiet /\ pc # "idle" =>
       /\ txn = "new" <=> pc \in Started \/ k > 1
       /\ txn = "old" => hw = "idle" /\ bus # "ours"
       /\ txn = "new" => Framed
       /\ kind # "blocking" /\ pc \in Before \cup Armed => hw = "idle"
       /\ kind # "blocking" /\ pc \in Armed \cup {"command"} => "cmpl" \notin flags
       /\ kind # "blocking" /\ pc \in Started /\ "cmpl" \in flags => hw = "idle"

\* Every step keeps it.
LEMMA FramesStep == TypeInv /\ ReleasedInv /\ FramesInv /\ [Next]_vars => FramesInv'
<1> SUFFICES ASSUME TypeInv, ReleasedInv, FramesInv, [Next]_vars PROVE FramesInv'
  OBVIOUS
<1>a. /\ k \in Nat /\ k >= 1 /\ k <= Len(ops) /\ Len(ops) \in Nat
      /\ txn \in {"new", "old"} /\ kind \in {"blocking", "write_read", "async"}
      /\ bus \in {"free", "ours", "other"} /\ quiet \in BOOLEAN
      /\ hw \in {"idle", "start", "data", "stop", "cmpl"}
  <2>1. ops \in Seq(Operation)
    BY ConstantsAssumption DEF TypeInv, TypeOK
  <2>2. Len(ops) \in Nat
    BY <2>1
  <2> QED
    BY <2>2 DEF TypeInv, TypeOK
<1> USE <1>a DEF FramesInv, Before, Armed, Started, AsyncLabels, Framed, Phased, Addressed,
                 busVars, ctlVars, irqVars, opVars, Drivers
<1>1. ASSUME NEW kd \in {"blocking", "write_read", "async"}, NEW o \in Calls, Call(kd, o)
      PROVE  FramesInv'
  <2>1. /\ k' = 1 /\ kind' = kd /\ txn' = "old" /\ UNCHANGED <<bus, hw>>
        /\ quiet' = (hw = "idle" /\ bus # "ours")
        /\ pc' \in {"check", "busy"} /\ (pc' = "check" <=> kd = "async")
    BY <1>1 DEF Call
  <2>2. pc' \notin Armed \cup Started \cup {"idle", "clear", "command"}
    BY <2>1
  <2>3. kind' = "async" <=> pc' \in AsyncLabels
    BY <2>1
  <2>4. quiet' => hw' = "idle" /\ bus' # "ours"
    BY <2>1
  <2> QED
    BY <2>1, <2>2, <2>3, <2>4
<1>2. CASE TooLong \/ AbandonWait \/ CancelOperation
  BY <1>2 DEF TooLong, AbandonWait, CancelOperation, Return
<1>3. CASE BusFree
  BY <1>3 DEF BusFree, Frame, First, Last
<1>4. CASE Clear
  BY <1>4 DEF Clear, Frame, First, Last
<1>5. CASE Command
  BY <1>5 DEF Command, Frame, First, Last
<1>6. CASE AddressHit
  BY <1>6 DEF AddressHit, NextOperation, Return, Frame, First, Last
<1>7. CASE MoveByte
  BY <1>7 DEF MoveByte, Frame, First, Last
<1>8. CASE Complete
  BY <1>8 DEF Complete, NextOperation, Return, Frame, First, Last
<1>9. CASE TimedOut
  BY <1>9 DEF TimedOut, Return
<1>10. CASE CheckBus \/ ReadEnables
  <2>1. CASE CheckBus
    BY <2>1 DEF CheckBus, Frame, First, Last
  <2>2. CASE ReadEnables
    BY <2>2 DEF ReadEnables, Frame, First, Last
  <2> QED
    BY <1>10, <2>1, <2>2
<1>11. CASE WriteEnables
  BY <1>11 DEF WriteEnables, Frame, First, Last
<1>12. CASE PollStop
  BY <1>12 DEF PollStop, Frame, First, Last
<1>13. CASE Setup
  BY <1>13 DEF Setup, Frame, First, Last
<1>14. CASE Request
  BY <1>14 DEF Request, Frame, First, Last
<1>15. CASE Transferred
  BY <1>15 DEF Transferred, Frame, First, Last
<1>16. CASE DmaBeat
  BY <1>16 DEF DmaBeat, Frame, First, Last
<1>17. CASE PollStatus
  BY <1>17 DEF PollStatus, OnDrop, NextOperation, Return, Frame, First, Last
<1>18. CASE PollAgain
  BY <1>18 DEF PollAgain, Frame, First, Last
<1>19. CASE OnInterrupt
  BY <1>19 DEF OnInterrupt, Frame, First, Last
<1>20. CASE Address
  BY <1>20 DEF Address, Ending, Frame, First, Last
<1>21. CASE Continue
  BY <1>21 DEF Continue, Frame, First, Last
<1>22. CASE WireByte
  BY <1>22 DEF WireByte, Frame, First, Last
<1>23. CASE RefusedByte
  BY <1>23 DEF RefusedByte, Ending, Frame, First, Last
<1>24. CASE LastByte
  BY <1>24 DEF LastByte, Ending, Frame, First, Last
<1>25. CASE Stop
  BY <1>25 DEF Stop, Frame, First, Last
<1>26. CASE RaiseCmpl
  BY <1>26 DEF RaiseCmpl, Frame, First, Last
<1>27. CASE OtherMaster
  BY <1>27 DEF OtherMaster, Frame, First, Last
<1>28. CASE UNCHANGED vars
  BY <1>28 DEF vars, Frame, First, Last
<1> HIDE DEF FramesInv
<1> QED
  BY <1>1, <1>2, <1>3, <1>4, <1>5, <1>6, <1>7, <1>8, <1>9, <1>10, <1>11, <1>12,
     <1>13, <1>14, <1>15, <1>16, <1>17, <1>18, <1>19, <1>20, <1>21, <1>22,
     <1>23, <1>24, <1>25, <1>26, <1>27, <1>28
  DEF Next, BlockingStep, AsyncStep, Controller, Calls

\* What the invariant says of a transaction of a call that began with nothing
\* under way, whatever the step.
LEMMA FrameFacts ==
  ASSUME TypeInv, ReleasedInv, FramesInv, quiet, txn = "new"
  PROVE  /\ hw = "data" => wire = ctrl.dir
         /\ k < Len(ops) => hw # "stop"
         /\ bus = "ours" /\ hw = "start" /\ ctrl.start => wire # ctrl.dir
<1>1. /\ k \in Nat /\ k >= 1 /\ k <= Len(ops) /\ Len(ops) \in Nat
      /\ kind \in {"blocking", "write_read", "async"}
  <2>1. ops \in Seq(Operation)
    BY ConstantsAssumption DEF TypeInv, TypeOK
  <2>2. Len(ops) \in Nat
    BY <2>1
  <2> QED
    BY <2>2 DEF TypeInv, TypeOK
<1>2. Framed /\ pc # "idle"
  BY DEF FramesInv
<1>3. ctrl.dir = ops[Phased].dir /\ (ctrl.start <=> First(Phased)) /\ (ctrl.stop <=> Last(Phased))
  BY <1>2 DEF Framed, Frame
<1>4. pc \in Armed => hw = "idle"
  BY <1>1, <1>2 DEF FramesInv, Armed, AsyncLabels
<1>5. ASSUME hw = "data" PROVE wire = ctrl.dir
  <2>1. Addressed = Phased /\ bus = "ours"
    BY <1>4, <1>5 DEF Addressed, ReleasedInv
  <2> QED
    BY <1>2, <1>3, <2>1 DEF Framed
<1>6. ASSUME k < Len(ops), hw = "stop" PROVE FALSE
  <2>1. Phased = Len(ops)
    BY <1>2, <1>3, <1>6 DEF Framed, Last
  <2> QED
    BY <1>1, <1>6, <2>1 DEF Phased
<1>7. ASSUME bus = "ours", hw = "start", ctrl.start PROVE wire # ctrl.dir
  <2>1. Addressed = Phased - 1 /\ Addressed >= 1 /\ wire = ops[Addressed].dir
    BY <1>2, <1>7 DEF Framed, Addressed
  <2>2. Phased \in Nat
    BY <1>1 DEF Phased
  <2>3. Phased # 1
    BY <2>1, <2>2
  <2> QED
    BY <1>3, <1>7, <2>1, <2>3 DEF First
<1> QED
  BY <1>5, <1>6, <1>7

\* The transactions of embedded_hal are framed as its contract asks: a START on
\* the held bus turns the direction, bytes move in the direction the slave was
\* addressed for, and a STOP comes only after the last operation; so for every
\* list of operations, and however the controller and the bus interleave with
\* the driver.
THEOREM TransactionsAreFramed == Spec => FramingContract
<1>1. Init => FramesInv
  BY DEF Init, FramesInv, Armed
<1>2. Init => ReleasedInv
  BY DEF Init, ReleasedInv, NoPhases, Armed, Started
<1>3. TypeInv /\ ReleasedInv /\ FramesInv /\ [Next]_vars =>
        [quiet /\ txn = "new" =>
           /\ k > 1 /\ bus = "ours" /\ hw = "start" /\ hw' = "data" /\ ctrl.start => wire' # wire
           /\ hw = "data" /\ count' < count => wire = ctrl.dir
           /\ k < Len(ops) => hw # "stop"]_vars
  <2> SUFFICES ASSUME TypeInv, ReleasedInv, FramesInv, [Next]_vars, quiet, txn = "new"
               PROVE  /\ k > 1 /\ bus = "ours" /\ hw = "start" /\ hw' = "data" /\ ctrl.start
                           => wire' # wire
                      /\ hw = "data" /\ count' < count => wire = ctrl.dir
                      /\ k < Len(ops) => hw # "stop"
    OBVIOUS
  <2>1. ASSUME hw = "start", hw' = "data", ctrl.start PROVE wire' = ctrl.dir
    <3>1. CASE \E o \in Blocking : Call("blocking", o)
      BY <2>1, <3>1 DEF Call, ctlVars
    <3>2. CASE \E o \in WriteReads : Call("write_read", o)
      BY <2>1, <3>2 DEF Call, ctlVars
    <3>3. CASE \E o \in Async : Call("async", o)
      BY <2>1, <3>3 DEF Call, ctlVars
    <3>4. CASE BlockingStep
      BY <2>1, <3>4 DEF BlockingStep, BusFree, Clear, Command, AddressHit, MoveByte, Complete,
                        TimedOut, TooLong, ctlVars
    <3>5. CASE AsyncStep
      BY <2>1, <3>5 DEF AsyncStep, CheckBus, ReadEnables, WriteEnables, PollStop, AbandonWait,
                        Setup, Request, Transferred, PollStatus, PollAgain, CancelOperation,
                        ctlVars
    <3>6. CASE DmaBeat \/ OnInterrupt \/ OtherMaster
      BY <2>1, <3>6 DEF DmaBeat, OnInterrupt, OtherMaster, ctlVars
    <3>7. CASE Controller
      BY <2>1, <3>7 DEF Controller, Address, Continue, WireByte, RefusedByte, LastByte, Stop,
                        RaiseCmpl, Ending
    <3>8. CASE UNCHANGED vars
      BY <2>1, <3>8 DEF vars, ctlVars
    <3> QED
      BY <3>1, <3>2, <3>3, <3>4, <3>5, <3>6, <3>7, <3>8 DEF Next
  <2> QED
    BY <2>1, FrameFacts
<1> QED
  BY <1>1, <1>2, <1>3, TypeInit, TypeStep, ReleasedStep, FramesStep, PTL
  DEF Spec, Safety, FramingContract
============================================================================
