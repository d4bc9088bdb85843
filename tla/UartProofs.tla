----------------------------- MODULE UartProofs -----------------------------
(***************************************************************************)
(* Theorems about UartAsync, for buffers and FIFOs of any size, any number  *)
(* of retries and every combination of the chip's features.                 *)
(***************************************************************************)
EXTENDS UartAsync, TLAPS

(***************************************************************************)
(* Types.                                                                   *)
(***************************************************************************)

\* The transmitting half has a DMA transfer while a write awaits it, and bytes
\* to send while it polls.
TxInv ==
  /\ tx_on <=> tpc = "pending"
  /\ tpc = "spin" => tx_left > 0

TypeInv == TypeOK /\ TxInv

\* TypeOK in two parts: the flags, and all other variables.
Flags ==
  /\ line_idle \in BOOLEAN /\ idle_flag \in BOOLEAN /\ thre \in BOOLEAN
  /\ elsi \in BOOLEAN /\ erxidle \in BOOLEAN /\ rx_idle_en \in BOOLEAN /\ dmae \in BOOLEAN
  /\ saved_idle \in BOOLEAN /\ lsr_idle \in BOOLEAN /\ ier_elsi \in BOOLEAN
  /\ ridle \in BOOLEAN /\ rx_on \in BOOLEAN /\ rx_woken \in BOOLEAN
  /\ tx_on \in BOOLEAN /\ tx_woken \in BOOLEAN

Values ==
  /\ err \subseteq Errors /\ saved_err \subseteq Errors /\ lsr_err \subseteq Errors
  /\ fifo \in 0 .. FifoDepth
  /\ rx_waker \in {"none", "mine", "other"}
  /\ rpc \in RxLabels
  /\ rlen \in 1 .. MaxLen
  /\ rx_left \in 0 .. rlen
  /\ result \in Results
  /\ tpc \in TxLabels
  /\ tx_left \in 0 .. MaxLen
  /\ retry \in 0 .. RetryCount + 1

\* FALSE is a truth value: said for the provers.
LEMMA FalseIsFlag == \A b : b = FALSE => b \in BOOLEAN
  BY Zenon

\* The parts are the whole.
LEMMA TypeParts == TypeOK <=> Flags /\ Values
  BY DEF TypeOK, Flags, Values

\* The types hold of a new driver.
LEMMA TypeInit == Init => TypeInv
<1> SUFFICES ASSUME Init PROVE Flags /\ Values /\ TxInv
  BY TypeParts DEF TypeInv
<1>1. result \in Results
  BY ConstantsAssumption DEF Init, Results, NoResult
<1> QED
  BY <1>1, ConstantsAssumption, FalseIsFlag DEF Init, Flags, Values, TxInv, RxLabels, TxLabels

\* What a poll stores as its result is a result.
LEMMA ResultType ==
  /\ NoResult \in Results
  /\ \A n \in 0 .. MaxLen, k \in {"completed", "idle"} : [kind |-> k, count |-> n] \in Results
  /\ \A e \in Errors : [kind |-> "error", error |-> e] \in Results
  BY ConstantsAssumption DEF Results, NoResult

\* Every step keeps the types.
LEMMA TypeStep == TypeInv /\ [Next]_vars => TypeInv'
<1> SUFFICES ASSUME Flags, Values, TxInv, [Next]_vars PROVE Flags' /\ Values' /\ TxInv'
  BY DEF TypeInv, TypeOK, Flags, Values
<1> USE ConstantsAssumption, FalseIsFlag
    DEF Flags, Values, TxInv, RxLabels, TxLabels, hwVars, irqVars, stVars, readVars,
        rxVars, txVars
<1>1. ASSUME NEW n \in 1 .. MaxLen, NEW idle \in BOOLEAN, ReadStart(n, idle)
      PROVE  Flags' /\ Values' /\ TxInv'
  BY <1>1, ResultType DEF ReadStart
<1>2. CASE ReadClear
  BY <1>2 DEF ReadClear
<1>3. CASE ReadArm
  BY <1>3 DEF ReadArm
<1>4. CASE ReadRequest
  BY <1>4 DEF ReadRequest
<1>5. CASE ReadIdleRead
  BY <1>5 DEF ReadIdleRead
<1>6. CASE ReadIdleWrite
  BY <1>6 DEF ReadIdleWrite
<1>7. CASE ReadIdleCfg
  BY <1>7 DEF ReadIdleCfg
<1>8. CASE PollTransfer
  <2> DEFINE complete == [kind |-> "completed", count |-> rlen]
  <2>1. complete \in Results
    BY DEF Results
  <2>2. result' \in {complete, result} /\ rpc' \in {"stop", "load"}
    BY <1>8 DEF PollTransfer, Return
  <2>3. result' \in Results
    <3> HIDE DEF complete
    <3> QED
      BY <2>1, <2>2
  <2> QED
    BY <1>8, <2>2, <2>3 DEF PollTransfer
<1>9. CASE AbortLoad
  BY <1>9 DEF AbortLoad
<1>10. CASE AbortStore
  <2>1. IdleCount \in 0 .. MaxLen
    BY DEF IdleCount, Remaining
  <2> QED
    <3>1. [kind |-> "idle", count |-> IdleCount] \in Results
      BY <2>1 DEF Results
    <3>2. result' \in Results /\ rpc' \in RxLabels
      BY <1>10, <3>1, ResultType DEF AbortStore, Return
    <3> QED
      BY <1>10, <3>2 DEF AbortStore
<1>11. CASE StopTransfer
  BY <1>11 DEF StopTransfer
<1>12. CASE DropGuard
  BY <1>12, ResultType DEF DropGuard, EndOfScope
<1>13. CASE PollRead
  BY <1>13 DEF PollRead
<1>14. CASE CancelRead
  BY <1>14 DEF CancelRead
<1>15. CASE CheckRxFlags
  BY <1>15 DEF CheckRxFlags
<1>16. ASSUME NEW n \in 1 .. MaxLen, WriteStart(n) PROVE Flags' /\ Values' /\ TxInv'
  BY <1>16 DEF WriteStart
<1>17. ASSUME NEW n \in 1 .. MaxLen, BlockingWrite(n) PROVE Flags' /\ Values' /\ TxInv'
  BY <1>17 DEF BlockingWrite
<1>18. CASE PollWrite
  <2>1. CASE tx_left = 0 /\ dmae' = FALSE /\ tx_on' = FALSE /\ tpc' = "none"
    BY <1>18, <2>1 DEF PollWrite
  <2>2. CASE tx_left > 0 /\ UNCHANGED <<dmae, tx_on, tpc>>
    BY <1>18, <2>2 DEF PollWrite
  <2> QED
    BY <1>18, <2>1, <2>2 DEF PollWrite
<1>19. CASE CancelWrite
  BY <1>19 DEF CancelWrite
<1>20. CASE Spin
  BY <1>20 DEF Spin
<1>21. CASE OnInterrupt
  BY <1>21 DEF OnInterrupt, Quiesce, ClearIdle, WakeReader
<1>22. CASE LineByte
  BY <1>22 DEF LineByte, Latch, Errors
<1>23. CASE LineError
  BY <1>23 DEF LineError, Latch, Errors
<1>24. CASE LineIdle
  BY <1>24 DEF LineIdle
<1>25. CASE ReceiveBeat
  BY <1>25 DEF ReceiveBeat
<1>26. CASE TransmitBeat
  BY <1>26 DEF TransmitBeat
<1>27. CASE TransmitterReady
  BY <1>27 DEF TransmitterReady
<1>28. CASE UNCHANGED vars
  BY <1>28 DEF vars
<1> QED
  BY <1>1, <1>2, <1>3, <1>4, <1>5, <1>6, <1>7, <1>8, <1>9, <1>10, <1>11, <1>12, <1>13,
     <1>14, <1>15, <1>16, <1>17, <1>18, <1>19, <1>20, <1>21, <1>22, <1>23, <1>24,
     <1>25, <1>26, <1>27, <1>28
  DEF Next, ReadStep

\* Every variable keeps its type: the FIFO never holds more than its depth, a
\* transfer never has more to move than its buffer, a polled write never
\* retries more than once past its limit.
THEOREM TypeCorrect == Spec => []TypeOK
<1>1. TypeInv => TypeOK
  BY DEF TypeInv
<1> QED
  BY <1>1, TypeInit, TypeStep, PTL DEF Spec, Safety

(***************************************************************************)
(* The receiver between two reads.                                          *)
(***************************************************************************)

\* Only a read enables anything, its transfer is stopped before its guard is
\* dropped, and the guard turns everything off.
NeutralInv ==
  /\ rpc \in {"none", "guard"} => ~ rx_on
  /\ rpc = "none" => ~ elsi /\ ~ erxidle /\ ~ rx_idle_en

\* What the steps of the transmitting half, the line and the DMA controller
\* may change of the receiving half: no control and no enable bit.
LEMMA OtherSteps ==
  ASSUME \/ \E n \in 1 .. MaxLen : WriteStart(n) \/ BlockingWrite(n)
         \/ PollWrite \/ CancelWrite \/ Spin
         \/ LineByte \/ LineError \/ LineIdle
         \/ ReceiveBeat \/ TransmitBeat \/ TransmitterReady
         \/ CheckRxFlags
         \/ UNCHANGED vars
  PROVE  /\ UNCHANGED <<irqVars, stVars, rpc, rx_on, result, readVars>>
         /\ \/ UNCHANGED <<rx_left, rx_woken>>
            \/ rx_left > 0 /\ rx_left' = rx_left - 1 /\ (rx_woken \/ rx_left = 1 => rx_woken')
<1> USE DEF hwVars, irqVars, stVars, rxVars, readVars, txVars
<1>1. CASE \E n \in 1 .. MaxLen : WriteStart(n) \/ BlockingWrite(n)
  BY <1>1 DEF WriteStart, BlockingWrite
<1>2. CASE PollWrite \/ CancelWrite \/ Spin
  BY <1>2 DEF PollWrite, CancelWrite, Spin
<1>3. CASE LineByte \/ LineError \/ LineIdle
  BY <1>3 DEF LineByte, LineError, LineIdle
<1>4. CASE ReceiveBeat \/ TransmitBeat \/ TransmitterReady \/ CheckRxFlags
  BY <1>4 DEF ReceiveBeat, TransmitBeat, TransmitterReady, CheckRxFlags
<1>5. CASE UNCHANGED vars
  BY <1>5 DEF vars
<1> QED
  BY <1>1, <1>2, <1>3, <1>4, <1>5

\* Every way out of a read leaves the receiver neutral.
LEMMA NeutralStep == NeutralInv /\ [Next]_vars => NeutralInv'
<1> SUFFICES ASSUME NeutralInv, [Next]_vars PROVE NeutralInv'
  OBVIOUS
<1> USE DEF NeutralInv, irqVars
<1>1. ASSUME NEW n \in 1 .. MaxLen, NEW idle \in BOOLEAN, ReadStart(n, idle)
      PROVE  NeutralInv'
  BY <1>1 DEF ReadStart
<1>2. CASE ReadClear \/ ReadArm \/ ReadRequest \/ ReadIdleRead \/ ReadIdleWrite \/ ReadIdleCfg
  BY <1>2 DEF ReadClear, ReadArm, ReadRequest, ReadIdleRead, ReadIdleWrite, ReadIdleCfg
<1>3. CASE PollTransfer \/ AbortLoad \/ AbortStore
  BY <1>3 DEF PollTransfer, AbortLoad, AbortStore, Return
<1>4. CASE PollRead \/ CancelRead
  BY <1>4 DEF PollRead, CancelRead
<1>5. CASE StopTransfer \/ DropGuard
  BY <1>5 DEF StopTransfer, DropGuard
<1>6. CASE OnInterrupt
  BY <1>6 DEF OnInterrupt, IrqPending, Quiesce, ClearIdle
<1> QED
  BY <1>1, <1>2, <1>3, <1>4, <1>5, <1>6, OtherSteps DEF Next, ReadStep

\* Between two reads nothing of the receiver can interrupt, no idle detection
\* runs and no transfer writes to a buffer that is gone, however the last read
\* ended and whatever interrupt came between two of its register writes.
THEOREM ReceiverNeutral == Spec => []NeutralBetweenReads
<1>1. Init => NeutralInv
  BY DEF Init, NeutralInv
<1>2. NeutralInv => NeutralBetweenReads
  BY DEF NeutralInv, NeutralBetweenReads
<1> QED
  BY <1>1, <1>2, NeutralStep, PTL DEF Spec, Safety

(***************************************************************************)
(* Wakeups.                                                                 *)
(***************************************************************************)

\* Past the first look at the transfer its end wakes the task; past the
\* registering of the waker the handler does.  What the handler saved before,
\* the store of the abort future has thrown away.
WakeInv ==
  /\ rpc \in {"load", "store", "pending"} /\ rx_left = 0 => rx_woken
  /\ rpc \in {"store", "pending"} => rx_waker = "mine"
  /\ rpc = "pending" /\ saved_err # {} => rx_woken

\* Every step keeps the task of a read woken once there is something to see.
LEMMA WakeStep == TypeOK /\ WakeInv /\ [Next]_vars => WakeInv'
<1> SUFFICES ASSUME TypeOK, WakeInv, [Next]_vars PROVE WakeInv'
  OBVIOUS
<1> USE DEF WakeInv, irqVars, stVars, readVars
<1>a. rlen \in Nat /\ rx_left \in Nat
  BY ConstantsAssumption DEF TypeOK
<1>1. ASSUME NEW n \in 1 .. MaxLen, NEW idle \in BOOLEAN, ReadStart(n, idle)
      PROVE  WakeInv'
  BY <1>1 DEF ReadStart
<1>2. CASE ReadClear \/ ReadArm \/ ReadRequest \/ ReadIdleRead \/ ReadIdleWrite \/ ReadIdleCfg
  BY <1>2 DEF ReadClear, ReadArm, ReadRequest, ReadIdleRead, ReadIdleWrite, ReadIdleCfg
<1>3. CASE PollTransfer
  BY <1>3 DEF PollTransfer, Return
<1>4. CASE AbortLoad \/ AbortStore
  BY <1>4 DEF AbortLoad, AbortStore, Return
<1>5. CASE PollRead \/ CancelRead
  BY <1>5 DEF PollRead, CancelRead
<1>6. CASE StopTransfer \/ DropGuard
  BY <1>6 DEF StopTransfer, DropGuard
<1>7. CASE OnInterrupt
  BY <1>7 DEF OnInterrupt, WakeReader
<1>8. ASSUME UNCHANGED <<irqVars, stVars, rpc, rx_on, result, readVars>>,
             \/ UNCHANGED <<rx_left, rx_woken>>
             \/ rx_left > 0 /\ rx_left' = rx_left - 1 /\ (rx_woken \/ rx_left = 1 => rx_woken')
      PROVE  WakeInv'
  <2>1. rx_left' = 0 => rx_woken' \/ rx_left = 0
    BY <1>a, <1>8
  <2>2. rx_woken => rx_woken'
    BY <1>8
  <2>3. UNCHANGED <<rpc, rx_waker, saved_err>>
    BY <1>8
  <2> QED
    BY <2>1, <2>2, <2>3
<1> QED
  BY <1>1, <1>2, <1>3, <1>4, <1>5, <1>6, <1>7, <1>8, OtherSteps DEF Next, ReadStep

\* A pending read for which the handler has saved an error, or whose transfer
\* is complete, is scheduled, even if another task read before this one.
THEOREM ReadIsWoken == Spec => []NoMissedWakeup
<1>1. Init => WakeInv
  BY DEF Init, WakeInv
<1>2. WakeInv => NoMissedWakeup
  BY DEF WakeInv, NoMissedWakeup
<1>3. TypeInv => TypeOK
  BY DEF TypeInv
<1> QED
  BY <1>1, <1>2, <1>3, TypeInit, TypeStep, WakeStep, PTL DEF Spec, Safety

(***************************************************************************)
(* The count a read returns.                                                *)
(***************************************************************************)

\* A read that ends with its buffer full has nothing left to move and returns
\* its length; one that ends on an idle line asked for that.  What arrives
\* after the count was taken only adds to the buffer.
CountInv ==
  /\ result.kind = "completed" => rx_left = 0 /\ result.count = rlen
  /\ result.kind = "idle" => ridle /\ result.count \in Nat /\ result.count <= rlen - rx_left

\* Every step keeps the count of a read honest.
LEMMA CountStep == TypeOK /\ CountInv /\ [Next]_vars => CountInv'
<1> SUFFICES ASSUME TypeOK, CountInv, [Next]_vars PROVE CountInv'
  OBVIOUS
<1> USE DEF CountInv, irqVars, stVars, readVars
<1>a. rlen \in Nat /\ rx_left \in Nat /\ rx_left <= rlen
  BY ConstantsAssumption DEF TypeOK
<1>1. ASSUME NEW n \in 1 .. MaxLen, NEW idle \in BOOLEAN, ReadStart(n, idle)
      PROVE  CountInv'
  BY <1>1 DEF ReadStart, NoResult
<1>2. CASE ReadClear \/ ReadArm \/ ReadRequest \/ ReadIdleRead \/ ReadIdleWrite \/ ReadIdleCfg
  BY <1>2 DEF ReadClear, ReadArm, ReadRequest, ReadIdleRead, ReadIdleWrite, ReadIdleCfg
<1>3. CASE PollTransfer
  BY <1>3, <1>a DEF PollTransfer, Return
<1>4. CASE AbortLoad
  BY <1>4 DEF AbortLoad
<1>5. CASE AbortStore
  <2>1. CASE \E e \in lsr_err : result' = [kind |-> "error", error |-> e]
    BY <2>1
  <2>2. CASE IdleSeen /\ result' = [kind |-> "idle", count |-> IdleCount]
    BY <1>5, <1>a, <2>2 DEF AbortStore, IdleSeen, IdleCount, Remaining
  <2>3. CASE UNCHANGED result
    BY <1>5, <2>3 DEF AbortStore
  <2> QED
    BY <1>5, <2>1, <2>2, <2>3 DEF AbortStore, Return
<1>6. CASE PollRead \/ CancelRead
  BY <1>6 DEF PollRead, CancelRead
<1>7. CASE StopTransfer \/ DropGuard
  BY <1>7 DEF StopTransfer, DropGuard, EndOfScope, NoResult
<1>8. CASE OnInterrupt
  BY <1>8 DEF OnInterrupt
<1> QED
  BY <1>a, <1>1, <1>2, <1>3, <1>4, <1>5, <1>6, <1>7, <1>8, OtherSteps DEF Next, ReadStep

\* The count a read returns never exceeds what the DMA has put in the buffer,
\* whatever arrives after the count was taken.
THEOREM CountIsHonest == Spec => []CountHonest
<1>1. Init => CountInv
  BY DEF Init, CountInv, NoResult
<1>2. TypeOK /\ CountInv => CountHonest
  BY ConstantsAssumption DEF TypeOK, CountInv, CountHonest
<1>3. TypeInv => TypeOK
  BY DEF TypeInv
<1> QED
  BY <1>1, <1>2, <1>3, TypeInit, TypeStep, CountStep, PTL DEF Spec, Safety
=============================================================================
