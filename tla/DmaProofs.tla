----------------------------- MODULE DmaProofs -----------------------------
(***************************************************************************)
(* Theorems about DmaChannels, for any number of channels and tasks and for *)
(* transfers of any length.                                                 *)
(***************************************************************************)
EXTENDS DmaChannels, TLAPS

\* Type correctness, one step per action.
LEMMA TypeInit == Init => TypeOK
<1> SUFFICES ASSUME Init PROVE TypeOK
  OBVIOUS
<1> USE ConstantsAssumption DEF Init
<1>1. /\ sts \in [Registers -> SUBSET Channels]
      /\ seen \in [Cleared -> SUBSET Channels]
      /\ reg \in [Channels -> Registers]
  BY DEF NoStatus, NoSnapshot, Registers, Cleared
<1>2. /\ tran_size \in [Channels -> 0 .. MaxLen]
      /\ size \in [Channels -> 1 .. MaxLen]
  OBVIOUS
<1>3. pc \in [Channels -> Labels]
  BY DEF Labels, AtRest
<1> QED
  BY <1>1, <1>2, <1>3 DEF TypeOK

\* Every step keeps the types.
LEMMA TypeStep == TypeOK /\ [Next]_vars => TypeOK'
<1> SUFFICES ASSUME TypeOK, [Next]_vars PROVE TypeOK'
  OBVIOUS
<1> USE ConstantsAssumption
    DEF TypeOK, Labels, AtRest, Setup, Probing, Registers, Cleared,
        ctrl, hwVars, taskVars, driverVars, isrVars, Goto
<1>1. ASSUME NEW c \in Channels, NEW t \in Tasks, NEW n \in 0 .. MaxLen,
             NewTransfer(c, t, n)
      PROVE  TypeOK'
  BY <1>1 DEF NewTransfer
<1>2. ASSUME NEW c \in Channels, ClearRead(c) PROVE TypeOK'
  BY <1>2 DEF ClearRead
<1>3. ASSUME NEW c \in Channels, ClearWrite(c) PROVE TypeOK'
  BY <1>3 DEF ClearWrite, NextRegister
<1>4. ASSUME NEW c \in Channels, NEW o \in Options, Configure(c, o) PROVE TypeOK'
  BY <1>4 DEF Configure, Switch
<1>5. ASSUME NEW c \in Channels, Start(c) PROVE TypeOK'
  BY <1>5 DEF Start
<1>6. ASSUME NEW c \in Channels, Await(c) \/ BlockingWait(c) \/ Drop(c) PROVE TypeOK'
  BY <1>6 DEF Await, BlockingWait, Drop
<1>7. ASSUME NEW c \in Channels, RegisterWaker(c) PROVE TypeOK'
  BY <1>7 DEF RegisterWaker
<1>8. ASSUME NEW c \in Channels, RequestAbort(c) \/ DropAbort(c) PROVE TypeOK'
  <2>1. AbortWrite(c)
    BY <1>8 DEF RequestAbort, DropAbort
  <2>2. chabort' \subseteq Channels /\ sts' \in [Registers -> SUBSET Channels]
    BY <2>1 DEF AbortWrite
  <2>3. CASE RequestAbort(c)
    BY <2>2, <2>3 DEF RequestAbort
  <2>4. CASE DropAbort(c)
    BY <2>2, <2>4 DEF DropAbort
  <2> QED
    BY <1>8, <2>3, <2>4
<1>9. ASSUME NEW c \in Channels, IsRunning(c) PROVE TypeOK'
  BY <1>9 DEF IsRunning, ReadEnable, ReadAbort, ReadTc, ReadLoop, ReadNext,
              Running, Stopped
<1>10. ASSUME NEW t \in Tasks, PollTask(t) \/ WakeElsewhere(t) PROVE TypeOK'
  BY <1>10 DEF PollTask, WakeElsewhere
<1>11. ASSUME Isr PROVE TypeOK'
  <2>1. CASE IsrEnter
    <3>1. isr' \in {"idle", "clear"} /\ panicked' \in BOOLEAN
      BY <2>1 DEF IsrEnter
    <3>2. seen' \in [Cleared -> SUBSET Channels]
      BY <2>1 DEF IsrEnter
    <3> QED
      BY <2>1, <3>1, <3>2 DEF IsrEnter
  <2>2. CASE IsrClear
    <3>1. sts' \in [Registers -> SUBSET Channels]
      BY <2>2 DEF IsrClear
    <3>2. todo' \subseteq Channels /\ seen' \in [Cleared -> SUBSET Channels]
      BY <2>2 DEF IsrClear, NoSnapshot
    <3> QED
      BY <2>2, <3>1, <3>2 DEF IsrClear
  <2>3. ASSUME NEW c \in Channels, IsrWake(c) PROVE TypeOK'
    BY <2>3 DEF IsrWake
  <2>4. CASE IsrExit
    BY <2>4 DEF IsrExit
  <2> QED
    BY <1>11, <2>1, <2>2, <2>3, <2>4 DEF Isr
<1>12. ASSUME NEW c \in Channels, Hardware(c) PROVE TypeOK'
  BY <1>12 DEF Hardware, Transfers, Beat, LastBeat, HwAbort, BusError, HwStop
<1>13. CASE UNCHANGED vars
  BY <1>13 DEF vars
<1> QED
  BY <1>1, <1>2, <1>3, <1>4, <1>5, <1>6, <1>7, <1>8, <1>9, <1>10, <1>11, <1>12, <1>13
  DEF Next, Driver, User, Executor, Halted

\* Every variable keeps its type in every behaviour of the controller model.
THEOREM TypeCorrect == Spec => []TypeOK
  BY TypeInit, TypeStep, PTL DEF Spec

(***************************************************************************)
(* The buffer is returned only when the hardware has stopped.  is_running   *)
(* can decide that from single register reads because a status bit of a     *)
(* channel is never set while the channel is enabled (unless it loops), and *)
(* because clear_irqs empties the channel's status before start.            *)
(***************************************************************************)
Clearing == {"clearRead", "clearWrite"}

StatusImpliesStopped(c) ==
  /\ c \in sts["abort"] => c \notin enable
  /\ c \in sts["tc"] /\ c \notin loop => c \notin enable
  /\ c \in chabort => c \in enable
  /\ Version = "v1" => c \notin loop

ClearedSoFar(c) ==
  /\ pc[c] \notin Clearing => reg[c] = "half"
  /\ pc[c] \in Clearing /\ reg[c] \in {"abort", "err"} => c \notin sts["tc"]
  /\ pc[c] \in Clearing /\ reg[c] = "err" => c \notin sts["abort"]
  /\ pc[c] \in {"configure", "start"} => c \notin sts["tc"] /\ c \notin sts["abort"]
  /\ Version = "v1" => reg[c] = "half"

ProbeSound(c) ==
  /\ pc[c] \in {"free", "ready"} \cup Setup => c \notin enable
  /\ pc[c] = "readLoop" /\ c \notin loop => c \notin enable

SafeInv ==
  \A c \in Channels : StatusImpliesStopped(c) /\ ClearedSoFar(c) /\ ProbeSound(c)

\* A controller out of reset has no status and nothing in use.
LEMMA SafeInit == Init => SafeInv
  BY DEF Init, SafeInv, StatusImpliesStopped, ClearedSoFar, ProbeSound, Clearing,
         Setup, NoStatus, Registers

\* Every step keeps the status true: it is set only by the hardware that stops,
\* and cleared before a channel is started again.
LEMMA SafeStep == TypeOK /\ SafeInv /\ [Next]_vars => SafeInv'
<1> SUFFICES ASSUME TypeOK, SafeInv, [Next]_vars PROVE SafeInv'
  OBVIOUS
<1> USE ConstantsAssumption
    DEF TypeOK, Labels, AtRest, Setup, Probing, Registers, Cleared,
        SafeInv, StatusImpliesStopped, ClearedSoFar, ProbeSound, Clearing,
        ctrl, hwVars, taskVars, driverVars, isrVars, Goto
<1>1. ASSUME NEW c \in Channels, NEW t \in Tasks, NEW n \in 0 .. MaxLen,
             NewTransfer(c, t, n)
      PROVE  SafeInv'
  BY <1>1 DEF NewTransfer
<1>2. ASSUME NEW c \in Channels, ClearRead(c) PROVE SafeInv'
  BY <1>2 DEF ClearRead
<1>3. ASSUME NEW c \in Channels, ClearWrite(c) PROVE SafeInv'
  <2>1. CASE Version = "v2"
    BY <1>3, <2>1 DEF ClearWrite, NextRegister, WrittenBack
  <2>2. CASE Version = "v1"
    BY <1>3, <2>2 DEF ClearWrite, WrittenBack
  <2> QED
    BY <2>1, <2>2
<1>4. ASSUME NEW c \in Channels, NEW o \in Options, Configure(c, o) PROVE SafeInv'
  BY <1>4 DEF Configure, Switch
<1>5. ASSUME NEW c \in Channels, Start(c) PROVE SafeInv'
  BY <1>5 DEF Start
<1>6. ASSUME NEW c \in Channels, Await(c) \/ BlockingWait(c) \/ Drop(c) PROVE SafeInv'
  BY <1>6 DEF Await, BlockingWait, Drop
<1>7. ASSUME NEW c \in Channels, RegisterWaker(c) PROVE SafeInv'
  BY <1>7 DEF RegisterWaker
<1>8. ASSUME NEW c \in Channels, RequestAbort(c) \/ DropAbort(c) PROVE SafeInv'
  <2>1. CASE RequestAbort(c)
    BY <2>1 DEF RequestAbort, AbortWrite
  <2>2. CASE DropAbort(c)
    BY <2>2 DEF DropAbort, AbortWrite
  <2> QED
    BY <1>8, <2>1, <2>2
<1>9. ASSUME NEW c \in Channels, IsRunning(c) PROVE SafeInv'
  BY <1>9 DEF IsRunning, ReadEnable, ReadAbort, ReadTc, ReadLoop, ReadNext,
              Running, Stopped
<1>10. ASSUME NEW t \in Tasks, PollTask(t) \/ WakeElsewhere(t) PROVE SafeInv'
  BY <1>10 DEF PollTask, WakeElsewhere
<1>11. ASSUME Isr PROVE SafeInv'
  <2>1. /\ UNCHANGED <<ctrl, chabort, driverVars>>
        /\ \A r \in Registers : sts'[r] \subseteq sts[r]
    BY <1>11 DEF Isr, IsrEnter, IsrClear, IsrWake, IsrExit
  <2> QED
    BY <2>1
<1>12. ASSUME NEW c \in Channels, Hardware(c) PROVE SafeInv'
  <2>1. CASE Beat(c)
    BY <2>1 DEF Beat
  <2>2. CASE LastBeat(c)
    BY <2>2 DEF LastBeat
  <2>3. CASE HwStop(c, "abort") \/ HwStop(c, "err")
    BY <2>3 DEF HwStop
  <2> QED
    BY <1>12, <2>1, <2>2, <2>3 DEF Hardware, Transfers, HwAbort, BusError
<1>13. CASE UNCHANGED vars
  BY <1>13 DEF vars
<1> QED
  BY <1>1, <1>2, <1>3, <1>4, <1>5, <1>6, <1>7, <1>8, <1>9, <1>10, <1>11, <1>12, <1>13
  DEF Next, Driver, User, Executor, Halted

\* While the channel is free, or its future is resolved, the hardware does not
\* touch the caller's buffer.
THEOREM BufferSafe == Spec => []BufferReturnedOnlyWhenStopped
<1>1. SafeInv => BufferReturnedOnlyWhenStopped
  BY DEF SafeInv, ProbeSound, BufferReturnedOnlyWhenStopped
<1> QED
  BY <1>1, SafeInit, SafeStep, TypeCorrect, PTL DEF Spec

(***************************************************************************)
(* No wakeup is lost and no future resolves early, provided clear_irqs only *)
(* clears its own channel's status (v1; v2 with a single channel in use) and*)
(* init has enabled the controller's interrupt.                             *)
(***************************************************************************)
ExactClear == Version = "v1" \/ \A c, d \in Channels : c = d

\* What clear_irqs writes back takes away the status of its own channel only.
LEMMA ClearIsExact ==
  ASSUME ExactClear, TypeOK, NEW c \in Channels, ClearWrite(c)
  PROVE  /\ \A r \in Registers : sts[r] \ {c} \subseteq sts'[r] /\ sts'[r] \subseteq sts[r]
         /\ pc[c] \in Setup
<1>1. WrittenBack(c) \subseteq {c}
  BY DEF ExactClear, TypeOK, WrittenBack
<1> QED
  BY <1>1 DEF ClearWrite, TypeOK, Registers, Setup

\* Calls of is_running by poll after its enable read are about a transfer that
\* was still running when the waker was in place.
AfterRegister == {"pending", "readAbort", "readTc", "readLoop"}

UseKnown(c) ==
  /\ pc[c] \in AtRest \cup Setup \cup {"register"} => use[c] = "poll"
  /\ pc[c] = "requestAbort" => use[c] = "drop"

WakerKnown(c) ==
  pc[c] \in AfterRegister \cup {"readEnable"} /\ use[c] = "poll" => waker[c] = owner[c]

WakeComes(c) ==
  /\ pc[c] \in Setup \/ c \in enable => tran_size[c] # 0
  /\ pc[c] \in AfterRegister /\ use[c] = "poll" /\ tran_size[c] = 0 /\ c \notin tcmask
       => WakeDue(c)

\* A transfer nobody has asked to stop.
Undisturbed(c) ==
  /\ pc[c] \in {"created", "pending", "register", "ready"} \cup Probing
  /\ use[c] # "drop"
  /\ c \notin asked

EndsByItself(c) ==
  Undisturbed(c) =>
    /\ c \notin chabort
    /\ c \notin enable => tran_size[c] = 0 \/ c \in sts["err"] \/ panicked

WakeInv ==
  \A c \in Channels : UseKnown(c) /\ WakerKnown(c) /\ WakeComes(c) /\ EndsByItself(c)

\* Nobody waits for a wakeup yet.
LEMMA WakeInit == Init => WakeInv
  BY DEF Init, WakeInv, UseKnown, WakerKnown, WakeComes, EndsByItself, Undisturbed,
         AfterRegister, Probing, AtRest, Setup

\* Every step hands the wakeup on: from the status register to the handler, from
\* the handler to the task, and from there to a poll.
LEMMA WakeStep ==
  ASSUME ExactClear, IrqEnabled
  PROVE  TypeOK /\ SafeInv /\ WakeInv /\ [Next]_vars => WakeInv'
<1> SUFFICES ASSUME TypeOK, SafeInv, WakeInv, [Next]_vars PROVE WakeInv'
  OBVIOUS
<1> USE ConstantsAssumption
    DEF TypeOK, Labels, AtRest, Setup, Probing, Registers, Cleared,
        WakeInv, UseKnown, WakerKnown, WakeComes, EndsByItself, Undisturbed,
        AfterRegister, WakeDue,
        ctrl, hwVars, taskVars, driverVars, isrVars, Goto
<1>1. ASSUME NEW c \in Channels, NEW t \in Tasks, NEW n \in 0 .. MaxLen,
             NewTransfer(c, t, n)
      PROVE  WakeInv'
  BY <1>1 DEF NewTransfer, SafeInv, ProbeSound
<1>2. ASSUME NEW c \in Channels, ClearRead(c) PROVE WakeInv'
  BY <1>2 DEF ClearRead
<1>3. ASSUME NEW c \in Channels, ClearWrite(c) PROVE WakeInv'
  <2>1. \A r \in Registers : sts[r] \ {c} \subseteq sts'[r] /\ sts'[r] \subseteq sts[r]
    BY <1>3, ClearIsExact
  <2>2. /\ pc' \in [Channels -> Labels]
        /\ pc[c] \in Setup /\ pc'[c] \in Setup
        /\ \A d \in Channels \ {c} : pc'[d] = pc[d]
        /\ UNCHANGED <<ctrl, tran_size, size, chabort, taskVars, use, owner, asked,
                       isrVars, panicked>>
    BY <1>3 DEF ClearWrite
  <2> QED
    BY <2>1, <2>2
<1>4. ASSUME NEW c \in Channels, NEW o \in Options, Configure(c, o) PROVE WakeInv'
  BY <1>4 DEF Configure, Switch
<1>5. ASSUME NEW c \in Channels, Start(c) PROVE WakeInv'
  BY <1>5 DEF Start, SafeInv, StatusImpliesStopped, ProbeSound
<1>6. ASSUME NEW c \in Channels, Await(c) \/ BlockingWait(c) \/ Drop(c) PROVE WakeInv'
  BY <1>6 DEF Await, BlockingWait, Drop
<1>7. ASSUME NEW c \in Channels, RegisterWaker(c) PROVE WakeInv'
  BY <1>7 DEF RegisterWaker
<1>8. ASSUME NEW c \in Channels, RequestAbort(c) \/ DropAbort(c) PROVE WakeInv'
  <2>1. CASE RequestAbort(c)
    BY <2>1 DEF RequestAbort, AbortWrite
  <2>2. CASE DropAbort(c)
    BY <2>2 DEF DropAbort, AbortWrite
  <2> QED
    BY <1>8, <2>1, <2>2
<1>9. ASSUME NEW c \in Channels, IsRunning(c) PROVE WakeInv'
  <2>1. UNCHANGED <<hwVars, taskVars, owner, isrVars, panicked>>
    BY <1>9 DEF IsRunning
  <2>2. CASE ReadEnable(c)
    BY <2>1, <2>2 DEF ReadEnable, ReadNext, Stopped
  <2>3. CASE ReadAbort(c)
    BY <2>1, <2>3 DEF ReadAbort, ReadNext, Stopped
  <2>4. CASE ReadTc(c)
    BY <2>1, <2>4 DEF ReadTc, ReadNext, Running, Stopped
  <2>5. CASE ReadLoop(c)
    BY <2>1, <2>5 DEF ReadLoop, Running, Stopped
  <2> QED
    BY <1>9, <2>2, <2>3, <2>4, <2>5 DEF IsRunning
<1>10. ASSUME NEW t \in Tasks, PollTask(t) \/ WakeElsewhere(t) PROVE WakeInv'
  <2>1. CASE PollTask(t)
    BY <2>1 DEF PollTask, Resting
  <2>2. CASE WakeElsewhere(t)
    BY <2>2 DEF WakeElsewhere
  <2> QED
    BY <1>10, <2>1, <2>2
<1>11. ASSUME Isr PROVE WakeInv'
  <2>1. CASE IsrEnter
    BY <2>1 DEF IsrEnter
  <2>2. CASE IsrClear
    BY <2>2 DEF IsrClear
  <2>3. ASSUME NEW c \in Channels, IsrWake(c) PROVE WakeInv'
    BY <2>3 DEF IsrWake
  <2>4. CASE IsrExit
    BY <2>4 DEF IsrExit
  <2> QED
    BY <1>11, <2>1, <2>2, <2>3, <2>4 DEF Isr
<1>12. ASSUME NEW c \in Channels, Hardware(c) PROVE WakeInv'
  <2>1. CASE Beat(c)
    BY <2>1 DEF Beat
  <2>2. CASE LastBeat(c)
    BY <2>2 DEF LastBeat, SafeInv, ProbeSound
  <2>3. CASE HwAbort(c)
    BY <2>3 DEF HwAbort, HwStop
  <2>4. CASE BusError(c)
    BY <2>4 DEF BusError, HwStop
  <2> QED
    BY <1>12, <2>1, <2>2, <2>3, <2>4 DEF Hardware, Transfers
<1>13. CASE UNCHANGED vars
  BY <1>13 DEF vars
<1> QED
  BY <1>1, <1>2, <1>3, <1>4, <1>5, <1>6, <1>7, <1>8, <1>9, <1>10, <1>11, <1>12, <1>13
  DEF Next, Driver, User, Executor, Halted

\* A pending future whose transfer has run to its end is going to be polled.
THEOREM WakeupsKept ==
  ASSUME ExactClear, IrqEnabled
  PROVE  Spec => []NoLostWakeup
<1>1. WakeInv => NoLostWakeup
  BY DEF WakeInv, WakeComes, UseKnown, NoLostWakeup, AfterRegister, AtRest
<1> QED
  BY <1>1, WakeInit, WakeStep, SafeInit, SafeStep, TypeInit, TypeStep, PTL DEF Spec

\* A future that resolves without an abort has moved all its data, unless a bus
\* error is about to panic.
THEOREM ResolvesComplete ==
  ASSUME ExactClear, IrqEnabled
  PROVE  Spec => []ReadyMeansComplete
<1>1. SafeInv /\ WakeInv => ReadyMeansComplete
  BY DEF SafeInv, ProbeSound, WakeInv, UseKnown, EndsByItself, Undisturbed,
         ReadyMeansComplete, AtRest, Setup
<1> QED
  BY <1>1, WakeInit, WakeStep, SafeInit, SafeStep, TypeInit, TypeStep, PTL DEF Spec

(***************************************************************************)
(* The controller with its futures implements TransferPromise.              *)
(***************************************************************************)
LEMMA PromiseInit == Init => Promise!Init
  BY DEF Init, Promise!Init, PhaseMap, Phase

\* One channel changes phase, along an arrow of the promise.
Follows(c) ==
  /\ \A d \in Channels \ {c} : Phase(d)' = Phase(d)
  /\ \/ Phase(c)' = Phase(c)
     \/ <<Phase(c), Phase(c)'>> \in
          {<<"free", "lent">>, <<"lent", "moving">>, <<"moving", "complete">>,
           <<"moving", "cut">>, <<"complete", "free">>, <<"cut", "free">>}

\* A channel that goes through its phases in order takes a step of the promise.
LEMMA FollowsIsPromised ==
  ASSUME NEW c \in Channels, Follows(c)
  PROVE  [Promise!Next]_PhaseMap
<1> DEFINE New == [d \in Channels |-> Phase(d)']
<1>1. PhaseMap' = New
  BY DEF PhaseMap
<1>2. New = [PhaseMap EXCEPT ![c] = Phase(c)']
  BY DEF Follows, PhaseMap
<1>3. CASE Phase(c)' = Phase(c)
  BY <1>1, <1>2, <1>3 DEF PhaseMap
<1>4. CASE Phase(c)' # Phase(c)
  BY <1>1, <1>2, <1>4
  DEF Follows, PhaseMap, Promise!Next, Promise!Lend, Promise!Begin, Promise!Complete,
      Promise!Cut, Promise!Return, Promise!Move
<1> QED
  BY <1>3, <1>4

\* Every step of the controller is a step of the promise or leaves the phases.
LEMMA PromiseStep == TypeOK /\ SafeInv /\ [Next]_vars => [Promise!Next]_PhaseMap
<1> SUFFICES ASSUME TypeOK, SafeInv, [Next]_vars PROVE [Promise!Next]_PhaseMap
  OBVIOUS
<1>1. ASSUME NEW c \in Channels, Driver(c) \/ User(c) \/ Hardware(c) PROVE Follows(c)
  <2> USE DEF TypeOK, Labels, AtRest, Setup, Probing, SafeInv, StatusImpliesStopped,
              ProbeSound, Follows, Phase, ctrl, hwVars, taskVars, driverVars, Goto
  <2>1. ASSUME NEW t \in Tasks, NEW n \in 0 .. MaxLen, NewTransfer(c, t, n)
        PROVE  Follows(c)
    BY <2>1 DEF NewTransfer
  <2>2. CASE ClearRead(c)
    BY <2>2 DEF ClearRead
  <2>3. CASE ClearWrite(c)
    BY <2>3 DEF ClearWrite
  <2>4. ASSUME NEW o \in Options, Configure(c, o) PROVE Follows(c)
    BY <2>4 DEF Configure
  <2>5. CASE Start(c)
    BY <2>5 DEF Start
  <2>6. CASE Await(c) \/ BlockingWait(c) \/ Drop(c) \/ RegisterWaker(c)
    BY <2>6 DEF Await, BlockingWait, Drop, RegisterWaker
  <2>7. CASE RequestAbort(c) \/ DropAbort(c)
    BY <2>7 DEF RequestAbort, DropAbort
  <2>8. CASE IsRunning(c)
    BY <2>8, ConstantsAssumption
    DEF IsRunning, ReadEnable, ReadAbort, ReadTc, ReadLoop, ReadNext, Running, Stopped
  <2>9. CASE Beat(c)
    BY <2>9 DEF Beat
  <2>10. CASE LastBeat(c)
    BY <2>10 DEF LastBeat
  <2>11. CASE HwAbort(c) \/ BusError(c)
    BY <2>11 DEF HwAbort, BusError, HwStop
  <2> QED
    BY <1>1, <2>1, <2>2, <2>3, <2>4, <2>5, <2>6, <2>7, <2>8, <2>9, <2>10, <2>11
    DEF Driver, User, Hardware, Transfers
<1>2. ASSUME NEW t \in Tasks, Executor(t) PROVE UNCHANGED PhaseMap
  <2>1. CASE PollTask(t)
    BY <2>1 DEF PollTask, PhaseMap, Phase, TypeOK, Setup, Labels, AtRest, Probing,
                hwVars, ctrl
  <2>2. CASE WakeElsewhere(t)
    BY <2>2 DEF WakeElsewhere, PhaseMap, Phase, hwVars, ctrl, driverVars
  <2> QED
    BY <1>2, <2>1, <2>2 DEF Executor
<1>3. CASE Isr
  BY <1>3 DEF Isr, IsrEnter, IsrClear, IsrWake, IsrExit, PhaseMap, Phase, hwVars, ctrl,
              driverVars
<1>4. CASE UNCHANGED vars
  BY <1>4 DEF vars, PhaseMap, Phase, hwVars, ctrl, driverVars
<1> QED
  BY <1>1, <1>2, <1>3, <1>4, FollowsIsPromised DEF Next, Halted

\* Every behaviour of registers, handler and polls is one the promise allows.
THEOREM PromiseKept == Spec => KeepsPromise
  BY PromiseInit, PromiseStep, SafeInit, SafeStep, TypeInit, TypeStep, PTL
  DEF Spec, KeepsPromise, Promise!Spec
============================================================================
