----------------------------- MODULE UartAsync -----------------------------
(***************************************************************************)
(* One UART of hpm-hal (src/uart/mod.rs) in its async form: the read        *)
(* future of UartRx, the write future and the polled write of UartTx, and   *)
(* the interrupt handler `on_interrupt`.                                    *)
(*                                                                          *)
(* The halves may belong to two tasks (Uart::split).  Tasks share one hart  *)
(* and one executor, so a poll of one half never overlaps a poll of the     *)
(* other; the interrupt handler and the hardware come in between any two    *)
(* steps of a poll.  The handler runs as one step: nothing that touches the *)
(* same registers can preempt it.                                           *)
(*                                                                          *)
(* DMA transfers are what DmaChannels shows them to be: data moves while    *)
(* the transfer lives, the task is woken when it is complete, and a dropped *)
(* transfer moves nothing.                                                  *)
(***************************************************************************)
EXTENDS Naturals, FiniteSets

CONSTANTS
  LineErrors,     \* errors the line produces: parity, framing, break ...
  FifoDepth,      \* bytes the receive FIFO holds
  MaxLen,         \* longest buffer passed to read and write
  RetryCount,     \* HPM_UART_DRV_RETRY_COUNT
  DetectPrevious, \* Config.detect_previous_overrun
  E00018Fix,      \* ip_feature_uart_e00018_fix: idle is flagged in IIR2
  NineBit,        \* ip_feature_uart_9bit_mode: idle is flagged in LSR
  TxOps           \* what the user does with the transmitting half

ASSUME ConstantsAssumption ==
  /\ FifoDepth \in Nat \ {0}
  /\ MaxLen \in Nat \ {0}
  /\ RetryCount \in Nat
  /\ DetectPrevious \in BOOLEAN
  /\ E00018Fix \in BOOLEAN
  /\ NineBit \in BOOLEAN
  /\ E00018Fix \/ NineBit
  /\ TxOps \subseteq {"write", "blocking_write"}

VARIABLES
  \* registers and hardware
  err,          \* error bits of LSR: set by the line, cleared by any read
  line_idle,    \* LSR.rxidle: the line has been quiet since the last byte
  idle_flag,    \* IIR2.rxidle_flag: latched, write one to clear
  elsi,         \* IER.elsi: line status interrupt enabled
  erxidle,      \* IER.erxidle: idle interrupt enabled
  rx_idle_en,   \* IDLE_CFG.rx_idle_en: idle detection runs
  dmae,         \* FCR.dmae: the UART raises DMA requests, of both halves
  fifo,         \* bytes in the receive FIFO
  thre,         \* LSR.thre: the transmitter takes a byte
  \* State of the driver
  saved_err,    \* error bits of saved_lsr
  saved_idle,   \* rxidle bit of saved_lsr
  rx_waker,     \* whose waker rx_waker holds, seen from the current read
  \* receiving half
  rpc,          \* where the read future is
  rlen,         \* length of its buffer
  ridle,        \* enable_idle_line_detection
  rx_on,        \* its DMA transfer exists
  rx_left,      \* units that transfer has yet to move
  lsr_err,      \* local `lsr` of the abort future: errors ...
  lsr_idle,     \* ... and rxidle
  ier_elsi,     \* IER.elsi as the modify of line 595 read it
  rx_woken,     \* its task is scheduled
  result,       \* local `r`: what the read is about to return
  \* transmitting half
  tpc,          \* where the write is
  tx_on,        \* its DMA transfer exists
  tx_left,      \* bytes yet to be sent
  retry,        \* polls since the last byte
  tx_woken      \* its task is scheduled

hwVars   == <<err, line_idle, idle_flag, fifo, thre>>
irqVars  == <<elsi, erxidle, rx_idle_en>>
stVars   == <<saved_err, saved_idle, rx_waker>>
readVars == <<rlen, ridle, lsr_err, lsr_idle, ier_elsi>>
rxVars   == <<rpc, rx_on, rx_left, rx_woken, result, readVars>>
txVars   == <<tpc, tx_on, tx_left, retry, tx_woken>>
vars == <<hwVars, irqVars, dmae, stVars, rxVars, txVars>>

Errors == LineErrors \cup {"overrun"}

Results == [kind : {"none", "completed", "idle"}, count : 0 .. MaxLen]
           \cup [kind : {"error"}, error : Errors]

NoResult == [kind |-> "none", count |-> 0]

\* "none": no read future; "pending": between two polls of it.
RxLabels == {"none", "clear", "arm", "request", "idleRead", "idleWrite", "idleCfg",
             "poll", "load", "store", "pending", "stop", "guard"}
TxLabels == {"none", "pending", "spin"}

TypeOK ==
  /\ err \subseteq Errors
  /\ {line_idle, idle_flag, elsi, erxidle, rx_idle_en, dmae, thre} \subseteq BOOLEAN
  /\ fifo \in 0 .. FifoDepth
  /\ saved_err \subseteq Errors
  /\ saved_idle \in BOOLEAN
  /\ rx_waker \in {"none", "mine", "other"}
  /\ rpc \in RxLabels
  /\ rlen \in 1 .. MaxLen
  /\ rx_left \in 0 .. rlen
  /\ {ridle, rx_on, lsr_idle, ier_elsi, rx_woken} \subseteq BOOLEAN
  /\ lsr_err \subseteq Errors
  /\ result \in Results
  /\ tpc \in TxLabels
  /\ {tx_on, tx_woken} \subseteq BOOLEAN
  /\ tx_left \in 0 .. MaxLen
  /\ retry \in 0 .. RetryCount + 1

\* The driver as Uart::new leaves it: configure has written 0 to IER.
Init ==
  /\ err = {} /\ line_idle = FALSE /\ idle_flag = FALSE
  /\ elsi = FALSE /\ erxidle = FALSE /\ rx_idle_en = FALSE
  /\ dmae = FALSE /\ fifo = 0 /\ thre = TRUE
  /\ saved_err = {} /\ saved_idle = FALSE /\ rx_waker = "none"
  /\ rpc = "none" /\ rlen = 1 /\ ridle = FALSE
  /\ rx_on = FALSE /\ rx_left = 0
  /\ lsr_err = {} /\ lsr_idle = FALSE /\ ier_elsi = FALSE
  /\ rx_woken = FALSE /\ result = NoResult
  /\ tpc = "none" /\ tx_on = FALSE /\ tx_left = 0 /\ retry = 0 /\ tx_woken = FALSE

\* No poll of the other half is under way.
RxMayRun == tpc # "spin"
TxMayRun == rpc \in {"none", "pending"}

(***************************************************************************)
(* Receiving half: inner_read and inner_read_run.                           *)
(***************************************************************************)

\* An empty buffer returns at once and one above 0xFFFF is refused.  Any other
\* read clears LSR by reading it, sets up its guard and starts its transfer.
\* The task need not be the one that read last.
ReadStart(n, idle) ==
  /\ RxMayRun /\ rpc = "none"
  /\ err' = {}
  /\ rlen' = n /\ ridle' = idle
  /\ rx_on' = TRUE /\ rx_left' = n
  /\ rx_woken' = FALSE
  /\ rx_waker' \in IF rx_waker = "none" THEN {"none"} ELSE {"mine", "other"}
  /\ result' = NoResult
  /\ rpc' = "clear"
  /\ UNCHANGED <<line_idle, idle_flag, fifo, thre, irqVars, dmae, saved_err, saved_idle,
                 lsr_err, lsr_idle, ier_elsi, txVars>>

\* Unless it is to report older errors, the read clears LSR once more.  It
\* leaves saved_lsr as it is: the line that would clear it is commented out.
ReadClear ==
  /\ rpc = "clear"
  /\ err' = IF DetectPrevious THEN err ELSE {}
  /\ rpc' = "arm"
  /\ UNCHANGED <<line_idle, idle_flag, fifo, thre, irqVars, dmae, stVars, rx_on, rx_left,
                 rx_woken, result, readVars, txVars>>

ReadArm ==
  /\ rpc = "arm"
  /\ elsi' = TRUE
  /\ rpc' = "request"
  /\ UNCHANGED <<hwVars, erxidle, rx_idle_en, dmae, stVars, rx_on, rx_left, rx_woken,
                 result, readVars, txVars>>

ReadRequest ==
  /\ rpc = "request"
  /\ dmae' = TRUE
  /\ rpc' = IF ridle THEN "idleRead" ELSE "poll"
  /\ UNCHANGED <<hwVars, irqVars, stVars, rx_on, rx_left, rx_woken, result, readVars,
                 txVars>>

\* The modify that sets IER.erxidle is a read and a write: an error interrupt
\* between the two clears elsi and the write sets it again.
ReadIdleRead ==
  /\ rpc = "idleRead"
  /\ ier_elsi' = elsi
  /\ rpc' = "idleWrite"
  /\ UNCHANGED <<hwVars, irqVars, dmae, stVars, rx_on, rx_left, rx_woken, result, rlen,
                 ridle, lsr_err, lsr_idle, txVars>>

ReadIdleWrite ==
  /\ rpc = "idleWrite"
  /\ elsi' = ier_elsi /\ erxidle' = TRUE /\ ier_elsi' = FALSE
  /\ rpc' = "idleCfg"
  /\ UNCHANGED <<hwVars, rx_idle_en, dmae, stVars, rx_on, rx_left, rx_woken, result, rlen,
                 ridle, lsr_err, lsr_idle, txVars>>

ReadIdleCfg ==
  /\ rpc = "idleCfg"
  /\ rx_idle_en' = TRUE
  /\ rpc' = "poll"
  /\ UNCHANGED <<hwVars, elsi, erxidle, dmae, stVars, rx_on, rx_left, rx_woken, result,
                 readVars, txVars>>

Return(r) ==
  /\ result' = r
  /\ rpc' = "stop"

\* select polls the transfer first.
PollTransfer ==
  /\ rpc = "poll"
  /\ IF rx_left = 0
     THEN Return([kind |-> "completed", count |-> rlen])
     ELSE rpc' = "load" /\ UNCHANGED result
  /\ UNCHANGED <<hwVars, irqVars, dmae, stVars, rx_on, rx_left, rx_woken, readVars, txVars>>

\* Mutant of AbortLoad: the waker is registered by the first task only.
AbortLoad_RegisterOnce ==
  /\ rpc = "load"
  /\ rx_waker' = IF rx_waker = "none" THEN "mine" ELSE rx_waker
  /\ lsr_err' = saved_err /\ lsr_idle' = saved_idle
  /\ rpc' = "store"
  /\ UNCHANGED <<hwVars, irqVars, dmae, saved_err, saved_idle, rx_on, rx_left, rx_woken,
                 result, rlen, ridle, ier_elsi, txVars>>

\* The abort future registers the waker, loads saved_lsr ...
AbortLoad ==
  /\ rpc = "load"
  /\ rx_waker' = "mine"
  /\ lsr_err' = saved_err /\ lsr_idle' = saved_idle
  /\ rpc' = "store"
  /\ UNCHANGED <<hwVars, irqVars, dmae, saved_err, saved_idle, rx_on, rx_left, rx_woken,
                 result, rlen, ridle, ier_elsi, txVars>>

\* Units in the buffer, as get_remaining_transfers tells.
Remaining == rx_left
IdleSeen == ridle /\ \/ NineBit /\ lsr_idle
                     \/ E00018Fix /\ idle_flag

\* Mutant of IdleCount: what remains is returned for what has arrived.
IdleCount_Remaining == Remaining
IdleCount == rlen - Remaining

\* ... and, in a second access, stores 0 to it; then it decides.
AbortStore ==
  /\ rpc = "store"
  /\ saved_err' = {} /\ saved_idle' = FALSE
  /\ \/ \E e \in lsr_err : Return([kind |-> "error", error |-> e])
     \/ /\ lsr_err = {} /\ IdleSeen
        /\ Return([kind |-> "idle", count |-> IdleCount])
     \/ /\ lsr_err = {} /\ ~ IdleSeen
        /\ rpc' = "pending" /\ UNCHANGED result
  /\ lsr_err' = {} /\ lsr_idle' = FALSE
  /\ UNCHANGED <<hwVars, irqVars, dmae, rx_waker, rx_on, rx_left, rx_woken, rlen, ridle,
                 ier_elsi, txVars>>

\* The executor polls the task, woken or not (its other futures wake it too).
PollRead ==
  /\ RxMayRun /\ rpc = "pending"
  /\ rx_woken' = FALSE
  /\ rpc' = "poll"
  /\ UNCHANGED <<hwVars, irqVars, dmae, stVars, rx_on, rx_left, result, readVars, txVars>>

\* The user drops the future: the transfer goes first, then the guard.
CancelRead ==
  /\ RxMayRun /\ rpc = "pending"
  /\ rpc' = "stop"
  /\ UNCHANGED <<hwVars, irqVars, dmae, stVars, rx_on, rx_left, rx_woken, result, readVars,
                 txVars>>

\* Drop of the DMA transfer returns once the channel has stopped.
StopTransfer ==
  /\ rpc = "stop"
  /\ rx_on' = FALSE
  /\ rpc' = "guard"
  /\ UNCHANGED <<hwVars, irqVars, dmae, stVars, rx_left, rx_woken, result, readVars, txVars>>

\* The future's locals end with it.
EndOfScope ==
  rlen' = 1 /\ ridle' = FALSE /\ rx_left' = 0 /\ rx_woken' = FALSE /\ result' = NoResult

\* Mutant of DropGuard: the idle interrupt stays enabled.
DropGuard_KeepsIdle ==
  /\ rpc = "guard"
  /\ elsi' = FALSE /\ rx_idle_en' = FALSE
  /\ dmae' = FALSE
  /\ rpc' = "none"
  /\ EndOfScope
  /\ UNCHANGED <<hwVars, erxidle, stVars, rx_on, lsr_err, lsr_idle, ier_elsi, txVars>>

\* on_drop: interrupts off, idle detection off, DMA requests off.  Once IER is
\* written no interrupt can follow, so the three writes are one step.
DropGuard ==
  /\ rpc = "guard"
  /\ elsi' = FALSE /\ erxidle' = FALSE /\ rx_idle_en' = FALSE
  /\ dmae' = FALSE
  /\ rpc' = "none"
  /\ EndOfScope
  /\ UNCHANGED <<hwVars, stVars, rx_on, lsr_err, lsr_idle, ier_elsi, txVars>>

\* nb_read and each turn of blocking_read: check_rx_flags reads LSR, reports an
\* error, or takes a byte if there is one.
CheckRxFlags ==
  /\ RxMayRun /\ rpc = "none"
  /\ err # {} \/ fifo > 0
  /\ err' = {}
  /\ \/ err # {} /\ UNCHANGED fifo
     \/ err = {} /\ fifo' = fifo - 1
  /\ UNCHANGED <<line_idle, idle_flag, thre, irqVars, dmae, stVars, rxVars, txVars>>

(***************************************************************************)
(* Transmitting half.                                                       *)
(***************************************************************************)

\* write: DMA requests on, the transfer starts, the first poll finds it running.
WriteStart(n) ==
  /\ TxMayRun /\ tpc = "none" /\ "write" \in TxOps
  /\ dmae' = TRUE
  /\ tx_on' = TRUE /\ tx_left' = n /\ tx_woken' = FALSE
  /\ tpc' = "pending"
  /\ UNCHANGED <<hwVars, irqVars, stVars, rxVars, retry>>

\* A poll that finds the transfer complete turns the DMA requests off: for
\* both halves.
PollWrite ==
  /\ TxMayRun /\ tpc = "pending"
  /\ tx_woken' = FALSE
  /\ \/ /\ tx_left = 0
        /\ dmae' = FALSE /\ tx_on' = FALSE /\ tpc' = "none"
     \/ tx_left > 0 /\ UNCHANGED <<dmae, tx_on, tpc>>
  /\ UNCHANGED <<hwVars, irqVars, stVars, rxVars, tx_left, retry>>

\* A dropped write stops its transfer and leaves the DMA requests on.
CancelWrite ==
  /\ TxMayRun /\ tpc = "pending"
  /\ tx_on' = FALSE /\ tpc' = "none" /\ tx_left' = 0 /\ tx_woken' = FALSE
  /\ UNCHANGED <<hwVars, irqVars, dmae, stVars, rxVars, retry>>

BlockingWrite(n) ==
  /\ TxMayRun /\ tpc = "none" /\ "blocking_write" \in TxOps
  /\ tx_left' = n /\ retry' = 0
  /\ tpc' = "spin"
  /\ UNCHANGED <<hwVars, irqVars, dmae, stVars, rxVars, tx_on, tx_woken>>

\* One poll of LSR: reading it clears the receiver's errors too.  A ready
\* transmitter takes a byte, unless the retries ran out on the poll before.
Spin ==
  /\ tpc = "spin"
  /\ err' = {}
  /\ \/ /\ thre /\ retry <= RetryCount
        /\ thre' = FALSE /\ tx_left' = tx_left - 1 /\ retry' = 0
        /\ tpc' = IF tx_left = 1 THEN "none" ELSE "spin"
     \/ /\ ~ thre /\ retry <= RetryCount
        /\ retry' = retry + 1
        /\ UNCHANGED <<thre, tx_left, tpc>>
     \/ /\ retry > RetryCount        \* Err(Error::Timeout)
        /\ tpc' = "none" /\ tx_left' = 0 /\ retry' = 0 /\ UNCHANGED thre
  /\ UNCHANGED <<line_idle, idle_flag, fifo, irqVars, dmae, stVars, rxVars, tx_on, tx_woken>>

(***************************************************************************)
(* Interrupt handler.                                                       *)
(***************************************************************************)
\* What raises the interrupt.
IrqPending == \/ elsi /\ err # {}
              \/ erxidle /\ ((E00018Fix /\ idle_flag) \/ (NineBit /\ line_idle))

\* After an error: no further interrupt, no DMA requests.  Parts with fine FIFO
\* thresholds write FCRR as a whole, which turns the FIFO off, and its bytes are
\* lost; a depth of 1 is what is left then.  UartSetup has the setting itself.
Quiesce ==
  /\ elsi' = FALSE /\ erxidle' = FALSE /\ rx_idle_en' = FALSE
  /\ dmae' = FALSE
  /\ fifo' \in {0, fifo}
  /\ UNCHANGED idle_flag

\* Both idle branches clear IER.etxidle, not erxidle, so the only effects are
\* those on IDLE_CFG and IIR2, which only the e00018 branch has.
ClearIdle ==
  /\ IF E00018Fix /\ idle_flag /\ rx_idle_en
     THEN rx_idle_en' = FALSE /\ idle_flag' = FALSE
     ELSE UNCHANGED <<rx_idle_en, idle_flag>>
  /\ UNCHANGED <<elsi, erxidle, dmae, fifo>>

\* Mutant of WakeReader: only the idle interrupt wakes the reader.
WakeReader_IdleOnly == rx_woken' = (rx_woken \/ (rx_waker = "mine" /\ err = {}))

\* rx_waker.wake(): the waker stays registered.
WakeReader == rx_woken' = (rx_woken \/ rx_waker = "mine")

\* Reading LSR clears its error bits; what was read replaces saved_lsr.
OnInterrupt ==
  /\ IrqPending
  /\ IF err # {} THEN Quiesce ELSE ClearIdle
  /\ err' = {}
  /\ saved_err' = err /\ saved_idle' = (NineBit /\ line_idle)
  /\ WakeReader
  /\ UNCHANGED <<line_idle, thre, rx_waker, rpc, rx_on, rx_left, result, readVars, txVars>>

(***************************************************************************)
(* Hardware.                                                                *)
(***************************************************************************)
Latch(e) == err' = err \cup {e}

\* A byte arrives; one that finds the FIFO full is lost.
LineByte ==
  /\ line_idle' = FALSE
  /\ \/ fifo < FifoDepth /\ fifo' = fifo + 1 /\ UNCHANGED err
     \/ fifo = FifoDepth /\ Latch("overrun") /\ UNCHANGED fifo
  /\ UNCHANGED <<idle_flag, thre, irqVars, dmae, stVars, rpc, rx_on, rx_left, rx_woken,
                 result, readVars, txVars>>

LineError ==
  /\ \E e \in LineErrors : Latch(e)
  /\ UNCHANGED <<line_idle, idle_flag, fifo, thre, irqVars, dmae, stVars, rpc, rx_on,
                 rx_left, rx_woken, result, readVars, txVars>>

LineIdle ==
  /\ rx_idle_en
  /\ line_idle' = TRUE /\ idle_flag' = E00018Fix
  /\ UNCHANGED <<err, fifo, thre, irqVars, dmae, stVars, rxVars, txVars>>

\* The DMA controller moves a byte to the buffer, and wakes the task after the
\* last.
ReceiveBeat ==
  /\ dmae /\ rx_on /\ rx_left > 0 /\ fifo > 0
  /\ fifo' = fifo - 1 /\ rx_left' = rx_left - 1
  /\ rx_woken' = (rx_woken \/ rx_left = 1)
  /\ UNCHANGED <<err, line_idle, idle_flag, thre, irqVars, dmae, stVars, rpc, rx_on, result,
                 readVars, txVars>>

TransmitBeat ==
  /\ dmae /\ tx_on /\ tx_left > 0
  /\ tx_left' = tx_left - 1
  /\ tx_woken' = (tx_woken \/ tx_left = 1)
  /\ UNCHANGED <<hwVars, irqVars, dmae, stVars, rxVars, tpc, tx_on, retry>>

TransmitterReady ==
  /\ ~ thre /\ thre' = TRUE
  /\ UNCHANGED <<err, line_idle, idle_flag, fifo, irqVars, dmae, stVars, rxVars, txVars>>

ReadStep == \/ ReadClear \/ ReadArm \/ ReadRequest
            \/ ReadIdleRead \/ ReadIdleWrite \/ ReadIdleCfg
            \/ PollTransfer \/ AbortLoad \/ AbortStore
            \/ StopTransfer \/ DropGuard

Next ==
  \/ \E n \in 1 .. MaxLen, idle \in BOOLEAN : ReadStart(n, idle)
  \/ ReadStep \/ PollRead \/ CancelRead \/ CheckRxFlags
  \/ \E n \in 1 .. MaxLen : WriteStart(n) \/ BlockingWrite(n)
  \/ PollWrite \/ CancelWrite \/ Spin
  \/ OnInterrupt
  \/ LineByte \/ LineError \/ LineIdle
  \/ ReceiveBeat \/ TransmitBeat \/ TransmitterReady

Safety == Init /\ [][Next]_vars

\* The code between two awaits runs on; woken tasks are polled however often
\* others run; a pending interrupt is taken; DMA serves raised requests.
Fairness ==
  /\ WF_vars(ReadStep)
  /\ SF_vars(PollRead /\ rx_woken)
  /\ SF_vars(PollWrite /\ tx_woken)
  /\ WF_vars(Spin) /\ WF_vars(TransmitterReady)
  /\ WF_vars(OnInterrupt)
  /\ SF_vars(ReceiveBeat) /\ SF_vars(TransmitBeat)

Spec == Safety /\ Fairness

(***************************************************************************)
(* Properties.                                                              *)
(***************************************************************************)

\* Between two reads the receiver is neutral, as inner_read_run says of its
\* guard: nothing can interrupt, no idle detection runs, no transfer writes to
\* a buffer that is gone, however the last read ended and whatever interrupt
\* came between two of its register writes.
NeutralBetweenReads == rpc = "none" => ~ elsi /\ ~ erxidle /\ ~ rx_idle_en /\ ~ rx_on

\* A pending read that has something to do is scheduled: an error the handler
\* saved, or a complete transfer, never waits for a further event, even if
\* another task read before this one.
NoMissedWakeup ==
  rpc = "pending" /\ (saved_err # {} \/ rx_left = 0) => rx_woken

\* The count a read returns never exceeds what the DMA has put in the buffer,
\* and a plain read returns only with the buffer full.
CountHonest ==
  result.kind \in {"completed", "idle"} => result.count <= rlen - rx_left

\* A read whose transfer is complete returns, and one the handler has saved an
\* error for returns: neither depends on what the line does next.
PendingEnds == rpc = "pending" /\ (rx_left = 0 \/ saved_err # {}) ~> rpc = "none"

\* Uart::split is for "two tasks correlating to transmitting and receiving"
\* (lines 1086 to 1088): a write ends, whatever the receiving half does.
WriteEnds == tpc = "pending" ~> tpc = "none"
============================================================================
