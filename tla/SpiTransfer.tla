---------------------------- MODULE SpiTransfer ----------------------------
(***************************************************************************)
(* The SPI master driver (src/src/spi/mod.rs): one Spi value, the blocking  *)
(* and the asynchronous transfers called on it, and the controller with its *)
(* two FIFOs.  A word of the caller's buffers is its position, 0 a word of  *)
(* an earlier transfer.  The DMA channels move one word at a time; what     *)
(* their futures promise is TransferPromise.                                *)
(***************************************************************************)
EXTENDS Naturals, Sequences

CONSTANTS
  Kinds,        \* the constructors used
  Lengths,      \* lengths of the buffers passed in
  Words,        \* word sizes
  BadConfigs,   \* whether the TransferConfig is one that is refused
  CountMax,     \* TRANSFER_COUNT_MAX
  FifoDepth,    \* FIFO_SIZE
  MergeWidth    \* bytes of one merged word, 4 in the code

ASSUME SpiAssumption ==
  /\ Lengths \subseteq Nat
  /\ CountMax \in Nat \ {0} /\ FifoDepth \in Nat \ {0} /\ MergeWidth \in Nat \ {0}

VARIABLES
  spi_drv,      \* the Spi value: constructor and current_word_size
  spi_reg,      \* TRANS_FMT, TRANS_CTRL, the counts and the DMA enables
  spi_hw,       \* the transfer under way and the FIFOs
  spi_call      \* the method being executed

spiVars == <<spi_drv, spi_reg, spi_hw, spi_call>>

(***************************************************************************)
(* Constructors: which lines the driver owns and which DMA channels.        *)
(***************************************************************************)
BlockingKinds ==
  [new_blocking |-> {"sclk", "mosi", "miso"},
   new_blocking_rxonly |-> {"sclk", "miso"},
   new_blocking_txonly |-> {"sclk", "mosi"},
   new_blocking_txonly_nosck |-> {"mosi"},
   new_blocking_quad |-> {"cs", "sclk", "mosi", "miso", "d2", "d3"}]

AsyncKinds ==
  [new |-> {"sclk", "mosi", "miso", "tx_dma", "rx_dma"},
   new_rxonly |-> {"sclk", "miso", "rx_dma"},
   new_txonly |-> {"sclk", "mosi", "tx_dma"},
   new_txonly_nosck |-> {"mosi", "tx_dma"}]

\* A method that needs a channel the constructor was not given panics.
Owned(kind) == IF kind \in DOMAIN AsyncKinds THEN AsyncKinds[kind] ELSE BlockingKinds[kind]

Modes == {"WRITE_ONLY", "READ_ONLY", "WRITE_READ", "WRITE_READ_TOGETHER"}

Idle == [pc |-> "idle", op |-> "none", w |-> 0, r |-> 0, mode |-> "WRITE_ONLY",
         word |-> 8, bad |-> FALSE, i |-> 0, j |-> 0, ok |-> FALSE, intact |-> TRUE]

\* new_inner and enable_and_configure: eight bit words, nothing merged.
SpiInit ==
  /\ spi_drv \in [kind : Kinds, word : {8}]
  /\ spi_reg = [len |-> 8, merge |-> FALSE, mode |-> "WRITE_ONLY", wcnt |-> 1, rcnt |-> 1,
                txdma |-> FALSE, rxdma |-> FALSE]
  /\ spi_hw = [active |-> FALSE, sent |-> 0, got |-> 0, txf |-> <<>>, rxf |-> <<>>,
               good |-> TRUE]
  /\ spi_call = Idle

(***************************************************************************)
(* The methods, as what they hand to configure_transfer.                    *)
(***************************************************************************)
Writes == [op : {"blocking_write", "datamerge", "write"}, w : Lengths, r : {0},
           mode : {"WRITE_ONLY"}]
Reads == [op : {"blocking_read", "read"}, w : {0}, r : Lengths, mode : {"READ_ONLY"}]
Transfers == [op : {"transfer", "blocking_transfer", "inplace"}, w : Lengths, r : Lengths,
              mode : Modes]

IsAsync(op) == op \in {"write", "read", "transfer"}
Channels(op) == (IF op \in {"write", "transfer"} THEN {"tx_dma"} ELSE {})
                  \cup (IF op \in {"read", "transfer"} THEN {"rx_dma"} ELSE {})

\* The implementations of embedded-hal: the blocking one transfers in
\* WRITE_READ mode, the asynchronous one with assert_eq!(read.len(), write.len()).
EhMode(op) == IF op = "transfer" THEN "WRITE_READ_TOGETHER" ELSE "WRITE_READ"

\* The word sizes that impl_word! gives a CONFIG.
WordSizes == 1 .. 32

SpiCall ==
  /\ spi_call.pc = "idle"
  /\ \E c \in Writes \cup Reads \cup Transfers, n \in Words \cap WordSizes, bad \in BadConfigs :
       /\ Channels(c.op) \subseteq Owned(spi_drv.kind)
       /\ c.op \in {"inplace", "transfer"} => c.w = c.r
       /\ c.op = "transfer" => c.mode = EhMode(c.op)
       /\ c.op = "datamerge" => n = 8
       /\ bad => c.op \in {"transfer", "blocking_transfer", "inplace", "datamerge"}
       \* The early return on an empty slice; the transfers have none.
       /\ c.w + c.r > 0 \/ c.op \in {"transfer", "blocking_transfer", "inplace"}
       /\ spi_call' = [Idle EXCEPT !.op = c.op, !.w = c.w, !.r = c.r, !.mode = c.mode,
                         !.word = n, !.bad = bad,
                         !.pc = IF IsAsync(c.op) \/ c.op = "datamerge" THEN "word"
                                                                      ELSE "configure"]
  /\ UNCHANGED <<spi_drv, spi_reg, spi_hw>>

Go(label) == spi_call' = [spi_call EXCEPT !.pc = label]
Return(ok) == spi_call' = [Idle EXCEPT !.ok = ok]

Loops == "loop"
Body(op) == IF IsAsync(op) THEN "start" ELSE Loops

\* set_word_size: before configure_transfer in the methods that use DMA and in
\* blocking_datamerge_write, which has set datamerge, after it in the others.
SetWordSize ==
  /\ spi_call.pc = "word"
  /\ spi_drv' = [spi_drv EXCEPT !.word = spi_call.word]
  /\ spi_reg' = [spi_reg EXCEPT
       !.len = IF spi_drv.word = spi_call.word THEN @ ELSE spi_call.word,
       !.merge = @ \/ spi_call.op = "datamerge"]
  /\ Go(IF IsAsync(spi_call.op) \/ spi_call.op = "datamerge" THEN "configure" ELSE Loops)
  /\ UNCHANGED spi_hw

\* A count is written as its value less one, to a register of CountMax values; 0
\* wraps, where overflow checks do not stop the program.
CountRead(n) == IF n = 0 THEN CountMax ELSE ((n - 1) % CountMax) + 1

Refused(c) == c.bad \/ c.w > CountMax

\* Mutant of Programmed: the count is written as it is, one word too many.
Programmed_NotLessOne(c) ==
  [mode |-> c.mode, wcnt |-> CountRead(c.w) + 1, rcnt |-> CountRead(c.r) + 1]
Programmed(c) == [mode |-> c.mode, wcnt |-> CountRead(c.w), rcnt |-> CountRead(c.r)]

Stale(fifo) == [k \in 1 .. Len(fifo) |-> 0]

\* The reset of FIFOs and controller, and its mutant that leaves the FIFOs.
Reset_ControllerOnly(hw) == [hw EXCEPT !.txf = Stale(@), !.rxf = Stale(@)]
Reset(hw) == [hw EXCEPT !.txf = <<>>, !.rxf = <<>>]

\* configure_transfer: checks first, then the registers, the reset and last the
\* command register, which starts the transfer.
ConfigureTransfer ==
  /\ spi_call.pc = "configure"
  /\ \/ /\ Refused(spi_call)
        /\ Return(FALSE)
        /\ UNCHANGED <<spi_reg, spi_hw>>
     \/ /\ ~Refused(spi_call)
        /\ LET p == Programmed(spi_call)
           IN spi_reg' = [spi_reg EXCEPT !.mode = p.mode, !.wcnt = p.wcnt, !.rcnt = p.rcnt]
        /\ spi_hw' = [Reset(spi_hw) EXCEPT !.active = TRUE, !.sent = 0, !.got = 0,
                        !.good = TRUE]
        /\ Go(IF IsAsync(spi_call.op) \/ spi_call.op = "datamerge" THEN Body(spi_call.op)
                                                                  ELSE "word")
  /\ UNCHANGED spi_drv

(***************************************************************************)
(* The blocking loops.  Status bits only change in the loop's favour while  *)
(* it looks at them, so a look and the access it leads to are one step.     *)
(***************************************************************************)
\* Bytes that one FIFO entry holds, and entries a buffer of n words takes.
Unit == IF spi_call.op = "datamerge" THEN MergeWidth ELSE 1
Entries(n) == (n + Unit - 1) \div Unit

PushWord ==
  /\ spi_call.pc = Loops
  /\ spi_call.i < Entries(spi_call.w)
  /\ Len(spi_hw.txf) < FifoDepth
  /\ spi_hw' = [spi_hw EXCEPT !.txf = Append(@, spi_call.i + 1)]
  /\ spi_call' = [spi_call EXCEPT !.i = @ + 1]
  /\ UNCHANGED <<spi_drv, spi_reg>>

\* In place, a word is read only after the word it replaces was written.
PopWord ==
  /\ spi_call.pc = Loops
  /\ spi_call.j < spi_call.r
  /\ spi_call.op = "inplace" => spi_call.j < spi_call.i
  /\ spi_hw.rxf # <<>>
  /\ spi_hw' = [spi_hw EXCEPT !.rxf = Tail(@)]
  /\ spi_call' = [spi_call EXCEPT !.j = @ + 1,
                    !.intact = @ /\ Head(spi_hw.rxf) = spi_call.j + 1]
  /\ UNCHANGED <<spi_drv, spi_reg>>

\* Mutant: as if the last accepted word were the last word sent.
WaitsForIdle_Never(op) == FALSE

\* The writes wait until the controller is idle; reads and blocking transfers
\* do not.
WaitsForIdle(op) == op \in {"blocking_write", "datamerge", "write", "transfer"}

LoopDone ==
  /\ spi_call.pc = Loops
  /\ spi_call.i = Entries(spi_call.w) /\ spi_call.j = spi_call.r
  /\ IF WaitsForIdle(spi_call.op) THEN Go("drain") ELSE Return(TRUE)
  /\ UNCHANGED <<spi_drv, spi_reg, spi_hw>>

\* The last wait of a write; blocking_flush is this wait alone.  The merged
\* write turns merging off again, and only here.
Drained ==
  /\ spi_call.pc = "drain" /\ ~spi_hw.active
  /\ spi_reg' = [spi_reg EXCEPT !.merge = @ /\ spi_call.op # "datamerge"]
  /\ Return(TRUE)
  /\ UNCHANGED <<spi_drv, spi_hw>>

(***************************************************************************)
(* The asynchronous transfers.                                              *)
(***************************************************************************)
StartDma ==
  /\ spi_call.pc = "start"
  /\ spi_reg' = [spi_reg EXCEPT !.txdma = @ \/ "tx_dma" \in Channels(spi_call.op),
                                !.rxdma = @ \/ "rx_dma" \in Channels(spi_call.op)]
  /\ Go("await")
  /\ UNCHANGED <<spi_drv, spi_hw>>

\* The channels, external: DMA serves the request lines that are enabled.
DmaPush ==
  /\ spi_call.pc = "await" /\ spi_reg.txdma
  /\ "tx_dma" \in Channels(spi_call.op)
  /\ spi_call.i < spi_call.w /\ Len(spi_hw.txf) < FifoDepth
  /\ spi_hw' = [spi_hw EXCEPT !.txf = Append(@, spi_call.i + 1)]
  /\ spi_call' = [spi_call EXCEPT !.i = @ + 1]
  /\ UNCHANGED <<spi_drv, spi_reg>>

DmaPop ==
  /\ spi_call.pc = "await" /\ spi_reg.rxdma
  /\ "rx_dma" \in Channels(spi_call.op)
  /\ spi_call.j < spi_call.r /\ spi_hw.rxf # <<>>
  /\ spi_hw' = [spi_hw EXCEPT !.rxf = Tail(@)]
  /\ spi_call' = [spi_call EXCEPT !.j = @ + 1,
                    !.intact = @ /\ Head(spi_hw.rxf) = spi_call.j + 1]
  /\ UNCHANGED <<spi_drv, spi_reg>>

\* Both futures are ready: the request lines of the method are turned off.
Joined ==
  /\ spi_call.pc = "await"
  /\ spi_call.i = spi_call.w /\ spi_call.j = spi_call.r
  /\ spi_reg' = [spi_reg EXCEPT !.txdma = @ /\ "tx_dma" \notin Channels(spi_call.op),
                                !.rxdma = @ /\ "rx_dma" \notin Channels(spi_call.op)]
  /\ IF WaitsForIdle(spi_call.op) THEN Go("drain") ELSE Return(TRUE)
  /\ UNCHANGED <<spi_drv, spi_hw>>

\* The future is dropped at an await: the channels stop, the request lines stay
\* enabled, and the controller goes on with what its FIFO holds.
DropFuture ==
  /\ spi_call.pc \in {"await", "drain"} /\ IsAsync(spi_call.op)
  /\ Return(FALSE)
  /\ UNCHANGED <<spi_drv, spi_reg, spi_hw>>

(***************************************************************************)
(* The controller, external.                                                *)
(***************************************************************************)
Sends(mode) == mode # "READ_ONLY"
Receives(mode) == mode # "WRITE_ONLY"
SendDone == ~Sends(spi_reg.mode) \/ spi_hw.sent >= spi_reg.wcnt
ReceiveDone == ~Receives(spi_reg.mode) \/ spi_hw.got >= spi_reg.rcnt
Together == spi_reg.mode = "WRITE_READ_TOGETHER"
FrameUnit == IF spi_reg.merge THEN MergeWidth ELSE 1

\* One FIFO entry leaves, one comes in, or both; SCLK stops on an empty
\* transmit or a full receive FIFO.
Frame ==
  /\ spi_hw.active /\ ~(SendDone /\ ReceiveDone)
  /\ LET out == ~SendDone
         in == ~ReceiveDone /\ (Together \/ SendDone)
     IN /\ out => spi_hw.txf # <<>>
        /\ in => Len(spi_hw.rxf) < FifoDepth
        /\ spi_hw' = [spi_hw EXCEPT
             !.sent = IF out THEN @ + FrameUnit ELSE @,
             !.txf = IF out THEN Tail(@) ELSE @,
             !.good = @ /\ (out => /\ Head(spi_hw.txf) * FrameUnit = spi_hw.sent + FrameUnit
                                   /\ spi_reg.len = spi_call.word),
             !.got = IF in THEN @ + 1 ELSE @,
             !.rxf = IF in THEN Append(@, spi_hw.got + 1) ELSE @]
  /\ UNCHANGED <<spi_drv, spi_reg, spi_call>>

FrameEnd ==
  /\ spi_hw.active /\ SendDone /\ ReceiveDone
  /\ spi_hw' = [spi_hw EXCEPT !.active = FALSE, !.sent = 0, !.got = 0]
  /\ UNCHANGED <<spi_drv, spi_reg, spi_call>>

SpiDriver == \/ SetWordSize \/ ConfigureTransfer \/ PushWord \/ PopWord \/ LoopDone
             \/ Drained \/ StartDma \/ Joined
SpiHardware == Frame \/ FrameEnd \/ DmaPush \/ DmaPop
SpiNext == SpiCall \/ SpiDriver \/ SpiHardware \/ DropFuture

SpiFairness == /\ WF_spiVars(SetWordSize) /\ WF_spiVars(ConfigureTransfer)
               /\ WF_spiVars(PushWord) /\ WF_spiVars(PopWord) /\ WF_spiVars(LoopDone)
               /\ WF_spiVars(Drained) /\ WF_spiVars(StartDma) /\ WF_spiVars(Joined)
               /\ WF_spiVars(SpiHardware)
SpiSpec == SpiInit /\ [][SpiNext]_spiVars /\ SpiFairness

(***************************************************************************)
(* Properties.                                                              *)
(***************************************************************************)
\* What a method stores in the caller's buffer are the words of this transfer,
\* in order, also when the one before it was dropped half way.
SpiReceivesOwnWords == spi_call.intact

\* A write or an asynchronous transfer that returns Ok has put all its words on
\* the wire, in order and at their size, and left the bus idle, so that the
\* caller may release chip select: "must wait tx finished, then gpio cs can be
\* changed after function return" (mod.rs:868).  Not so when a merged write
\* was refused earlier, which leaves datamerge set.
SpiSentWhenOk ==
  [][(/\ spi_call.pc \in {Loops, "await", "drain"} /\ spi_call'.ok
      /\ spi_call.op \in {"blocking_write", "datamerge", "write", "transfer"}
      /\ spi_reg.merge <=> spi_call.op = "datamerge")
       => ~spi_hw.active /\ spi_hw.good /\ spi_hw.txf = <<>>]_spiVars

\* Buffers that fit the mode: it sends what there is to send, it reads what
\* there is room for, and the unchecked read length fits its register.
WellFormed(c) ==
  /\ Sends(c.mode) <=> c.w > 0
  /\ Receives(c.mode) <=> c.r > 0
  /\ c.r <= CountMax
  /\ c.mode = "WRITE_READ_TOGETHER" => c.w = c.r
  /\ spi_reg.merge => c.op = "datamerge"

\* Such a method always comes back, whatever was dropped before it.
SpiReturns == (spi_call.pc # "idle" /\ WellFormed(spi_call)) ~> (spi_call.pc = "idle")

============================================================================
