----------------------------- MODULE SpiProofs -----------------------------
(***************************************************************************)
(* Theorems about SpiTransfer, for buffers of any length, FIFOs of any      *)
(* depth, any constructor and any order of calls and of dropped futures.    *)
(***************************************************************************)
EXTENDS SpiTransfer, SequenceTheorems, TLAPS

(***************************************************************************)
(* The inductive invariant.                                                 *)
(***************************************************************************)
Labels == {"idle", "word", "configure", Loops, "start", "await", "drain"}
WriteOps == {"blocking_write", "datamerge", "write", "transfer"}
Ops == WriteOps \cup {"none", "blocking_read", "read", "blocking_transfer", "inplace"}

SpiRegs == [len : Nat, merge : BOOLEAN, mode : Modes, wcnt : Nat, rcnt : Nat,
            txdma : BOOLEAN, rxdma : BOOLEAN]
SpiStates == [active : BOOLEAN, sent : Nat, got : Nat, txf : Seq(Nat), rxf : Seq(Nat),
              good : BOOLEAN]
SpiCalls == [pc : Labels, op : Ops, w : Nat, r : Nat, mode : Modes, word : Nat,
             bad : BadConfigs \cup {FALSE}, i : Nat, j : Nat, ok : BOOLEAN, intact : BOOLEAN]

SpiTypeOK ==
  /\ spi_drv \in [kind : Kinds, word : Nat]
  /\ spi_reg \in SpiRegs
  /\ spi_hw \in SpiStates
  /\ spi_call \in SpiCalls

\* set_word_size comes before configure_transfer, or after it.
SizedFirst == IsAsync(spi_call.op) \/ spi_call.op = "datamerge"
Moving == {Loops, "start", "await", "drain"}

\* The transfer under way is the method's own.
Own == spi_call.pc \in Moving \/ (spi_call.pc = "word" /\ ~SizedFirst)

\* What the receive FIFO holds follows what the method has read.
Receiving ==
  /\ \A k \in 1 .. Len(spi_hw.rxf) : spi_hw.rxf[k] = spi_call.j + k
  /\ spi_hw.active => spi_hw.got = spi_call.j + Len(spi_hw.rxf)

RxInv ==
  /\ spi_call.intact
  /\ spi_call.pc \in {"word", "configure", "start"} => spi_call.i = 0 /\ spi_call.j = 0
  /\ Own => Receiving

\* What the transmit FIFO holds follows what was sent, and the transfer is over
\* only when that is everything.
Sending ==
  /\ spi_reg.mode = spi_call.mode
  /\ spi_reg.wcnt = CountRead(spi_call.w)
  /\ spi_call.w <= CountMax
  /\ spi_call.i <= Entries(spi_call.w)
  /\ spi_hw.good
  /\ spi_hw.active =>
       /\ spi_hw.sent = (spi_call.i - Len(spi_hw.txf)) * Unit
       /\ Len(spi_hw.txf) <= spi_call.i
       /\ \A k \in 1 .. Len(spi_hw.txf) : spi_hw.txf[k] = spi_call.i - Len(spi_hw.txf) + k
  /\ ~spi_hw.active => spi_hw.txf = <<>> /\ spi_call.i = Entries(spi_call.w)

\* Words are merged in the method that asks for it, and in no other.
Merged == spi_reg.merge <=> spi_call.op = "datamerge"

TxInv ==
  /\ spi_reg.len = spi_drv.word
  /\ spi_call.pc # "idle" => ~spi_call.ok
  /\ spi_call.op \in WriteOps => Sends(spi_call.mode)
  /\ (spi_call.pc \in Moving \/ (spi_call.pc = "configure" /\ SizedFirst))
       => spi_drv.word = spi_call.word
  /\ (Own /\ spi_call.op \in WriteOps /\ Merged) => Sending

SpiInv == SpiTypeOK /\ RxInv /\ TxInv

(***************************************************************************)
(* The arithmetic of FIFO entries.                                          *)
(***************************************************************************)
\* Entries of u bytes that n bytes take: no fewer hold them.
LEMMA EntriesOf ==
  ASSUME NEW n \in Nat, NEW u \in Nat \ {0}
  PROVE  /\ (n + u - 1) \div u \in Nat
         /\ \A k \in Nat : k * u >= n => k >= (n + u - 1) \div u
<1> DEFINE x == n + u - 1
           e == x \div u
<1>1. x \in Nat
  OBVIOUS
<1>2. e \in Nat /\ x >= u * e
  <2> HIDE DEF x
  <2> QED
    BY <1>1, Z3
<1> HIDE DEF e
<1>3. ASSUME NEW k \in Nat, k * u >= n PROVE k >= e
  <2>1. SUFFICES ASSUME k + 1 <= e PROVE FALSE
    BY <1>2
  <2>2. u * (k + 1) <= u * e
    BY <1>2, <2>1, Z3
  <2>3. u * (k + 1) = k * u + u
    BY Z3
  <2>4. k * u \in Nat
    OBVIOUS
  <2> QED
    BY <1>1, <1>2, <1>3, <2>2, <2>3, <2>4
<1> QED
  BY <1>2, <1>3 DEF e, x

\* The units of the method and of the controller, which are the same when the
\* words are merged as the method asks.
LEMMA Units ==
  /\ Unit \in Nat \ {0} /\ FrameUnit \in Nat \ {0}
  /\ Merged => Unit = FrameUnit
  /\ IsAsync(spi_call.op) => Unit = 1
BY SpiAssumption DEF Unit, FrameUnit, Merged, IsAsync

\* A method that DMA moves has one word per entry.
LEMMA OneWordPerEntry ==
  ASSUME IsAsync(spi_call.op), NEW n \in Nat
  PROVE  Entries(n) = n
<1>1. Unit = 1
  BY Units
<1> QED
  BY <1>1 DEF Entries

\* An empty buffer takes no entry.
LEMMA NoEntries == Entries(0) = 0
<1>1. Unit \in Nat \ {0}
  BY Units
<1> QED
  BY <1>1, Z3 DEF Entries

(***************************************************************************)
(* The FIFOs.                                                               *)
(***************************************************************************)
\* A word is taken out of the receive FIFO, by a loop or by DMA: it is the next
\* of this transfer.
LEMMA Popped ==
  ASSUME SpiInv, Own, spi_hw.rxf # <<>>, spi_call.pc \notin {"word", "start"},
         spi_hw' = [spi_hw EXCEPT !.rxf = Tail(@)],
         spi_call' = [spi_call EXCEPT !.j = @ + 1,
                        !.intact = @ /\ Head(spi_hw.rxf) = spi_call.j + 1],
         UNCHANGED <<spi_drv, spi_reg>>
  PROVE  SpiInv'
<1>1. /\ spi_hw.rxf \in Seq(Nat) /\ spi_hw \in SpiStates /\ spi_call \in SpiCalls
      /\ spi_hw.got \in Nat /\ spi_call.j \in Nat
  BY DEF SpiInv, SpiTypeOK, SpiStates, SpiCalls
<1>2. /\ Head(spi_hw.rxf) = spi_hw.rxf[1] /\ Len(spi_hw.rxf) \in Nat \ {0}
      /\ Tail(spi_hw.rxf) \in Seq(Nat) /\ Len(Tail(spi_hw.rxf)) = Len(spi_hw.rxf) - 1
      /\ \A k \in 1 .. Len(Tail(spi_hw.rxf)) : Tail(spi_hw.rxf)[k] = spi_hw.rxf[k + 1]
  BY <1>1, HeadTailProperties
<1>3. Receiving /\ spi_call.intact
  BY DEF SpiInv, RxInv
<1>4. Head(spi_hw.rxf) = spi_call.j + 1
  BY <1>1, <1>2, <1>3 DEF Receiving
<1>5. /\ spi_hw'.rxf = Tail(spi_hw.rxf) /\ spi_hw'.got = spi_hw.got
      /\ spi_hw'.active = spi_hw.active /\ spi_hw'.txf = spi_hw.txf
      /\ spi_hw'.sent = spi_hw.sent /\ spi_hw'.good = spi_hw.good
      /\ spi_hw' \in SpiStates
  BY <1>1, <1>2 DEF SpiStates
<1>6. spi_call' \in SpiCalls /\ spi_call'.j = spi_call.j + 1 /\ spi_call'.intact
  <2>1. spi_call.intact \in BOOLEAN /\ spi_call.j + 1 \in Nat
    BY <1>1 DEF SpiCalls
  <2>2. (spi_call.intact /\ Head(spi_hw.rxf) = spi_call.j + 1) = TRUE
    BY <1>3, <1>4, <2>1
  <2>3. spi_call' = [spi_call EXCEPT !.j = spi_call.j + 1, !.intact = TRUE]
    BY <2>2
  <2> QED
    BY <1>1, <2>1, <2>3 DEF SpiCalls
<1>7. /\ spi_call'.pc = spi_call.pc /\ spi_call'.op = spi_call.op /\ spi_call'.w = spi_call.w
      /\ spi_call'.mode = spi_call.mode /\ spi_call'.word = spi_call.word
      /\ spi_call'.i = spi_call.i /\ spi_call'.ok = spi_call.ok
  BY <1>1 DEF SpiCalls
<1>8. SpiTypeOK'
  BY <1>5, <1>6 DEF SpiInv, SpiTypeOK
<1>9. RxInv'
  <2>0. spi_call'.j = spi_call.j + 1 /\ spi_call.j \in Nat
    BY <1>1, <1>6
  <2>1. Receiving'
    <3>1. Len(spi_hw'.rxf) = Len(spi_hw.rxf) - 1
      BY <1>2, <1>5
    <3>2. ASSUME NEW k \in 1 .. Len(spi_hw'.rxf) PROVE spi_hw'.rxf[k] = spi_call'.j + k
      <4>1. k \in 1 .. Len(Tail(spi_hw.rxf)) /\ k + 1 \in 1 .. Len(spi_hw.rxf) /\ k \in Nat
        BY <1>2, <3>1, <3>2
      <4>2. spi_hw'.rxf[k] = spi_call.j + (k + 1)
        BY <1>2, <1>3, <1>5, <4>1 DEF Receiving
      <4>3. spi_call'.j + k = spi_call.j + (k + 1)
        BY <2>0, <4>1
      <4> QED
        BY <4>2, <4>3
    <3>3. spi_hw'.active => spi_hw'.got = spi_call'.j + Len(spi_hw'.rxf)
      <4>1. spi_hw.active => spi_hw.got = spi_call.j + Len(spi_hw.rxf)
        BY <1>3 DEF Receiving
      <4>2. spi_call'.j + Len(spi_hw'.rxf) = spi_call.j + Len(spi_hw.rxf)
        BY <1>2, <2>0, <3>1
      <4> QED
        BY <1>5, <4>1, <4>2
    <3> QED
      BY <3>2, <3>3 DEF Receiving
  <2>2. spi_call.pc \notin {"word", "configure", "start"}
    BY DEF Own, Moving, Loops
  <2> QED
    BY <1>6, <1>7, <2>1, <2>2 DEF RxInv
<1>10. TxInv'
  BY <1>5, <1>7 DEF SpiInv, TxInv, Own, Moving, SizedFirst, Merged, Sending, Entries, Unit
<1> QED
  BY <1>8, <1>9, <1>10 DEF SpiInv

\* A word is put into the transmit FIFO, by a loop or by DMA: it is the next of
\* the buffer.
LEMMA Pushed ==
  ASSUME SpiInv, Own, spi_call.i < Entries(spi_call.w), spi_call.pc \notin {"word", "start", "drain"},
         spi_hw' = [spi_hw EXCEPT !.txf = Append(@, spi_call.i + 1)],
         spi_call' = [spi_call EXCEPT !.i = @ + 1],
         UNCHANGED <<spi_drv, spi_reg>>
  PROVE  SpiInv'
<1>1. /\ spi_hw.txf \in Seq(Nat) /\ spi_hw \in SpiStates /\ spi_call \in SpiCalls
      /\ spi_hw.sent \in Nat /\ spi_call.i \in Nat /\ spi_call.w \in Nat
  BY DEF SpiInv, SpiTypeOK, SpiStates, SpiCalls
<1>2. /\ Append(spi_hw.txf, spi_call.i + 1) \in Seq(Nat)
      /\ Len(spi_hw.txf) \in Nat
      /\ Len(Append(spi_hw.txf, spi_call.i + 1)) = Len(spi_hw.txf) + 1
      /\ \A k \in 1 .. Len(spi_hw.txf) : Append(spi_hw.txf, spi_call.i + 1)[k] = spi_hw.txf[k]
      /\ Append(spi_hw.txf, spi_call.i + 1)[Len(spi_hw.txf) + 1] = spi_call.i + 1
  BY <1>1, AppendProperties, LenProperties
<1>3. /\ spi_hw'.txf = Append(spi_hw.txf, spi_call.i + 1) /\ spi_hw'.got = spi_hw.got
      /\ spi_hw'.active = spi_hw.active /\ spi_hw'.rxf = spi_hw.rxf
      /\ spi_hw'.sent = spi_hw.sent /\ spi_hw'.good = spi_hw.good
      /\ spi_hw' \in SpiStates
  BY <1>1, <1>2 DEF SpiStates
<1>4. /\ spi_call' \in SpiCalls /\ spi_call'.i = spi_call.i + 1
      /\ spi_call'.pc = spi_call.pc /\ spi_call'.op = spi_call.op /\ spi_call'.w = spi_call.w
      /\ spi_call'.mode = spi_call.mode /\ spi_call'.word = spi_call.word
      /\ spi_call'.j = spi_call.j /\ spi_call'.ok = spi_call.ok
      /\ spi_call'.intact = spi_call.intact
  <2>1. spi_call.i + 1 \in Nat
    BY <1>1
  <2> QED
    BY <1>1, <2>1 DEF SpiCalls
<1>5. SpiTypeOK'
  BY <1>3, <1>4 DEF SpiInv, SpiTypeOK
<1>6. RxInv'
  <2>1. spi_call.pc \notin {"word", "configure", "start"}
    BY DEF Own, Moving, Loops
  <2> QED
    BY <1>3, <1>4, <2>1 DEF SpiInv, RxInv, Own, SizedFirst, Receiving
<1>7. ASSUME spi_call.op \in WriteOps, Merged PROVE Sending'
  <2>1. Sending
    BY <1>7 DEF SpiInv, TxInv
  <2>2. /\ spi_reg'.mode = spi_call'.mode /\ spi_reg'.wcnt = CountRead(spi_call'.w)
        /\ spi_call'.w <= CountMax /\ spi_hw'.good
    BY <1>3, <1>4, <2>1 DEF Sending
  <2>3. Unit' = Unit /\ Entries(spi_call.w)' = Entries(spi_call.w) /\ Unit \in Nat \ {0}
    BY <1>4, Units DEF Unit, Entries
  <2>4. Entries(spi_call.w) \in Nat
    BY <1>1, Units, EntriesOf DEF Entries
  <2>5. spi_call'.i <= Entries(spi_call.w)'
    BY <1>1, <1>4, <2>3, <2>4
  <2>6. spi_hw.active
    BY <1>1, <2>1, <2>4 DEF Sending
  <2>7. /\ spi_hw.sent = (spi_call.i - Len(spi_hw.txf)) * Unit
        /\ Len(spi_hw.txf) <= spi_call.i
        /\ \A k \in 1 .. Len(spi_hw.txf) : spi_hw.txf[k] = spi_call.i - Len(spi_hw.txf) + k
    BY <2>1, <2>6 DEF Sending
  <2>8. Len(spi_hw'.txf) = Len(spi_hw.txf) + 1
    BY <1>2, <1>3
  <2>9. spi_call'.i - Len(spi_hw'.txf) = spi_call.i - Len(spi_hw.txf) /\ Len(spi_hw'.txf) <= spi_call'.i
    BY <1>1, <1>2, <1>4, <2>7, <2>8
  <2>10. ASSUME NEW k \in 1 .. Len(spi_hw'.txf)
         PROVE  spi_hw'.txf[k] = spi_call'.i - Len(spi_hw'.txf) + k
    <3>1. CASE k \in 1 .. Len(spi_hw.txf)
      BY <1>2, <1>3, <2>7, <2>9, <3>1
    <3>2. CASE k = Len(spi_hw.txf) + 1
      BY <1>1, <1>2, <1>3, <1>4, <2>8, <3>2
    <3> QED
      BY <1>2, <2>8, <2>10, <3>1, <3>2
  <2> QED
    BY <1>3, <2>2, <2>3, <2>5, <2>6, <2>7, <2>9, <2>10 DEF Sending
<1>8. TxInv'
  BY <1>4, <1>7 DEF SpiInv, TxInv, Own, Moving, SizedFirst, Merged
<1> QED
  BY <1>5, <1>6, <1>8 DEF SpiInv

\* What a frame does to the FIFOs: one word goes out, one comes in, or both.
LEMMA FrameStep ==
  ASSUME SpiTypeOK, Frame
  PROVE  \E in \in BOOLEAN :
           /\ spi_hw.active /\ spi_hw'.active
           /\ ~SendDone => /\ spi_hw.txf # <<>>
                           /\ spi_hw'.sent = spi_hw.sent + FrameUnit
                           /\ spi_hw'.txf = Tail(spi_hw.txf)
           /\ SendDone => spi_hw'.sent = spi_hw.sent /\ spi_hw'.txf = spi_hw.txf
           /\ in = TRUE => /\ spi_hw'.got = spi_hw.got + 1
                           /\ spi_hw'.rxf = Append(spi_hw.rxf, spi_hw.got + 1)
           /\ in = FALSE => spi_hw'.got = spi_hw.got /\ spi_hw'.rxf = spi_hw.rxf
           /\ (/\ spi_hw.good
               /\ ~SendDone => /\ Head(spi_hw.txf) * FrameUnit = spi_hw.sent + FrameUnit
                               /\ spi_reg.len = spi_call.word) => spi_hw'.good
           /\ spi_hw'.good \in BOOLEAN
           /\ DOMAIN spi_hw' = DOMAIN spi_hw
           /\ spi_hw' = [spi_hw EXCEPT !.sent = spi_hw'.sent, !.txf = spi_hw'.txf,
                           !.good = spi_hw'.good, !.got = spi_hw'.got, !.rxf = spi_hw'.rxf]
<1> DEFINE in == ~ReceiveDone /\ (Together \/ SendDone)
           sent == IF ~SendDone THEN spi_hw.sent + FrameUnit ELSE spi_hw.sent
           txf == IF ~SendDone THEN Tail(spi_hw.txf) ELSE spi_hw.txf
           good == spi_hw.good /\ (~SendDone =>
                     /\ Head(spi_hw.txf) * FrameUnit = spi_hw.sent + FrameUnit
                     /\ spi_reg.len = spi_call.word)
           got == IF in THEN spi_hw.got + 1 ELSE spi_hw.got
           rxf == IF in THEN Append(spi_hw.rxf, spi_hw.got + 1) ELSE spi_hw.rxf
<1>1. /\ spi_hw.active
      /\ ~SendDone => spi_hw.txf # <<>>
      /\ spi_hw' = [spi_hw EXCEPT !.sent = sent, !.txf = txf, !.good = good,
                                  !.got = got, !.rxf = rxf]
  BY Zenon DEF Frame
<1>2. in \in BOOLEAN /\ good \in BOOLEAN
  BY Zenon
<1>3. DOMAIN spi_hw = {"active", "sent", "got", "txf", "rxf", "good"}
  BY DEF SpiTypeOK, SpiStates
<1> HIDE DEF sent, txf, good, got, rxf
<1>4. /\ spi_hw'.active = spi_hw.active /\ spi_hw'.sent = sent /\ spi_hw'.txf = txf
      /\ spi_hw'.good = good /\ spi_hw'.got = got /\ spi_hw'.rxf = rxf
      /\ DOMAIN spi_hw' = DOMAIN spi_hw
  BY <1>1, <1>3
<1>5. spi_hw' = [spi_hw EXCEPT !.sent = spi_hw'.sent, !.txf = spi_hw'.txf,
                   !.good = spi_hw'.good, !.got = spi_hw'.got, !.rxf = spi_hw'.rxf]
  BY <1>1, <1>4
<1>6. /\ in = TRUE => got = spi_hw.got + 1 /\ rxf = Append(spi_hw.rxf, spi_hw.got + 1)
      /\ in = FALSE => got = spi_hw.got /\ rxf = spi_hw.rxf
  BY <1>2 DEF got, rxf
<1>7. /\ ~SendDone => sent = spi_hw.sent + FrameUnit /\ txf = Tail(spi_hw.txf)
      /\ SendDone => sent = spi_hw.sent /\ txf = spi_hw.txf
  BY DEF sent, txf
<1>8. (/\ spi_hw.good
       /\ ~SendDone => /\ Head(spi_hw.txf) * FrameUnit = spi_hw.sent + FrameUnit
                       /\ spi_reg.len = spi_call.word) => good
  BY DEF good
<1> HIDE DEF in
<1>9. /\ spi_hw'.active /\ spi_hw'.good \in BOOLEAN
      /\ good => spi_hw'.good
  BY <1>1, <1>2, <1>4
<1> USE <1>2
<1> WITNESS in \in BOOLEAN
<1> QED
  BY <1>1, <1>4, <1>5, <1>6, <1>7, <1>8, <1>9, Zenon

\* One more entry of u bytes.
LEMMA OneMore ==
  ASSUME NEW d \in Nat, NEW u \in Nat
  PROVE  (d + 1) * u = d * u + u /\ d * u \in Nat
BY Z3

\* A frame keeps both FIFOs in step with the method.
LEMMA FrameKeeps ==
  ASSUME SpiInv, Frame
  PROVE  SpiInv'
<1>0. SpiTypeOK /\ UNCHANGED <<spi_drv, spi_reg, spi_call>>
  BY DEF SpiInv, Frame
<1>1. PICK in \in BOOLEAN :
           /\ spi_hw.active /\ spi_hw'.active
           /\ ~SendDone => /\ spi_hw.txf # <<>>
                           /\ spi_hw'.sent = spi_hw.sent + FrameUnit
                           /\ spi_hw'.txf = Tail(spi_hw.txf)
           /\ SendDone => spi_hw'.sent = spi_hw.sent /\ spi_hw'.txf = spi_hw.txf
           /\ in = TRUE => /\ spi_hw'.got = spi_hw.got + 1
                           /\ spi_hw'.rxf = Append(spi_hw.rxf, spi_hw.got + 1)
           /\ in = FALSE => spi_hw'.got = spi_hw.got /\ spi_hw'.rxf = spi_hw.rxf
           /\ (/\ spi_hw.good
               /\ ~SendDone => /\ Head(spi_hw.txf) * FrameUnit = spi_hw.sent + FrameUnit
                               /\ spi_reg.len = spi_call.word) => spi_hw'.good
           /\ spi_hw'.good \in BOOLEAN
           /\ DOMAIN spi_hw' = DOMAIN spi_hw
           /\ spi_hw' = [spi_hw EXCEPT !.sent = spi_hw'.sent, !.txf = spi_hw'.txf,
                           !.good = spi_hw'.good, !.got = spi_hw'.got, !.rxf = spi_hw'.rxf]
  BY <1>0, FrameStep
<1>2. /\ spi_hw \in SpiStates /\ spi_hw.sent \in Nat /\ spi_hw.got \in Nat
      /\ spi_hw.txf \in Seq(Nat) /\ spi_hw.rxf \in Seq(Nat)
      /\ spi_call.i \in Nat /\ spi_call.j \in Nat /\ spi_call.w \in Nat
  BY <1>0 DEF SpiTypeOK, SpiStates, SpiCalls
<1>3. /\ spi_hw.txf # <<>> => /\ Head(spi_hw.txf) = spi_hw.txf[1]
                             /\ Len(spi_hw.txf) \in Nat \ {0}
                             /\ Tail(spi_hw.txf) \in Seq(Nat)
                             /\ Len(Tail(spi_hw.txf)) = Len(spi_hw.txf) - 1
                             /\ \A k \in 1 .. Len(Tail(spi_hw.txf)) :
                                  Tail(spi_hw.txf)[k] = spi_hw.txf[k + 1]
      /\ Len(spi_hw.txf) \in Nat
  BY <1>2, HeadTailProperties, LenProperties
<1>4. /\ Append(spi_hw.rxf, spi_hw.got + 1) \in Seq(Nat)
      /\ Len(spi_hw.rxf) \in Nat
      /\ Len(Append(spi_hw.rxf, spi_hw.got + 1)) = Len(spi_hw.rxf) + 1
      /\ \A k \in 1 .. Len(spi_hw.rxf) : Append(spi_hw.rxf, spi_hw.got + 1)[k] = spi_hw.rxf[k]
      /\ Append(spi_hw.rxf, spi_hw.got + 1)[Len(spi_hw.rxf) + 1] = spi_hw.got + 1
  <2>1. spi_hw.got + 1 \in Nat
    BY <1>2
  <2> QED
    BY <1>2, <2>1, AppendProperties, LenProperties
<1>5. SpiTypeOK'
  <2>1. spi_hw'.sent \in Nat
    BY <1>1, <1>2, Units
  <2>2. spi_hw'.txf \in Seq(Nat)
    BY <1>1, <1>2, <1>3
  <2>3. spi_hw'.got \in Nat
    BY <1>1, <1>2
  <2>4. spi_hw'.rxf \in Seq(Nat)
    BY <1>1, <1>2, <1>4
  <2>5. spi_hw' \in SpiStates
    BY <1>1, <1>2, <2>1, <2>2, <2>3, <2>4 DEF SpiStates
  <2> QED
    BY <1>0, <2>5 DEF SpiTypeOK
<1>6. ASSUME Receiving PROVE Receiving'
  <2>1. spi_hw.got = spi_call.j + Len(spi_hw.rxf)
    BY <1>1, <1>6 DEF Receiving
  <2>2. \A k \in 1 .. Len(spi_hw.rxf) : spi_hw.rxf[k] = spi_call.j + k
    BY <1>6 DEF Receiving
  <2>3. CASE in = TRUE
    <3>1. Len(spi_hw'.rxf) = Len(spi_hw.rxf) + 1
      BY <1>1, <1>4, <2>3
    <3>2. spi_hw'.got = spi_call.j + Len(spi_hw'.rxf)
      BY <1>1, <1>2, <1>4, <2>1, <2>3, <3>1
    <3>3. ASSUME NEW k \in 1 .. Len(spi_hw'.rxf) PROVE spi_hw'.rxf[k] = spi_call.j + k
      <4>1. CASE k \in 1 .. Len(spi_hw.rxf)
        BY <1>1, <1>4, <2>2, <2>3, <4>1
      <4>2. CASE k = Len(spi_hw.rxf) + 1
        <5>1. spi_hw'.rxf[k] = spi_hw.got + 1
          BY <1>1, <1>4, <2>3, <4>2
        <5>2. spi_hw.got + 1 = spi_call.j + k
          BY <1>2, <1>4, <2>1, <4>2
        <5> QED
          BY <5>1, <5>2
      <4> QED
        BY <1>4, <3>1, <3>3, <4>1, <4>2
    <3> QED
      BY <1>0, <3>2, <3>3 DEF Receiving
  <2>4. CASE in = FALSE
    BY <1>0, <1>1, <2>1, <2>2, <2>4 DEF Receiving
  <2> QED
    BY <2>3, <2>4
<1>7. RxInv'
  BY <1>0, <1>6 DEF SpiInv, RxInv, Own, SizedFirst
<1>8. ASSUME Own, Merged, Sending, SpiInv PROVE Sending'
  <2>0. /\ spi_hw.sent = (spi_call.i - Len(spi_hw.txf)) * Unit
        /\ Len(spi_hw.txf) <= spi_call.i /\ spi_hw.good
        /\ \A k \in 1 .. Len(spi_hw.txf) : spi_hw.txf[k] = spi_call.i - Len(spi_hw.txf) + k
    BY <1>1, <1>8 DEF Sending
  <2>1. Unit' = Unit /\ Entries(spi_call.w)' = Entries(spi_call.w)
    BY <1>0 DEF Unit, Entries
  <2>2. /\ spi_reg'.mode = spi_call'.mode /\ spi_reg'.wcnt = CountRead(spi_call'.w)
        /\ spi_call'.w <= CountMax /\ spi_call'.i <= Entries(spi_call.w)'
    BY <1>0, <1>8, <2>1 DEF Sending
  <2>3. CASE SendDone
    <3>1. spi_hw'.good
      BY <1>1, <2>0, <2>3
    <3> QED
      BY <1>0, <1>1, <2>0, <2>1, <2>2, <2>3, <3>1 DEF Sending
  <2>4. CASE ~SendDone
    <3> DEFINE d == spi_call.i - Len(spi_hw.txf)
    <3>1. /\ spi_hw.txf # <<>> /\ spi_hw'.sent = spi_hw.sent + FrameUnit
          /\ spi_hw'.txf = Tail(spi_hw.txf)
      BY <1>1, <2>4
    <3>2. /\ d \in Nat /\ d = spi_call.i - Len(spi_hw.txf)
          /\ Len(spi_hw'.txf) = Len(spi_hw.txf) - 1 /\ Len(spi_hw.txf) \in Nat \ {0}
      BY <1>2, <1>3, <2>0, <3>1
    <3>3. Unit \in Nat /\ FrameUnit = Unit
      BY <1>8, Units
    <3>4. (d + 1) * Unit = d * Unit + Unit
      BY <3>2, <3>3, OneMore
    <3>5. spi_hw.sent = d * Unit
      BY <2>0
    <3> HIDE DEF d
    <3>6. Head(spi_hw.txf) = d + 1
      <4>1. 1 \in 1 .. Len(spi_hw.txf)
        BY <3>2
      <4>2. spi_hw.txf[1] = d + 1
        BY <2>0, <3>2, <4>1
      <4> QED
        BY <1>3, <3>1, <4>2
    <3>7. spi_call.i - Len(spi_hw'.txf) = d + 1 /\ Len(spi_hw'.txf) <= spi_call.i
      BY <1>2, <2>0, <3>2
    <3>8. spi_hw'.sent = (spi_call.i - Len(spi_hw'.txf)) * Unit
      BY <3>1, <3>3, <3>4, <3>5, <3>7
    <3>9. Head(spi_hw.txf) * FrameUnit = spi_hw.sent + FrameUnit
      BY <3>3, <3>4, <3>5, <3>6
    <3>10. spi_reg.len = spi_call.word
      <4>1. spi_call.i # 0
        BY <1>2, <2>0, <3>2
      <4>2. spi_call.pc \notin {"word", "start"}
        BY <4>1 DEF SpiInv, RxInv
      <4> QED
        BY <1>8, <4>2 DEF SpiInv, TxInv, Own
    <3>11. spi_hw'.good
      BY <1>1, <2>0, <3>9, <3>10
    <3>12. ASSUME NEW k \in 1 .. Len(spi_hw'.txf)
           PROVE  spi_hw'.txf[k] = spi_call.i - Len(spi_hw'.txf) + k
      <4>1. k \in 1 .. Len(Tail(spi_hw.txf)) /\ k + 1 \in 1 .. Len(spi_hw.txf) /\ k \in Nat
        BY <3>1, <3>2
      <4>2. spi_hw'.txf[k] = d + (k + 1)
        BY <1>3, <2>0, <3>1, <3>2, <4>1
      <4>3. d + (k + 1) = d + 1 + k
        BY <3>2, <4>1
      <4> QED
        BY <3>7, <4>2, <4>3
    <3> QED
      BY <1>0, <1>1, <2>1, <2>2, <3>7, <3>8, <3>11, <3>12 DEF Sending
  <2> QED
    BY <2>3, <2>4
<1>9. TxInv'
  <2>1. (Own /\ spi_call.op \in WriteOps /\ Merged)' => Sending'
    BY <1>0, <1>8 DEF SpiInv, TxInv, Own, SizedFirst, Merged
  <2> QED
    BY <1>0, <2>1 DEF SpiInv, TxInv, SizedFirst
<1> QED
  BY <1>5, <1>7, <1>9 DEF SpiInv

(***************************************************************************)
(* The other steps.                                                         *)
(***************************************************************************)
\* A method returns, or its future is dropped: the registers and the FIFOs stay
\* as they are, and nobody's words are in them.
LEMMA Returned ==
  ASSUME SpiInv, NEW ok \in BOOLEAN, Return(ok), UNCHANGED <<spi_drv, spi_hw>>,
         spi_reg' \in SpiRegs, spi_reg'.len = spi_reg.len
  PROVE  SpiInv'
<1>1. /\ spi_call'.pc = "idle" /\ spi_call'.op = "none" /\ spi_call'.intact
      /\ spi_call' \in SpiCalls
  BY DEF Return, Idle, SpiCalls, Labels, Ops, WriteOps, Modes
<1> QED
  BY <1>1 DEF SpiInv, SpiTypeOK, RxInv, TxInv, Own, Moving, SizedFirst, IsAsync, WriteOps, Loops

\* What a method is called with.
LEMMA CallKeeps ==
  ASSUME SpiInv, SpiCall
  PROVE  SpiInv'
<1>1. PICK c \in Writes \cup Reads \cup Transfers, n \in Words \cap WordSizes, bad \in BadConfigs :
        /\ c.op = "transfer" => c.mode = EhMode(c.op)
        /\ spi_call' = [Idle EXCEPT !.op = c.op, !.w = c.w, !.r = c.r, !.mode = c.mode,
                          !.word = n, !.bad = bad,
                          !.pc = IF IsAsync(c.op) \/ c.op = "datamerge" THEN "word"
                                                                       ELSE "configure"]
  BY Zenon DEF SpiCall
<1>2. /\ c.op \in Ops \ {"none"} /\ c.w \in Nat /\ c.r \in Nat /\ c.mode \in Modes
      /\ c.op \in {"blocking_write", "datamerge", "write"} => c.mode = "WRITE_ONLY"
  <2>1. CASE c \in Writes
    <3>1. c.op \in {"blocking_write", "datamerge", "write"} /\ c.w \in Lengths /\ c.r = 0 /\ c.mode = "WRITE_ONLY"
      BY <2>1 DEF Writes
    <3>2. c.w \in Nat /\ c.r \in Nat
      <4>1. Lengths \subseteq Nat /\ 0 \in Nat
        BY SpiAssumption
      <4> QED
        BY <3>1, <4>1
    <3>3. c.op \in Ops \ {"none"} /\ c.mode \in Modes
      BY <3>1 DEF Ops, WriteOps, Modes
    <3> QED
      BY <3>1, <3>2, <3>3
  <2>2. CASE c \in Reads
    <3>1. c.op \in {"blocking_read", "read"} /\ c.w = 0 /\ c.r \in Lengths /\ c.mode = "READ_ONLY"
      BY <2>2 DEF Reads
    <3>2. c.w \in Nat /\ c.r \in Nat
      <4>1. Lengths \subseteq Nat /\ 0 \in Nat
        BY SpiAssumption
      <4> QED
        BY <3>1, <4>1
    <3>3. c.op \in Ops \ {"none"} /\ c.mode \in Modes
      BY <3>1 DEF Ops, WriteOps, Modes
    <3>4. c.op \notin {"blocking_write", "datamerge", "write"}
      BY <3>1
    <3> QED
      BY <3>2, <3>3, <3>4
  <2>3. CASE c \in Transfers
    BY <2>3, SpiAssumption DEF Transfers, Ops, WriteOps
  <2> QED
    BY <2>1, <2>2, <2>3
<1>3. c.op \in WriteOps => Sends(c.mode)
  BY <1>1, <1>2 DEF WriteOps, EhMode, Sends
<1>4. n \in Nat
  BY DEF WordSizes
<1> DEFINE first == IF IsAsync(c.op) \/ c.op = "datamerge" THEN "word" ELSE "configure"
<1>5. first \in {"word", "configure"} /\ (first = "configure" => ~(IsAsync(c.op) \/ c.op = "datamerge"))
      /\ (first = "word" => IsAsync(c.op) \/ c.op = "datamerge")
  BY Zenon
<1>6. spi_call' = [Idle EXCEPT !.op = c.op, !.w = c.w, !.r = c.r, !.mode = c.mode,
                     !.word = n, !.bad = bad, !.pc = first]
  BY <1>1
<1> HIDE DEF first
<1>7. /\ spi_call'.pc = first /\ spi_call'.op = c.op /\ spi_call'.mode = c.mode
      /\ spi_call'.i = 0 /\ spi_call'.j = 0 /\ ~spi_call'.ok /\ spi_call'.intact
  BY <1>6 DEF Idle
<1>8. spi_call' \in SpiCalls
  BY <1>2, <1>4, <1>5, <1>6 DEF Idle, SpiCalls, Labels
<1>9. UNCHANGED <<spi_drv, spi_reg, spi_hw>>
  BY DEF SpiCall
<1>10. ~Own' /\ (spi_call'.pc = "configure" => ~SizedFirst')
  BY <1>5, <1>7 DEF Own, Moving, SizedFirst, Loops
<1>11. SpiTypeOK'
  BY <1>8, <1>9 DEF SpiInv, SpiTypeOK
<1>12. RxInv'
  BY <1>7, <1>10 DEF RxInv
<1>13. TxInv'
  <2>1. spi_call'.pc \notin Moving
    BY <1>5, <1>7 DEF Moving, Loops
  <2> QED
    BY <1>3, <1>7, <1>9, <1>10, <2>1 DEF SpiInv, TxInv
<1> QED
  BY <1>11, <1>12, <1>13 DEF SpiInv

\* The end of a transfer: everything the count asks for has been sent.
LEMMA FrameEndKeeps ==
  ASSUME SpiInv, FrameEnd
  PROVE  SpiInv'
<1>1. /\ spi_hw \in SpiStates /\ spi_hw.txf \in Seq(Nat) /\ spi_hw.sent \in Nat
      /\ spi_call.i \in Nat /\ spi_call.w \in Nat
  BY DEF SpiInv, SpiTypeOK, SpiStates, SpiCalls
<1>2. /\ spi_hw.active /\ SendDone /\ UNCHANGED <<spi_drv, spi_reg, spi_call>>
      /\ spi_hw' = [spi_hw EXCEPT !.active = FALSE, !.sent = 0, !.got = 0]
  BY DEF FrameEnd
<1>3. /\ spi_hw' \in SpiStates /\ ~spi_hw'.active /\ spi_hw'.txf = spi_hw.txf
      /\ spi_hw'.rxf = spi_hw.rxf /\ spi_hw'.good = spi_hw.good
  BY <1>1, <1>2 DEF SpiStates
<1>4. SpiTypeOK'
  BY <1>2, <1>3 DEF SpiInv, SpiTypeOK
<1>5. RxInv'
  BY <1>2, <1>3 DEF SpiInv, RxInv, Own, SizedFirst, Receiving
<1>6. ASSUME spi_call.op \in WriteOps, Sending PROVE Sending'
  <2>1. Unit' = Unit /\ Entries(spi_call.w)' = Entries(spi_call.w)
    BY <1>2 DEF Unit, Entries
  <2> DEFINE d == spi_call.i - Len(spi_hw.txf)
  <2>2. /\ spi_hw.sent = d * Unit /\ Len(spi_hw.txf) <= spi_call.i
        /\ spi_call.i <= Entries(spi_call.w) /\ spi_call.w <= CountMax
        /\ spi_reg.wcnt = CountRead(spi_call.w)
    BY <1>2, <1>6 DEF Sending
  <2>3. Len(spi_hw.txf) \in Nat
    BY <1>1, LenProperties
  <2>4. d \in Nat
    BY <1>1, <2>2, <2>3
  <2>5. Unit \in Nat \ {0} /\ Entries(spi_call.w) \in Nat
        /\ \A k \in Nat : k * Unit >= spi_call.w => k >= Entries(spi_call.w)
    <3>1. Unit \in Nat \ {0}
      BY Units
    <3> QED
      BY <1>1, <3>1, EntriesOf DEF Entries
  <2>6. spi_hw.sent >= spi_reg.wcnt
    BY <1>2, <1>6 DEF SpiInv, TxInv, SendDone, Sending
  <2>7. spi_hw.sent >= spi_call.w
    <3>1. CASE spi_call.w = 0
      BY <1>1, <3>1
    <3>2. CASE spi_call.w # 0
      <4>1. spi_call.w - 1 \in Nat /\ spi_call.w - 1 < CountMax /\ CountMax \in Nat \ {0}
        BY <1>1, <2>2, <3>2, SpiAssumption
      <4>2. (spi_call.w - 1) % CountMax = spi_call.w - 1
        BY <4>1
      <4> QED
        BY <1>1, <2>2, <2>6, <3>2, <4>2 DEF CountRead
    <3> QED
      BY <3>1, <3>2
  <2>8. d >= Entries(spi_call.w)
    <3> HIDE DEF d
    <3> QED
      BY <1>1, <2>2, <2>4, <2>5, <2>7
  <2>9. Len(spi_hw.txf) = 0 /\ spi_call.i = Entries(spi_call.w)
    BY <1>1, <2>2, <2>3, <2>5, <2>8
  <2>10. spi_hw.txf = <<>>
    BY <1>1, <2>9, EmptySeq
  <2> QED
    BY <1>2, <1>3, <1>6, <2>1, <2>2, <2>9, <2>10 DEF Sending
<1>7. TxInv'
  BY <1>2, <1>6 DEF SpiInv, TxInv, Own, SizedFirst, Merged
<1> QED
  BY <1>4, <1>5, <1>7 DEF SpiInv

\* configure_transfer: the controller starts with empty FIFOs and the counts of
\* the method.
LEMMA ConfigureKeeps ==
  ASSUME SpiInv, ConfigureTransfer
  PROVE  SpiInv'
<1>0. /\ spi_reg \in SpiRegs /\ spi_hw \in SpiStates /\ spi_call \in SpiCalls
      /\ spi_call.w \in Nat /\ spi_call.r \in Nat /\ spi_call.mode \in Modes
      /\ spi_call.pc = "configure" /\ UNCHANGED spi_drv /\ spi_call.i = 0 /\ spi_call.j = 0
  BY DEF SpiInv, SpiTypeOK, RxInv, SpiCalls, ConfigureTransfer
<1>1. CASE Refused(spi_call) /\ Return(FALSE) /\ UNCHANGED <<spi_reg, spi_hw>>
  BY <1>0, <1>1, Returned
<1>2. CASE /\ ~Refused(spi_call)
           /\ LET p == Programmed(spi_call)
              IN spi_reg' = [spi_reg EXCEPT !.mode = p.mode, !.wcnt = p.wcnt, !.rcnt = p.rcnt]
           /\ spi_hw' = [Reset(spi_hw) EXCEPT !.active = TRUE, !.sent = 0, !.got = 0,
                           !.good = TRUE]
           /\ Go(IF IsAsync(spi_call.op) \/ spi_call.op = "datamerge" THEN Body(spi_call.op)
                                                                     ELSE "word")
  <2>1. /\ spi_reg' = [spi_reg EXCEPT !.mode = spi_call.mode, !.wcnt = CountRead(spi_call.w),
                                      !.rcnt = CountRead(spi_call.r)]
    BY <1>2 DEF Programmed
  <2>2. ASSUME NEW m \in Nat PROVE CountRead(m) \in Nat
    <3>1. CASE m = 0
      BY <3>1, SpiAssumption DEF CountRead
    <3>2. CASE m # 0
      <4>1. m - 1 \in Nat /\ CountMax \in Nat \ {0}
        BY <3>2, SpiAssumption
      <4>2. (m - 1) % CountMax \in Nat
        BY <4>1
      <4> QED
        BY <3>2, <4>2 DEF CountRead
    <3> QED
      BY <3>1, <3>2
  <2>3. CountRead(spi_call.w) \in Nat /\ CountRead(spi_call.r) \in Nat
    BY <1>0, <2>2
  <2>4. /\ spi_reg' \in SpiRegs /\ spi_reg'.mode = spi_call.mode
        /\ spi_reg'.wcnt = CountRead(spi_call.w) /\ spi_reg'.merge = spi_reg.merge
        /\ spi_reg'.len = spi_reg.len
    BY <1>0, <2>1, <2>3 DEF SpiRegs
  <2>5. /\ spi_hw'.active /\ spi_hw'.sent = 0 /\ spi_hw'.got = 0 /\ spi_hw'.good
        /\ spi_hw'.txf = <<>> /\ spi_hw'.rxf = <<>>
    BY <1>0, <1>2 DEF SpiStates, Reset
  <2>6. spi_hw' \in SpiStates
    <3>1. <<>> \in Seq(Nat)
      OBVIOUS
    <3> QED
      BY <1>0, <1>2, <3>1 DEF SpiStates, Reset
  <2> DEFINE next == IF SizedFirst THEN Body(spi_call.op) ELSE "word"
  <2>7. /\ next \in {Loops, "start", "word"}
        /\ next = "word" <=> ~SizedFirst
        /\ spi_call' = [spi_call EXCEPT !.pc = next]
    <3>1. spi_call' = [spi_call EXCEPT !.pc = next]
      BY <1>2 DEF Go, SizedFirst
    <3>2. Body(spi_call.op) \in {Loops, "start"}
      BY DEF Body
    <3> QED
      BY <3>1, <3>2 DEF Loops
  <2> HIDE DEF next
  <2>8. /\ spi_call' \in SpiCalls /\ spi_call'.pc = next /\ spi_call'.op = spi_call.op
        /\ spi_call'.w = spi_call.w /\ spi_call'.mode = spi_call.mode
        /\ spi_call'.i = 0 /\ spi_call'.j = 0 /\ spi_call'.ok = spi_call.ok
        /\ spi_call'.intact = spi_call.intact /\ spi_call'.word = spi_call.word
    BY <1>0, <2>7 DEF SpiCalls, Labels
  <2>9. SpiTypeOK'
    BY <1>0, <2>4, <2>6, <2>8 DEF SpiInv, SpiTypeOK
  <2>10. RxInv'
    <3>1. Receiving'
      BY <2>5, <2>8 DEF Receiving
    <3> QED
      BY <2>8, <3>1 DEF SpiInv, RxInv
  <2>11. Sending'
    <3>1. spi_call.w <= CountMax
      BY <1>0, <1>2, SpiAssumption DEF Refused
    <3>2. Unit' \in Nat /\ Entries(spi_call.w)' \in Nat
      <4>1. Unit' \in Nat \ {0}
        BY SpiAssumption DEF Unit
      <4> QED
        BY <1>0, <2>8, <4>1, EntriesOf DEF Entries
    <3>4. Len(spi_hw'.txf) = 0 /\ spi_call'.i - Len(spi_hw'.txf) = 0
      <4>1. spi_hw'.txf = <<>> /\ Len(<<>>) = 0 /\ spi_call'.i = 0
        BY <2>5, <2>8, EmptySeq
      <4>2. 0 - 0 = 0
        OBVIOUS
      <4> QED
        BY <4>1, <4>2
    <3>5. (spi_call'.i - Len(spi_hw'.txf)) * Unit' = 0
      BY <3>2, <3>4
    <3>6. Len(spi_hw'.txf) <= spi_call'.i
      BY <2>8, <3>4
    <3>7. spi_call'.i <= Entries(spi_call.w)'
      BY <2>8, <3>2
    <3>8. \A k \in 1 .. Len(spi_hw'.txf) : spi_hw'.txf[k] = spi_call'.i - Len(spi_hw'.txf) + k
      BY <3>4
    <3> QED
      BY <2>4, <2>5, <2>8, <3>1, <3>5, <3>6, <3>7, <3>8 DEF Sending
  <2>12. TxInv'
    <3>1. (spi_call'.pc \in Moving \/ (spi_call'.pc = "configure" /\ SizedFirst')) => spi_drv'.word = spi_call'.word
      <4>1. spi_call'.pc # "configure" /\ (spi_call'.pc \in Moving => SizedFirst)
        BY <2>7, <2>8 DEF Moving, Loops
      <4> QED
        BY <1>0, <2>8, <4>1 DEF SpiInv, TxInv
    <3> QED
      BY <1>0, <2>4, <2>8, <2>11, <3>1 DEF SpiInv, TxInv
  <2> QED
    BY <2>9, <2>10, <2>12 DEF SpiInv
<1> QED
  BY <1>1, <1>2 DEF ConfigureTransfer

\* set_word_size: the driver and the register agree on the size before and
\* after, also when the write is left out because the size is the same.
LEMMA SetWordSizeKeeps ==
  ASSUME SpiInv, SetWordSize
  PROVE  SpiInv'
<1>0. /\ spi_drv \in [kind : Kinds, word : Nat] /\ spi_reg \in SpiRegs
      /\ spi_call \in SpiCalls /\ spi_call.word \in Nat /\ spi_drv.word \in Nat
      /\ spi_call.pc = "word" /\ spi_call.i = 0 /\ spi_call.j = 0 /\ UNCHANGED spi_hw
      /\ spi_reg.len = spi_drv.word /\ spi_reg.merge \in BOOLEAN
  BY DEF SpiInv, SpiTypeOK, SpiCalls, SpiRegs, RxInv, TxInv, SetWordSize
<1>1. spi_drv' = [spi_drv EXCEPT !.word = spi_call.word]
  BY DEF SetWordSize
<1>2. spi_drv' \in [kind : Kinds, word : Nat] /\ spi_drv'.word = spi_call.word
  BY <1>0, <1>1
<1> DEFINE len == IF spi_drv.word = spi_call.word THEN spi_reg.len ELSE spi_call.word
           merge == spi_reg.merge \/ spi_call.op = "datamerge"
<1>3. len = spi_call.word
  BY <1>0
<1>4. merge \in BOOLEAN /\ (spi_call.op # "datamerge" => merge = spi_reg.merge)
  <2>1. merge \in BOOLEAN
    BY Zenon
  <2> QED
    BY <1>0, <2>1
<1>5. spi_reg' = [spi_reg EXCEPT !.len = len, !.merge = merge]
  BY DEF SetWordSize
<1> HIDE DEF len, merge
<1>6. /\ spi_reg' \in SpiRegs /\ spi_reg'.len = spi_call.word /\ spi_reg'.merge = merge
      /\ spi_reg'.mode = spi_reg.mode /\ spi_reg'.wcnt = spi_reg.wcnt
  BY <1>0, <1>3, <1>4, <1>5 DEF SpiRegs
<1> DEFINE next == IF SizedFirst THEN "configure" ELSE Loops
<1>7. /\ next \in {"configure", Loops} /\ (next = "configure" <=> SizedFirst)
      /\ spi_call' = [spi_call EXCEPT !.pc = next]
  BY DEF SetWordSize, Go, SizedFirst, Loops
<1> HIDE DEF next
<1>8. /\ spi_call' \in SpiCalls /\ spi_call'.pc = next /\ spi_call'.op = spi_call.op
      /\ spi_call'.w = spi_call.w /\ spi_call'.mode = spi_call.mode
      /\ spi_call'.i = 0 /\ spi_call'.j = 0 /\ spi_call'.ok = spi_call.ok
      /\ spi_call'.intact = spi_call.intact /\ spi_call'.word = spi_call.word
  BY <1>0, <1>7 DEF SpiCalls, Labels
<1>9. SpiTypeOK'
  BY <1>0, <1>2, <1>6, <1>8 DEF SpiInv, SpiTypeOK
<1>10. SizedFirst' <=> SizedFirst
  BY <1>8 DEF SizedFirst
<1>11. Own' => Own
  BY <1>0, <1>7, <1>8, <1>10 DEF Own, Moving, Loops
<1>12. RxInv'
  BY <1>0, <1>8, <1>11 DEF SpiInv, RxInv, Receiving
<1>13. TxInv'
  <2>1. ASSUME Own', spi_call.op \in WriteOps, Merged' PROVE Sending'
    <3>1. ~SizedFirst
      BY <1>7, <1>8, <1>10, <2>1 DEF Own, Moving, Loops
    <3>2. spi_call.op # "datamerge" /\ Merged
      BY <1>4, <1>6, <1>8, <2>1, <3>1 DEF SizedFirst, Merged
    <3>3. Sending
      BY <1>11, <2>1, <3>2 DEF SpiInv, TxInv
    <3>4. Unit' = Unit /\ Entries(spi_call.w)' = Entries(spi_call.w)
      BY <1>8 DEF Unit, Entries
    <3>5. spi_call'.i = spi_call.i
      BY <1>0, <1>8
    <3> QED
      BY <1>0, <1>6, <1>8, <3>3, <3>4, <3>5 DEF Sending
  <2>2. spi_call'.pc # "idle" => ~spi_call'.ok
    BY <1>0, <1>8 DEF SpiInv, TxInv
  <2> QED
    BY <1>2, <1>6, <1>8, <2>1, <2>2 DEF SpiInv, TxInv
<1> QED
  BY <1>9, <1>12, <1>13 DEF SpiInv

\* The method goes on, with nothing changed but where it is and the DMA
\* enables.
LEMMA Advanced ==
  ASSUME SpiInv, NEW label \in {"await", "drain"}, Go(label), UNCHANGED <<spi_drv, spi_hw>>,
         spi_call.pc \in Moving, spi_reg' \in SpiRegs, spi_reg'.len = spi_reg.len,
         spi_reg'.mode = spi_reg.mode, spi_reg'.wcnt = spi_reg.wcnt, spi_reg'.merge = spi_reg.merge
  PROVE  SpiInv'
<1>1. spi_call \in SpiCalls
  BY DEF SpiInv, SpiTypeOK
<1>2. /\ spi_call' \in SpiCalls /\ spi_call'.pc = label /\ spi_call'.op = spi_call.op
      /\ spi_call'.w = spi_call.w /\ spi_call'.mode = spi_call.mode
      /\ spi_call'.i = spi_call.i /\ spi_call'.j = spi_call.j /\ spi_call'.ok = spi_call.ok
      /\ spi_call'.intact = spi_call.intact /\ spi_call'.word = spi_call.word
  BY <1>1 DEF Go, SpiCalls, Labels
<1>3. SpiTypeOK'
  BY <1>2 DEF SpiInv, SpiTypeOK
<1>4. Own
  BY DEF Own
<1>5. RxInv'
  BY <1>2, <1>4 DEF SpiInv, RxInv, Receiving
<1>6. ASSUME Sending PROVE Sending'
  <2>1. Unit' = Unit /\ Entries(spi_call.w)' = Entries(spi_call.w)
    BY <1>2 DEF Unit, Entries
  <2> QED
    BY <1>2, <1>6, <2>1 DEF Sending
<1>7. (spi_call.op \in WriteOps /\ Merged)' => Sending'
  BY <1>2, <1>4, <1>6 DEF SpiInv, TxInv, Merged
<1>8. TxInv'
  <2>1. spi_call.pc # "idle"
    BY DEF Moving, Loops
  <2> QED
    BY <1>2, <1>4, <1>7, <2>1 DEF SpiInv, TxInv
<1> QED
  BY <1>3, <1>5, <1>8 DEF SpiInv

\* Every step keeps the invariant.
LEMMA SpiStep ==
  ASSUME SpiInv, [SpiNext]_spiVars
  PROVE  SpiInv'
<1>0. /\ spi_reg \in SpiRegs /\ spi_call \in SpiCalls /\ spi_reg.merge \in BOOLEAN
      /\ spi_reg.txdma \in BOOLEAN /\ spi_reg.rxdma \in BOOLEAN /\ spi_call.w \in Nat
  BY DEF SpiInv, SpiTypeOK, SpiRegs, SpiCalls
<1>1. CASE SpiCall
  BY <1>1, CallKeeps
<1>2. CASE SetWordSize
  BY <1>2, SetWordSizeKeeps
<1>3. CASE ConfigureTransfer
  BY <1>3, ConfigureKeeps
<1>4. CASE PushWord
  <2>1. Own /\ spi_call.pc \notin {"word", "start", "drain"}
    BY <1>4 DEF PushWord, Own, Moving, Loops
  <2> QED
    BY <1>4, <2>1, Pushed DEF PushWord
<1>5. CASE DmaPush
  <2>1. Own /\ spi_call.pc \notin {"word", "start", "drain"} /\ IsAsync(spi_call.op)
    BY <1>5 DEF DmaPush, Own, Moving, Channels, IsAsync
  <2>2. spi_call.i < Entries(spi_call.w)
    BY <1>0, <1>5, <2>1, OneWordPerEntry DEF DmaPush
  <2> QED
    BY <1>5, <2>1, <2>2, Pushed DEF DmaPush
<1>6. CASE PopWord
  <2>1. Own /\ spi_call.pc \notin {"word", "start"}
    BY <1>6 DEF PopWord, Own, Moving, Loops
  <2> QED
    BY <1>6, <2>1, Popped DEF PopWord
<1>7. CASE DmaPop
  <2>1. Own /\ spi_call.pc \notin {"word", "start"}
    BY <1>7 DEF DmaPop, Own, Moving
  <2> QED
    BY <1>7, <2>1, Popped DEF DmaPop
<1>8. CASE LoopDone
  <2>1. spi_call.pc \in Moving
    BY <1>8 DEF LoopDone, Moving
  <2>2. Go("drain") \/ Return(TRUE)
    BY <1>8 DEF LoopDone
  <2> QED
    BY <1>0, <1>8, <2>1, <2>2, Advanced, Returned DEF LoopDone
<1>9. CASE Drained
  <2>1. spi_reg' \in SpiRegs /\ spi_reg'.len = spi_reg.len
    <3> DEFINE merge == spi_reg.merge /\ spi_call.op # "datamerge"
    <3>1. merge \in BOOLEAN
      BY Zenon
    <3>2. spi_reg' = [spi_reg EXCEPT !.merge = merge]
      BY <1>9 DEF Drained
    <3> HIDE DEF merge
    <3> QED
      BY <1>0, <3>1, <3>2 DEF SpiRegs
  <2> QED
    BY <1>9, <2>1, Returned DEF Drained
<1>10. ASSUME NEW tx \in BOOLEAN, NEW rx \in BOOLEAN,
              spi_reg' = [spi_reg EXCEPT !.txdma = tx, !.rxdma = rx]
       PROVE  /\ spi_reg' \in SpiRegs /\ spi_reg'.len = spi_reg.len
              /\ spi_reg'.mode = spi_reg.mode /\ spi_reg'.wcnt = spi_reg.wcnt
              /\ spi_reg'.merge = spi_reg.merge
  BY <1>0, <1>10 DEF SpiRegs
<1>11. CASE StartDma
  <2> DEFINE tx == spi_reg.txdma \/ "tx_dma" \in Channels(spi_call.op)
             rx == spi_reg.rxdma \/ "rx_dma" \in Channels(spi_call.op)
  <2>1. tx \in BOOLEAN /\ rx \in BOOLEAN
    BY Zenon
  <2>2. spi_reg' = [spi_reg EXCEPT !.txdma = tx, !.rxdma = rx]
    BY <1>11 DEF StartDma
  <2>3. spi_call.pc \in Moving /\ Go("await") /\ UNCHANGED <<spi_drv, spi_hw>>
    BY <1>11 DEF StartDma, Moving
  <2> HIDE DEF tx, rx
  <2> QED
    BY <1>10, <2>1, <2>2, <2>3, Advanced
<1>12. CASE Joined
  <2> DEFINE tx == spi_reg.txdma /\ "tx_dma" \notin Channels(spi_call.op)
             rx == spi_reg.rxdma /\ "rx_dma" \notin Channels(spi_call.op)
  <2>1. tx \in BOOLEAN /\ rx \in BOOLEAN
    BY Zenon
  <2>2. spi_reg' = [spi_reg EXCEPT !.txdma = tx, !.rxdma = rx]
    BY <1>12 DEF Joined
  <2>3. /\ spi_call.pc \in Moving /\ UNCHANGED <<spi_drv, spi_hw>>
        /\ Go("drain") \/ Return(TRUE)
    BY <1>12 DEF Joined, Moving
  <2> HIDE DEF tx, rx
  <2>4. /\ spi_reg' \in SpiRegs /\ spi_reg'.len = spi_reg.len
        /\ spi_reg'.mode = spi_reg.mode /\ spi_reg'.wcnt = spi_reg.wcnt
        /\ spi_reg'.merge = spi_reg.merge
    BY <1>10, <2>1, <2>2
  <2> QED
    BY <2>3, <2>4, Advanced, Returned
<1>13. CASE Frame
  BY <1>13, FrameKeeps
<1>14. CASE FrameEnd
  BY <1>14, FrameEndKeeps
<1>15. CASE DropFuture
  BY <1>0, <1>15, Returned DEF DropFuture
<1>16. CASE UNCHANGED spiVars
  BY <1>16 DEF spiVars, SpiInv, SpiTypeOK, RxInv, TxInv, Own, SizedFirst, Receiving, Merged,
               Sending, Entries, Unit
<1> QED
  BY <1>1, <1>2, <1>3, <1>4, <1>5, <1>6, <1>7, <1>8, <1>9, <1>11, <1>12, <1>13, <1>14, <1>15,
     <1>16 DEF SpiNext, SpiDriver, SpiHardware

\* The invariant holds of a new driver.
LEMMA SpiStart == SpiInit => SpiInv
<1> SUFFICES ASSUME SpiInit PROVE SpiInv
  OBVIOUS
<1>1. spi_drv \in [kind : Kinds, word : Nat] /\ spi_drv.word = 8
  BY DEF SpiInit
<1>2. spi_reg \in SpiRegs /\ spi_reg.len = 8
  BY DEF SpiInit, SpiRegs, Modes
<1>3. spi_hw \in SpiStates
  <2>1. <<>> \in Seq(Nat)
    OBVIOUS
  <2> QED
    BY <2>1 DEF SpiInit, SpiStates
<1>4. /\ spi_call \in SpiCalls /\ spi_call.pc = "idle" /\ spi_call.op = "none"
      /\ spi_call.intact
  BY DEF SpiInit, Idle, SpiCalls, Labels, Ops, WriteOps, Modes
<1>5. ~Own /\ spi_call.op \notin WriteOps /\ spi_call.pc \notin Moving \cup {"configure"}
  BY <1>4 DEF Own, WriteOps, Moving, Loops
<1> QED
  BY <1>1, <1>2, <1>3, <1>4, <1>5 DEF SpiInv, SpiTypeOK, RxInv, TxInv

\* The invariant holds of every behaviour.
THEOREM SpiCorrect == SpiSpec => []SpiInv
BY SpiStart, SpiStep, PTL DEF SpiSpec

\* What a method stores in the caller's buffer are the words of its own
\* transfer, in order, whatever was called before it and wherever a future of
\* an earlier method was dropped.
THEOREM OwnWordsReceived == SpiSpec => []SpiReceivesOwnWords
<1>1. SpiInv => SpiReceivesOwnWords
  BY DEF SpiInv, RxInv, SpiReceivesOwnWords
<1> QED
  BY <1>1, SpiCorrect, PTL

\* A write or an asynchronous transfer that returns Ok has put all its words on
\* the wire, in order and at their size, and has left the bus idle.
THEOREM SentWhenOk == SpiSpec => SpiSentWhenOk
<1>1. ASSUME SpiInv, [SpiNext]_spiVars, spi_call.pc \in {Loops, "await", "drain"}, spi_call'.ok,
             spi_call.op \in {"blocking_write", "datamerge", "write", "transfer"},
             spi_reg.merge <=> spi_call.op = "datamerge"
      PROVE  ~spi_hw.active /\ spi_hw.good /\ spi_hw.txf = <<>>
  <2>0. ~spi_call.ok /\ spi_call \in SpiCalls /\ spi_call.pc # "idle"
    BY <1>1 DEF SpiInv, SpiTypeOK, TxInv, Loops
  <2>1. Sending
    BY <1>1 DEF SpiInv, TxInv, Own, Moving, Merged, WriteOps
  <2>2. CASE Drained
    BY <2>1, <2>2 DEF Drained, Sending
  <2>3. CASE LoopDone
    BY <1>1, <2>0, <2>3 DEF LoopDone, WaitsForIdle, Go, SpiCalls
  <2>4. CASE Joined
    BY <1>1, <2>0, <2>4 DEF Joined, WaitsForIdle, Go, SpiCalls
  <2>5. CASE SpiCall \/ SetWordSize \/ ConfigureTransfer \/ StartDma
    BY <1>1, <2>5 DEF SpiCall, SetWordSize, ConfigureTransfer, StartDma, Loops
  <2>6. CASE PushWord \/ DmaPush
    <3>1. spi_call'.ok = spi_call.ok
      BY <2>0, <2>6 DEF PushWord, DmaPush, SpiCalls
    <3> QED
      BY <1>1, <2>0, <3>1
  <2>7. CASE PopWord \/ DmaPop
    <3>1. spi_call'.ok = spi_call.ok
      BY <2>0, <2>7 DEF PopWord, DmaPop, SpiCalls
    <3> QED
      BY <1>1, <2>0, <3>1
  <2>8. CASE DropFuture
    BY <1>1, <2>8 DEF DropFuture, Return, Idle
  <2>9. CASE Frame \/ FrameEnd \/ UNCHANGED spiVars
    BY <1>1, <2>0, <2>9 DEF Frame, FrameEnd, spiVars
  <2> QED
    BY <1>1, <2>2, <2>3, <2>4, <2>5, <2>6, <2>7, <2>8, <2>9 DEF SpiNext, SpiDriver, SpiHardware
<1>2. SpiInv /\ [SpiNext]_spiVars =>
        [(/\ spi_call.pc \in {Loops, "await", "drain"} /\ spi_call'.ok
          /\ spi_call.op \in {"blocking_write", "datamerge", "write", "transfer"}
          /\ spi_reg.merge <=> spi_call.op = "datamerge")
           => ~spi_hw.active /\ spi_hw.good /\ spi_hw.txf = <<>>]_spiVars
  BY <1>1
<1> QED
  BY <1>2, SpiCorrect, PTL DEF SpiSpec, SpiSentWhenOk
============================================================================
