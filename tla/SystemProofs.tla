---------------------------- MODULE SystemProofs ----------------------------
(***************************************************************************)
(* Proofs about start-up and the drivers that MCSystem runs.  Each driver's *)
(* property is proved of the driver's own specification, which allows any   *)
(* steps of the others; last, MCSystem is shown to obey all of them.        *)
(***************************************************************************)
EXTENDS MCSystem, TimeProofs, FiniteSetTheorems, SequenceTheorems

(***************************************************************************)
(* UART.  The halves share one clock and one count.                         *)
(***************************************************************************)
TxRx == {"tx", "rx"}
PinNames == {"tx", "cts", "de", "rx", "rts"}

CountOf(live) == IF live = TxRx THEN 2 ELSE IF live = {} THEN 0 ELSE 1

HalvesInv ==
  /\ clk_part \in ClkParts
  /\ uart_live \in SUBSET TxRx
  /\ uart_refs = CountOf(uart_live)
  /\ uart_owned \in [TxRx -> SUBSET PinNames]
  /\ \A h \in TxRx : h \notin uart_live => uart_owned[h] = {}
  /\ uart_live # {} => "URT" \in clk_links
  /\ uart_calls > 0 /\ uart_live = {} => "URT" \notin clk_links

\* Nobody but its driver links the UART.
LEMMA UartLinksItself ==
  ASSUME clk_part \in ClkParts, ClkNext \/ \E r \in DriverResources \ {"URT"} : ClkOn(r)
  PROVE  clk_part' = clk_part /\ ("URT" \in clk_links' <=> "URT" \in clk_links)
<1>1. "URT" \notin Group[clk_part]
  <2>1. clk_part \in {"v53", "v62", "v63", "v67", "v68", "v6e"}
    BY ClkAssumption
  <2>2. /\ Group["v53"] = V53Group /\ Group["v62"] = V62Group /\ Group["v63"] = V63Group
        /\ Group["v67"] = V67Group /\ Group["v68"] = V68Group /\ Group["v6e"] = V6eGroup
    BY DEF Group
  <2>3. /\ "URT" \notin V53Group /\ "URT" \notin V62Group /\ "URT" \notin V67Group
        /\ "URT" \notin V68Group /\ "URT" \notin V6eGroup
    BY DEF V53Group, V62Group, V67Group, V68Group, V6eGroup
  <2>4. "URT" \notin V63Group
    BY <2>3 DEF V63Group
  <2> QED
    BY <2>1, <2>2, <2>3, <2>4
<1>2. CASE LinkGroups
  BY <1>1, <1>2 DEF LinkGroups
<1>3. CASE SetPll
  BY <1>3 DEF SetPll
<1>4. CASE SetPost
  BY <1>4 DEF SetPost
<1>5. CASE SetNodes
  BY <1>5 DEF SetNodes
<1>7. CASE DmaUp
  BY <1>7 DEF DmaUp, DmaControllers
<1>9. ASSUME NEW r \in DriverResources \ {"URT"}, ClkOn(r)
      PROVE  clk_part' = clk_part /\ ("URT" \in clk_links' <=> "URT" \in clk_links)
  BY <1>9 DEF ClkOn
<1> QED
  BY <1>2, <1>3, <1>4, <1>5, <1>7, <1>9 DEF ClkNext

\* A constructor names the pins of at least one half.
LEMMA PinsOfHalves ==
  ASSUME NEW pins \in TxPins \cup RxPins \cup UartPins
  PROVE  /\ pins \in [TxRx -> SUBSET PinNames]
         /\ Halves(pins) \in SUBSET TxRx /\ Halves(pins) # {}
         /\ \A h \in TxRx : h \in Halves(pins) <=> pins[h] # {}
         /\ CountOf(Halves(pins)) = (IF pins.tx # {} /\ pins.rx # {} THEN 2 ELSE 1)
<1>1. /\ pins.tx \in SUBSET PinNames /\ pins.rx \in SUBSET PinNames /\ (pins.tx # {} \/ pins.rx # {})
      /\ pins = [tx |-> pins.tx, rx |-> pins.rx]
  <2>1. CASE pins \in TxPins
    BY <2>1 DEF TxPins, PinNames
  <2>2. CASE pins \in RxPins
    BY <2>2 DEF RxPins, PinNames
  <2>3. CASE pins \in UartPins
    BY <2>3 DEF UartPins, PinNames
  <2> QED
    BY <2>1, <2>2, <2>3
<1>2. pins = [h \in TxRx |-> IF h = "tx" THEN pins.tx ELSE pins.rx]
  BY <1>1 DEF TxRx
<1>3. \A h \in TxRx : h \in Halves(pins) <=> pins[h] # {}
  BY DEF Halves, TxRx
<1>4. Halves(pins) \in SUBSET TxRx /\ Halves(pins) # {}
  BY <1>1, <1>3 DEF Halves, TxRx
<1>5. Halves(pins) = TxRx <=> pins.tx # {} /\ pins.rx # {}
  BY <1>3, <1>4 DEF TxRx
<1> QED
  BY <1>1, <1>2, <1>3, <1>4, <1>5 DEF CountOf

\* Dropping a half counts one down, and the last one unlinks the clock.
LEMMA DropKeepsCount ==
  ASSUME HalvesInv, NEW h \in TxRx, DropHalf(h)
  PROVE  HalvesInv'
<1>1. /\ h \in uart_live /\ uart_live' = uart_live \ {h} /\ uart_refs' = uart_refs - 1
      /\ uart_owned' = [uart_owned EXCEPT ![h] = {}] /\ uart_calls' = uart_calls
  BY DEF DropHalf
<1>2. uart_live \in SUBSET TxRx /\ uart_refs = CountOf(uart_live)
  BY DEF HalvesInv
<1>3. /\ uart_refs = 1 <=> uart_live' = {}
      /\ uart_refs' = CountOf(uart_live')
  <2>1. uart_live = {h} \/ uart_live = TxRx
    BY <1>1, <1>2 DEF TxRx
  <2>2. CASE uart_live = {h}
    <3>1. uart_live' = {} /\ uart_live # TxRx /\ uart_live # {} /\ {} # TxRx
      BY <1>1, <2>2 DEF TxRx
    <3> QED
      BY <1>1, <1>2, <3>1 DEF CountOf
  <2>3. CASE uart_live = TxRx
    <3>1. uart_live' # {} /\ uart_live' # TxRx
      BY <1>1, <2>3 DEF TxRx
    <3> QED
      BY <1>1, <1>2, <2>3, <3>1 DEF CountOf
  <2> QED
    BY <2>1, <2>2, <2>3
<1>4. /\ clk_part' = clk_part
      /\ uart_live' = {} => "URT" \notin clk_links'
      /\ uart_live' # {} => clk_links' = clk_links
  BY <1>3 DEF DropHalf, UnlinkWhen, ClkOff, clkVars
<1>5. uart_owned' \in [TxRx -> SUBSET PinNames] /\ \A k \in TxRx : k \notin uart_live' => uart_owned'[k] = {}
  BY <1>1 DEF HalvesInv
<1> QED
  BY <1>1, <1>2, <1>3, <1>4, <1>5 DEF HalvesInv

\* A constructor counts the halves it makes, or leaves none and no clock.
LEMMA ConstructCounts ==
  ASSUME HalvesInv, NEW c, NEW pins \in TxPins \cup RxPins \cup UartPins, Construct(pins, c)
  PROVE  HalvesInv'
<1>1. CASE Accepted(c)
  <2>1. /\ uart_refs' = (IF pins.tx # {} /\ pins.rx # {} THEN 2 ELSE 1)
        /\ uart_live' = Halves(pins) /\ uart_owned' = pins /\ ClkOn("URT")
    BY <1>1 DEF Construct
  <2>2. clk_part' = clk_part /\ "URT" \in clk_links'
    BY <2>1 DEF ClkOn
  <2> QED
    BY <2>1, <2>2, PinsOfHalves DEF HalvesInv
<1>2. CASE ~Accepted(c)
  <2>1. uart_refs' = 0 /\ uart_live = {} /\ ClkOff("URT") /\ UNCHANGED <<uart_live, uart_owned>>
    BY <1>2 DEF Construct
  <2>2. clk_part' = clk_part /\ "URT" \notin clk_links'
    BY <2>1 DEF ClkOff
  <2> QED
    BY <2>1, <2>2 DEF HalvesInv, CountOf, TxRx
<1> QED
  BY <1>1, <1>2

\* The clock of a UART runs as long as one of its halves exists and is off when
\* the last is gone, its constructor's failure included, whatever the other
\* drivers link and start-up does (drop_tx_rx, new_inner).
THEOREM HalvesShareTheClock == UartSetupSpec => []ClockedWhileLive
<1> DEFINE Others == UNCHANGED uartVars /\ (ClkNext \/ \E r \in DriverResources \ {"URT"} : ClkOn(r))
<1>1. ClkInit /\ UartInit => HalvesInv
  <2> SUFFICES ASSUME ClkInit, UartInit PROVE HalvesInv
    OBVIOUS
  <2>1. uart_owned \in [TxRx -> SUBSET PinNames] /\ \A h \in TxRx : uart_owned[h] = {}
    BY DEF UartInit, TxRx
  <2> QED
    BY <2>1 DEF ClkInit, UartInit, HalvesInv, CountOf, TxRx
<1>2. HalvesInv /\ [UartNext \/ Others]_<<clkVars, uartVars>> => HalvesInv'
  <2> SUFFICES ASSUME HalvesInv, [UartNext \/ Others]_<<clkVars, uartVars>> PROVE HalvesInv'
    OBVIOUS
  <2>1. ASSUME NEW c \in UartConfigs, NEW pins \in TxPins \cup RxPins \cup UartPins, Construct(pins, c)
        PROVE  HalvesInv'
    BY <2>1, ConstructCounts
  <2>2. ASSUME NEW h \in TxRx, DropHalf(h) PROVE HalvesInv'
    BY <2>2, DropKeepsCount
  <2>3. ASSUME NEW c \in UartConfigs, SetConfig(c) PROVE HalvesInv'
    BY <2>3 DEF SetConfig, HalvesInv, clkVars
  <2>4. CASE SendByte
    BY <2>4 DEF SendByte, HalvesInv, clkVars
  <2>5. CASE ErrorInterrupt
    BY <2>5 DEF ErrorInterrupt, HalvesInv, clkVars
  <2>6. CASE Others
    <3>1. clk_part' = clk_part /\ ("URT" \in clk_links' <=> "URT" \in clk_links)
      BY <2>6, UartLinksItself DEF HalvesInv
    <3> QED
      BY <2>6, <3>1 DEF HalvesInv, uartVars
  <2>7. CASE UNCHANGED <<clkVars, uartVars>>
    BY <2>7 DEF HalvesInv, clkVars, uartVars
  <2> QED
    BY <2>1, <2>2, <2>3, <2>4, <2>5, <2>6, <2>7 DEF UartNext, TxRx
<1>3. HalvesInv => ClockedWhileLive
  BY DEF HalvesInv, ClockedWhileLive, TxRx
<1> QED
  BY <1>1, <1>2, <1>3, PTL DEF UartSetupSpec

(***************************************************************************)
(* Converters.  While the constructor of the ADC calibrates, the divider it *)
(* will put back is in `saved`; calibration runs only where the loop polls. *)
(***************************************************************************)
AdcRegs == [div : AdcDividers \cup {0, 1}, clk_on : BOOLEAN, res : Resolutions, end : {1, 13}, nowait : BOOLEAN,
            bus : BOOLEAN, ahb : BOOLEAN, calon : BOOLEAN, params : BOOLEAN, prd : {0, 5},
            valid : BOOLEAN, cflct : BOOLEAN]
AdcSteps == {"none", "startcal", "calon", "open", "store", "ready", "reading", "panicked"}
AdcCalls == [pc : AdcSteps, saved : AdcDividers \cup {0, 1}, rounds : 0 .. 4]
DacValues == {0, 4095}
PointsOfWord == {1, 2}
DacRegs == [data : DacValues, mode : DacModes \cup {"none"}, hw : BOOLEAN, dma : BOOLEAN, points : PointsOfWord]

AdcTypes == adc_reg \in AdcRegs /\ adc_call \in AdcCalls /\ adc_asked.res \in Resolutions

Calibrating == {"startcal", "calon", "open", "store"}

AdcInv ==
  /\ AdcTypes
  /\ adc_call.pc \in Calibrating => adc_call.saved = adc_asked.div /\ adc_reg.res = adc_asked.res
  /\ adc_call.pc \in {"startcal", "calon"} => adc_call.rounds < 4
  /\ adc_reg.calon => adc_call.pc = "calon"
  /\ AdcReady

DacInv == dac_bak \in DacRegs /\ DacCommitted

\* Steps of the ADC, each with the DAC left alone.
LEMMA AdcStepsKeep ==
  ASSUME AdcInv,
         \/ \E c \in AdcConfigs : AdcNew(c)
         \/ StartCal \/ CalibrationDone \/ ReadParams \/ OpenConfig \/ StoreParams
         \/ Periodic \/ ReadBus \/ Converted \/ ReadResult
  PROVE  AdcInv' /\ UNCHANGED dacVars
<1> USE DEF AdcTypes
<1>1. ASSUME NEW c \in AdcConfigs, AdcNew(c) PROVE AdcInv' /\ UNCHANGED dacVars
  <2>1. c.div \in AdcDividers /\ c.res \in Resolutions /\ c.nowait \in BOOLEAN /\ adc_call.pc = "none"
    BY <1>1 DEF AdcConfigs, AdcNew
  <2>2. 21 - c.res + 1 \in {1, 13}
    BY <2>1 DEF Resolutions
  <2>3. adc_reg' \in AdcRegs /\ adc_reg'.res = c.res /\ adc_reg'.calon = adc_reg.calon
    BY <1>1, <2>1, <2>2 DEF AdcInv, AdcNew, AdcRegs
  <2>4. adc_call' \in AdcCalls /\ adc_call'.pc = "startcal" /\ adc_call'.saved = c.div /\ adc_call'.rounds = 0
    <3>1. adc_call' = [pc |-> "startcal", saved |-> c.div, rounds |-> 0]
      BY <1>1 DEF AdcNew
    <3>2. "startcal" \in AdcSteps /\ 0 \in 0 .. 4 /\ c.div \in AdcDividers \cup {0, 1}
      BY <2>1 DEF AdcSteps
    <3> QED
      BY <3>1, <3>2 DEF AdcCalls
  <2>5. adc_asked' = c /\ UNCHANGED dacVars
    BY <1>1 DEF AdcNew
  <2>6. adc_reg.calon = FALSE
    BY <2>1 DEF AdcInv, AdcRegs
  <2> QED
    BY <2>1, <2>3, <2>4, <2>5, <2>6 DEF AdcInv, AdcReady, Calibrating
<1>2. CASE StartCal
  <2>1. adc_reg' \in AdcRegs /\ adc_reg'.res = adc_reg.res /\ adc_call.pc = "startcal"
    BY <1>2 DEF AdcInv, StartCal, AdcRegs
  <2>2. /\ adc_call' \in AdcCalls /\ adc_call'.pc = "calon"
        /\ adc_call'.saved = adc_call.saved /\ adc_call'.rounds = adc_call.rounds
    BY <1>2 DEF AdcInv, StartCal, AdcCalls, AdcSteps
  <2> QED
    BY <1>2, <2>1, <2>2 DEF AdcInv, StartCal, AdcReady, Calibrating
<1>3. CASE CalibrationDone
  <2>1. /\ adc_reg' \in AdcRegs /\ adc_reg'.calon = FALSE /\ adc_reg.calon
        /\ adc_reg'.res = adc_reg.res
    BY <1>3 DEF AdcInv, CalibrationDone, AdcRegs
  <2> QED
    BY <1>3, <2>1 DEF AdcInv, CalibrationDone, AdcReady, Calibrating
<1>4. CASE ReadParams
  <2>1. /\ adc_call' \in AdcCalls /\ adc_call'.saved = adc_call.saved
        /\ adc_call'.rounds = adc_call.rounds + 1
        /\ adc_call'.pc = (IF adc_call.rounds < 3 THEN "startcal" ELSE "open")
    <3>1. adc_call \in AdcCalls /\ adc_call.pc = "calon" /\ adc_call.rounds < 4
      BY <1>4 DEF AdcInv, ReadParams
    <3>2. adc_call.rounds \in 0 .. 4
      BY <3>1 DEF AdcCalls
    <3>3. adc_call.rounds + 1 \in 0 .. 4 /\ (IF adc_call.rounds < 3 THEN "startcal" ELSE "open") \in AdcSteps
      BY <3>1, <3>2 DEF AdcSteps
    <3>4. adc_call' = [adc_call EXCEPT !.rounds = adc_call.rounds + 1,
                                       !.pc = IF adc_call.rounds < 3 THEN "startcal" ELSE "open"]
      BY <1>4, <3>1 DEF ReadParams
    <3> QED
      BY <3>1, <3>3, <3>4 DEF AdcCalls
  <2>2. adc_call.rounds \in 0 .. 4
    BY DEF AdcInv, AdcCalls
  <2> QED
    BY <1>4, <2>1, <2>2 DEF AdcInv, ReadParams, AdcReady, Calibrating
<1>5. CASE OpenConfig
  <2>1. /\ adc_reg' \in AdcRegs /\ adc_reg'.res = adc_reg.res /\ adc_reg'.calon = adc_reg.calon
    BY <1>5 DEF AdcInv, OpenConfig, AdcRegs, Div2
  <2>2. adc_call' \in AdcCalls /\ adc_call'.saved = adc_call.saved /\ adc_call'.pc = "store"
    BY <1>5 DEF AdcInv, OpenConfig, AdcCalls, AdcSteps
  <2> QED
    BY <1>5, <2>1, <2>2 DEF AdcInv, OpenConfig, AdcReady, Calibrating
<1>6. CASE StoreParams
  <2>1. /\ adc_reg' \in AdcRegs /\ adc_reg'.res = adc_reg.res /\ adc_reg'.calon = adc_reg.calon
        /\ adc_reg'.div = adc_call.saved /\ adc_reg'.clk_on = FALSE /\ adc_reg'.params = TRUE
    BY <1>6 DEF AdcInv, StoreParams, AdcRegs, AdcCalls
  <2>2. adc_call' \in AdcCalls /\ adc_call'.pc = "ready"
    BY <1>6 DEF StoreParams, AdcIdle, AdcCalls, AdcSteps
  <2> QED
    BY <1>6, <2>1, <2>2 DEF AdcInv, StoreParams, AdcReady, Calibrating
<1>7. CASE Periodic
  <2>1. /\ adc_reg' \in AdcRegs /\ adc_reg'.res = adc_reg.res /\ adc_reg'.calon = adc_reg.calon
        /\ adc_reg'.div = adc_reg.div /\ adc_reg'.clk_on = adc_reg.clk_on
        /\ adc_reg'.params = adc_reg.params
    BY <1>7 DEF AdcInv, Periodic, AdcRegs
  <2> QED
    BY <1>7, <2>1 DEF AdcInv, Periodic, AdcReady, Calibrating
<1>8. CASE ReadBus
  <2>1. /\ adc_reg' \in AdcRegs /\ adc_reg'.res = adc_reg.res /\ adc_reg'.calon = adc_reg.calon
        /\ adc_reg'.div = adc_reg.div /\ adc_reg'.clk_on = adc_reg.clk_on
        /\ adc_reg'.params = adc_reg.params
    BY <1>8 DEF AdcInv, ReadBus, AdcRegs
  <2>2. adc_call' \in AdcCalls /\ adc_call'.pc = "reading"
    BY <1>8 DEF AdcInv, ReadBus, AdcCalls, AdcSteps
  <2> QED
    BY <1>8, <2>1, <2>2 DEF AdcInv, ReadBus, AdcReady, Calibrating
<1>9. CASE Converted
  <2>1. (adc_reg.prd = 0) \in BOOLEAN /\ (adc_reg.prd # 0) \in BOOLEAN
    OBVIOUS
  <2>2. /\ adc_reg' \in AdcRegs /\ adc_reg'.res = adc_reg.res /\ adc_reg'.calon = adc_reg.calon
        /\ adc_reg'.div = adc_reg.div /\ adc_reg'.clk_on = adc_reg.clk_on
        /\ adc_reg'.params = adc_reg.params
    BY <1>9, <2>1 DEF AdcInv, Converted, AdcRegs
  <2> QED
    BY <1>9, <2>2 DEF AdcInv, Converted, AdcReady, Calibrating
<1>10. CASE ReadResult
  <2>1. adc_call' \in AdcCalls /\ adc_call'.pc \in {"ready", "panicked"}
    BY <1>10 DEF AdcInv, ReadResult, AdcCalls, AdcSteps
  <2> QED
    BY <1>10, <2>1 DEF AdcInv, ReadResult, AdcReady, Calibrating
<1> QED
  BY <1>1, <1>2, <1>3, <1>4, <1>5, <1>6, <1>7, <1>8, <1>9, <1>10

\* Steps of the DAC, each with the ADC left alone.
LEMMA DacStepsKeep ==
  ASSUME DacInv,
         \/ \E mode \in DacModes : DacNew(mode)
         \/ \E v \in {0, 4095} : SetValue(v)
         \/ \E start, end \in DacPoints, step \in DacSteps : ConfigureStep(start, end, step)
         \/ Trigger \/ StopBuffers
         \/ \E points \in 1 .. 3, size \in {2, 4} : GiveBuffers(points, size)
  PROVE  DacInv' /\ UNCHANGED adcVars
<1> USE DEF DacInv, DacCommitted, Commit
<1>1. ASSUME NEW mode \in DacModes, DacNew(mode) PROVE DacInv' /\ UNCHANGED adcVars
  <2>1. 0 \in DacValues
    BY DEF DacValues
  <2>2. dac_bak' \in DacRegs /\ dac_bak'.dma = dac_bak.dma
    BY <1>1, <2>1 DEF DacNew, DacRegs
  <2> QED
    BY <1>1, <2>2 DEF DacNew
<1>2. ASSUME NEW v \in {0, 4095}, SetValue(v) PROVE DacInv' /\ UNCHANGED adcVars
  <2>1. v \in DacValues
    BY DEF DacValues
  <2>2. dac_bak' \in DacRegs /\ dac_bak'.dma = dac_bak.dma
    BY <1>2, <2>1 DEF SetValue, DacRegs
  <2> QED
    BY <1>2, <2>2 DEF SetValue
<1>3. ASSUME NEW start \in DacPoints, NEW end \in DacPoints, NEW step \in DacSteps, ConfigureStep(start, end, step)
      PROVE  DacInv' /\ UNCHANGED adcVars
  BY <1>3 DEF ConfigureStep
<1>4. CASE Trigger
  <2>1. dac_bak' = [dac_bak EXCEPT !.hw = FALSE]
    BY <1>4 DEF Trigger
  <2>2. dac_bak' \in DacRegs
    BY <2>1 DEF DacRegs
  <2> QED
    BY <1>4, <2>2 DEF Trigger
<1>5. CASE StopBuffers
  <2>1. dac_bak' \in DacRegs /\ dac_bak'.dma = FALSE
    BY <1>5 DEF StopBuffers, DacRegs
  <2> QED
    BY <1>5, <2>1 DEF StopBuffers
<1>6. ASSUME NEW points \in 1 .. 3, NEW size \in {2, 4}, GiveBuffers(points, size)
      PROVE  DacInv' /\ UNCHANGED adcVars
  <2>1. (4 \div size) \in PointsOfWord
    <3>1. 4 \div 2 = 2 /\ 4 \div 4 = 1
      OBVIOUS
    <3> QED
      BY <3>1 DEF PointsOfWord
  <2>2. dac_bak' \in DacRegs
    BY <1>6, <2>1 DEF GiveBuffers, DacRegs
  <2> QED
    BY <1>6, <2>2 DEF GiveBuffers
<1> QED
  BY <1>1, <1>2, <1>3, <1>4, <1>5, <1>6

\* Between calls both converters work as they were last asked to: the ADC with
\* the divider and resolution of its Config, though calibrate changes the
\* divider for its own accesses, the DAC with the control register its shadow
\* holds, and its buffers are replaced only while its DMA stands still.
THEOREM ConvertersAsAsked == AnaSpec => []AnalogAsAsked
<1> DEFINE AnaInv == AdcInv /\ DacInv
<1>1. AnaInit => AnaInv
  <2> SUFFICES ASSUME AnaInit PROVE AnaInv
    OBVIOUS
  <2>1. adc_reg \in AdcRegs /\ adc_reg.calon = FALSE
    BY DEF AnaInit, AdcRegs, Resolutions
  <2>2. adc_call = [pc |-> "none", saved |-> 0, rounds |-> 0]
    BY DEF AnaInit, AdcIdle
  <2>3. adc_call \in AdcCalls
    BY <2>2 DEF AdcCalls, AdcSteps
  <2>4. AdcInv
    BY <2>1, <2>2, <2>3 DEF AnaInit, AdcInv, AdcTypes, AdcReady, Calibrating, Resolutions
  <2>5. DacInv
    <3>1. 0 \in DacValues /\ 1 \in PointsOfWord
      BY DEF DacValues, PointsOfWord
    <3> QED
      BY <3>1 DEF AnaInit, DacInv, DacRegs, DacCommitted
  <2> QED
    BY <2>4, <2>5
<1>2. AnaInv /\ [AnaNext]_anaVars => AnaInv'
  <2> SUFFICES ASSUME AnaInv, [AnaNext]_anaVars PROVE AnaInv'
    OBVIOUS
  <2>1. ASSUME UNCHANGED dacVars PROVE DacInv'
    BY <2>1 DEF dacVars, DacInv, DacCommitted
  <2>2. ASSUME UNCHANGED adcVars PROVE AdcInv'
    BY <2>2 DEF adcVars, AdcInv, AdcTypes, AdcReady
  <2>3. CASE \/ \E c \in AdcConfigs : AdcNew(c)
             \/ StartCal \/ CalibrationDone \/ ReadParams \/ OpenConfig \/ StoreParams
             \/ Periodic \/ ReadBus \/ Converted \/ ReadResult
    BY <2>1, <2>3, AdcStepsKeep
  <2>4. CASE \/ \E mode \in DacModes : DacNew(mode)
             \/ \E v \in {0, 4095} : SetValue(v)
             \/ \E start, end \in DacPoints, step \in DacSteps : ConfigureStep(start, end, step)
             \/ Trigger \/ StopBuffers
             \/ \E points \in 1 .. 3, size \in {2, 4} : GiveBuffers(points, size)
    BY <2>2, <2>4, DacStepsKeep
  <2>5. CASE UNCHANGED anaVars
    BY <2>1, <2>2, <2>5 DEF anaVars
  <2> QED
    BY <2>3, <2>4, <2>5 DEF AnaNext
<1>3. AnaInv => AnalogAsAsked
  BY DEF AdcInv, DacInv, AnalogAsAsked
<1> QED
  BY <1>1, <1>2, <1>3, PTL DEF AnaSpec

(***************************************************************************)
(* RTC.  The two latches hold one moment, which is among those of the call; *)
(* an alarm being set stands still, and the part that is written is what    *)
(* was asked for.                                                           *)
(***************************************************************************)
Moments == [sec : Nat, sub : Nat]
AlarmRegs == [at : Nat, inc : Nat, en : BOOLEAN]
AlarmAsked == [at : Nat, inc : Nat]
RtcSteps == {"idle", "restore", "latched", "half", "read", "time", "increment", "enable"}
RtcCalls == [pc : RtcSteps, alarm : Alarms, at : Nat, inc : Nat, sec : Nat]

RtcTypes ==
  /\ rtc_count \in Moments /\ rtc_snap \in Moments
  /\ rtc_alarm \in [Alarms -> AlarmRegs] /\ rtc_asked \in [Alarms -> AlarmAsked]
  /\ rtc_call \in RtcCalls

SnapInv ==
  /\ rtc_call.pc \in {"latched", "half"} => rtc_snap \in rtc_seen
  /\ rtc_call.pc = "half" => rtc_call.sec = rtc_snap.sec
  /\ rtc_call.pc = "read" => rtc_seen # {}

AsAsked(a) == rtc_alarm[a].at = rtc_asked[a].at /\ rtc_alarm[a].inc = rtc_asked[a].inc

Scheduling == {"time", "increment", "enable"}

RtcAlarmInv ==
  /\ \A a \in Alarms : rtc_alarm[a].en => AsAsked(a)
  /\ rtc_call.pc \in Scheduling =>
       /\ ~rtc_alarm[rtc_call.alarm].en
       /\ rtc_asked[rtc_call.alarm].at = rtc_call.at
       /\ rtc_asked[rtc_call.alarm].inc = rtc_call.inc
  /\ rtc_call.pc \in {"increment", "enable"} => rtc_alarm[rtc_call.alarm].at = rtc_call.at
  /\ rtc_call.pc = "enable" => rtc_alarm[rtc_call.alarm].inc = rtc_call.inc

RtcInv == RtcTypes /\ SnapInv /\ RtcAlarmInv

\* The invariant is about the clock's own variables.
LEMMA RtcStays ==
  ASSUME RtcInv, UNCHANGED <<rtc_count, rtc_snap, rtc_alarm, rtc_call, rtc_seen, rtc_asked>>
  PROVE  RtcInv'
  BY DEF RtcInv, RtcTypes, SnapInv, RtcAlarmInv, AsAsked, Moments, AlarmRegs, AlarmAsked, RtcCalls

\* The counter may be set between calls, half by half.
LEMMA RestoreKeeps ==
  ASSUME RtcInv,
         \/ \E sec \in 0 .. RtcSeconds - 1, sub \in 0 .. RtcSubs - 1 : Restore(sec, sub)
         \/ \E sec \in 0 .. RtcSeconds - 1 : SetDatetime(sec)
         \/ RestoreSeconds
  PROVE  RtcInv'
<1> DEFINE Between == /\ rtc_call.pc \in {"idle", "restore"} /\ (rtc_call').pc \in {"idle", "restore"}
                      /\ rtc_count' \in Moments /\ rtc_call' \in RtcCalls
                      /\ UNCHANGED <<rtc_snap, rtc_alarm, rtc_asked>>
<1>0. NoRtcCall \in RtcCalls /\ NoRtcCall.pc = "idle"
  BY DEF NoRtcCall, RtcCalls, RtcSteps, Alarms
<1>1. Between
  <2>1. ASSUME NEW sec \in 0 .. RtcSeconds - 1, NEW sub \in 0 .. RtcSubs - 1, Restore(sec, sub)
        PROVE  Between
    <3>1. sec \in Nat /\ sub \in Nat
      BY RtcAssumption
    <3>2. rtc_call' = [NoRtcCall EXCEPT !.pc = "restore", !.sec = sec] /\ rtc_call.pc = "idle"
      BY <2>1 DEF Restore
    <3>3. rtc_call' \in RtcCalls /\ (rtc_call').pc = "restore"
      BY <1>0, <3>1, <3>2 DEF RtcCalls, RtcSteps
    <3>4. rtc_count' \in Moments
      BY <2>1, <3>1 DEF Restore, Moments, RtcInv, RtcTypes
    <3> QED
      BY <2>1, <3>2, <3>3, <3>4 DEF Restore
  <2>2. ASSUME NEW sec \in 0 .. RtcSeconds - 1, SetDatetime(sec)
        PROVE  Between
    <3>1. sec % RtcSubs \in Nat
      BY RtcAssumption
    <3>2. rtc_count' \in Moments
      BY <2>2, <3>1 DEF SetDatetime, Moments, RtcInv, RtcTypes
    <3> QED
      BY <2>2, <3>2 DEF SetDatetime, RtcInv, RtcTypes
  <2>3. CASE RestoreSeconds
    <3>1. rtc_call.sec \in Nat
      BY DEF RtcInv, RtcTypes, RtcCalls
    <3>2. rtc_count' \in Moments
      BY <2>3, <3>1 DEF RestoreSeconds, Moments, RtcInv, RtcTypes
    <3> QED
      BY <1>0, <2>3, <3>2 DEF RestoreSeconds
  <2> QED
    BY <2>1, <2>2, <2>3
<1> QED
  BY <1>1 DEF RtcInv, RtcTypes, SnapInv, RtcAlarmInv, AsAsked, Scheduling

\* What snapshot reads are the latches, whatever the counter does meanwhile.
LEMMA SnapshotKeeps ==
  ASSUME RtcInv, Snapshot
  PROVE  RtcInv'
<1>1. UNCHANGED <<rtc_count, rtc_alarm, rtc_asked>>
  BY DEF Snapshot
<1>2. NoRtcCall \in RtcCalls
  BY DEF NoRtcCall, RtcCalls, RtcSteps, Alarms
<1>3. RtcTypes'
  <2>1. rtc_snap' \in Moments
    BY DEF Snapshot, Latch, RtcInv, RtcTypes
  <2>2. rtc_snap.sec \in Nat
    BY DEF RtcInv, RtcTypes, Moments
  <2>3. rtc_call' \in RtcCalls
    BY <1>2, <2>2 DEF Snapshot, RtcInv, RtcTypes, RtcCalls, RtcSteps
  <2> QED
    BY <1>1, <2>1, <2>3 DEF RtcInv, RtcTypes
<1>4. CASE rtc_call.pc = "idle"
  <2>1. rtc_snap' = rtc_count /\ rtc_seen' = {rtc_count} /\ rtc_call' = [NoRtcCall EXCEPT !.pc = "latched"]
    BY <1>4 DEF Snapshot, Latch
  <2>2. rtc_call'.pc = "latched"
    BY <2>1, <1>2 DEF RtcCalls
  <2> QED
    BY <1>1, <1>3, <2>1, <2>2 DEF RtcInv, SnapInv, RtcAlarmInv, AsAsked, Scheduling
<1>5. CASE rtc_call.pc = "latched"
  <2>1. UNCHANGED <<rtc_snap, rtc_seen>> /\ rtc_call' = [rtc_call EXCEPT !.pc = "half", !.sec = rtc_snap.sec]
    BY <1>5 DEF Snapshot
  <2>2. rtc_call'.pc = "half" /\ rtc_call'.sec = rtc_snap.sec
    BY <2>1 DEF RtcInv, RtcTypes, RtcCalls
  <2> QED
    BY <1>1, <1>3, <1>5, <2>1, <2>2 DEF RtcInv, SnapInv, RtcAlarmInv, AsAsked, Scheduling
<1>6. CASE rtc_call.pc = "half"
  <2>1. /\ rtc_seen' = rtc_seen \cap {[sec |-> rtc_call.sec, sub |-> rtc_snap.sub]}
        /\ rtc_call' = [rtc_call EXCEPT !.pc = "read"]
    BY <1>6 DEF Snapshot
  <2>2. rtc_call'.pc = "read"
    BY <2>1 DEF RtcInv, RtcTypes, RtcCalls
  <2>3. [sec |-> rtc_call.sec, sub |-> rtc_snap.sub] = rtc_snap
    BY <1>6 DEF RtcInv, RtcTypes, SnapInv, Moments
  <2>4. rtc_seen' # {}
    BY <1>6, <2>1, <2>3 DEF RtcInv, SnapInv
  <2> QED
    BY <1>1, <1>3, <2>2, <2>4 DEF RtcInv, SnapInv, RtcAlarmInv, AsAsked, Scheduling
<1>7. CASE rtc_call.pc = "read"
  <2>1. rtc_call'.pc = "idle"
    BY <1>7 DEF Snapshot, NoRtcCall
  <2> QED
    BY <1>1, <1>3, <2>1 DEF RtcInv, SnapInv, RtcAlarmInv, AsAsked, Scheduling
<1> QED
  BY <1>4, <1>5, <1>6, <1>7 DEF Snapshot

\* An alarm turned off takes no part in what is promised.
LEMMA AlarmOff ==
  ASSUME RtcTypes, NEW a \in Alarms
  PROVE  /\ DisableAlarm(a) \in [Alarms -> AlarmRegs]
         /\ ~DisableAlarm(a)[a].en
         /\ \A b \in Alarms : /\ DisableAlarm(a)[b].at = rtc_alarm[b].at
                              /\ DisableAlarm(a)[b].inc = rtc_alarm[b].inc
                              /\ DisableAlarm(a)[b].en => rtc_alarm[b].en /\ b # a
  BY DEF RtcTypes, DisableAlarm, AlarmRegs

\* Only one alarm is being set at a time, and it is off meanwhile.
LEMMA ScheduleKeeps ==
  ASSUME RtcInv, NEW a \in Alarms,
         \/ CancelAlarm(a)
         \/ \E at \in RtcTimes, inc \in RtcIntervals : ScheduleAlarm(a, at, inc)
  PROVE  RtcInv'
<1>1. CASE CancelAlarm(a)
  <2>1. /\ rtc_alarm' = DisableAlarm(a) /\ rtc_call.pc = "idle"
        /\ UNCHANGED <<rtc_count, rtc_snap, rtc_call, rtc_seen, rtc_asked>>
    BY <1>1 DEF CancelAlarm
  <2> QED
    BY <2>1, AlarmOff DEF RtcInv, RtcTypes, SnapInv, RtcAlarmInv, AsAsked, Scheduling
<1>2. ASSUME NEW at \in RtcTimes, NEW inc \in RtcIntervals, ScheduleAlarm(a, at, inc)
      PROVE  RtcInv'
  <2>1. /\ rtc_alarm' = DisableAlarm(a) /\ rtc_call.pc = "idle"
        /\ rtc_call' = [NoRtcCall EXCEPT !.pc = "time", !.alarm = a, !.at = at, !.inc = inc]
        /\ rtc_asked' = [rtc_asked EXCEPT ![a] = [at |-> at, inc |-> inc]]
        /\ UNCHANGED <<rtc_count, rtc_snap, rtc_seen>>
    BY <1>2 DEF ScheduleAlarm
  <2>2. at \in Nat /\ inc \in Nat
    BY RtcAssumption
  <2>3. /\ rtc_call' \in RtcCalls /\ rtc_call'.pc = "time" /\ rtc_call'.alarm = a
        /\ rtc_call'.at = at /\ rtc_call'.inc = inc
    BY <2>1, <2>2 DEF NoRtcCall, RtcCalls, RtcSteps, Alarms
  <2>4. /\ rtc_asked' \in [Alarms -> AlarmAsked]
        /\ rtc_asked'[a].at = at /\ rtc_asked'[a].inc = inc
        /\ \A b \in Alarms : b # a => rtc_asked'[b] = rtc_asked[b]
    BY <2>1, <2>2 DEF RtcInv, RtcTypes, AlarmAsked
  <2>5. RtcTypes' /\ SnapInv'
    BY <2>1, <2>3, <2>4, AlarmOff DEF RtcInv, RtcTypes, SnapInv
  <2>6. RtcAlarmInv'
    BY <2>1, <2>3, <2>4, AlarmOff DEF RtcInv, RtcAlarmInv, AsAsked, Scheduling
  <2> QED
    BY <2>5, <2>6 DEF RtcInv
<1> QED
  BY <1>1, <1>2

\* schedule_alarm writes one register of its alarm after the other.
LEMMA ScheduleStepKeeps ==
  ASSUME RtcInv, ScheduleStep
  PROVE  RtcInv'
<1> DEFINE a == rtc_call.alarm
<1>1. /\ a \in Alarms /\ rtc_call.at \in Nat /\ rtc_call.inc \in Nat
      /\ rtc_call.pc \in Scheduling /\ ~rtc_alarm[a].en
      /\ UNCHANGED <<rtc_count, rtc_snap, rtc_seen, rtc_asked>>
  BY DEF ScheduleStep, RtcInv, RtcTypes, RtcCalls, RtcAlarmInv, Scheduling
<1>2. CASE rtc_call.pc = "time"
  <2>1. rtc_alarm' = [rtc_alarm EXCEPT ![a].at = rtc_call.at] /\ rtc_call' = [rtc_call EXCEPT !.pc = "increment"]
    BY <1>2 DEF ScheduleStep
  <2>2. /\ rtc_call' \in RtcCalls /\ rtc_call'.pc = "increment" /\ rtc_call'.alarm = a
        /\ rtc_call'.at = rtc_call.at /\ rtc_call'.inc = rtc_call.inc
    BY <2>1 DEF RtcInv, RtcTypes, RtcCalls, RtcSteps
  <2>3. /\ rtc_alarm' \in [Alarms -> AlarmRegs]
        /\ rtc_alarm'[a].at = rtc_call.at /\ ~rtc_alarm'[a].en
        /\ \A b \in Alarms : b # a => rtc_alarm'[b] = rtc_alarm[b]
    BY <1>1, <2>1 DEF RtcInv, RtcTypes, AlarmRegs
  <2>4. RtcTypes' /\ SnapInv'
    BY <1>1, <2>2, <2>3 DEF RtcInv, RtcTypes, SnapInv
  <2>5. RtcAlarmInv'
    BY <1>1, <2>2, <2>3 DEF RtcInv, RtcAlarmInv, AsAsked, Scheduling
  <2> QED
    BY <2>4, <2>5 DEF RtcInv
<1>3. CASE rtc_call.pc = "increment"
  <2>1. rtc_alarm' = [rtc_alarm EXCEPT ![a].inc = rtc_call.inc] /\ rtc_call' = [rtc_call EXCEPT !.pc = "enable"]
    BY <1>3 DEF ScheduleStep
  <2>2. /\ rtc_call' \in RtcCalls /\ rtc_call'.pc = "enable" /\ rtc_call'.alarm = a
        /\ rtc_call'.at = rtc_call.at /\ rtc_call'.inc = rtc_call.inc
    BY <2>1 DEF RtcInv, RtcTypes, RtcCalls, RtcSteps
  <2>3. /\ rtc_alarm' \in [Alarms -> AlarmRegs] /\ rtc_alarm'[a].at = rtc_alarm[a].at
        /\ rtc_alarm'[a].inc = rtc_call.inc /\ ~rtc_alarm'[a].en
        /\ \A b \in Alarms : b # a => rtc_alarm'[b] = rtc_alarm[b]
    BY <1>1, <2>1 DEF RtcInv, RtcTypes, AlarmRegs
  <2>4. RtcTypes' /\ SnapInv'
    BY <1>1, <2>2, <2>3 DEF RtcInv, RtcTypes, SnapInv
  <2>5. RtcAlarmInv'
    BY <1>1, <1>3, <2>2, <2>3 DEF RtcInv, RtcAlarmInv, AsAsked, Scheduling
  <2> QED
    BY <2>4, <2>5 DEF RtcInv
<1>4. CASE rtc_call.pc = "enable"
  <2>1. rtc_alarm' = [rtc_alarm EXCEPT ![a].en = TRUE] /\ rtc_call' = NoRtcCall
    BY <1>4 DEF ScheduleStep
  <2>2. rtc_call' \in RtcCalls /\ rtc_call'.pc = "idle"
    BY <2>1 DEF NoRtcCall, RtcCalls, RtcSteps, Alarms
  <2>3. /\ rtc_alarm' \in [Alarms -> AlarmRegs] /\ rtc_alarm'[a].at = rtc_alarm[a].at
        /\ rtc_alarm'[a].inc = rtc_alarm[a].inc
        /\ \A b \in Alarms : b # a => rtc_alarm'[b] = rtc_alarm[b]
    BY <1>1, <2>1 DEF RtcInv, RtcTypes, AlarmRegs
  <2>4. RtcTypes' /\ SnapInv'
    BY <1>1, <2>2, <2>3 DEF RtcInv, RtcTypes, SnapInv
  <2>5. RtcAlarmInv'
    BY <1>1, <1>4, <2>2, <2>3 DEF RtcInv, RtcAlarmInv, AsAsked, Scheduling
  <2> QED
    BY <2>4, <2>5 DEF RtcInv
<1> QED
  BY <1>2, <1>3, <1>4 DEF ScheduleStep

\* An alarm that moves on stays what it was asked to be then.
LEMMA MovedOnAlike ==
  ASSUME NEW x \in AlarmRegs, NEW y \in AlarmAsked
  PROVE  /\ MovedOn(x) \in AlarmRegs /\ MovedOn(y) \in AlarmAsked
         /\ MovedOn(x).en = x.en
         /\ x.at = y.at /\ x.inc = y.inc => MovedOn(x).at = MovedOn(y).at /\ MovedOn(x).inc = MovedOn(y).inc
<1> DEFINE m(n, i) == (n + i) % RtcSeconds
<1>1. \A n, i \in Nat : m(n, i) \in Nat
  BY RtcAssumption
<1>2. x.at \in Nat /\ x.inc \in Nat /\ y.at \in Nat /\ y.inc \in Nat
  BY DEF AlarmRegs, AlarmAsked
<1>3. MovedOn(x) = [x EXCEPT !.at = m(x.at, x.inc)] /\ MovedOn(y) = [y EXCEPT !.at = m(y.at, y.inc)]
  BY DEF MovedOn, AlarmRegs, AlarmAsked
<1>4. m(x.at, x.inc) \in Nat /\ m(y.at, y.inc) \in Nat
  BY <1>1, <1>2
<1>5. x.at = y.at /\ x.inc = y.inc => m(x.at, x.inc) = m(y.at, y.inc)
  OBVIOUS
<1> HIDE DEF m
<1>6. /\ MovedOn(x) \in AlarmRegs /\ MovedOn(x).en = x.en
      /\ MovedOn(x).at = m(x.at, x.inc) /\ MovedOn(x).inc = x.inc
  BY <1>3, <1>4 DEF AlarmRegs
<1>7. /\ MovedOn(y) \in AlarmAsked
      /\ MovedOn(y).at = m(y.at, y.inc) /\ MovedOn(y).inc = y.inc
  BY <1>3, <1>4 DEF AlarmAsked
<1> QED
  BY <1>5, <1>6, <1>7

\* The counter runs during every call; what goes off is enabled, so not being
\* set.
LEMMA TickKeeps ==
  ASSUME RtcInv, RtcTicks
  PROVE  RtcInv'
<1> DEFINE carry == rtc_count.sub + 1 = RtcSubs
           count == [sec |-> (rtc_count.sec + (IF carry THEN 1 ELSE 0)) % RtcSeconds,
                     sub |-> (rtc_count.sub + 1) % RtcSubs]
           due == {a \in Alarms : carry /\ rtc_alarm[a].en /\ rtc_alarm[a].at = count.sec}
<1>1. /\ rtc_count' = count
      /\ rtc_alarm' = [a \in Alarms |-> IF a \in due THEN MovedOn(rtc_alarm[a]) ELSE rtc_alarm[a]]
      /\ rtc_asked' = [a \in Alarms |-> IF a \in due THEN MovedOn(rtc_asked[a]) ELSE rtc_asked[a]]
      /\ rtc_seen' = (IF rtc_call.pc \in {"latched", "half"} THEN rtc_seen \cup {count} ELSE rtc_seen)
      /\ UNCHANGED <<rtc_snap, rtc_call>>
  BY DEF RtcTicks
<1>2. count \in Moments
  <2>1. rtc_count.sec \in Nat /\ rtc_count.sub \in Nat
    BY DEF RtcInv, RtcTypes, Moments
  <2>2. (rtc_count.sec + (IF carry THEN 1 ELSE 0)) % RtcSeconds \in Nat /\ (rtc_count.sub + 1) % RtcSubs \in Nat
    BY <2>1, RtcAssumption
  <2> QED
    BY <2>2 DEF Moments
<1>3. due \subseteq {a \in Alarms : rtc_alarm[a].en}
  OBVIOUS
<1> HIDE DEF count, due, carry
<1>4. \A a \in Alarms : rtc_alarm[a] \in AlarmRegs /\ rtc_asked[a] \in AlarmAsked
  BY DEF RtcInv, RtcTypes
<1>5. rtc_alarm' \in [Alarms -> AlarmRegs] /\ rtc_asked' \in [Alarms -> AlarmAsked]
  BY <1>1, <1>4, MovedOnAlike
<1>6. \A a \in Alarms : /\ rtc_alarm'[a].en <=> rtc_alarm[a].en
                        /\ ~rtc_alarm[a].en => rtc_alarm'[a] = rtc_alarm[a] /\ rtc_asked'[a] = rtc_asked[a]
                        /\ AsAsked(a) => AsAsked(a)'
  <2> SUFFICES ASSUME NEW a \in Alarms
      PROVE  /\ rtc_alarm'[a].en <=> rtc_alarm[a].en
             /\ ~rtc_alarm[a].en => rtc_alarm'[a] = rtc_alarm[a] /\ rtc_asked'[a] = rtc_asked[a]
             /\ AsAsked(a) => AsAsked(a)'
    OBVIOUS
  <2>1. CASE a \in due
    BY <1>1, <1>3, <1>4, <2>1, MovedOnAlike DEF AsAsked
  <2>2. CASE a \notin due
    BY <1>1, <2>2 DEF AsAsked
  <2> QED
    BY <2>1, <2>2
<1>7. RtcTypes'
  BY <1>1, <1>2, <1>5 DEF RtcInv, RtcTypes
<1>8. SnapInv'
  BY <1>1 DEF RtcInv, SnapInv
<1>9. RtcAlarmInv'
  <2>1. rtc_call.alarm \in Alarms
    BY DEF RtcInv, RtcTypes, RtcCalls
  <2> QED
    BY <1>1, <1>6, <2>1 DEF RtcInv, RtcAlarmInv, Scheduling
<1> QED
  BY <1>7, <1>8, <1>9 DEF RtcInv

\* A pair of seconds and subseconds that snapshot or now returns is one moment
\* of the call, and an enabled alarm has the time and the increment of the last
\* call of schedule_alarm, moved on by what has gone off since, though the
\* counter runs and alarms go off between any two register accesses.
THEOREM MomentsAreWhole == SmallSpec => []RtcNoMixture
<1>1. SmallInit => RtcInv
  <2> SUFFICES ASSUME SmallInit PROVE RtcInv
    OBVIOUS
  <2>1. rtc_call \in RtcCalls /\ rtc_call.pc = "idle"
    BY DEF SmallInit, NoRtcCall, RtcCalls, RtcSteps, Alarms
  <2>2. rtc_count \in Moments /\ rtc_snap \in Moments
    BY DEF SmallInit, Zero, Moments
  <2>3. /\ rtc_alarm \in [Alarms -> AlarmRegs] /\ rtc_asked \in [Alarms -> AlarmAsked]
        /\ \A a \in Alarms : ~rtc_alarm[a].en
    BY DEF SmallInit, AlarmRegs, AlarmAsked
  <2> QED
    BY <2>1, <2>2, <2>3 DEF RtcInv, RtcTypes, SnapInv, RtcAlarmInv, Scheduling
<1>2. RtcInv /\ [SmallNext]_smallVars => RtcInv'
  <2> SUFFICES ASSUME RtcInv, [SmallNext]_smallVars PROVE RtcInv'
    OBVIOUS
  <2>1. CASE \/ \E sec \in 0 .. RtcSeconds - 1, sub \in 0 .. RtcSubs - 1 : Restore(sec, sub)
             \/ \E sec \in 0 .. RtcSeconds - 1 : SetDatetime(sec)
             \/ RestoreSeconds
    BY <2>1, RestoreKeeps
  <2>2. CASE Snapshot
    BY <2>2, SnapshotKeeps
  <2>3. ASSUME NEW a \in Alarms, CancelAlarm(a) PROVE RtcInv'
    BY <2>3, ScheduleKeeps
  <2>4. ASSUME NEW a \in Alarms, ClearInterrupt(a) PROVE RtcInv'
    BY <2>4, RtcStays DEF ClearInterrupt
  <2>5. ASSUME NEW a \in Alarms, NEW at \in RtcTimes, NEW inc \in RtcIntervals, ScheduleAlarm(a, at, inc)
        PROVE  RtcInv'
    BY <2>5, ScheduleKeeps
  <2>6. CASE ScheduleStep
    BY <2>6, ScheduleStepKeeps
  <2>7. CASE RtcTicks
    BY <2>7, TickKeeps
  <2>8. CASE RngInit \/ RngSeeded \/ RunSelftest
    BY <2>8, RtcStays DEF RngInit, RngSeeded, RunSelftest, rngRest
  <2>9. ASSUME NEW unit \in SmallUnits, NewUnit(unit) PROVE RtcInv'
    BY <2>9, RtcStays DEF NewUnit
  <2>10. CASE UNCHANGED smallVars
    BY <2>10, RtcStays DEF smallVars
  <2> QED
    BY <2>1, <2>2, <2>3, <2>4, <2>5, <2>6, <2>7, <2>8, <2>9, <2>10 DEF SmallNext
<1>3. RtcInv => RtcNoMixture
  <2> SUFFICES ASSUME RtcInv PROVE RtcNoMixture
    OBVIOUS
  <2>1. ASSUME NEW a \in Alarms, AsAsked(a)
        PROVE  [at |-> rtc_alarm[a].at, inc |-> rtc_alarm[a].inc] = rtc_asked[a]
    <3>1. rtc_asked[a] \in AlarmAsked
      BY DEF RtcInv, RtcTypes
    <3> QED
      BY <2>1, <3>1 DEF AsAsked, AlarmAsked
  <2> QED
    BY <2>1 DEF RtcInv, SnapInv, RtcAlarmInv, RtcNoMixture
<1> QED
  BY <1>1, <1>2, <1>3, PTL DEF SmallSpec

(***************************************************************************)
(* USB.  Where no call was dropped since a reset, a completion flag that    *)
(* nobody waits for exists only for the status stage of endpoint 0, whose   *)
(* next SETUP clears it before it can be taken for the flag of a later      *)
(* stage.  A descriptor that nobody waits for carries no bytes.  A request  *)
(* that is served finds endpoint 0 so.                                      *)
(***************************************************************************)
Buffers == ControlBuffers \cup UNION {UsbBuffers[e] : e \in UsbEndpoints}
Futures == [pc : {"idle", "wait", "zlt"}, buf : Buffers, moved : BOOLEAN]
Lists == {<<>>} \cup {Chain(buf) : buf \in Buffers}
CtrlHalves == [en : BOOLEAN, stall : BOOLEAN]

UsbTypes ==
  /\ usb_ctrl \in [Endpoints -> CtrlHalves]
  /\ usb_fut \in [Endpoints -> Futures]
  /\ usb_prime \in [Endpoints -> Lists]
  /\ usb_done \subseteq Endpoints
  /\ usb_setup \in BOOLEAN

\* Out0 outside a request: the status stage may be under way.
StatusStage == usb_ctl \in {"idle", "setup"}

\* Where the control task is, and who waits on endpoint 0 then.
ControlInv ==
  /\ usb_ctl # "data_out" => usb_fut[Out0].pc = "idle"
  /\ usb_ctl \notin {"data_in", "last", "accept"} => usb_fut[In0].pc = "idle"
  /\ usb_fut[In0].pc # "zlt" /\ usb_fut[Out0].pc # "zlt"
  /\ usb_setup => usb_prime[In0] = <<>> /\ usb_prime[Out0] = <<>>
  /\ ~StatusStage => In0 \notin usb_left /\ Out0 \notin usb_left

PrimeInv == \A e \in Endpoints \ usb_left :
  /\ usb_fut[e].pc = "wait" => usb_prime[e] \in {<<>>, Chain(usb_fut[e].buf)}
  /\ usb_fut[e].pc = "zlt" => usb_prime[e] \in {<<>>, Chain(Empty)}
  /\ usb_fut[e].pc = "idle" /\ (e # Out0 \/ ~StatusStage) => usb_prime[e] = <<>>
  /\ usb_fut[e].pc = "idle" => usb_prime[e] \in {<<>>, Chain(Empty)}
  /\ e[1] # 0 /\ ~usb_ctrl[e].en /\ usb_fut[e].pc # "zlt" => usb_prime[e] = <<>>

FlagInv == \A e \in usb_done \ usb_left :
  /\ usb_fut[e].pc = "idle" => e = Out0 /\ StatusStage
  /\ usb_fut[e].pc # "idle" => usb_prime[e] = <<>> /\ usb_fut[e].moved

UsbInv == UsbTypes /\ ControlInv /\ PrimeInv /\ FlagInv

\* A request enables and disables both halves of an endpoint.
HalvesTogether == \A eps \in UsbGroups : \A c \in eps, e \in Endpoints : c[1] = e[1] => e \in eps

\* The control endpoint is number 0, and no other endpoint is.
LEMMA EndpointFacts ==
  /\ In0 \in Endpoints /\ Out0 \in Endpoints /\ In0 # Out0 /\ In0[1] = 0 /\ Out0[1] = 0
  /\ \A e \in UsbEndpoints : e \in Endpoints /\ e[1] # 0 /\ e # In0 /\ e # Out0
  /\ \A e \in Endpoints : e[1] = 0 => e \in {In0, Out0}
<1>1. In0[1] = 0 /\ Out0[1] = 0 /\ In0[2] = "in" /\ Out0[2] = "out"
  BY DEF In0, Out0
<1>2. \A e \in UsbEndpoints : e[1] \in 1 .. 15
  BY UsbAssumption
<1> QED
  BY <1>1, <1>2 DEF Endpoints

\* A sum of nothing.
LEMMA NoBytes == BytesOf(<<>>) = 0
<1> DEFINE E(f) == f = [n \in 0 .. 0 |-> IF n = 0 THEN 0 ELSE f[n - 1] + <<>>[n].bytes]
           w == [n \in 0 .. 0 |-> 0]
<1>1. E(w)
  OBVIOUS
<1>2. E(CHOOSE f : E(f))
  <2> HIDE DEF E, w
  <2> QED
    BY <1>1
<1>3. BytesOf(<<>>) = (CHOOSE f : E(f))[0]
  BY DEF BytesOf
<1> QED
  BY <1>2, <1>3

\* The sum over a chain of one descriptor.
LEMMA BytesOfOne ==
  ASSUME NEW d, d.bytes \in Nat
  PROVE  BytesOf(<<d>>) = d.bytes
<1> DEFINE E(f) == f = [n \in 0 .. 1 |-> IF n = 0 THEN 0 ELSE f[n - 1] + <<d>>[n].bytes]
           w == [n \in 0 .. 1 |-> IF n = 0 THEN 0 ELSE d.bytes]
<1>1. E(w)
  <2>1. \A n \in 0 .. 1 : n # 0 => n = 1 /\ <<d>>[n].bytes = d.bytes /\ w[n - 1] = 0
    OBVIOUS
  <2>2. \A n \in 0 .. 1 : w[n] = IF n = 0 THEN 0 ELSE w[n - 1] + <<d>>[n].bytes
    BY <2>1
  <2> QED
    BY <2>2
<1>2. E(CHOOSE f : E(f))
  <2> HIDE DEF E, w
  <2> QED
    BY <1>1
<1>3. BytesOf(<<d>>) = (CHOOSE f : E(f))[1]
  BY DEF BytesOf
<1> DEFINE g == CHOOSE f : E(f)
<1>4. g = [n \in 0 .. 1 |-> IF n = 0 THEN 0 ELSE g[n - 1] + <<d>>[n].bytes]
  BY <1>2
<1> HIDE DEF g
<1>5. g[0] = 0 /\ g[1] = g[0] + d.bytes
  BY <1>4
<1> QED
  BY <1>3, <1>5 DEF g

\* Less than two chunks have one whole chunk.
LEMMA OneChunk == \A m \in Nat : m >= 16384 /\ m < 32768 => m \div 16384 = 1
  OBVIOUS

\* A buffer of less than a chunk takes one descriptor; if it is proper, that
\* points to it and ends the list.
LEMMA OneDescriptor ==
  ASSUME NEW buf \in [len : Nat, aligned : BOOLEAN], Proper(buf)
  PROVE  Chain(buf) = <<[bytes |-> buf.len, filled |-> TRUE, last |-> TRUE]>>
<1> DEFINE len == buf.len
           n == IF len = 0 THEN 1 ELSE (len + Chunk - 1) \div Chunk
           given(i) == IF i < n THEN Chunk ELSE len
           filled(i) == given(i) <= Page \/ buf.aligned
<1>0. len \in Nat /\ len < Chunk /\ (len <= Page \/ buf.aligned)
  BY DEF Proper, Chunk, Page
<1>1. n = 1
  <2> DEFINE m == len + Chunk - 1
  <2>2. len # 0 => m \in Nat /\ m >= 16384 /\ m < 32768
    BY <1>0 DEF Chunk
  <2> HIDE DEF m
  <2>3. len # 0 => m \div 16384 = 1
    BY <2>2, OneChunk
  <2>4. Chunk = 16384
    BY DEF Chunk
  <2> QED
    BY <2>3, <2>4 DEF m
<1>2. len % TokenBytes = len /\ len < Chunk
  BY <1>0 DEF Chunk, TokenBytes
<1>3. Chain(buf) = [i \in 1 .. n |-> [bytes |-> given(i) % TokenBytes, filled |-> filled(i),
                                     last |-> filled(i) /\ given(i) < Chunk]]
  BY DEF Chain
<1> DEFINE d == [bytes |-> len, filled |-> TRUE, last |-> TRUE]
<1>4. Chain(buf) = [i \in 1 .. 1 |-> d]
  <2>1. ASSUME NEW i \in 1 .. 1
        PROVE  [bytes |-> given(i) % TokenBytes, filled |-> filled(i), last |-> filled(i) /\ given(i) < Chunk] = d
    <3>1. given(i) = len
      BY <1>1
    <3>2. filled(i) = TRUE /\ (given(i) < Chunk) = TRUE
      BY <1>0, <1>2, <3>1
    <3> HIDE DEF n, given, filled
    <3> QED
      BY <1>2, <3>1, <3>2
  <2> HIDE DEF given, filled, d
  <2> QED
    BY <1>1, <1>3, <2>1
<1> HIDE DEF d
<1>5. [i \in 1 .. 1 |-> d] = <<d>>
  OBVIOUS
<1> QED
  BY <1>4, <1>5 DEF d

\* So its bytes are those of the buffer.
LEMMA ShortChain ==
  ASSUME NEW buf \in [len : Nat, aligned : BOOLEAN], Proper(buf)
  PROVE  /\ Chain(buf) # <<>> /\ BytesOf(Chain(buf)) = buf.len
         /\ \A i \in DOMAIN Chain(buf) : Chain(buf)[i].filled
         /\ Chain(buf)[Len(Chain(buf))].last
<1> DEFINE d == [bytes |-> buf.len, filled |-> TRUE, last |-> TRUE]
<1>1. Chain(buf) = <<d>>
  BY OneDescriptor
<1>2. d.bytes = buf.len /\ d.filled = TRUE /\ d.last = TRUE /\ buf.len \in Nat
  OBVIOUS
<1> HIDE DEF d
<1>3. BytesOf(<<d>>) = buf.len
  BY <1>2, BytesOfOne
<1> QED
  BY <1>1, <1>2, <1>3

\* The buffers are buffers, and a packet is one of them.
LEMMA BufferFacts ==
  /\ Empty \in Buffers /\ Proper(Empty) /\ Empty.len = 0
  /\ Buffers \subseteq [len : Nat, aligned : BOOLEAN]
<1>1. Empty \in ControlBuffers /\ Proper(Empty) /\ Empty.len = 0
  BY DEF ControlBuffers, Empty, Proper, Chunk, Page
<1>2. ControlBuffers \subseteq [len : Nat, aligned : BOOLEAN]
  BY DEF ControlBuffers, Empty
<1>3. \A e \in UsbEndpoints : UsbBuffers[e] \subseteq [len : Nat, aligned : BOOLEAN]
  BY UsbAssumption
<1> QED
  BY <1>1, <1>2, <1>3 DEF Buffers

\* What the invariant is about.
usbCore == <<usb_ctrl, usb_prime, usb_done, usb_setup, usb_fut, usb_ctl, usb_left>>

\* A step that leaves these alone keeps the invariant.
LEMMA UsbStays ==
  ASSUME UsbInv, UNCHANGED usbCore
  PROVE  UsbInv'
  BY DEF usbCore, UsbInv, UsbTypes, ControlInv, PrimeInv, FlagInv, StatusStage

\* A bus reset, and the controller stopped, leave nothing primed and no flag.
LEMMA UsbCleared ==
  ASSUME UsbInv, usb_prime' = [e \in Endpoints |-> <<>>], usb_done' = {}, usb_setup' = FALSE,
         usb_ctrl' \in [Endpoints -> CtrlHalves], usb_left' = {}, UNCHANGED <<usb_fut, usb_ctl>>
  PROVE  UsbInv'
<1>1. \A e \in Endpoints : usb_prime'[e] = <<>>
  OBVIOUS
<1>2. usb_prime' \in [Endpoints -> Lists]
  BY DEF Lists
<1>3. UsbTypes'
  BY <1>2 DEF UsbInv, UsbTypes
<1>4. ControlInv' /\ PrimeInv' /\ FlagInv'
  BY <1>1, EndpointFacts DEF UsbInv, ControlInv, PrimeInv, FlagInv, StatusStage
<1> QED
  BY <1>3, <1>4 DEF UsbInv

\* Only endpoints lose what they were primed with; stall bits change.
LEMMA UsbUnprimed ==
  ASSUME UsbInv, UNCHANGED <<usb_done, usb_fut, usb_left>>, usb_setup' \in BOOLEAN,
         usb_prime' \in [Endpoints -> Lists],
         \A e \in Endpoints : usb_prime'[e] \in {usb_prime[e], <<>>},
         usb_ctrl' \in [Endpoints -> CtrlHalves],
         \A e \in Endpoints : usb_ctrl[e].en /\ ~usb_ctrl'[e].en => usb_prime'[e] = <<>>,
         usb_setup' => usb_setup \/ (usb_prime'[In0] = <<>> /\ usb_prime'[Out0] = <<>>),
         \/ usb_ctl' = usb_ctl
         \/ usb_ctl \in {"idle", "setup"} /\ usb_ctl' \in {"idle", "setup"}
         \/ usb_ctl = "request" /\ usb_ctl' = "idle"
         \/ /\ usb_ctl \in {"data_out", "data_in", "accept"} /\ usb_ctl' \in {"idle", "request"}
            /\ usb_fut[In0].pc = "idle" /\ usb_fut[Out0].pc = "idle"
  PROVE  UsbInv'
<1>1. UsbTypes'
  BY DEF UsbInv, UsbTypes
<1>2. ControlInv'
  BY EndpointFacts DEF UsbInv, ControlInv, StatusStage
<1>3. PrimeInv'
  BY DEF UsbInv, PrimeInv, StatusStage
<1>4. FlagInv'
  BY DEF UsbInv, UsbTypes, FlagInv, StatusStage
<1> QED
  BY <1>1, <1>2, <1>3, <1>4 DEF UsbInv

\* A transfer that starts finds neither a flag nor descriptors of an earlier one.
LEMMA BeginKeeps ==
  ASSUME UsbInv, NEW e \in Endpoints, NEW buf \in Buffers, Begin(e, buf),
         e # Out0 \/ ~StatusStage, e[1] # 0 => usb_ctrl[e].en,
         UNCHANGED <<usb_ctrl, usb_done, usb_setup, usb_left>>,
         \/ e \notin {In0, Out0} /\ usb_ctl' = usb_ctl
         \/ e = Out0 /\ usb_ctl = "request" /\ usb_ctl' = "data_out"
         \/ e = In0 /\ usb_ctl = "request" /\ usb_ctl' \in {"data_in", "last", "accept"}
  PROVE  UsbInv'
<1>1. /\ usb_fut[e].pc = "idle" /\ MayTransfer(e, buf)
      /\ \/ usb_prime' = [usb_prime EXCEPT ![e] = Chain(buf)]
         \/ usb_prime[e] # <<>> /\ usb_prime' = usb_prime
      /\ usb_fut' = [usb_fut EXCEPT ![e] = [pc |-> "wait", buf |-> buf, moved |-> FALSE]]
  BY DEF Begin, Transfer
<1>2. e \notin usb_left => e \notin usb_done /\ usb_prime[e] = <<>>
  BY <1>1 DEF UsbInv, FlagInv, PrimeInv
<1>3. [pc |-> "wait", buf |-> buf, moved |-> FALSE] \in Futures
  BY DEF Futures
<1>4. /\ usb_fut'[e].pc = "wait" /\ usb_fut'[e].buf = buf
      /\ e \notin usb_left => usb_prime'[e] = Chain(buf)
      /\ \A f \in Endpoints : f # e => usb_fut'[f] = usb_fut[f] /\ usb_prime'[f] = usb_prime[f]
  BY <1>1, <1>2 DEF UsbInv, UsbTypes
<1>5. UsbTypes'
  <2>1. usb_prime' \in [Endpoints -> Lists]
    BY <1>1 DEF UsbInv, UsbTypes, Lists
  <2> QED
    BY <1>1, <1>3, <2>1 DEF UsbInv, UsbTypes
<1>6. ControlInv'
  BY <1>1, <1>4, EndpointFacts DEF UsbInv, UsbTypes, ControlInv, MayTransfer, StatusStage
<1>7. PrimeInv'
  <2> SUFFICES ASSUME NEW f \in Endpoints \ usb_left'
      PROVE  /\ usb_fut'[f].pc = "wait" => usb_prime'[f] \in {<<>>, Chain(usb_fut'[f].buf)}
             /\ usb_fut'[f].pc = "zlt" => usb_prime'[f] \in {<<>>, Chain(Empty)}
             /\ usb_fut'[f].pc = "idle" /\ (f # Out0 \/ ~StatusStage') => usb_prime'[f] = <<>>
             /\ usb_fut'[f].pc = "idle" => usb_prime'[f] \in {<<>>, Chain(Empty)}
             /\ f[1] # 0 /\ ~usb_ctrl'[f].en /\ usb_fut'[f].pc # "zlt" => usb_prime'[f] = <<>>
    BY DEF PrimeInv
  <2>1. CASE f = e
    BY <1>4, <2>1
  <2>2. CASE f # e
    BY <1>4, <2>2 DEF UsbInv, PrimeInv, StatusStage
  <2> QED
    BY <2>1, <2>2
<1>8. FlagInv'
  BY <1>2, <1>4 DEF UsbInv, UsbTypes, FlagInv, StatusStage
<1> QED
  BY <1>5, <1>6, <1>7, <1>8 DEF UsbInv

\* A future that is polled takes its own flag, and nothing of its transfer is
\* left when it returns.
LEMMA PollKeeps ==
  ASSUME UsbInv, NEW e \in Endpoints, PollFuture(e)
  PROVE  UsbInv'
<1>1. usb_fut[e].pc \in {"wait", "zlt"} /\ UNCHANGED <<usb_ctrl, usb_setup, usb_ctl, usb_left>>
  BY DEF PollFuture
<1>2. \A d \in Endpoints : d # e => usb_fut'[d] = usb_fut[d] /\ usb_prime'[d] = usb_prime[d]
  BY DEF PollFuture, Completed, Disabled, UsbReturn, Transfer, UsbInv, UsbTypes
<1>3. usb_done' \subseteq usb_done \ {e}
  BY DEF PollFuture, Completed, Disabled, ClearFlag
<1>4. CASE usb_fut' = [usb_fut EXCEPT ![e] = NoFuture] /\ usb_prime' = usb_prime
  <2>1. usb_fut' \in [Endpoints -> Futures] /\ usb_fut'[e].pc = "idle"
    BY <1>4, BufferFacts DEF NoFuture, Futures, UsbInv, UsbTypes
  <2>2. e \notin usb_left => usb_prime[e] = <<>>
    <3> SUFFICES ASSUME e \notin usb_left PROVE usb_prime[e] = <<>>
      OBVIOUS
    <3>1. CASE e \in usb_done
      BY <1>1, <3>1 DEF UsbInv, FlagInv
    <3>2. CASE e \notin usb_done
      <4>1. e[1] # 0 /\ usb_fut[e].pc = "wait" /\ ~usb_ctrl[e].en
        BY <3>2 DEF PollFuture, Completed, Disabled
      <4> QED
        BY <4>1 DEF UsbInv, PrimeInv
    <3> QED
      BY <3>1, <3>2
  <2>3. UsbTypes'
    BY <1>1, <1>3, <1>4, <2>1 DEF UsbInv, UsbTypes
  <2>4. ControlInv'
    BY <1>1, <1>2, <1>4, <2>1, EndpointFacts DEF UsbInv, ControlInv, StatusStage
  <2>5. PrimeInv'
    BY <1>1, <1>2, <1>4, <2>1, <2>2 DEF UsbInv, PrimeInv, StatusStage
  <2>6. FlagInv'
    BY <1>1, <1>2, <1>3, <1>4 DEF UsbInv, UsbTypes, FlagInv, StatusStage
  <2> QED
    BY <2>3, <2>4, <2>5, <2>6 DEF UsbInv
<1>5. CASE ~(usb_fut' = [usb_fut EXCEPT ![e] = NoFuture] /\ usb_prime' = usb_prime)
  <2>1. /\ e[1] # 0 /\ e \in usb_done
        /\ \/ usb_prime' = [usb_prime EXCEPT ![e] = Chain(Empty)]
           \/ usb_prime[e] # <<>> /\ usb_prime' = usb_prime
        /\ usb_fut' = [usb_fut EXCEPT ![e].pc = "zlt", ![e].moved = FALSE]
    BY <1>5 DEF PollFuture, Completed, Disabled, UsbReturn, Transfer
  <2>2. usb_fut' \in [Endpoints -> Futures] /\ usb_fut'[e].pc = "zlt"
    BY <2>1 DEF Futures, UsbInv, UsbTypes
  <2>3. e \notin usb_left => usb_prime'[e] = Chain(Empty)
    <3>1. e \notin usb_left => usb_prime[e] = <<>>
      BY <1>1, <2>1 DEF UsbInv, FlagInv
    <3> QED
      BY <2>1, <3>1 DEF UsbInv, UsbTypes
  <2>4. UsbTypes'
    <3>1. usb_prime' \in [Endpoints -> Lists]
      BY <2>1, BufferFacts DEF UsbInv, UsbTypes, Lists
    <3> QED
      BY <1>1, <1>3, <2>2, <3>1 DEF UsbInv, UsbTypes
  <2>5. ControlInv'
    BY <1>1, <1>2, <2>1, EndpointFacts DEF UsbInv, ControlInv, StatusStage
  <2>6. PrimeInv'
    BY <1>1, <1>2, <2>2, <2>3 DEF UsbInv, PrimeInv, StatusStage
  <2>7. FlagInv'
    BY <1>1, <1>2, <1>3 DEF UsbInv, UsbTypes, FlagInv, StatusStage
  <2> QED
    BY <2>4, <2>5, <2>6, <2>7 DEF UsbInv
<1> QED
  BY <1>4, <1>5

\* A call that is dropped leaves its endpoint out of the invariant.
LEMMA DropKeeps ==
  ASSUME UsbInv, NEW e \in Endpoints, DropCall(e)
  PROVE  UsbInv'
<1>1. /\ usb_fut[e].pc # "idle" /\ usb_fut' = [usb_fut EXCEPT ![e] = NoFuture]
      /\ usb_left' = usb_left \cup {e} /\ usb_ctl' = IF e[1] = 0 THEN "idle" ELSE usb_ctl
      /\ UNCHANGED <<usb_ctrl, usb_prime, usb_done, usb_setup>>
  BY DEF DropCall, UsbReturn
<1>2. usb_fut' \in [Endpoints -> Futures]
  BY <1>1, BufferFacts DEF NoFuture, Futures, UsbInv, UsbTypes
<1>3. /\ usb_fut'[e].pc = "idle"
      /\ \A f \in Endpoints : f # e => usb_fut'[f] = usb_fut[f]
  BY <1>1 DEF NoFuture, UsbInv, UsbTypes
<1>4. UsbTypes'
  BY <1>1, <1>2 DEF UsbInv, UsbTypes
<1>5. CASE e[1] = 0
  <2>1. usb_ctl' = "idle" /\ StatusStage'
    BY <1>1, <1>5 DEF StatusStage
  <2>2. \/ e = In0 /\ usb_fut[Out0].pc = "idle"
        \/ e = Out0 /\ usb_fut[In0].pc = "idle"
    BY <1>1, <1>5, EndpointFacts DEF UsbInv, ControlInv
  <2>3. ControlInv'
    BY <1>1, <1>3, <2>1, <2>2, EndpointFacts DEF UsbInv, ControlInv
  <2>4. PrimeInv'
    BY <1>1, <1>3, <2>1 DEF UsbInv, PrimeInv
  <2>5. FlagInv'
    BY <1>1, <1>3, <2>1 DEF UsbInv, UsbTypes, FlagInv
  <2> QED
    BY <1>4, <2>3, <2>4, <2>5 DEF UsbInv
<1>6. CASE e[1] # 0
  <2>1. usb_ctl' = usb_ctl /\ e # In0 /\ e # Out0
    BY <1>1, <1>6, EndpointFacts
  <2>2. ControlInv'
    BY <1>1, <1>3, <2>1, EndpointFacts DEF UsbInv, ControlInv, StatusStage
  <2>3. PrimeInv'
    BY <1>1, <1>3, <2>1 DEF UsbInv, PrimeInv, StatusStage
  <2>4. FlagInv'
    BY <1>1, <1>3, <2>1 DEF UsbInv, UsbTypes, FlagInv, StatusStage
  <2> QED
    BY <1>4, <2>2, <2>3, <2>4 DEF UsbInv
<1> QED
  BY <1>5, <1>6

\* A stall bit is not the enable bit.
LEMMA StallOnly ==
  ASSUME NEW ctrl \in [Endpoints -> CtrlHalves], NEW e \in Endpoints, NEW on \in BOOLEAN
  PROVE  /\ [ctrl EXCEPT ![e].stall = on] \in [Endpoints -> CtrlHalves]
         /\ \A f \in Endpoints : [ctrl EXCEPT ![e].stall = on][f].en = ctrl[f].en
  BY DEF CtrlHalves

\* SETUP has ended the status stage, and its flag is cleared with it.
LEMMA SetupKeeps ==
  ASSUME UsbInv, SetupPoll
  PROVE  UsbInv'
<1>1. /\ usb_ctl = "setup" /\ usb_setup /\ usb_setup' = FALSE /\ usb_ctl' = "request"
      /\ usb_done' \subseteq usb_done \ {In0, Out0}
      /\ usb_left' = usb_left \ {In0, Out0}
      /\ UNCHANGED <<usb_ctrl, usb_prime, usb_fut>>
  BY DEF SetupPoll, ClearFlag, In0, Out0
<1>2. /\ usb_prime[In0] = <<>> /\ usb_prime[Out0] = <<>>
      /\ usb_fut[In0].pc = "idle" /\ usb_fut[Out0].pc = "idle"
  BY <1>1 DEF UsbInv, ControlInv
<1>3. UsbTypes'
  <2>1. usb_setup' \in BOOLEAN
    BY <1>1
  <2> QED
    BY <1>1, <2>1 DEF UsbInv, UsbTypes
<1>4. ControlInv'
  BY <1>1, <1>2 DEF UsbInv, ControlInv
<1>5. PrimeInv'
  BY <1>1, <1>2, EndpointFacts DEF UsbInv, PrimeInv, StatusStage
<1>6. FlagInv'
  BY <1>1, <1>2 DEF UsbInv, FlagInv
<1> QED
  BY <1>3, <1>4, <1>5, <1>6 DEF UsbInv

\* The status stage carries no bytes, and nobody waits for it.
LEMMA ControlKeeps ==
  ASSUME UsbInv, ControlNext
  PROVE  UsbInv'
<1>1. UNCHANGED <<usb_done, usb_setup, usb_fut, usb_left>>
  BY DEF ControlNext
<1>2. CASE usb_ctl = "last"
  <2>0. usb_fut[Out0].pc = "idle" /\ usb_prime[Out0] = <<>>
    <3>1. usb_fut[Out0].pc = "idle" /\ Out0 \notin usb_left /\ ~StatusStage
      BY <1>2 DEF UsbInv, ControlInv, StatusStage
    <3> QED
      BY <3>1, EndpointFacts DEF UsbInv, PrimeInv
  <2>1. /\ usb_fut[In0].pc = "idle" /\ MayTransfer(Out0, Empty) /\ usb_ctl' = "idle"
        /\ usb_prime' = [usb_prime EXCEPT ![Out0] = Chain(Empty)] /\ usb_ctrl' = usb_ctrl
    BY <1>2, <2>0 DEF ControlNext, Transfer
  <2>2. ~usb_setup /\ usb_fut[Out0].pc = "idle"
    BY <2>0, <2>1, EndpointFacts DEF MayTransfer
  <2>3. usb_prime'[Out0] = Chain(Empty) /\ \A e \in Endpoints : e # Out0 => usb_prime'[e] = usb_prime[e]
    BY <2>1, EndpointFacts DEF UsbInv, UsbTypes
  <2>4. UsbTypes'
    <3>2. usb_prime' \in [Endpoints -> Lists]
      BY <2>1, BufferFacts DEF UsbInv, UsbTypes, Lists
    <3> QED
      BY <1>1, <2>1, <3>2 DEF UsbInv, UsbTypes
  <2>5. ControlInv'
    BY <1>1, <2>1, <2>2 DEF UsbInv, ControlInv, StatusStage
  <2>6. PrimeInv'
    BY <1>1, <1>2, <2>1, <2>2, <2>3, EndpointFacts DEF UsbInv, PrimeInv, StatusStage
  <2>7. FlagInv'
    BY <1>1, <1>2, <2>1, <2>2, <2>3 DEF UsbInv, UsbTypes, FlagInv, StatusStage
  <2> QED
    BY <2>4, <2>5, <2>6, <2>7 DEF UsbInv
<1>3. CASE usb_ctl # "last"
  <2>1. /\ usb_prime' = usb_prime
        /\ usb_ctrl' \in {usb_ctrl, [usb_ctrl EXCEPT ![In0].stall = TRUE, ![Out0].stall = TRUE]}
        /\ \/ usb_ctl = "request" /\ usb_ctl' = "idle"
           \/ /\ usb_ctl \in {"data_out", "data_in", "accept"} /\ usb_ctl' \in {"idle", "request"}
              /\ usb_fut[In0].pc = "idle" /\ usb_fut[Out0].pc = "idle"
    BY <1>3 DEF ControlNext
  <2>2. usb_ctrl' \in [Endpoints -> CtrlHalves] /\ \A e \in Endpoints : usb_ctrl'[e].en = usb_ctrl[e].en
    <3> DEFINE one == [usb_ctrl EXCEPT ![In0].stall = TRUE]
               both == [one EXCEPT ![Out0].stall = TRUE]
    <3>1. one \in [Endpoints -> CtrlHalves] /\ \A e \in Endpoints : one[e].en = usb_ctrl[e].en
      BY EndpointFacts, StallOnly DEF UsbInv, UsbTypes
    <3>2. usb_ctrl' \in {usb_ctrl, both}
      BY <2>1
    <3> HIDE DEF one
    <3>3. both \in [Endpoints -> CtrlHalves] /\ \A e \in Endpoints : both[e].en = one[e].en
      BY <3>1, EndpointFacts, StallOnly
    <3> HIDE DEF both
    <3> QED
      BY <3>1, <3>2, <3>3 DEF UsbInv, UsbTypes
  <2> QED
    BY <1>1, <2>1, <2>2, UsbUnprimed DEF UsbInv, UsbTypes
<1> QED
  BY <1>2, <1>3

\* A packet that moves raises the flag of whoever waits.
LEMMA MovesKeep ==
  ASSUME UsbInv, NEW e \in Endpoints, HostMoves(e)
  PROVE  UsbInv'
<1>1. /\ usb_prime[e] # <<>>
      /\ usb_prime' = [usb_prime EXCEPT ![e] = <<>>]
      /\ usb_done' = usb_done \cup {e}
      /\ usb_fut' = [usb_fut EXCEPT ![e].moved = usb_fut[e].pc # "idle"]
      /\ UNCHANGED <<usb_ctrl, usb_setup, usb_ctl, usb_left>>
  BY DEF HostMoves
<1>2. /\ usb_fut' \in [Endpoints -> Futures] /\ (usb_fut[e].pc # "idle" => usb_fut'[e].moved)
      /\ \A f \in Endpoints : /\ usb_fut'[f].pc = usb_fut[f].pc /\ usb_fut'[f].buf = usb_fut[f].buf
                              /\ f # e => usb_fut'[f] = usb_fut[f]
  BY <1>1 DEF UsbInv, UsbTypes, Futures
<1>3. /\ usb_prime' \in [Endpoints -> Lists]
      /\ usb_prime'[e] = <<>>
      /\ \A f \in Endpoints : f # e => usb_prime'[f] = usb_prime[f]
  BY <1>1 DEF UsbInv, UsbTypes, Lists
<1>4. UsbTypes'
  BY <1>1, <1>2, <1>3 DEF UsbInv, UsbTypes
<1>5. ControlInv'
  BY <1>1, <1>2, <1>3, EndpointFacts DEF UsbInv, ControlInv, StatusStage
<1>6. PrimeInv'
  BY <1>1, <1>2, <1>3 DEF UsbInv, PrimeInv, StatusStage
<1>7. FlagInv'
  <2>1. e \notin usb_left /\ usb_fut[e].pc = "idle" => e = Out0 /\ StatusStage
    BY <1>1 DEF UsbInv, PrimeInv
  <2> QED
    BY <1>1, <1>2, <1>3, <2>1 DEF UsbInv, UsbTypes, FlagInv, StatusStage
<1> QED
  BY <1>4, <1>5, <1>6, <1>7 DEF UsbInv

\* What takes an endpoint away unprimes it first.
LEMMA UnprimeKeeps ==
  ASSUME UsbInv, HalvesTogether,
         \/ SetupCall \/ DropSetup \/ HostSetup
         \/ \E eps \in UsbGroups, enabled \in BOOLEAN : SetEnabled(eps, enabled)
         \/ \E e \in UsbEndpoints, stalled \in BOOLEAN : SetStalled(e, stalled)
  PROVE  UsbInv'
<1>1. CASE SetupCall
  BY <1>1, UsbUnprimed DEF SetupCall, UsbInv, UsbTypes
<1>2. CASE HostSetup
  <2>1. /\ usb_prime' = [usb_prime EXCEPT ![In0] = <<>>, ![Out0] = <<>>]
        /\ usb_ctrl' = [usb_ctrl EXCEPT ![In0].stall = FALSE, ![Out0].stall = FALSE]
        /\ usb_setup' = TRUE /\ UNCHANGED <<usb_done, usb_fut, usb_ctl, usb_left>>
    BY <1>2 DEF HostSetup
  <2>2. usb_ctrl' \in [Endpoints -> CtrlHalves] /\ \A e \in Endpoints : usb_ctrl'[e].en = usb_ctrl[e].en
    BY <2>1, EndpointFacts DEF UsbInv, UsbTypes, CtrlHalves
  <2>3. /\ usb_prime' \in [Endpoints -> Lists]
        /\ \A e \in Endpoints : usb_prime'[e] \in {usb_prime[e], <<>>}
        /\ usb_prime'[In0] = <<>> /\ usb_prime'[Out0] = <<>>
    BY <2>1, EndpointFacts DEF UsbInv, UsbTypes, Lists
  <2>4. usb_setup' \in BOOLEAN
    BY <2>1
  <2> QED
    BY <2>1, <2>2, <2>3, <2>4, UsbUnprimed
<1>3. ASSUME NEW eps \in UsbGroups, NEW enabled \in BOOLEAN, SetEnabled(eps, enabled)
      PROVE  UsbInv'
  <2>1. UNCHANGED <<usb_done, usb_setup, usb_fut, usb_ctl, usb_left>>
    BY <1>3 DEF SetEnabled
  <2>2. CASE enabled
    <3>1. usb_ctrl' = Opened(eps) /\ usb_prime' = usb_prime
      BY <1>3, <2>2 DEF SetEnabled
    <3>2. \A e \in Endpoints : usb_ctrl[e] \in CtrlHalves
      BY DEF UsbInv, UsbTypes
    <3>3. \A h \in CtrlHalves : CtrlHalf(TRUE, h) \in CtrlHalves /\ CtrlHalf(TRUE, h).en
      BY DEF CtrlHalf, CtrlHalves
    <3>4. usb_ctrl' \in [Endpoints -> CtrlHalves] /\ \A e \in Endpoints : usb_ctrl[e].en => usb_ctrl'[e].en
      BY <3>1, <3>2, <3>3 DEF Opened
    <3> QED
      BY <2>1, <3>1, <3>4, UsbUnprimed DEF UsbInv, UsbTypes
  <2>3. CASE ~enabled
    <3>1. usb_ctrl' = Closed(eps) /\ usb_prime' = Flushed(eps)
      BY <1>3, <2>3 DEF SetEnabled
    <3>2. [en |-> FALSE, stall |-> FALSE] \in CtrlHalves
      BY DEF CtrlHalves
    <3>3. /\ usb_ctrl' \in [Endpoints -> CtrlHalves]
          /\ \A e \in Endpoints : usb_ctrl'[e] # usb_ctrl[e] => \E c \in eps : c[1] = e[1]
      BY <3>1, <3>2 DEF Closed, UsbInv, UsbTypes
    <3>4. /\ usb_prime' \in [Endpoints -> Lists]
          /\ \A e \in Endpoints : usb_prime'[e] \in {usb_prime[e], <<>>}
          /\ \A e \in Endpoints : e \in eps => usb_prime'[e] = <<>>
      BY <3>1 DEF Flushed, UsbInv, UsbTypes, Lists
    <3>5. \A e \in Endpoints : usb_ctrl[e].en /\ ~usb_ctrl'[e].en => usb_prime'[e] = <<>>
      BY <3>3, <3>4 DEF HalvesTogether
    <3> QED
      BY <2>1, <3>3, <3>4, <3>5, UsbUnprimed DEF UsbInv, UsbTypes
  <2> QED
    BY <2>2, <2>3
<1>4. ASSUME NEW e \in UsbEndpoints, NEW stalled \in BOOLEAN, SetStalled(e, stalled) PROVE UsbInv'
  <2>1. /\ usb_ctrl' = [usb_ctrl EXCEPT ![e].stall = stalled]
        /\ UNCHANGED <<usb_prime, usb_done, usb_setup, usb_fut, usb_ctl, usb_left>>
    BY <1>4 DEF SetStalled
  <2>2. usb_ctrl' \in [Endpoints -> CtrlHalves] /\ \A f \in Endpoints : usb_ctrl'[f].en = usb_ctrl[f].en
    BY <2>1, EndpointFacts DEF UsbInv, UsbTypes, CtrlHalves
  <2> QED
    BY <2>1, <2>2, UsbUnprimed DEF UsbInv, UsbTypes
<1>5. CASE DropSetup
  BY <1>5, UsbUnprimed DEF DropSetup, UsbInv, UsbTypes
<1> QED
  BY <1>1, <1>2, <1>3, <1>4, <1>5

\* Every step of the driver, of the host and of the interrupt.
LEMMA UsbStep ==
  ASSUME HalvesTogether, UsbInv, [UsbNext]_usbVars
  PROVE  UsbInv'
<1>1. CASE UsbNew \/ UsbStart \/ \E dir \in {"in", "out"} : AllocEndpoint(dir)
  BY <1>1, UsbStays DEF UsbNew, UsbStart, AllocEndpoint, usbRest, usbCore
<1>2. ASSUME NEW e \in UsbEndpoints, NEW buf \in UsbBuffers[e], ReadOrWrite(e, buf) PROVE UsbInv'
  <2>1. /\ e \in Endpoints /\ e # Out0 /\ e \notin {In0, Out0} /\ buf \in Buffers
    BY EndpointFacts DEF Buffers
  <2>2. Begin(e, buf) /\ usb_ctrl[e].en /\ UNCHANGED <<usb_ctrl, usb_done, usb_setup, usb_ctl, usb_left>>
    BY <1>2 DEF ReadOrWrite
  <2> QED
    BY <2>1, <2>2, BeginKeeps
<1>3. ASSUME NEW e \in Endpoints, PollFuture(e) PROVE UsbInv'
  BY <1>3, PollKeeps
<1>4. ASSUME NEW e \in {In0, Out0}, NEW buf \in ControlBuffers, ControlData(e, buf) PROVE UsbInv'
  <2>1. /\ e \in Endpoints /\ e[1] = 0 /\ In0 # Out0 /\ buf \in Buffers
    BY EndpointFacts DEF Buffers
  <2>2. /\ Begin(e, buf) /\ usb_ctl = "request" /\ UNCHANGED <<usb_ctrl, usb_done, usb_setup, usb_left>>
        /\ usb_ctl' \in (IF e = Out0 THEN {"data_out"} ELSE {"data_in", "last", "accept"})
    BY <1>4 DEF ControlData
  <2>3. ~StatusStage
    BY <2>2 DEF StatusStage
  <2> QED
    BY <2>1, <2>2, <2>3, BeginKeeps
<1>5. CASE SetupPoll
  BY <1>5, SetupKeeps
<1>6. CASE ControlNext
  BY <1>6, ControlKeeps
<1>7. CASE Enable
  BY <1>7, UsbStays DEF Enable, usbCore
<1>8. CASE Disable
  <2>1. [e \in Endpoints |-> [en |-> FALSE, stall |-> FALSE]] \in [Endpoints -> CtrlHalves]
    BY DEF CtrlHalves
  <2> QED
    BY <1>8, <2>1, UsbCleared DEF Disable, Stopped
<1>9. CASE PollReset
  <2>1. \A h \in CtrlHalves : CtrlHalf(TRUE, h) \in CtrlHalves
    BY DEF CtrlHalf, CtrlHalves
  <2>2. [en |-> FALSE, stall |-> FALSE] \in CtrlHalves
    BY DEF CtrlHalves
  <2>3. usb_ctrl' \in [Endpoints -> CtrlHalves]
    BY <1>9, <2>1, <2>2 DEF PollReset, UsbInv, UsbTypes
  <2> QED
    BY <1>9, <2>3, UsbCleared DEF PollReset, BusReset
<1>10. CASE HandlerReads \/ HandlerClears \/ HostReset
  BY <1>10, UsbStays DEF HandlerReads, HandlerClears, HostReset, usbCore
<1>11. ASSUME NEW e \in Endpoints, HostMoves(e) PROVE UsbInv'
  BY <1>11, MovesKeep
<1>12. CASE \/ SetupCall \/ DropSetup \/ HostSetup
            \/ \E eps \in UsbGroups, enabled \in BOOLEAN : SetEnabled(eps, enabled)
            \/ \E e \in UsbEndpoints, stalled \in BOOLEAN : SetStalled(e, stalled)
  BY <1>12, UnprimeKeeps
<1>13. ASSUME NEW e \in Endpoints, DropCall(e) PROVE UsbInv'
  BY <1>13, DropKeeps
<1>14. CASE UNCHANGED usbVars
  BY <1>14, UsbStays DEF usbVars, usbCore
<1> QED
  BY <1>1, <1>2, <1>3, <1>4, <1>5, <1>6, <1>7, <1>8, <1>9, <1>10, <1>11, <1>12, <1>13, <1>14 DEF UsbNext

\* The device at rest, before it is enabled.
LEMMA UsbStart0 == UsbInit => UsbInv
<1> SUFFICES ASSUME UsbInit PROVE UsbInv
  OBVIOUS
<1>1. NoFuture \in Futures
  BY BufferFacts DEF NoFuture, Futures
<1>2. [en |-> FALSE, stall |-> FALSE] \in CtrlHalves
  BY DEF CtrlHalves
<1>3. UsbTypes
  BY <1>1, <1>2 DEF UsbInit, UsbTypes, Lists
<1>4. \A e \in Endpoints : usb_fut[e].pc = "idle" /\ usb_prime[e] = <<>>
  BY DEF UsbInit, NoFuture
<1> QED
  BY <1>3, <1>4, EndpointFacts DEF UsbInit, UsbInv, ControlInv, PrimeInv, FlagInv, StatusStage

\* While an endpoint is primed with bytes, the future that borrows the buffer is
\* there, unless a call on it was dropped since it was reset, and the descriptors
\* of a proper buffer, aligned as reinit_with asks for and of less than a chunk,
\* point to it, cover it and end (Endpoint::transfer, endpoint_close,
\* device_bus_reset): for any endpoints and buffers, calls that are dropped at
\* any time and a host that does anything at any time, if the halves of an
\* endpoint are enabled and disabled together.
THEOREM BuffersAreHeld ==
  ASSUME HalvesTogether
  PROVE  UsbSpec => []UsbBufferHeld
<1>1. UsbInv => UsbBufferHeld
  <2> SUFFICES ASSUME UsbInv, NEW e \in Endpoints \ usb_left, BytesOf(usb_prime[e]) > 0
      PROVE  /\ usb_fut[e].pc = "wait"
             /\ Proper(usb_fut[e].buf) =>
                  /\ BytesOf(usb_prime[e]) = usb_fut[e].buf.len
                  /\ \A i \in DOMAIN usb_prime[e] : usb_prime[e][i].filled
                  /\ usb_prime[e][Len(usb_prime[e])].last
    BY DEF UsbBufferHeld
  <2>1. \A buf \in Buffers : buf \in [len : Nat, aligned : BOOLEAN]
    BY BufferFacts
  <2>2. BytesOf(<<>>) = 0 /\ BytesOf(Chain(Empty)) = 0
    BY <2>1, BufferFacts, NoBytes, ShortChain
  <2>3. usb_prime[e] # <<>> /\ usb_prime[e] # Chain(Empty)
    BY <2>2
  <2>4. usb_fut[e].pc = "wait" /\ usb_fut[e].buf \in Buffers
    BY <2>3 DEF UsbInv, UsbTypes, PrimeInv, Futures
  <2>5. usb_prime[e] = Chain(usb_fut[e].buf)
    BY <2>3, <2>4 DEF UsbInv, PrimeInv
  <2> QED
    BY <2>1, <2>4, <2>5, ShortChain
<1> QED
  BY <1>1, UsbStart0, UsbStep, PTL DEF UsbSpec

\* A call that returns because of its completion flag moved its own packet, and
\* did not find the flag of an earlier one (ClearFlag, the status stage, SETUP,
\* bus resets), for buffers of any length and calls that are dropped at any time,
\* but on an application's endpoint between a drop and the next reset.
THEOREM OwnPacketMoved ==
  ASSUME HalvesTogether
  PROVE  UsbSpec => UsbOwnCompletion
<1> DEFINE Own == \A e \in Endpoints \ usb_left :
                    e \in usb_done /\ usb_fut[e].pc # "idle" /\ usb_fut'[e].pc # usb_fut[e].pc => usb_fut[e].moved
<1>1. UsbInv => [Own]_usb_fut
  BY DEF UsbInv, FlagInv
<1> QED
  BY <1>1, UsbStart0, UsbStep, PTL DEF UsbSpec, UsbOwnCompletion

(***************************************************************************)
(* Flash.  An erase in progress has wiped the sectors up to the one it is   *)
(* at; nothing that was read or erased before is remembered while it runs.  *)
(***************************************************************************)
\* Division with remainder.
LEMMA DivMod ==
  ASSUME NEW x \in Nat, NEW l \in Nat \ {0}
  PROVE  /\ x \div l \in Nat /\ x % l \in 0 .. l - 1
         /\ x = l * (x \div l) + (x % l)
  OBVIOUS

\* Division keeps the order.
LEMMA DivMono ==
  ASSUME NEW x \in Nat, NEW y \in Nat, NEW l \in Nat \ {0}, x <= y
  PROVE  x \div l <= y \div l
  OBVIOUS

\* A quotient is found again.
LEMMA DivUnique ==
  ASSUME NEW l \in Nat \ {0}, NEW k \in Nat, NEW r \in 0 .. l - 1
  PROVE  (l * k + r) \div l = k
  OBVIOUS

\* The bytes between two sector boundaries are those of the sectors counted
\* between them (SectorCount).
LEMMA WithinSectors ==
  ASSUME NEW l \in Nat \ {0}, NEW from \in Nat, NEW to \in Nat, NEW a \in Nat,
         from % l = 0, to % l = 0, from <= a, a < to
  PROVE  from \div l <= a \div l /\ a \div l < (from \div l) + ((to - from) \div l)
<1> DEFINE q == from \div l
           t == to \div l
           b == a \div l
<1>1. q \in Nat /\ t \in Nat /\ b \in Nat /\ from = l * q /\ to = l * t
  BY DivMod
<1>2. q <= b /\ b <= t /\ q <= t
  BY DivMono
<1>3. to - from = l * (t - q) /\ t - q \in Nat
  BY <1>1, <1>2
<1>4. (to - from) \div l = t - q
  BY <1>3, DivUnique
<1>5. a >= l * b
  BY <1>1, DivMod
<1>6. b # t
  BY <1>1, <1>5
<1> HIDE DEF q, t, b
<1>7. q <= b /\ b < q + (t - q)
  BY <1>1, <1>2, <1>6
<1> QED
  BY <1>7, <1>4 DEF q, t, b

\* An erase by sectors as the driver keeps it.
Erases == [next : Nat, until : Nat, from : Nat, to : Nat]

EraseInv ==
  /\ fl_call \in Erases
  /\ fl_call # NoCall =>
       /\ fl_seen = <<>> /\ fl_erased = {}
       /\ fl_call.from % FlashLine = 0 /\ fl_call.to % FlashLine = 0
       /\ fl_call.until = LineOf(fl_call.from) + SectorCount(fl_call.from, fl_call.to)
       /\ \A a \in Bytes : LineOf(fl_call.from) <= LineOf(a) /\ LineOf(a) < fl_call.next => fl_mem[a] = 1

FlashInv == EraseInv /\ FlashHonest /\ fl_erased \subseteq Bytes

\* A byte of the chip is a number, and so is its line.
LEMMA ByteFacts ==
  ASSUME NEW a \in Bytes
  PROVE  a \in Nat /\ LineOf(a) \in Nat
<1>1. a \in Nat
  BY FlashAssumption DEF Bytes
<1> QED
  BY <1>1, FlashAssumption, DivMod DEF LineOf

\* A length aligned up is not shorter.
LEMMA AlignedUp ==
  ASSUME NEW len \in Nat
  PROVE  AlignUp(len) \in Int /\ AlignUp(len) >= len
<1>1. len + FlashLine - 1 \in Nat
  BY FlashAssumption
<1>2. (len + FlashLine - 1) % FlashLine \in 0 .. FlashLine - 1
  BY <1>1, FlashAssumption, DivMod
<1> QED
  BY <1>1, <1>2, FlashAssumption DEF AlignUp, AlignDown

\* A read from an aligned offset drops the lines it touches from the cache
\* (blocking_read, invalidate).
LEMMA ReadsTheChip ==
  ASSUME \A offset \in FlashOffsets : offset % FlashLine = 0,
         NEW offset, NEW len \in Nat, BlockingRead(offset, len)
  PROVE  \A a \in DOMAIN fl_seen' : fl_seen'[a] = fl_mem[a]
<1> DEFINE range == {a \in Bytes : a >= offset /\ a < offset + len}
           lines == {LineOf(a) : a \in range}
           kept == [l \in DOMAIN fl_cache \ Invalidated(offset, len) |-> fl_cache[l]]
           cache == Filled(kept, lines)
<1>1. fl_seen' = [a \in range |-> cache[LineOf(a)][a]]
  BY DEF BlockingRead
<1>2. offset \in Nat /\ offset % FlashLine = 0
  BY FlashAssumption DEF BlockingRead
<1>3. AlignDown(offset) = offset
  BY <1>2 DEF AlignDown
<1>4. ASSUME NEW a \in range PROVE cache[LineOf(a)][a] = fl_mem[a]
  <2>1. a \in Bytes /\ a \in Nat /\ a >= offset /\ a < offset + len
    BY ByteFacts
  <2>2. AlignUp(len) >= len /\ AlignUp(len) \in Int
    BY AlignedUp
  <2>3. a < offset + AlignUp(len)
    BY <1>2, <2>1, <2>2
  <2>4. LineOf(a) \in Invalidated(offset, len)
    BY <1>3, <2>1, <2>3 DEF Invalidated
  <2>5. LineOf(a) \notin DOMAIN kept
    BY <2>4
  <2>6. LineOf(a) \in lines
    OBVIOUS
  <2> HIDE DEF kept, lines, range
  <2>7. cache[LineOf(a)] = [b \in BytesOfLine(LineOf(a)) |-> fl_mem[b]]
    BY <2>5, <2>6 DEF Filled
  <2>8. a \in BytesOfLine(LineOf(a))
    BY <2>1 DEF BytesOfLine
  <2> QED
    BY <2>7, <2>8
<1> HIDE DEF cache
<1> QED
  BY <1>1, <1>4

\* Nothing was read: nothing can be stale.
LEMMA NothingSeen == DOMAIN <<>> = {}
  OBVIOUS

\* Each step of the driver keeps what is known of the erase and of the read.
LEMMA FlashStep ==
  ASSUME \A offset \in FlashOffsets : offset % FlashLine = 0
  PROVE  FlashInv /\ [FlashNext]_flashVars => FlashInv'
<1> SUFFICES ASSUME FlashInv, [FlashNext]_flashVars PROVE FlashInv'
  OBVIOUS
<1>1. ASSUME NEW size \in FlashSizes, FlashNew(size) PROVE FlashInv'
  BY <1>1 DEF FlashNew, FlashInv, EraseInv, FlashHonest
<1>2. ASSUME NEW offset \in Bytes, NEW len \in Nat, BlockingRead(offset, len) PROVE FlashInv'
  <2>2. \A a \in DOMAIN fl_seen' : fl_seen'[a] = fl_mem[a]
    BY <1>2, ReadsTheChip
  <2>3. fl_call = NoCall /\ UNCHANGED <<fl_mem, fl_call, fl_erased>>
    BY <1>2 DEF BlockingRead, Ready
  <2> QED
    BY <2>2, <2>3 DEF FlashInv, EraseInv, FlashHonest
<1>3. ASSUME NEW offset \in Bytes, NEW len \in Nat, BlockingWrite(offset, len) PROVE FlashInv'
  <2>1. fl_call = NoCall /\ UNCHANGED fl_call /\ fl_seen' = <<>> /\ fl_erased' = {}
    BY <1>3 DEF BlockingWrite, Ready
  <2> QED
    BY <2>1, NothingSeen DEF FlashInv, EraseInv, FlashHonest
<1>4. ASSUME NEW line \in Lines, Fetch(line) \/ Evict(line) PROVE FlashInv'
  <2>1. UNCHANGED <<fl_mem, fl_call, fl_seen, fl_erased>>
    BY <1>4 DEF Fetch, Evict
  <2> QED
    BY <2>1 DEF FlashInv, EraseInv, FlashHonest
<1>5. ASSUME NEW from \in Bytes, NEW to \in Nat, BlockingErase(from, to) PROVE FlashInv'
  <2>1. /\ fl_call' = [next |-> LineOf(from), until |-> LineOf(from) + SectorCount(from, to),
                        from |-> from, to |-> to]
        /\ fl_seen' = <<>> /\ fl_erased' = {} /\ UNCHANGED fl_mem
        /\ from < to /\ from % FlashLine = 0 /\ to % FlashLine = 0
    BY <1>5 DEF BlockingErase
  <2>2. from \in Nat /\ to \in Nat /\ LineOf(from) \in Nat
    BY ByteFacts
  <2>3. SectorCount(from, to) \in Nat
    <3>1. to - from \in Nat
      BY <2>1, <2>2
    <3> QED
      BY <3>1, FlashAssumption, DivMod DEF SectorCount
  <2>4. fl_call' \in Erases
    BY <2>1, <2>2, <2>3 DEF Erases
  <2> QED
    BY <2>1, <2>2, <2>4, ByteFacts, NothingSeen DEF FlashInv, EraseInv, FlashHonest
<1>6. ASSUME NEW from \in Bytes, NEW to \in Nat, RomErase(from, to) PROVE FlashInv'
  <2>1. fl_call = NoCall /\ UNCHANGED fl_call /\ fl_seen' = <<>>
    BY <1>6 DEF RomErase, Ready
  <2>2. CASE fl_erased' = {}
    BY <2>1, <2>2, NothingSeen DEF FlashInv, EraseInv, FlashHonest
  <2>3. CASE fl_erased' # {}
    <3> DEFINE range == {a \in Bytes : a >= from /\ a < to}
               touched == {LineOf(a) : a \in range}
    <3>1. fl_mem' = Wiped(touched) /\ fl_erased' = range
      BY <1>6, <2>3 DEF RomErase
    <3>2. \A a \in range : fl_mem'[a] = 1
      BY <3>1 DEF Wiped
    <3> QED
      BY <2>1, <3>1, <3>2, NothingSeen DEF FlashInv, EraseInv, FlashHonest
  <2> QED
    BY <2>2, <2>3
<1>7. ASSUME EraseSector PROVE FlashInv'
  <2>1. fl_call.next < fl_call.until /\ UNCHANGED <<fl_seen, fl_erased>>
    BY <1>7 DEF EraseSector
  <2>2. fl_call # NoCall
    BY <2>1 DEF NoCall
  <2>3. fl_seen' = <<>> /\ fl_erased' = {}
    BY <2>1, <2>2 DEF FlashInv, EraseInv
  <2>4. FlashHonest'
    BY <2>3, NothingSeen DEF FlashHonest
  <2>5. CASE fl_call' = NoCall
    <3>1. NoCall \in Erases
      BY DEF NoCall, Erases
    <3> QED
      BY <2>3, <2>4, <2>5, <3>1 DEF FlashInv, EraseInv
  <2>6. CASE fl_call' # NoCall
    <3>1. fl_mem' = Wiped({fl_call.next}) /\ fl_call' = [fl_call EXCEPT !.next = fl_call.next + 1]
      BY <1>7, <2>6 DEF EraseSector
    <3>2. /\ fl_call' \in Erases /\ fl_call'.next = fl_call.next + 1
          /\ fl_call'.until = fl_call.until
          /\ fl_call'.from = fl_call.from /\ fl_call'.to = fl_call.to
      BY <3>1 DEF FlashInv, EraseInv, Erases
    <3>3. fl_call.next \in Nat /\ fl_call.from \in Nat
      BY DEF FlashInv, EraseInv, Erases
    <3>4. \A a \in Bytes : LineOf(fl_call.from) <= LineOf(a) /\ LineOf(a) < fl_call.next => fl_mem[a] = 1
      BY <2>2 DEF FlashInv, EraseInv
    <3>5. ASSUME NEW a \in Bytes, LineOf(fl_call.from) <= LineOf(a), LineOf(a) < fl_call.next + 1
          PROVE  fl_mem'[a] = 1
      <4>1. LineOf(a) \in Nat
        BY ByteFacts
      <4>2. LineOf(a) = fl_call.next \/ LineOf(a) < fl_call.next
        BY <3>3, <3>5, <4>1
      <4> QED
        BY <3>1, <3>4, <3>5, <4>2 DEF Wiped
    <3> QED
      BY <2>2, <2>3, <2>4, <3>2, <3>5 DEF FlashInv, EraseInv
  <2> QED
    BY <2>5, <2>6
<1>8. ASSUME EraseReturns PROVE FlashInv'
  <2>1. /\ fl_call # NoCall /\ fl_call.next = fl_call.until /\ fl_call' = NoCall
        /\ UNCHANGED <<fl_mem, fl_seen>>
        /\ fl_erased' = {a \in Bytes : a >= fl_call.from /\ a < fl_call.to}
    BY <1>8 DEF EraseReturns
  <2>2. fl_call.from \in Nat /\ fl_call.to \in Nat
    BY DEF FlashInv, EraseInv, Erases
  <2>3. ASSUME NEW a \in fl_erased' PROVE a \in Bytes /\ fl_mem'[a] = 1
    <3>1. a \in Bytes /\ fl_call.from <= a /\ a < fl_call.to /\ a \in Nat
      BY <2>1, <2>2, ByteFacts
    <3>2. fl_call.from % FlashLine = 0 /\ fl_call.to % FlashLine = 0
      BY <2>1 DEF FlashInv, EraseInv
    <3>3. LineOf(fl_call.from) <= LineOf(a) /\ LineOf(a) < LineOf(fl_call.from) + SectorCount(fl_call.from, fl_call.to)
      BY <2>2, <3>1, <3>2, FlashAssumption, WithinSectors DEF LineOf, SectorCount
    <3> QED
      BY <2>1, <3>1, <3>3 DEF FlashInv, EraseInv
  <2>4. NoCall \in Erases
    BY DEF NoCall, Erases
  <2>5. fl_seen = <<>>
    BY <2>1 DEF FlashInv, EraseInv
  <2> QED
    BY <2>1, <2>3, <2>4, <2>5, NothingSeen DEF FlashInv, EraseInv, FlashHonest
<1>9. CASE UNCHANGED flashVars
  BY <1>9 DEF flashVars, FlashInv, EraseInv, FlashHonest
<1>10. CASE FlashNext
  <2>1. \A offset \in Bytes, len \in Nat : BlockingRead(offset, len) \/ BlockingWrite(offset, len) => FlashInv'
    BY <1>2, <1>3
  <2>2. \A from \in Bytes, to \in Nat : BlockingErase(from, to) \/ RomErase(from, to) => FlashInv'
    BY <1>5, <1>6
  <2>3. \/ \E size \in FlashSizes : FlashNew(size)
        \/ \E offset \in Bytes, len \in Nat : BlockingRead(offset, len) \/ BlockingWrite(offset, len)
        \/ \E line \in Lines : Fetch(line) \/ Evict(line)
        \/ \E from \in Bytes, to \in Nat : BlockingErase(from, to) \/ RomErase(from, to)
        \/ EraseSector
        \/ EraseReturns
    BY <1>10 DEF FlashNext
  <2> QED
    BY <1>1, <1>4, <1>7, <1>8, <2>1, <2>2, <2>3
<1> QED
  BY <1>9, <1>10

\* A read from an aligned offset returns what is on the chip, and an erase that
\* returned Ok left every byte of its range erased (blocking_read, blocking_erase
\* of src/flash/mod.rs): for a chip and cache lines of any size, any calls, and
\* whatever the program has in the cache.
THEOREM FlashIsHonest ==
  ASSUME \A offset \in FlashOffsets : offset % FlashLine = 0
  PROVE  FlashSpec => []FlashHonest
<1>1. FlashInit => FlashInv
  BY NothingSeen DEF FlashInit, FlashInv, EraseInv, FlashHonest, NoCall, Erases
<1>2. FlashInv => FlashHonest
  BY DEF FlashInv
<1> QED
  BY <1>1, <1>2, FlashStep, PTL DEF FlashSpec

(***************************************************************************)
(* The constructors of the I2C master: the bus they hand out.               *)
(***************************************************************************)
\* The greatest of two numbers.
LEMMA MaxOfTwo ==
  ASSUME NEW a \in Int, NEW b \in Int
  PROVE  Max({a, b}) \in {a, b} /\ Max({a, b}) >= a /\ Max({a, b}) >= b
<1> DEFINE P(x) == x \in {a, b} /\ \A y \in {a, b} : x >= y
<1>1. \E x : P(x)
  <2>1. CASE a >= b
    BY <2>1
  <2>2. CASE b >= a
    BY <2>2
  <2> QED
    BY <2>1, <2>2
<1>2. P(CHOOSE x : P(x))
  BY <1>1
<1>3. Max({a, b}) = CHOOSE x : P(x)
  BY DEF Max
<1> QED
  BY <1>2, <1>3

\* The same of three, as configure_timing takes it.
LEMMA MaxOfThree ==
  ASSUME NEW a \in Int, NEW b \in Int, NEW c \in Int
  PROVE  Max({a, b, c}) \in {a, b, c} /\ Max({a, b, c}) >= a /\ Max({a, b, c}) >= b /\ Max({a, b, c}) >= c
<1> DEFINE P(x) == x \in {a, b, c} /\ \A y \in {a, b, c} : x >= y
<1>1. \E x : P(x)
  <2>1. CASE a >= b /\ a >= c
    BY <2>1
  <2>2. CASE b >= a /\ b >= c
    BY <2>2
  <2>3. CASE c >= a /\ c >= b
    BY <2>3
  <2> QED
    BY <2>1, <2>2, <2>3
<1>2. P(CHOOSE x : P(x))
  BY <1>1
<1>3. Max({a, b, c}) = CHOOSE x : P(x)
  BY DEF Max
<1> QED
  BY <1>2, <1>3

\* What is rounded away is less than one period.
LEMMA CyclesLast ==
  ASSUME NEW time \in Nat, NEW t \in Nat \ {0}, NEW sp \in Nat, time >= 2 * t
  PROVE  /\ Cycles(time, t, sp) \in Int
         /\ (Cycles(time, t, sp) + 2 + sp) * t >= time - 3 * t + 1
<1> DEFINE x == time - 2 * t
           q == x \div t
<1>1. x \in Nat /\ ~(x < 0)
  OBVIOUS
<1>2. Cycles(time, t, sp) = q - 2 - sp
  BY <1>1 DEF Cycles, Quotient
<1>3. q \in Nat /\ x % t \in 0 .. t - 1 /\ x = t * q + (x % t)
  BY <1>1, DivMod
<1>4. t * q >= x - t + 1
  BY <1>1, <1>3
<1> HIDE DEF q
<1>5. (q - 2 - sp) + 2 + sp = q
  BY <1>3
<1> QED
  BY <1>2, <1>3, <1>4, <1>5

\* Whatever the times of a mode, the registers get integers.
LEMMA CyclesInt ==
  ASSUME NEW time \in Nat, NEW t \in Nat \ {0}, NEW sp \in Nat
  PROVE  Cycles(time, t, sp) \in Int
<1> DEFINE x == time - 2 * t
<1>1. CASE x < 0
  <2>1. -x \in Nat
    BY <1>1
  <2>2. (-x) \div t \in Nat
    BY <2>1, DivMod
  <2> QED
    BY <1>1, <2>2 DEF Cycles, Quotient
<1>2. CASE ~(x < 0)
  <2>1. x \in Nat
    BY <1>2
  <2>2. x \div t \in Nat
    BY <2>1, DivMod
  <2> QED
    BY <1>2, <2>2 DEF Cycles, Quotient
<1> QED
  BY <1>1, <1>2

\* Rust's division yields an integer.
LEMMA QuotientInt ==
  ASSUME NEW a \in Int, NEW b \in Nat \ {0}
  PROVE  Quotient(a, b) \in Int
<1>1. CASE a < 0
  <2>1. -a \in Nat
    BY <1>1
  <2>2. (-a) \div b \in Nat
    BY <2>1, DivMod
  <2> QED
    BY <1>1, <2>2 DEF Quotient
<1>2. CASE ~(a < 0)
  <2>1. a \in Nat
    BY <1>2
  <2>2. a \div b \in Nat
    BY <2>1, DivMod
  <2> QED
    BY <1>2, <2>2 DEF Quotient
<1> QED
  BY <1>1, <1>2

\* The kernel clocks from 20 MHz to 10 GHz.
KernelInRange == I2cKernel >= 20000 /\ I2cKernel <= 10000000

\* A period of the kernel clock, at most 50 ns.
LEMMA ShortPeriod ==
  ASSUME KernelInRange
  PROVE  Period100ps(I2cKernel) \in Nat \ {0} /\ Period100ps(I2cKernel) <= 500
<1> DEFINE k == I2cKernel
           t == 10000000 \div k
<1>1. k \in Nat \ {0} /\ t \in Nat /\ 10000000 % k \in 0 .. k - 1 /\ 10000000 = k * t + (10000000 % k)
  BY I2cAssumption, SMT
<1> HIDE DEF t
<1>0. k <= 10000000 /\ k >= 20000
  BY SMT DEF KernelInRange
<1>2. t # 0
  BY <1>0, <1>1, SMT
<1>3. CASE t >= 501
  <2>1. k * t >= 20000 * 501
    BY <1>0, <1>1, <1>3, SMT
  <2> QED
    BY <1>1, <2>1, SMT
<1> QED
  BY <1>1, <1>2, <1>3, SMT DEF Period100ps, t

\* From 20 MHz on the rounding costs less than the periods have to spare.
LEMMA TimingKept ==
  ASSUME KernelInRange, NEW mode \in {"Standard", "Fast"}
  PROVE  /\ HighTime(I2cKernel, Timing(I2cKernel, mode)) >= Limits[mode].high
         /\ LowTime(I2cKernel, Timing(I2cKernel, mode)) >= Limits[mode].low
<1> DEFINE t == Period100ps(I2cKernel)
           sp == 500 \div t
           l == Limits[mode]
           middle == Period100ps(l.khz) \div (1 + l.ratio)
           a == Cycles(l.high, t, sp)
           b == Cycles(middle, t, sp)
           c == Quotient(Cycles(l.low, t, sp), l.ratio)
           hi == Max({a, b, c})
<1>1. t \in Nat \ {0} /\ t <= 500
  BY ShortPeriod, SMT
<1>2. sp \in Nat /\ t * sp <= 500
  <2>1. sp \in Nat /\ 500 % t \in 0 .. t - 1 /\ 500 = t * sp + (500 % t)
    BY <1>1, SMT
  <2> QED
    BY <1>1, <2>1, SMT
<1>3. /\ mode = "Standard" => l.high = 40000 /\ l.low = 47000 /\ l.ratio = 1 /\ l.khz = 100
      /\ mode = "Fast" => l.high = 6000 /\ l.low = 13000 /\ l.ratio = 2 /\ l.khz = 400
  BY SMT DEF Limits
<1>4. (mode = "Standard" => middle = 50000) /\ (mode = "Fast" => middle = 8333)
  BY <1>3, SMT DEF Period100ps
<1>5. Timing(I2cKernel, mode).sp = sp /\ Timing(I2cKernel, mode).ratio = l.ratio /\ Timing(I2cKernel, mode).sclhi = hi
  BY SMT DEF Timing
<1> HIDE DEF t, sp, l, middle
<1>6. a \in Int /\ c \in Int
  <2>1. l.high \in Nat /\ l.low \in Nat /\ l.ratio \in Nat \ {0}
    BY <1>3, SMT
  <2>2. a \in Int /\ Cycles(l.low, t, sp) \in Int
    BY <1>1, <1>2, <2>1, CyclesInt, SMT
  <2> QED
    BY <2>1, <2>2, QuotientInt, SMT
<1> HIDE DEF a, b, c
<1>7. b \in Int /\ (b + 2 + sp) * t >= middle - 3 * t + 1
  <2>1. middle \in Nat /\ middle >= 2 * t
    BY <1>1, <1>4, SMT
  <2>2. /\ Cycles(middle, t, sp) \in Int
        /\ (Cycles(middle, t, sp) + 2 + sp) * t >= middle - 3 * t + 1
    <3>1. t \in Nat \ {0} /\ sp \in Nat
      BY <1>1, <1>2
    <3> HIDE DEF b
    <3> QED
      BY <2>1, <3>1, CyclesLast, ZenonT(30)
  <2> QED
    BY <2>2, Zenon DEF b
<1>8. hi \in Int /\ hi >= b
  <2>1. b \in Int
    BY <1>7
  <2>2. Max({a, b, c}) \in {a, b, c} /\ Max({a, b, c}) >= b
    BY <1>6, <2>1, MaxOfThree, Zenon
  <2>3. Max({a, b, c}) \in Int
    BY <1>6, <2>1, <2>2, Zenon
  <2> QED
    BY <2>2, <2>3, Zenon DEF hi
<1> HIDE DEF hi
<1>9. HighTime(I2cKernel, Timing(I2cKernel, mode)) = (4 + sp + hi) * t
  BY <1>5, SMT DEF HighTime, t
<1>10. LowTime(I2cKernel, Timing(I2cKernel, mode)) = (4 + sp + (hi * l.ratio)) * t
  BY <1>5, SMT DEF LowTime, t
<1>11. (hi + 2 + sp) * t >= (b + 2 + sp) * t
  BY <1>1, <1>2, <1>7, <1>8, SMT
<1>12. (hi + 2 + sp) * t >= middle - 3 * t + 1
  <2> DEFINE u == (hi + 2 + sp) * t
             v == (b + 2 + sp) * t
  <2>1. u \in Int /\ v \in Int /\ u >= v /\ v >= middle - 3 * t + 1 /\ middle \in Int
    BY <1>1, <1>2, <1>4, <1>7, <1>8, <1>11, SMT
  <2> HIDE DEF u, v
  <2>2. u >= middle - 3 * t + 1
    BY <2>1, <1>1, SMT
  <2> QED
    BY <2>2, SMT DEF u
<1> DEFINE w == (hi + 2 + sp) * t
<1>13. w \in Int /\ w >= middle - 3 * t + 1
  BY <1>1, <1>2, <1>8, <1>12, SMT
<1>14. (4 + sp + hi) * t = w + 2 * t
  BY <1>1, <1>2, <1>8, SMT
<1>15. (4 + sp + (hi * 2)) * t = 2 * w - t * sp
  BY <1>1, <1>2, <1>8, SMT
<1> HIDE DEF w
<1>16. CASE mode = "Standard"
  <2>1. w >= 50000 - 3 * t + 1
    BY <1>4, <1>13, <1>16, SMT
  <2>2. hi * 1 = hi
    BY <1>8, SMT
  <2>3. w + 2 * t >= 47000
    BY <1>1, <1>13, <2>1, SMT
  <2>4. (4 + sp + hi) * t >= 47000
    BY <1>14, <2>3, SMT
  <2>5. (4 + sp + (hi * l.ratio)) * t >= 47000
    BY <1>3, <1>16, <2>2, <2>4, SMT
  <2>6. l.high = 40000 /\ l.low = 47000
    BY <1>3, <1>16, SMT
  <2>7. (4 + sp + hi) * t >= 40000
    <3> DEFINE z == (4 + sp + hi) * t
    <3>1. z \in Int /\ z >= 47000
      BY <1>1, <1>2, <1>8, <2>4, SMT
    <3> HIDE DEF z
    <3>2. z >= 40000
      BY <3>1, SMT
    <3> QED
      BY <3>2, SMT DEF z
  <2>8. (4 + sp + hi) * t >= l.high /\ (4 + sp + (hi * l.ratio)) * t >= l.low
    BY <2>5, <2>6, <2>7, SMT
  <2> QED
    BY <1>9, <1>10, <2>8, SMT DEF l
<1>17. CASE mode = "Fast"
  <2>1. w >= 8333 - 3 * t + 1
    BY <1>4, <1>13, <1>17, SMT
  <2>2. t * sp \in Nat
    BY <1>1, <1>2, SMT
  <2>3. w + 2 * t >= 6000 /\ 2 * w - t * sp >= 13000
    BY <1>1, <1>2, <1>13, <2>1, <2>2, SMT
  <2>4. (4 + sp + hi) * t >= 6000
    BY <1>14, <2>3, SMT
  <2>5. (4 + sp + (hi * l.ratio)) * t >= 13000
    BY <1>3, <1>15, <1>17, <2>3, SMT
  <2> QED
    BY <1>1, <1>3, <1>9, <1>10, <1>17, <2>4, <2>5, SMT DEF l
<1> QED
  BY <1>16, <1>17, SMT

\* Clocks that a slave in the middle of a byte may still need.
Slaves == [needs : Nat, stretches : BOOLEAN]

BothPads == [{"scl", "sda"} -> [out : BOOLEAN, high : BOOLEAN, i2c : BOOLEAN, pull_up : BOOLEAN]]

\* What drives SCL from this side: only the recovery does.
Driven(out, high) ==
  i2c_pads["scl"].out = out /\ i2c_pads["scl"].high = high

\* The recovery has sent so many clocks that the slave needs no more than the
\* rest of its byte, and no line is driven before and after it.
BusInv ==
  /\ i2c_pc \in {"idle", "look", "high", "low", "pads", "init", "done", "panic", "hang"}
  /\ i2c_cfg.mode \in I2cModes
  /\ i2c_slave \in Slaves /\ i2c_slave.needs <= 9
  /\ i2c_pulses \in Nat
  /\ i2c_pads \in BothPads
  /\ i2c_pc \in {"idle", "look"} => Driven(FALSE, FALSE) /\ i2c_pulses = 0
  /\ i2c_pc \in {"high", "low"} => /\ ~i2c_slave.stretches
                                   /\ i2c_pc = "high" => Driven(TRUE, FALSE)
                                   /\ i2c_pc = "low" => Driven(TRUE, TRUE)
                                   /\ i2c_slave.needs = 0 \/ i2c_slave.needs + i2c_pulses + 1 <= 9
  /\ i2c_pc \in {"pads", "init"} => i2c_cfg.reset \/ i2c_slave.needs = 0
  /\ i2c_pc \in {"init", "done"} => i2c_pads["scl"].out = FALSE
  /\ i2c_pc = "done" => /\ ~i2c_slave.stretches /\ i2c_slave.needs = 0
                        /\ i2c_reg.timing = Timing(I2cKernel, i2c_cfg.mode)

\* Nine clocks more than are needed leave none.
LEMMA CutAtZero == \A n \in Nat : n <= 9 => Max({0, n - 9}) = 0
<1> SUFFICES ASSUME NEW n \in Nat, n <= 9 PROVE Max({0, n - 9}) = 0
  OBVIOUS
<1>1. n - 9 \in Int /\ n - 9 <= 0
  OBVIOUS
<1>2. Max({0, n - 9}) \in {0, n - 9} /\ Max({0, n - 9}) >= 0
  <2> DEFINE m == n - 9
  <2> HIDE DEF m
  <2>1. m \in Int
    BY <1>1 DEF m
  <2>2. Max({0, m}) \in {0, m} /\ Max({0, m}) >= 0
    BY <2>1, MaxOfTwo
  <2> QED
    BY <2>2 DEF m
<1> QED
  BY <1>1, <1>2

\* The slave sends a bit at most, and it does so when SCL falls.
LEMMA OneBit ==
  ASSUME i2c_slave \in Slaves, NEW pads
  PROVE  /\ Clocked(pads) \in Slaves
         /\ Clocked(pads).stretches = i2c_slave.stretches
         /\ Clocked(pads).needs <= i2c_slave.needs
         /\ SclHigh(i2c_pads, i2c_slave) /\ ~SclHigh(pads, i2c_slave) =>
              Clocked(pads).needs = 0 \/ Clocked(pads).needs + 1 <= i2c_slave.needs
<1>1. CASE SclHigh(i2c_pads, i2c_slave) /\ ~SclHigh(pads, i2c_slave) /\ i2c_slave.needs > 0
  <2>1. Clocked(pads) = [i2c_slave EXCEPT !.needs = i2c_slave.needs - 1]
    BY <1>1 DEF Clocked
  <2>2. i2c_slave.needs - 1 \in Nat
    BY <1>1 DEF Slaves
  <2> QED
    BY <2>1, <2>2 DEF Slaves
<1>2. CASE ~(SclHigh(i2c_pads, i2c_slave) /\ ~SclHigh(pads, i2c_slave) /\ i2c_slave.needs > 0)
  <2>1. Clocked(pads) = i2c_slave
    BY <1>2 DEF Clocked
  <2> QED
    BY <1>2, <2>1 DEF Slaves
<1> QED
  BY <1>1, <1>2

\* Lines taken over from unused GPIOs are not driven.
LEMMA BusStart == ASSUME I2cInit PROVE BusInv
<1>1. i2c_slave \in Slaves /\ i2c_slave.needs <= 9
  BY DEF I2cInit, Slaves
<1>2. i2c_pads \in BothPads /\ Driven(FALSE, FALSE)
  BY DEF I2cInit, Unused, BothPads, Driven
<1> QED
  BY <1>1, <1>2 DEF I2cInit, BusInv

\* Every step of the construction keeps the lines as the invariant has them.
LEMMA BusStep == ASSUME BusInv, [I2cSetupNext]_i2cVars PROVE BusInv'
<1>0. i2c_slave \in Slaves /\ i2c_slave.needs <= 9 /\ i2c_pads \in BothPads
  BY DEF BusInv
<1>1. CASE I2cPins
  <2> DEFINE pads == [line \in {"scl", "sda"} |-> [Unused EXCEPT !.high = i2c_pads[line].high]]
  <2>1. i2c_pc = "idle" /\ Driven(FALSE, FALSE) /\ i2c_pads' = pads /\ i2c_slave' = Clocked(pads)
    BY <1>1 DEF BusInv, I2cPins, Pads
  <2>2. pads \in BothPads /\ pads["scl"].out = FALSE /\ pads["scl"].high = FALSE
    BY <1>0, <2>1 DEF Unused, BothPads, Driven
  <2> HIDE DEF pads
  <2>3. i2c_slave' \in Slaves /\ (i2c_slave').needs <= 9
    BY <1>0, <2>1, OneBit DEF Slaves
  <2>4. i2c_pc' \in {"pads", "look"} /\ (i2c_pc' = "pads" => i2c_cfg.reset)
    BY <1>1 DEF I2cPins
  <2> QED
    BY <1>1, <2>1, <2>2, <2>3, <2>4 DEF BusInv, I2cPins, Driven
<1>2. CASE I2cLook
  <2>1. i2c_pc = "look" /\ Driven(FALSE, FALSE) /\ UNCHANGED <<i2c_cfg, i2c_pulses, i2c_reg>>
    BY <1>2 DEF BusInv, I2cLook
  <2>2. CASE i2c_pc' = "panic" /\ UNCHANGED <<i2c_pads, i2c_slave>>
    BY <2>1, <2>2 DEF BusInv
  <2>3. CASE SdaHigh(i2c_pads, i2c_slave) /\ i2c_pc' = "pads" /\ UNCHANGED <<i2c_pads, i2c_slave>>
    BY <2>1, <2>3 DEF BusInv, SdaHigh
  <2>4. CASE /\ SclHigh(i2c_pads, i2c_slave)
             /\ i2c_pc' = "high" /\ Pads([i2c_pads EXCEPT !["scl"].out = TRUE])
    <3> DEFINE pads == [i2c_pads EXCEPT !["scl"].out = TRUE]
    <3>1. i2c_pads' = pads /\ i2c_slave' = Clocked(pads)
      BY <2>4 DEF Pads
    <3>2. pads \in BothPads /\ pads["scl"].out = TRUE /\ pads["scl"].high = FALSE
      BY <1>0, <2>1 DEF BothPads, Driven
    <3> HIDE DEF pads
    <3>3. ~SclHigh(pads, i2c_slave)
      BY <3>2 DEF SclHigh
    <3>4. /\ i2c_slave' \in Slaves /\ (i2c_slave').needs <= 9 /\ ~(i2c_slave').stretches
          /\ (i2c_slave').needs = 0 \/ (i2c_slave').needs + 1 <= i2c_slave.needs
      BY <1>0, <2>4, <3>1, <3>3, OneBit DEF Slaves, SclHigh
    <3>5. i2c_pulses = 0
      BY <2>1 DEF BusInv
    <3> QED
      BY <1>0, <2>1, <2>4, <3>1, <3>2, <3>4, <3>5 DEF BusInv, Driven, Slaves
  <2> QED
    BY <1>2, <2>2, <2>3, <2>4 DEF I2cLook
<1>3. CASE I2cHigh
  <2>1. /\ i2c_pc = "high" /\ ~i2c_slave.stretches /\ Driven(TRUE, FALSE) /\ i2c_pulses \in Nat
        /\ i2c_slave.needs = 0 \/ i2c_slave.needs + i2c_pulses + 1 <= 9
        /\ UNCHANGED <<i2c_cfg, i2c_pulses, i2c_reg>>
    BY <1>3 DEF BusInv, I2cHigh
  <2>2. CASE i2c_pulses < Pulses
    <3> DEFINE pads == [i2c_pads EXCEPT !["scl"].high = TRUE]
    <3>1. i2c_pc' = "low" /\ i2c_pads' = pads /\ i2c_slave' = Clocked(pads)
      BY <1>3, <2>2 DEF I2cHigh, Pads
    <3>2. pads \in BothPads /\ pads["scl"].out = TRUE /\ pads["scl"].high = TRUE
      BY <1>0, <2>1 DEF BothPads, Driven
    <3> HIDE DEF pads
    <3>3. /\ i2c_slave' \in Slaves /\ (i2c_slave').needs <= i2c_slave.needs
          /\ ~(i2c_slave').stretches
      BY <1>0, <2>1, <3>1, OneBit
    <3>4. (i2c_slave').needs \in Nat /\ i2c_slave.needs \in Nat
      BY <1>0, <3>3 DEF Slaves
    <3>5. (i2c_slave').needs = 0 \/ (i2c_slave').needs + i2c_pulses + 1 <= 9
      BY <2>1, <3>3, <3>4
    <3>6. (i2c_slave').needs <= 9
      BY <1>0, <3>3, <3>4
    <3> QED
      BY <2>1, <3>1, <3>2, <3>3, <3>5, <3>6 DEF BusInv, Driven
  <2>3. CASE ~(i2c_pulses < Pulses)
    <3>1. i2c_pc' = "pads" /\ UNCHANGED <<i2c_pads, i2c_slave>>
      BY <1>3, <2>3 DEF I2cHigh
    <3>2. i2c_slave.needs = 0
      BY <1>0, <2>1, <2>3 DEF Pulses, Slaves
    <3> QED
      BY <2>1, <3>1, <3>2 DEF BusInv
  <2> QED
    BY <2>2, <2>3
<1>4. CASE I2cLow
  <2> DEFINE pads == [i2c_pads EXCEPT !["scl"].high = FALSE]
  <2>1. /\ i2c_pc = "low" /\ ~i2c_slave.stretches /\ Driven(TRUE, TRUE) /\ i2c_pulses \in Nat
        /\ i2c_slave.needs = 0 \/ i2c_slave.needs + i2c_pulses + 1 <= 9
        /\ i2c_pc' = "high" /\ i2c_pads' = pads /\ i2c_slave' = Clocked(pads)
        /\ i2c_pulses' = i2c_pulses + 1 /\ UNCHANGED <<i2c_cfg, i2c_reg>>
    BY <1>4 DEF BusInv, I2cLow, Pads
  <2>2. pads \in BothPads /\ pads["scl"].out = TRUE /\ pads["scl"].high = FALSE
    BY <1>0, <2>1 DEF BothPads, Driven
  <2> HIDE DEF pads
  <2>3. SclHigh(i2c_pads, i2c_slave) /\ ~SclHigh(pads, i2c_slave)
    BY <2>1, <2>2 DEF SclHigh, Driven
  <2>4. /\ i2c_slave' \in Slaves /\ (i2c_slave').needs <= i2c_slave.needs
        /\ ~(i2c_slave').stretches
        /\ (i2c_slave').needs = 0 \/ (i2c_slave').needs + 1 <= i2c_slave.needs
    BY <1>0, <2>1, <2>3, OneBit
  <2>5. (i2c_slave').needs \in Nat /\ i2c_slave.needs \in Nat
    BY <1>0, <2>4 DEF Slaves
  <2>6. (i2c_slave').needs <= 9 /\ ((i2c_slave').needs = 0 \/ (i2c_slave').needs + i2c_pulses' + 1 <= 9)
    BY <1>0, <2>1, <2>4, <2>5
  <2> QED
    BY <2>1, <2>2, <2>4, <2>6 DEF BusInv, Driven
<1>5. CASE I2cPads
  <2> DEFINE pads == [line \in {"scl", "sda"} |-> PadOf(i2c_pads[line])]
  <2>1. /\ i2c_pc = "pads" /\ (i2c_cfg.reset \/ i2c_slave.needs = 0)
        /\ i2c_pc' = "init" /\ i2c_pads' = pads /\ i2c_slave' = Clocked(pads)
        /\ UNCHANGED <<i2c_cfg, i2c_pulses, i2c_reg>>
    BY <1>5 DEF BusInv, I2cPads, Pads
  <2>2. pads \in BothPads /\ pads["scl"].out = FALSE
    BY <1>0 DEF BothPads, PadOf
  <2> HIDE DEF pads
  <2>3. i2c_slave' \in Slaves /\ (i2c_slave').needs <= i2c_slave.needs
    BY <1>0, <2>1, OneBit
  <2>4. (i2c_slave').needs <= 9 /\ (i2c_slave.needs = 0 => (i2c_slave').needs = 0)
    BY <1>0, <2>3 DEF Slaves
  <2> QED
    BY <2>1, <2>2, <2>3, <2>4 DEF BusInv
<1>6. CASE I2cEnable
  <2>1. /\ i2c_pc = "init" /\ (i2c_cfg.reset \/ i2c_slave.needs = 0)
        /\ i2c_pads["scl"].out = FALSE /\ i2c_pulses \in Nat
        /\ UNCHANGED <<i2c_cfg, i2c_pads, i2c_pulses>>
        /\ (i2c_reg').timing = Timing(I2cKernel, i2c_cfg.mode)
    BY <1>6 DEF BusInv, I2cEnable
  <2>2. i2c_pc' = "done" => SclHigh(i2c_pads, i2c_slave) /\ ~i2c_slave.stretches
    BY <1>6 DEF I2cEnable, SclHigh
  <2>3. i2c_slave' = i2c_slave \/ i2c_slave' = [i2c_slave EXCEPT !.needs = 0]
    <3>1. Max({0, i2c_slave.needs - 9}) = 0
      BY <1>0, CutAtZero DEF Slaves
    <3> QED
      BY <1>6, <3>1 DEF I2cEnable
  <2>4. /\ i2c_slave' \in Slaves /\ (i2c_slave').needs <= 9
        /\ (i2c_slave').stretches = i2c_slave.stretches
    BY <1>0, <2>3 DEF Slaves
  <2>5. i2c_pc' = "done" => (i2c_slave').needs = 0
    <3>1. CASE i2c_slave.needs = 0
      BY <1>0, <2>3, <3>1 DEF Slaves
    <3>2. CASE i2c_cfg.reset /\ i2c_slave.needs # 0 /\ i2c_pc' = "done"
      <4>1. Max({0, i2c_slave.needs - 9}) = 0
        BY <1>0, CutAtZero DEF Slaves
      <4>2. i2c_slave' = [i2c_slave EXCEPT !.needs = 0]
        BY <1>6, <2>2, <3>2, <4>1 DEF I2cEnable, SdaHigh
      <4> QED
        BY <1>0, <4>2 DEF Slaves
    <3> QED
      BY <2>1, <3>1, <3>2
  <2>6. i2c_pc' \in {"done", "hang"}
    BY <1>6 DEF I2cEnable
  <2> QED
    BY <1>0, <2>1, <2>2, <2>4, <2>5, <2>6 DEF BusInv
<1>7. CASE SlaveReleases
  <2>1. i2c_slave.stretches /\ i2c_slave' = [i2c_slave EXCEPT !.stretches = FALSE]
    BY <1>7 DEF SlaveReleases
  <2>2. i2c_slave' \in Slaves /\ (i2c_slave').needs = i2c_slave.needs /\ ~(i2c_slave').stretches
    BY <1>0, <2>1 DEF Slaves
  <2>3. UNCHANGED <<i2c_pc, i2c_cfg, i2c_pads, i2c_pulses, i2c_reg>>
    BY <1>7 DEF SlaveReleases
  <2> QED
    BY <2>1, <2>2, <2>3 DEF BusInv, Driven
<1>8. CASE UNCHANGED i2cVars
  BY <1>8 DEF BusInv, Driven, i2cVars
<1> QED
  BY <1>1, <1>2, <1>3, <1>4, <1>5, <1>6, <1>7, <1>8 DEF I2cSetupNext

\* A constructor that returns leaves both lines released by a slave that was in
\* the middle of a byte, and a timing register whose periods are not shorter than
\* the mode allows (new_blocking, configure_timing of src/i2c/mod.rs), but in
\* FastPlus: for every kernel clock from 20 MHz to 10 GHz.  At 15.5 MHz the
\* rounding costs Fast mode more than its low period has to spare.
THEOREM BusIsUsable == ASSUME KernelInRange PROVE I2cSetupSpec => []I2cBusUsable
<1>1. I2cInit => BusInv
  BY BusStart
<1>2. BusInv /\ [I2cSetupNext]_i2cVars => BusInv'
  BY BusStep
<1>3. BusInv => I2cBusUsable
  <2> SUFFICES ASSUME BusInv, i2c_pc = "done"
               PROVE  I2cBusUsable
    BY DEF I2cBusUsable
  <2>1. /\ ~i2c_slave.stretches /\ i2c_slave.needs = 0 /\ i2c_pads["scl"].out = FALSE
        /\ i2c_reg.timing = Timing(I2cKernel, i2c_cfg.mode) /\ i2c_cfg.mode \in I2cModes
    BY DEF BusInv
  <2>2. SclHigh(i2c_pads, i2c_slave) /\ SdaHigh(i2c_pads, i2c_slave)
    BY <2>1 DEF SclHigh, SdaHigh
  <2>3. ASSUME i2c_cfg.mode # "FastPlus"
        PROVE  /\ HighTime(I2cKernel, i2c_reg.timing) >= Limits[i2c_cfg.mode].high
               /\ LowTime(I2cKernel, i2c_reg.timing) >= Limits[i2c_cfg.mode].low
    <3>1. i2c_cfg.mode \in {"Standard", "Fast"}
      BY <2>1, <2>3, I2cAssumption
    <3> QED
      BY <2>1, <3>1, TimingKept, Zenon
  <2> QED
    BY <2>2, <2>3, Zenon DEF I2cBusUsable
<1> QED
  BY <1>1, <1>2, <1>3, PTL DEF I2cSetupSpec

(***************************************************************************)
(* The external memory controller: the interval its fields hold, and the    *)
(* answers to the commands of the start.                                    *)
(***************************************************************************)
Commands == {"PRECHARGE_ALL", "AUTO_REFRESH", "MODE_SET"}

\* The commands that have been issued at each place of configure_sdram, and
\* that the SDRAM has seen so many of them.
Places == [PRECHARGE_ALL |-> 0, AUTO_REFRESH |-> 1, AGAIN |-> 2, MODE_SET |-> 3, refresh |-> 4]
Seen(k) == fm_dev \in Seq(Commands) /\ Len(fm_dev) = k /\ \A i \in 1 .. k : fm_dev[i] = Steps[i]

\* The fields hold the interval of the configuration asked for.
FieldsHold ==
  /\ fm_cfg \in FemcConfigs /\ Accepts(fm_cfg)
  /\ fm_reg.prescale = Encoded(fm_cfg.prescaler)
  /\ fm_reg.rt = Encoded(RefreshCycle(fm_cfg)) % 256

\* An answer that is read is the one to the command before it, as long as no
\* command has been given up with its answer outstanding.
SdramInv ==
  /\ fm_pc \in {"off", "raw", "idle"} \cup DOMAIN Places \cup {Checking[step] : step \in DOMAIN Issued}
  /\ fm_reg \in [valid : BOOLEAN, prescale : Nat, rt : Nat, ren : BOOLEAN]
  /\ fm_queue \in Seq(Commands) /\ fm_dev \in Seq(Commands)
  /\ fm_reg.ren => fm_pc = "idle" /\ (~fm_late => fm_queue = <<>> /\ Seen(4))
  /\ fm_reg.ren \/ fm_pc \notin {"off", "raw", "idle"} => FieldsHold
  /\ ~fm_late /\ fm_pc \in DOMAIN Places => (fm_flags = {} => Seen(Places[fm_pc]))
  /\ ~fm_late /\ fm_pc = "refresh" => fm_queue = <<>> /\ fm_flags = {}
  /\ ~fm_late => \A step \in DOMAIN Issued : fm_pc = Checking[step] =>
       \/ fm_flags = {} /\ fm_queue = <<Steps[Places[step] + 1]>> /\ Seen(Places[step])
       \/ fm_flags = {"done"} /\ fm_queue = <<>> /\ Seen(Places[step] + 1)
       \/ fm_flags = {"err"} /\ fm_queue = <<>>

\* Both fields, read as the hardware reads them, give the interval back: it is
\* within the budget, and one more unit would not be.
LEMMA IntervalHeld ==
  ASSUME NEW c, c \in FemcConfigs, Accepts(c)
  PROVE  LET unit == Decoded(Encoded(c.prescaler)) * 16
             every == Decoded(Encoded(RefreshCycle(c)) % 256) * unit
             budget == (c.khz * c.ms) \div c.rows
         IN every <= budget /\ every + unit > budget
<1> DEFINE unit == Decoded(c.prescaler) * 16
           budget == (c.khz * c.ms) \div c.rows
           n == budget \div unit
<1>1. c.khz \in Nat /\ c.ms \in Nat /\ c.rows \in Nat \ {0} /\ c.prescaler \in 0 .. 255
  BY FemcAssumption DEF SdramBytes
<1>2. unit \in Nat \ {0} /\ Encoded(c.prescaler) = c.prescaler
  BY <1>1 DEF Encoded, Decoded
<1>3. budget \in Nat
  <2>1. c.khz * c.ms \in Nat
    BY <1>1
  <2> QED
    BY <1>1, <2>1, DivMod
<1>4. RefreshCycle(c) = n
  BY DEF RefreshCycle
<1> HIDE DEF unit, budget
<1>5. n \in Nat /\ budget % unit \in 0 .. unit - 1 /\ budget = unit * n + (budget % unit)
  BY <1>2, <1>3, DivMod
<1> HIDE DEF n
<1>6. n \in 1 .. 256
  BY <1>4 DEF Accepts
<1>7. Decoded(Encoded(n) % 256) = n
  BY <1>6 DEF Decoded, Encoded
<1>8. n * unit <= budget /\ n * unit + unit > budget
  <2> DEFINE r == budget % unit
  <2>1. r \in Nat /\ r < unit /\ budget = unit * n + r
    BY <1>2, <1>5
  <2> HIDE DEF r
  <2> QED
    BY <1>2, <1>3, <1>5, <2>1
<1> QED
  BY <1>2, <1>4, <1>7, <1>8 DEF unit, budget

\* The places of configure_sdram are told apart, and each answer leads on to
\* the next.
LEMMA PlaceFacts ==
  ASSUME NEW step, step \in DOMAIN Issued
  PROVE  /\ Issued[step] = Places[step] /\ Places[step] \in 0 .. 3
         /\ step \in DOMAIN Places /\ step \notin {"off", "raw", "idle", "refresh"}
         /\ Checking[step] \notin DOMAIN Places \cup {"off", "raw", "idle"}
         /\ AfterIssue[step] \in DOMAIN Places /\ Places[AfterIssue[step]] = Places[step] + 1
         /\ Steps[Places[step] + 1] \in Commands
         /\ AfterIssue[step] \notin {"off", "raw", "idle"}
         /\ \A other \in DOMAIN Issued : Checking[other] = Checking[step] => other = step
<1> DEFINE P == "PRECHARGE_ALL"
           A == "AUTO_REFRESH"
           G == "AGAIN"
           M == "MODE_SET"
<1>1. DOMAIN Issued = {P, A, G, M} /\ DOMAIN Places = {P, A, G, M, "refresh"}
  BY DEF Issued, Places
<1>2. Issued[P] = 0 /\ Issued[A] = 1 /\ Issued[G] = 2 /\ Issued[M] = 3
  BY DEF Issued
<1>3. Places[P] = 0 /\ Places[A] = 1 /\ Places[G] = 2 /\ Places[M] = 3 /\ Places["refresh"] = 4
  BY DEF Places
<1>4. /\ Checking[P] = "check PRECHARGE_ALL" /\ Checking[A] = "check AUTO_REFRESH"
      /\ Checking[G] = "check AGAIN" /\ Checking[M] = "check MODE_SET"
  BY DEF Checking
<1>5. AfterIssue[P] = A /\ AfterIssue[A] = G /\ AfterIssue[G] = M /\ AfterIssue[M] = "refresh"
  BY DEF AfterIssue
<1>6. Steps[1] \in Commands /\ Steps[2] \in Commands /\ Steps[3] \in Commands /\ Steps[4] \in Commands
  <2>1. Steps[1] = P /\ Steps[2] = A /\ Steps[3] = A /\ Steps[4] = M
    BY DEF Steps
  <2> QED
    BY <2>1 DEF Commands
<1>7. step \in {P, A, G, M}
  BY <1>1
<1>8. Issued[step] = Places[step] /\ Places[step] \in 0 .. 3
  BY <1>2, <1>3, <1>7
<1>9. step \in DOMAIN Places /\ step \notin {"off", "raw", "idle", "refresh"}
  BY <1>1, <1>7
<1>10. Checking[step] \notin DOMAIN Places \cup {"off", "raw", "idle"}
  BY <1>1, <1>4, <1>7
<1>11. AfterIssue[step] \in DOMAIN Places /\ Places[AfterIssue[step]] = Places[step] + 1
  BY <1>1, <1>3, <1>5, <1>7
<1>12. Steps[Places[step] + 1] \in Commands
  BY <1>3, <1>6, <1>7
<1>13. AfterIssue[step] \notin {"off", "raw", "idle"}
  BY <1>5, <1>7
<1>14. \A other \in DOMAIN Issued : Checking[other] = Checking[step] => other = step
  BY <1>1, <1>4, <1>7
<1> QED
  BY <1>8, <1>9, <1>10, <1>11, <1>12, <1>13, <1>14

\* Nothing has been issued.
LEMMA SdramStart == ASSUME FemcInit PROVE SdramInv
<1>1. fm_pc = "off" /\ fm_queue = <<>> /\ fm_flags = {} /\ fm_reg = FemcReset /\ fm_dev = <<>>
  BY DEF FemcInit
<1>2. <<>> \in Seq(Commands)
  OBVIOUS
<1>3. \A step \in DOMAIN Issued : Checking[step] # "off"
  BY PlaceFacts
<1>4. "off" \notin DOMAIN Places
  BY DEF Places
<1> QED
  BY <1>1, <1>2, <1>3, <1>4 DEF SdramInv, FemcReset

\* The commands in order are those of Steps.
LEMMA AllSeen == Seen(4) => fm_dev = Steps
<1> SUFFICES ASSUME Seen(4) PROVE fm_dev = Steps
  OBVIOUS
<1>1. Steps \in Seq(Commands) /\ Len(Steps) = 4
  BY DEF Steps, Commands
<1>2. fm_dev \in Seq(Commands) /\ Len(fm_dev) = 4 /\ \A i \in 1 .. 4 : fm_dev[i] = Steps[i]
  BY DEF Seen
<1> HIDE DEF Steps
<1> QED
  BY <1>1, <1>2, SeqEqual

\* One command more.
LEMMA OneMoreSeen ==
  ASSUME NEW k \in 0 .. 3, Seen(k), Steps[k + 1] \in Commands, fm_dev' = Append(fm_dev, Steps[k + 1])
  PROVE  Seen(k + 1)'
<1>1. fm_dev \in Seq(Commands) /\ Len(fm_dev) = k /\ \A i \in 1 .. k : fm_dev[i] = Steps[i]
  BY DEF Seen
<1> QED
  BY <1>1 DEF Seen

\* The fields stay when neither they nor the configuration change.
LEMMA FieldsStay ==
  FieldsHold /\ fm_cfg' = fm_cfg /\ (fm_reg').prescale = fm_reg.prescale /\ (fm_reg').rt = fm_reg.rt
    => FieldsHold'
BY DEF FieldsHold, Accepts, RefreshCycle, Encoded, Decoded

\* Every step of the driver and of the controller keeps the answers in order.
LEMMA SdramStep == ASSUME SdramInv, [FemcNext]_femcVars PROVE SdramInv'
<1> DEFINE Outside == {"off", "raw", "idle"}
<1>0. /\ fm_reg \in [valid : BOOLEAN, prescale : Nat, rt : Nat, ren : BOOLEAN]
      /\ fm_queue \in Seq(Commands) /\ fm_dev \in Seq(Commands)
  BY DEF SdramInv
<1>00. \A step \in DOMAIN Issued : Checking[step] \notin DOMAIN Places \cup Outside
  BY PlaceFacts
<1>000. \A place \in DOMAIN Places : place \notin Outside
  BY DEF Places
<1>1. CASE FemcNew
  <2>1. fm_pc' = "raw" /\ fm_pc = "off" /\ UNCHANGED <<fm_cfg, fm_reg, fm_queue, fm_flags, fm_dev, fm_late>>
    BY <1>1 DEF FemcNew
  <2>2. ~fm_reg.ren
    BY <2>1 DEF SdramInv
  <2> QED
    BY <1>0, <1>00, <1>000, <2>1, <2>2 DEF SdramInv
<1>2. CASE FemcStart
  <2>1. fm_pc' = "idle" /\ fm_reg' = FemcReset /\ fm_queue' = <<>> /\ fm_dev' = <<>> /\ UNCHANGED fm_cfg
    BY <1>2 DEF FemcStart
  <2>2. fm_reg' \in [valid : BOOLEAN, prescale : Nat, rt : Nat, ren : BOOLEAN] /\ ~(fm_reg').ren
    BY <2>1 DEF FemcReset
  <2>3. fm_queue' \in Seq(Commands) /\ fm_dev' \in Seq(Commands)
    BY <2>1
  <2> QED
    BY <1>00, <1>000, <2>1, <2>2, <2>3 DEF SdramInv
<1>3. ASSUME NEW c \in FemcConfigs, ConfigureSdram(c) PROVE SdramInv'
  <2>1. fm_pc = "idle" /\ UNCHANGED <<fm_queue, fm_flags, fm_late>>
    BY <1>3 DEF ConfigureSdram
  <2>2. CASE Accepts(c)
    <3>1. /\ fm_reg' = [valid |-> TRUE, prescale |-> Encoded(c.prescaler),
                        rt |-> Encoded(RefreshCycle(c)) % 256, ren |-> FALSE]
          /\ fm_cfg' = c /\ fm_dev' = <<>> /\ fm_pc' = "PRECHARGE_ALL"
      BY <1>3, <2>2 DEF ConfigureSdram
    <3>2. Encoded(c.prescaler) \in Nat /\ Encoded(RefreshCycle(c)) % 256 \in Nat
      <4>1. c.prescaler \in 0 .. 255
        BY FemcAssumption DEF SdramBytes
      <4>2. RefreshCycle(c) \in 1 .. 256
        BY <2>2 DEF Accepts
      <4> HIDE DEF RefreshCycle
      <4> QED
        BY <4>1, <4>2 DEF Encoded
    <3>3. FieldsHold'
      BY <2>2, <3>1 DEF FieldsHold, Accepts, RefreshCycle, Encoded, Decoded
    <3>4. fm_reg' \in [valid : BOOLEAN, prescale : Nat, rt : Nat, ren : BOOLEAN] /\ ~(fm_reg').ren
      BY <3>1, <3>2
    <3>5. "PRECHARGE_ALL" \in DOMAIN Places /\ Places["PRECHARGE_ALL"] = 0
      BY DEF Places
    <3>6. Seen(0)' /\ fm_dev' \in Seq(Commands)
      BY <3>1 DEF Seen
    <3> QED
      BY <1>0, <1>00, <2>1, <3>1, <3>3, <3>4, <3>5, <3>6 DEF SdramInv
  <2>3. CASE ~Accepts(c)
    <3>1. UNCHANGED <<fm_reg, fm_cfg, fm_dev, fm_pc>>
      BY <1>3, <2>3 DEF ConfigureSdram
    <3>2. FieldsHold => FieldsHold'
      BY <3>1, FieldsStay
    <3> QED
      BY <1>00, <1>000, <2>1, <3>1, <3>2 DEF SdramInv, Seen
  <2> QED
    BY <2>2, <2>3
<1>4. CASE IssueIpCmd
  <2>1. PICK step \in DOMAIN Issued : fm_pc = step
    BY <1>4 DEF IssueIpCmd
  <2> DEFINE word == Steps[Issued[step] + 1]
  <2>2. /\ fm_queue' = Append(fm_queue, word) /\ fm_late' = (fm_late \/ fm_queue # <<>> \/ fm_flags # {})
        /\ fm_pc' = Checking[step] /\ UNCHANGED <<fm_cfg, fm_reg, fm_flags, fm_dev>>
    BY <1>4, <2>1 DEF IssueIpCmd
  <2>3. /\ word = Steps[Places[step] + 1] /\ step \in DOMAIN Places /\ step \notin Outside
        /\ Checking[step] \notin DOMAIN Places \cup Outside /\ word \in Commands
        /\ \A other \in DOMAIN Issued : Checking[other] = Checking[step] => other = step
    BY PlaceFacts
  <2> HIDE DEF word
  <2>4. ~fm_reg.ren /\ FieldsHold
    BY <2>1, <2>3 DEF SdramInv
  <2>5. FieldsHold'
    BY <2>2, <2>4, FieldsStay
  <2>6. fm_queue' \in Seq(Commands)
    BY <1>0, <2>2, <2>3
  <2>7. ~fm_late' => fm_flags' = {} /\ fm_queue' = <<word>> /\ Seen(Places[step])'
    <3>1. ~fm_late' => ~fm_late /\ fm_queue = <<>> /\ fm_flags = {}
      BY <2>2
    <3>2. ~fm_late /\ fm_flags = {} => Seen(Places[step])
      BY <2>1, <2>3 DEF SdramInv
    <3>3. Seen(Places[step]) => Seen(Places[step])'
      BY <2>2 DEF Seen
    <3>4. Append(<<>>, word) = <<word>>
      OBVIOUS
    <3> QED
      BY <2>2, <3>1, <3>2, <3>3, <3>4
  <2>8. /\ fm_pc' \in {Checking[other] : other \in DOMAIN Issued}
        /\ fm_pc' \notin DOMAIN Places \cup Outside
        /\ \A other \in DOMAIN Issued : fm_pc' = Checking[other] => other = step
    BY <2>2, <2>3
  <2>9. (fm_reg').ren = FALSE /\ fm_reg' = fm_reg /\ fm_dev' = fm_dev
    BY <1>0, <2>2, <2>4
  <2>10. ~fm_late' => \A other \in DOMAIN Issued : fm_pc' = Checking[other] =>
           fm_flags' = {} /\ fm_queue' = <<Steps[Places[other] + 1]>> /\ Seen(Places[other])'
    BY <2>3, <2>7, <2>8
  <2> QED
    <3>1. "refresh" \in DOMAIN Places
      BY DEF Places
    <3> HIDE DEF Outside
    <3>2. fm_pc' \in Outside \cup DOMAIN Places \cup {Checking[other] : other \in DOMAIN Issued}
      BY <2>8
    <3>3. fm_pc' \notin DOMAIN Places /\ fm_pc' # "refresh"
      BY <2>8, <3>1
    <3> QED
      BY <1>0, <2>2, <2>5, <2>6, <2>9, <2>10, <3>2, <3>3 DEF SdramInv, Outside
<1>5. ASSUME NEW step \in DOMAIN Issued, fm_pc = Checking[step], CheckIpCmdDone
      PROVE  SdramInv'
  <2>1. /\ \/ /\ fm_flags # {} /\ fm_flags' = {}
              /\ fm_pc' = IF Answered = "ok" THEN AfterIssue[step] ELSE "idle"
           \/ fm_flags = {} /\ fm_pc' = "idle" /\ UNCHANGED fm_flags
        /\ UNCHANGED <<fm_cfg, fm_reg, fm_queue, fm_dev, fm_late>>
    BY <1>5, PlaceFacts DEF CheckIpCmdDone
  <2>2. /\ fm_pc \notin DOMAIN Places \cup Outside
        /\ AfterIssue[step] \in DOMAIN Places /\ Places[AfterIssue[step]] = Places[step] + 1
        /\ AfterIssue[step] \notin Outside
    BY <1>5, PlaceFacts
  <2>3. ~fm_reg.ren /\ FieldsHold
    BY <2>2 DEF SdramInv
  <2>4. FieldsHold'
    BY <2>1, <2>3, FieldsStay
  <2>5. (fm_reg').ren = FALSE /\ fm_reg' = fm_reg /\ fm_dev' = fm_dev /\ fm_queue' = fm_queue
    BY <1>0, <2>1, <2>3
  <2>6. CASE fm_pc' = "idle"
    BY <1>0, <1>00, <1>000, <2>1, <2>4, <2>5, <2>6 DEF SdramInv
  <2>7. CASE fm_pc' = AfterIssue[step] /\ fm_flags # {} /\ fm_flags' = {} /\ Answered = "ok"
    <3>1. fm_flags # {"err"}
      BY <2>7 DEF Answered
    <3>2. ~fm_late => fm_queue = <<>> /\ Seen(Places[step] + 1)
      BY <1>5, <2>7, <3>1 DEF SdramInv
    <3>3. Seen(Places[step] + 1) => Seen(Places[step] + 1)'
      BY <2>1 DEF Seen
    <3>4. ~fm_late' => fm_queue' = <<>> /\ Seen(Places[AfterIssue[step]])'
      BY <2>1, <2>2, <3>2, <3>3
    <3>5. \A other \in DOMAIN Issued : fm_pc' # Checking[other]
      BY <1>00, <2>2, <2>7
    <3> QED
      BY <1>0, <2>1, <2>2, <2>4, <2>5, <2>7, <3>4, <3>5 DEF SdramInv
  <2> QED
    BY <2>1, <2>6, <2>7
<1>6. CASE EnableRefresh
  <2>1. /\ fm_pc = "refresh" /\ fm_reg' = [fm_reg EXCEPT !.ren = TRUE] /\ fm_pc' = "idle"
        /\ UNCHANGED <<fm_cfg, fm_queue, fm_flags, fm_dev, fm_late>>
    BY <1>6 DEF EnableRefresh
  <2>2. "refresh" \in DOMAIN Places /\ Places["refresh"] = 4
    BY DEF Places
  <2>3. FieldsHold
    BY <2>1 DEF SdramInv
  <2>4. FieldsHold'
    BY <1>0, <2>1, <2>3, FieldsStay
  <2>5. fm_reg' \in [valid : BOOLEAN, prescale : Nat, rt : Nat, ren : BOOLEAN]
    BY <1>0, <2>1
  <2>6. ~fm_late => fm_queue = <<>> /\ Seen(4)
    BY <2>1, <2>2 DEF SdramInv
  <2>7. Seen(4) => Seen(4)'
    BY <2>1 DEF Seen
  <2> QED
    BY <1>0, <1>00, <1>000, <2>1, <2>4, <2>5, <2>6, <2>7 DEF SdramInv
<1>7. CASE FemcExecutes
  <2>1. /\ fm_queue # <<>> /\ fm_queue' = Tail(fm_queue)
        /\ \/ fm_dev' = Append(fm_dev, Head(fm_queue)) /\ fm_flags' = fm_flags \cup {"done"}
           \/ UNCHANGED fm_dev /\ fm_flags' = fm_flags \cup {"err"}
        /\ UNCHANGED <<fm_pc, fm_cfg, fm_reg, fm_late>>
    BY <1>7 DEF FemcExecutes
  <2>2. fm_queue' \in Seq(Commands) /\ fm_dev' \in Seq(Commands) /\ fm_flags' # {}
    <3>1. Head(fm_queue) \in Commands /\ Tail(fm_queue) \in Seq(Commands)
      BY <1>0, <2>1, HeadTailProperties
    <3>2. Append(fm_dev, Head(fm_queue)) \in Seq(Commands)
      BY <1>0, <3>1
    <3>3. fm_queue' \in Seq(Commands) /\ fm_dev' \in Seq(Commands)
      BY <1>0, <2>1, <3>1, <3>2
    <3>4. fm_flags' # {}
      BY <2>1
    <3> QED
      BY <3>3, <3>4
  <2>3. FieldsHold => FieldsHold'
    BY <2>1, FieldsStay
  <2>4. fm_reg.ren => fm_late
    BY <2>1 DEF SdramInv
  <2>5. fm_pc = "refresh" => fm_late
    BY <2>1 DEF SdramInv
  <2>6. ASSUME ~fm_late, NEW step \in DOMAIN Issued, fm_pc = Checking[step]
        PROVE  \/ fm_flags' = {"done"} /\ fm_queue' = <<>> /\ Seen(Places[step] + 1)'
               \/ fm_flags' = {"err"} /\ fm_queue' = <<>>
    <3> DEFINE word == Steps[Places[step] + 1]
    <3>1. fm_flags = {} /\ fm_queue = <<word>> /\ Seen(Places[step])
      BY <2>1, <2>6 DEF SdramInv
    <3>2. Places[step] \in 0 .. 3 /\ word \in Commands
      BY PlaceFacts
    <3>3. Head(<<word>>) = word /\ Tail(<<word>>) = <<>>
      <4> HIDE DEF word
      <4> QED
        OBVIOUS
    <3>4. fm_queue' = <<>>
      BY <2>1, <3>1, <3>3
    <3>5. fm_dev' = Append(fm_dev, word) => Seen(Places[step] + 1)'
      BY <3>1, <3>2, OneMoreSeen
    <3> QED
      BY <2>1, <3>1, <3>3, <3>4, <3>5
  <2> QED
    BY <1>0, <1>000, <2>1, <2>2, <2>3, <2>4, <2>5, <2>6 DEF SdramInv
<1>8. CASE UNCHANGED femcVars
  <2>1. UNCHANGED <<fm_pc, fm_cfg, fm_reg, fm_queue, fm_flags, fm_dev, fm_late>>
    BY <1>8 DEF femcVars
  <2>2. FieldsHold => FieldsHold'
    BY <2>1, FieldsStay
  <2> QED
    BY <2>1, <2>2 DEF SdramInv, Seen
<1>9. CheckIpCmdDone => \E step \in DOMAIN Issued : fm_pc = Checking[step]
  BY DEF CheckIpCmdDone
<1> QED
  BY <1>1, <1>2, <1>3, <1>4, <1>5, <1>6, <1>7, <1>8, <1>9 DEF FemcNext

\* Once refresh is enabled, every row of the SDRAM is refreshed within its
\* interval and not needlessly early, after the commands that start it in their
\* order (configure_sdram, issue_ip_cmd of src/femc.rs): for every configuration
\* that is accepted, any number of calls, and commands that fail or time out.
THEOREM SdramIsRefreshed == FemcSpec => []SdramRefreshed
<1>1. FemcInit => SdramInv
  BY SdramStart
<1>2. SdramInv /\ [FemcNext]_femcVars => SdramInv'
  BY SdramStep
<1>3. SdramInv => SdramRefreshed
  <2> SUFFICES ASSUME SdramInv, fm_reg.ren PROVE SdramRefreshed
    BY DEF SdramRefreshed
  <2>1. FieldsHold /\ (~fm_late => fm_dev = Steps)
    BY AllSeen DEF SdramInv
  <2>2. /\ fm_cfg \in FemcConfigs /\ Accepts(fm_cfg)
        /\ fm_reg.prescale = Encoded(fm_cfg.prescaler)
        /\ fm_reg.rt = Encoded(RefreshCycle(fm_cfg)) % 256
    BY <2>1 DEF FieldsHold
  <2> QED
    BY <2>1, <2>2, IntervalHeld DEF SdramRefreshed
<1> QED
  BY <1>1, <1>2, <1>3, PTL DEF FemcSpec

(***************************************************************************)
(* CLOCKS, which every divider is computed from, and the clocks themselves. *)
(***************************************************************************)
\* The sources and the entries of CLOCKS that start-up computes.
SourcesOf(part) == DOMAIN Sources[part]
OwnOutputs == {"pll0clk0", "pll0clk1", "pll0clk2"}
PllFollows(part) == OwnPll(part) /\ clk_cfg.pll # NoPll /\ Params(clk_cfg.pll.vco) # {}

\* What start-up has set up so far agrees with CLOCKS: the boot ROM's PLL until
\* its outputs are written to CLOCKS, the other sources at all times, the cores
\* and buses once their nodes have been set.
ClkInv ==
  /\ clk_part \in ClkParts
  /\ clk_pc \in {"reset", "pll", "post", "nodes", "dma", "up"}
  /\ {clk_cfg.cpu0.src, clk_cfg.cpu1.src, clk_cfg.bus.src} \subseteq SourcesOf(clk_part) \cup {"clk_24m"}
  /\ \A k \in {"cpu0", "cpu1", "bus"} : clk_cfg[k].raw + 1 = clk_cfg[k].div
  /\ clk_cfg.pll \in ClkPlls \cup {NoPll}
  /\ DOMAIN clk_cache = DOMAIN Cores[clk_part] \cup SourcesOf(clk_part)
  /\ DOMAIN clk_node = {"cpu0", "cpu1", "bus", "axi"}
  /\ DOMAIN clk_pll = {"mfi", "mfn", "post"}
  /\ clk_pc = "reset" => clk_pll = BootPll
  /\ clk_pc \in {"pll", "post"} => OwnPll(clk_part)
  /\ \A s \in SourcesOf(clk_part) :
       ~(OwnPll(clk_part) /\ s \in OwnOutputs) => clk_cache[s] = Sources[clk_part][s]
  /\ clk_pc # "post" /\ clk_pc # "pll" => \A s \in SourcesOf(clk_part) : clk_cache[s] = Running[s]
  /\ clk_pc \notin {"reset", "pll"} /\ PllFollows(clk_part) => Fvco(clk_pll) = clk_cfg.pll.vco
  /\ ClkStarted =>
       /\ clk_cache.cpu0 = Frequency(clk_node.cpu0)
       /\ clk_cache.cpu0 = Frequency(Node(clk_cfg.cpu0))
       /\ "cpu1" \in DOMAIN clk_cache =>
            clk_cache.cpu1 = Frequency(clk_node.cpu1) /\ clk_cache.cpu1 = Frequency(Node(clk_cfg.cpu1))
       /\ clk_cache.ahb = BusFrequency(clk_node.bus)
       /\ ~Divided(clk_part) => clk_cache.ahb = Frequency(Node(clk_cfg.bus))
       /\ "axi" \in DOMAIN clk_cache => clk_cache.axi = BusFrequency(clk_node.axi)

\* ClockConfig::new stores one less than the divider, in the eight bits there are.
LEMMA RawDivider ==
  ASSUME NEW asked, \A a \in asked : a.div \in Nat, NEW c \in Clocks(asked)
  PROVE  c.raw + 1 = c.div
<1>1. PICK a \in asked : c \in NewClock(a.src, a.div)
  BY DEF Clocks
<1> DEFINE n == a.div
<1>2. n \in 1 .. 256 /\ c = [src |-> a.src, div |-> n, raw |-> ((n % 256) + 255) % 256]
  BY <1>1 DEF NewClock
<1>3. c.div = n /\ c.raw = ((n % 256) + 255) % 256
  BY <1>2
<1> HIDE DEF n
<1>4. CASE n = 256
  <2>1. n % 256 = 0
    BY <1>4
  <2> QED
    BY <1>3, <1>4, <2>1
<1>5. CASE n # 256
  <2>1. n % 256 = n /\ n \in 1 .. 255
    BY <1>2, <1>5
  <2>2. (n + 255) % 256 = n - 1
    BY <2>1
  <2> QED
    BY <1>3, <2>1, <2>2
<1> QED
  BY <1>4, <1>5

\* A clock that runs at its divider runs as asked.
LEMMA RunsAsAsked ==
  ASSUME NEW c, c.raw + 1 = c.div
  PROVE  Frequency(Node(c)) = Asked(c)
<1>1. Node(c).src = c.src /\ Node(c).raw = c.raw
  BY DEF Node
<1> QED
  BY <1>1 DEF Frequency, OfCache, Asked

\* Over is the new function where it is defined.
LEMMA OverAt ==
  ASSUME NEW f, NEW g
  PROVE  /\ DOMAIN Over(f, g) = DOMAIN f \cup DOMAIN g
         /\ \A k \in DOMAIN f : Over(f, g)[k] = f[k]
         /\ \A k \in DOMAIN g : k \notin DOMAIN f => Over(f, g)[k] = g[k]
  BY DEF Over

\* What the parts have in common: the CPU and the bus have entries that are no
\* sources, and an AXI entry is that of a divided bus.
LEMMA PartFacts ==
  ASSUME NEW part \in ClkParts
  PROVE  /\ {"cpu0", "cpu1", "ahb", "axi", "clk_24m"} \cap SourcesOf(part) = {}
         /\ DOMAIN Cores[part] \cap SourcesOf(part) = {}
         /\ {"cpu0", "ahb"} \subseteq DOMAIN Cores[part]
         /\ "axi" \in DOMAIN Cores[part] => Divided(part)
         /\ "cpu1" \in DOMAIN Cores[part] => ~Divided(part) /\ part # "v68"
         /\ OwnPll(part) => OwnOutputs \subseteq SourcesOf(part) /\ Divided(part)
<1>1. CASE part = "v53"
  BY <1>1 DEF SourcesOf, Sources, Cores, V53Sources, V53Cores, Divided, OwnPll, OwnOutputs
<1>2. CASE part = "v62"
  BY <1>2 DEF SourcesOf, Sources, Cores, V62Sources, V62Cores, Divided, OwnPll
<1>3. CASE part = "v63"
  BY <1>3 DEF SourcesOf, Sources, Cores, V62Sources, V63Cores, Divided, OwnPll
<1>4. CASE part = "v67"
  BY <1>4 DEF SourcesOf, Sources, Cores, V67Sources, V67Cores, Divided, OwnPll
<1>5. CASE part = "v68"
  BY <1>5 DEF SourcesOf, Sources, Cores, V68Sources, V68Cores, Divided, OwnPll
<1>6. CASE part = "v6e"
  BY <1>6 DEF SourcesOf, Sources, Cores, V6eSources, V6eCores, Divided, OwnPll
<1> QED
  BY <1>1, <1>2, <1>3, <1>4, <1>5, <1>6, ClkAssumption

\* The outputs of PLL 0 as the boot ROM leaves it are what CLOCKS starts with.
LEMMA BootOutputs ==
  /\ Outputs(BootPll).pll0clk0 = Sources.v53.pll0clk0
  /\ Outputs(BootPll).pll0clk1 = Sources.v53.pll0clk1
  /\ Outputs(BootPll).pll0clk2 = Sources.v53.pll0clk2
<1>1. Fvco(BootPll) = 720000
  BY SMT DEF Fvco, BootPll, Xtal, Mfd
<1>2. BootPll.post[1] = 0 /\ BootPll.post[2] = 1 /\ BootPll.post[3] = 4
  BY SMT DEF BootPll
<1>3. Post(BootPll, 1) = 720000 /\ Post(BootPll, 2) = 600000 /\ Post(BootPll, 3) = 400000
  BY <1>1, <1>2, SMT DEF Post
<1> QED
  BY <1>3, SMT DEF Outputs, Sources, V53Sources

\* The frequency of a PLL is the sum of its parts.
LEMMA VcoFollows ==
  ASSUME NEW vco \in Nat, NEW p \in Params(vco), NEW pll, pll.mfi = p.mfi, pll.mfn = p.mfn
  PROVE  Fvco(pll) = vco
<1> DEFINE q == vco \div 24000
           r == vco % 24000
<1>1. p = [mfi |-> q, mfn |-> 10 * r]
  BY SMT DEF Params, Xtal
<1>2. q \in Nat /\ r \in Nat /\ vco = 24000 * q + r
  BY SMT
<1> HIDE DEF q, r
<1>3. (10 * r) \div 10 = r
  BY <1>2, SMT
<1>4. pll.mfi = q /\ pll.mfn = 10 * r
  BY <1>1, SMT
<1>5. Fvco(pll) = 24000 * q + (10 * r) \div 10
  BY <1>4, SMT DEF Fvco, Xtal, Mfd
<1> QED
  BY <1>2, <1>3, <1>5, SMT

\* What is running, and what it stands on.
LEMMA RunningAt ==
  /\ clk_part \in ClkParts => DOMAIN Running = SourcesOf(clk_part)
  /\ OwnPll(clk_part) => Running = Over(Outputs(clk_pll), Sources[clk_part])
  /\ ~OwnPll(clk_part) => Running = Sources[clk_part]
  /\ DOMAIN Outputs(clk_pll) = OwnOutputs
<1>1. DOMAIN Outputs(clk_pll) = OwnOutputs
  BY DEF Outputs, OwnOutputs
<1>2. clk_part \in ClkParts /\ OwnPll(clk_part) => DOMAIN Running = SourcesOf(clk_part)
  <2> DEFINE own == Outputs(clk_pll)
             given == Sources[clk_part]
  <2> HIDE DEF own, given
  <2>1. DOMAIN Over(own, given) = DOMAIN own \cup DOMAIN given
    BY OverAt
  <2> QED
    BY <1>1, <2>1, PartFacts DEF Running, SourcesOf, own, given
<1> QED
  BY <1>1, <1>2 DEF Running, SourcesOf

\* A clock computed from CLOCKS has the frequency it has.
LEMMA CacheTells ==
  ASSUME NEW c, c.src \in SourcesOf(clk_part) \cup {"clk_24m"}, NEW cache,
         \A s \in SourcesOf(clk_part) : cache[s] = Running[s]
  PROVE  OfCache(cache, c) = Frequency(Node(c))
<1>1. Node(c).src = c.src /\ Node(c).raw = c.raw
  BY DEF Node
<1>2. CASE c.src = "clk_24m"
  BY <1>1, <1>2 DEF OfCache, Frequency
<1>3. CASE c.src # "clk_24m"
  BY <1>1, <1>3 DEF OfCache, Frequency
<1> QED
  BY <1>2, <1>3

\* CLOCKS starts with the frequencies the boot ROM leaves.
LEMMA ClkStart == ASSUME ClkInit PROVE ClkInv
<1>1. /\ clk_part \in ClkParts /\ clk_pc = "reset" /\ clk_node = BootNode /\ clk_pll = BootPll
      /\ clk_cache = Over(Cores[clk_part], Sources[clk_part])
      /\ {clk_cfg.cpu0.src, clk_cfg.cpu1.src, clk_cfg.bus.src} \subseteq SourcesOf(clk_part) \cup {"clk_24m"}
      /\ clk_cfg.cpu0 \in Clocks(ClkCpu) /\ clk_cfg.cpu1 \in Clocks(ClkCpu) /\ clk_cfg.bus \in Clocks(ClkBus)
      /\ clk_cfg.pll \in ClkPlls \cup {NoPll}
  BY DEF ClkInit, SourcesOf
<1>2. DOMAIN clk_cache = DOMAIN Cores[clk_part] \cup SourcesOf(clk_part)
  BY <1>1, OverAt DEF SourcesOf
<1>3. DOMAIN clk_node = {"cpu0", "cpu1", "bus", "axi"}
  BY <1>1 DEF BootNode
<1>4. DOMAIN clk_pll = {"mfi", "mfn", "post"}
  BY <1>1 DEF BootPll
<1>5. \A s \in SourcesOf(clk_part) : s \notin DOMAIN Cores[clk_part]
  BY <1>1, PartFacts
<1>6. \A s \in SourcesOf(clk_part) : clk_cache[s] = Sources[clk_part][s]
  <2> DEFINE cores == Cores[clk_part]
             given == Sources[clk_part]
  <2> HIDE DEF cores, given
  <2>1. \A k \in DOMAIN given : k \notin DOMAIN cores => Over(cores, given)[k] = given[k]
    BY OverAt
  <2> QED
    BY <1>1, <1>5, <2>1 DEF SourcesOf, cores, given
<1>7. \A s \in SourcesOf(clk_part) : Running[s] = Sources[clk_part][s]
  <2>1. CASE OwnPll(clk_part)
    <3>1. \A s \in OwnOutputs : Outputs(clk_pll)[s] = Sources[clk_part][s]
      BY <1>1, <2>1, BootOutputs DEF OwnOutputs, OwnPll
    <3> DEFINE own == Outputs(clk_pll)
               given == Sources[clk_part]
    <3> HIDE DEF own, given
    <3>2. /\ \A k \in DOMAIN own : Over(own, given)[k] = own[k]
          /\ \A k \in DOMAIN given : k \notin DOMAIN own => Over(own, given)[k] = given[k]
      BY OverAt
    <3> QED
      BY <2>1, <3>1, <3>2, RunningAt DEF SourcesOf, own, given
  <2>2. CASE ~OwnPll(clk_part)
    BY <2>2, RunningAt
  <2> QED
    BY <2>1, <2>2
<1>8. \A k \in {"cpu0", "cpu1", "bus"} : clk_cfg[k].raw + 1 = clk_cfg[k].div
  BY <1>1, RawDivider, ClkAssumption
<1> QED
  BY <1>1, <1>2, <1>3, <1>4, <1>6, <1>7, <1>8 DEF ClkInv, ClkStarted

\* Steps that leave the clocks alone.
LEMMA ClocksStay ==
  ASSUME ClkInv, UNCHANGED <<clk_part, clk_cfg, clk_node, clk_pll, clk_cache>>,
         clk_pc' = clk_pc \/ (clk_pc = "dma" /\ clk_pc' = "up")
  PROVE  ClkInv'
<1>1. Running' = Running /\ PllFollows(clk_part)' = PllFollows(clk_part)
  BY DEF Running, PllFollows
<1>2. /\ Frequency(clk_node.cpu0)' = Frequency(clk_node.cpu0)
      /\ Frequency(clk_node.cpu1)' = Frequency(clk_node.cpu1)
      /\ \A c : Frequency(Node(c))' = Frequency(Node(c))
      /\ BusFrequency(clk_node.bus)' = BusFrequency(clk_node.bus)
      /\ BusFrequency(clk_node.axi)' = BusFrequency(clk_node.axi)
  BY <1>1 DEF Frequency, BusFrequency
<1>3. /\ clk_pc' \in {"reset", "pll", "post", "nodes", "dma", "up"}
      /\ clk_pc' \in {"reset", "pll", "post", "nodes"} => clk_pc' = clk_pc
      /\ ClkStarted' => ClkStarted
      /\ clk_pc' \notin {"reset", "pll"} => clk_pc \notin {"reset", "pll"}
      /\ clk_pc' # "post" /\ clk_pc' # "pll" => clk_pc # "post" /\ clk_pc # "pll"
  BY DEF ClkInv, ClkStarted
<1> QED
  BY <1>1, <1>2, <1>3 DEF ClkInv

\* The clocks of CPU and bus get the dividers asked for, and CLOCKS with them.
LEMMA NodesStep ==
  ASSUME ClkInv, SetNodes
  PROVE  /\ DOMAIN clk_node' = DOMAIN clk_node /\ DOMAIN clk_cache' = DOMAIN clk_cache
         /\ \A s \in SourcesOf(clk_part) : clk_cache'[s] = clk_cache[s]
         /\ (clk_cache').cpu0 = Frequency(clk_node.cpu0)'
         /\ (clk_cache').cpu0 = Frequency(Node(clk_cfg.cpu0))
         /\ "cpu1" \in DOMAIN clk_cache =>
              (clk_cache').cpu1 = Frequency(clk_node.cpu1)' /\ (clk_cache').cpu1 = Frequency(Node(clk_cfg.cpu1))
         /\ (clk_cache').ahb = BusFrequency(clk_node.bus)'
         /\ ~Divided(clk_part) => (clk_cache').ahb = Frequency(Node(clk_cfg.bus))
         /\ "axi" \in DOMAIN clk_cache => (clk_cache').axi = BusFrequency(clk_node.axi)'
<1> DEFINE cpu == OfCache(clk_cache, clk_cfg.cpu0)
<1>1. /\ clk_part \in ClkParts /\ clk_pc = "nodes"
      /\ {clk_cfg.cpu0.src, clk_cfg.cpu1.src, clk_cfg.bus.src} \subseteq SourcesOf(clk_part) \cup {"clk_24m"}
      /\ DOMAIN clk_cache = DOMAIN Cores[clk_part] \cup SourcesOf(clk_part)
      /\ DOMAIN clk_node = {"cpu0", "cpu1", "bus", "axi"}
      /\ \A s \in SourcesOf(clk_part) : clk_cache[s] = Running[s]
  BY DEF ClkInv, SetNodes
<1>2. /\ {"cpu0", "cpu1", "ahb", "axi", "clk_24m"} \cap SourcesOf(clk_part) = {}
      /\ {"cpu0", "ahb"} \subseteq DOMAIN clk_cache
      /\ "axi" \in DOMAIN clk_cache => Divided(clk_part)
      /\ "cpu1" \in DOMAIN clk_cache => ~Divided(clk_part) /\ clk_part # "v68"
  BY <1>1, PartFacts
<1>3. Running' = Running /\ UNCHANGED clk_cfg
  BY DEF SetNodes, Running
<1>4. /\ cpu = Frequency(Node(clk_cfg.cpu0))
      /\ OfCache(clk_cache, clk_cfg.cpu1) = Frequency(Node(clk_cfg.cpu1))
      /\ OfCache(clk_cache, clk_cfg.bus) = Frequency(Node(clk_cfg.bus))
  BY <1>1, CacheTells
<1>5. CASE Divided(clk_part)
  <2> DEFINE buses == [k \in {"ahb", "axi"} \cap DOMAIN clk_cache |-> cpu \div (clk_cfg[k] + 1)]
             core == [clk_cache EXCEPT !.cpu0 = cpu]
  <2>1. /\ clk_node' = [clk_node EXCEPT !.cpu0 = Node(clk_cfg.cpu0),
                                        !.bus = [src |-> "cpu0", raw |-> clk_cfg.ahb],
                                        !.axi = [src |-> "cpu0", raw |-> clk_cfg.axi]]
        /\ clk_cache' = Over(buses, core)
    BY <1>5 DEF SetNodes, DividedBuses
  <2>2. /\ DOMAIN clk_node' = DOMAIN clk_node /\ (clk_node').cpu0 = Node(clk_cfg.cpu0)
        /\ (clk_node').bus.src = "cpu0" /\ (clk_node').bus.raw = clk_cfg.ahb
        /\ (clk_node').axi.src = "cpu0" /\ (clk_node').axi.raw = clk_cfg.axi
    BY <1>1, <2>1
  <2>3. DOMAIN buses = {"ahb", "axi"} \cap DOMAIN clk_cache /\ DOMAIN core = DOMAIN clk_cache
    OBVIOUS
  <2>4. /\ DOMAIN clk_cache' = DOMAIN clk_cache
        /\ \A k \in DOMAIN buses : clk_cache'[k] = buses[k]
        /\ \A k \in DOMAIN clk_cache : k \notin DOMAIN buses => clk_cache'[k] = core[k]
    <3> HIDE DEF buses, core
    <3>1. /\ DOMAIN Over(buses, core) = DOMAIN buses \cup DOMAIN core
          /\ \A k \in DOMAIN buses : Over(buses, core)[k] = buses[k]
          /\ \A k \in DOMAIN core : k \notin DOMAIN buses => Over(buses, core)[k] = core[k]
      BY OverAt
    <3>2. DOMAIN buses \cup DOMAIN core = DOMAIN clk_cache
      BY <2>3
    <3> QED
      BY <2>1, <2>3, <3>1, <3>2
  <2>5. \A s \in SourcesOf(clk_part) : clk_cache'[s] = clk_cache[s]
    BY <1>1, <1>2, <2>3, <2>4
  <2>6. (clk_cache').cpu0 = cpu
    BY <1>2, <2>3, <2>4
  <2>7. (clk_cache').ahb = cpu \div (clk_cfg.ahb + 1)
    BY <1>2, <2>3, <2>4
  <2>8. "axi" \in DOMAIN clk_cache => (clk_cache').axi = cpu \div (clk_cfg.axi + 1)
    BY <1>2, <2>3, <2>4
  <2> HIDE DEF buses, core, cpu
  <2>9. /\ Frequency(clk_node.cpu0)' = cpu
        /\ BusFrequency(clk_node.bus)' = cpu \div (clk_cfg.ahb + 1)
        /\ BusFrequency(clk_node.axi)' = cpu \div (clk_cfg.axi + 1)
    BY <1>3, <1>4, <2>2 DEF Frequency, BusFrequency
  <2>10. cpu = Frequency(Node(clk_cfg.cpu0))
    BY <1>4 DEF cpu
  <2> QED
    BY <1>2, <1>5, <2>2, <2>4, <2>5, <2>6, <2>7, <2>8, <2>9, <2>10
<1>6. CASE ~Divided(clk_part)
  <2> DEFINE entries == {"cpu0", "cpu1", "ahb"} \cap DOMAIN clk_cache
             clocks == [k \in entries |-> OfCache(clk_cache, clk_cfg[IF k = "ahb" THEN "bus" ELSE k])]
  <2>1. clk_cache' = Over(clocks, clk_cache)
    BY <1>6 DEF SetNodes, OwnBus
  <2>2. /\ DOMAIN clk_node' = DOMAIN clk_node
        /\ (clk_node').cpu0 = Node(clk_cfg.cpu0) /\ (clk_node').bus = Node(clk_cfg.bus)
        /\ clk_part # "v68" => (clk_node').cpu1 = Node(clk_cfg.cpu1)
    <3>1. PICK axi \in Clocks(ClkBus) :
            clk_node' = [clk_node EXCEPT !.cpu0 = Node(clk_cfg.cpu0), !.bus = Node(clk_cfg.bus),
                                         !.cpu1 = IF clk_part = "v68" THEN @ ELSE Node(clk_cfg.cpu1),
                                         !.axi = IF clk_part = "v67" THEN Node(axi) ELSE @]
      BY <1>6 DEF SetNodes, OwnBus
    <3> QED
      BY <1>1, <3>1
  <2>3. /\ DOMAIN clocks = entries /\ clocks.cpu0 = cpu /\ clocks.ahb = OfCache(clk_cache, clk_cfg.bus)
        /\ "cpu1" \in DOMAIN clk_cache => "cpu1" \in entries /\ clocks.cpu1 = OfCache(clk_cache, clk_cfg.cpu1)
    BY <1>2
  <2>4. /\ DOMAIN clk_cache' = DOMAIN clk_cache
        /\ \A k \in entries : clk_cache'[k] = clocks[k]
        /\ \A k \in DOMAIN clk_cache : k \notin entries => clk_cache'[k] = clk_cache[k]
    <3> HIDE DEF clocks
    <3>1. /\ DOMAIN Over(clocks, clk_cache) = DOMAIN clocks \cup DOMAIN clk_cache
          /\ \A k \in DOMAIN clocks : Over(clocks, clk_cache)[k] = clocks[k]
          /\ \A k \in DOMAIN clk_cache : k \notin DOMAIN clocks => Over(clocks, clk_cache)[k] = clk_cache[k]
      BY OverAt
    <3>2. DOMAIN clocks \cup DOMAIN clk_cache = DOMAIN clk_cache
      BY <2>3
    <3> QED
      BY <2>1, <2>3, <3>1, <3>2
  <2> HIDE DEF clocks
  <2>5. \A s \in SourcesOf(clk_part) : clk_cache'[s] = clk_cache[s]
    BY <1>1, <1>2, <2>4
  <2>6. /\ (clk_cache').cpu0 = cpu /\ (clk_cache').ahb = OfCache(clk_cache, clk_cfg.bus)
        /\ "cpu1" \in DOMAIN clk_cache => (clk_cache').cpu1 = OfCache(clk_cache, clk_cfg.cpu1)
    BY <1>2, <2>3, <2>4
  <2> HIDE DEF cpu, entries
  <2>7. Frequency(clk_node.cpu0)' = cpu
    BY <1>3, <1>4, <2>2 DEF Frequency
  <2>8. BusFrequency(clk_node.bus)' = OfCache(clk_cache, clk_cfg.bus)
    <3>1. Node(clk_cfg.bus).src # "cpu0"
      BY <1>1, <1>2 DEF Node
    <3> QED
      BY <1>3, <1>4, <2>2, <3>1 DEF Frequency, BusFrequency
  <2>9. "cpu1" \in DOMAIN clk_cache => Frequency(clk_node.cpu1)' = OfCache(clk_cache, clk_cfg.cpu1)
    BY <1>2, <1>3, <1>4, <2>2 DEF Frequency
  <2>10. cpu = Frequency(Node(clk_cfg.cpu0))
    BY <1>4 DEF cpu
  <2> QED
    BY <1>2, <1>4, <1>6, <2>2, <2>4, <2>5, <2>6, <2>7, <2>8, <2>9, <2>10
<1> QED
  BY <1>5, <1>6

\* Every step of start-up keeps CLOCKS and the nodes together.
LEMMA ClkStep ==
  ASSUME ClkInv, [ClkNext \/ \E r \in DriverResources : ClkOn(r) \/ ClkOff(r)]_clkVars
  PROVE  ClkInv'
<1>0. /\ clk_part \in ClkParts /\ DOMAIN clk_pll = {"mfi", "mfn", "post"}
      /\ DOMAIN clk_cache = DOMAIN Cores[clk_part] \cup SourcesOf(clk_part)
  BY DEF ClkInv
<1>1. CASE LinkGroups
  <2>1. /\ clk_pc = "reset" /\ UNCHANGED <<clk_part, clk_cfg, clk_node, clk_pll, clk_cache>>
        /\ clk_pc' = IF OwnPll(clk_part) /\ clk_cfg.pll # NoPll THEN "pll" ELSE "nodes"
    BY <1>1 DEF LinkGroups
  <2>2. Running' = Running
    BY <2>1 DEF Running
  <2>3. clk_pc' = "nodes" => ~PllFollows(clk_part)'
    BY <2>1 DEF PllFollows
  <2>4. clk_pc' \in {"pll", "nodes"} /\ (clk_pc' = "pll" => OwnPll(clk_part))
    BY <2>1
  <2> QED
    BY <2>1, <2>2, <2>3, <2>4 DEF ClkInv, ClkStarted
<1>2. CASE SetPll
  <2>1. /\ clk_pc = "pll" /\ clk_pc' = "post"
        /\ UNCHANGED <<clk_part, clk_cfg, clk_node, clk_cache>>
        /\ \/ Params(clk_cfg.pll.vco) = {} /\ UNCHANGED clk_pll
           \/ \E p \in Params(clk_cfg.pll.vco) : clk_pll' = [clk_pll EXCEPT !.mfi = p.mfi, !.mfn = p.mfn]
    BY <1>2 DEF SetPll
  <2>2. DOMAIN clk_pll' = {"mfi", "mfn", "post"}
    BY <1>0, <2>1
  <2>3. PllFollows(clk_part)' => Fvco(clk_pll)' = (clk_cfg').pll.vco
    <3> SUFFICES ASSUME PllFollows(clk_part)' PROVE Fvco(clk_pll)' = (clk_cfg').pll.vco
      OBVIOUS
    <3>1. clk_cfg.pll # NoPll /\ Params(clk_cfg.pll.vco) # {}
      BY <2>1 DEF PllFollows
    <3>2. clk_cfg.pll.vco \in Nat
      BY <3>1, ClkAssumption DEF ClkInv
    <3>3. PICK p \in Params(clk_cfg.pll.vco) : clk_pll' = [clk_pll EXCEPT !.mfi = p.mfi, !.mfn = p.mfn]
      BY <2>1, <3>1
    <3>4. (clk_pll').mfi = p.mfi /\ (clk_pll').mfn = p.mfn
      BY <1>0, <3>3
    <3> QED
      BY <2>1, <3>2, <3>4, VcoFollows
  <2> QED
    BY <2>1, <2>2, <2>3 DEF ClkInv, ClkStarted
<1>3. CASE SetPost
  <2>1. /\ clk_pc = "post" /\ clk_pc' = "nodes" /\ UNCHANGED <<clk_part, clk_cfg, clk_node>>
        /\ clk_pll' = [clk_pll EXCEPT !.post = clk_cfg.pll.post]
        /\ clk_cache' = Over(Outputs(clk_pll'), clk_cache)
    BY <1>3 DEF SetPost
  <2>2. DOMAIN clk_pll' = {"mfi", "mfn", "post"} /\ Fvco(clk_pll') = Fvco(clk_pll)
    BY <1>0, <2>1 DEF Fvco
  <2>3. OwnPll(clk_part) /\ Running' = Over(Outputs(clk_pll'), Sources[clk_part])
    BY <2>1 DEF ClkInv, Running
  <2> DEFINE own == Outputs(clk_pll')
             given == Sources[clk_part]
  <2>4. DOMAIN own = OwnOutputs /\ DOMAIN given = SourcesOf(clk_part)
    BY DEF Outputs, OwnOutputs, SourcesOf
  <2> HIDE DEF own, given
  <2>5. /\ DOMAIN Over(own, clk_cache) = DOMAIN own \cup DOMAIN clk_cache
        /\ \A k \in DOMAIN own : Over(own, clk_cache)[k] = own[k]
        /\ \A k \in DOMAIN clk_cache : k \notin DOMAIN own => Over(own, clk_cache)[k] = clk_cache[k]
    BY OverAt
  <2>6. /\ \A k \in DOMAIN own : Over(own, given)[k] = own[k]
        /\ \A k \in DOMAIN given : k \notin DOMAIN own => Over(own, given)[k] = given[k]
    BY OverAt
  <2>7. clk_cache' = Over(own, clk_cache) /\ Running' = Over(own, given)
    BY <2>1, <2>3 DEF own, given
  <2>8. \A s \in SourcesOf(clk_part) : s \notin OwnOutputs => clk_cache[s] = given[s]
    BY DEF ClkInv, given
  <2>9. \A s \in SourcesOf(clk_part) : clk_cache'[s] = Running'[s]
    BY <1>0, <2>4, <2>5, <2>6, <2>7, <2>8
  <2>10. OwnOutputs \subseteq SourcesOf(clk_part)
    BY <1>0, <2>3, PartFacts
  <2>11. DOMAIN clk_cache' = DOMAIN clk_cache
    BY <1>0, <2>4, <2>5, <2>7, <2>10
  <2>12. \A s \in SourcesOf(clk_part) : s \notin OwnOutputs => clk_cache'[s] = clk_cache[s]
    BY <1>0, <2>4, <2>5, <2>7
  <2> QED
    BY <2>1, <2>2, <2>3, <2>9, <2>11, <2>12 DEF ClkInv, ClkStarted, PllFollows
<1>4. CASE SetNodes
  <2>1. clk_pc = "nodes" /\ clk_pc' = "dma" /\ UNCHANGED <<clk_part, clk_cfg, clk_pll>>
    BY <1>4 DEF SetNodes
  <2>2. Running' = Running /\ PllFollows(clk_part)' = PllFollows(clk_part)
    BY <2>1 DEF Running, PllFollows
  <2>3. /\ DOMAIN clk_node' = DOMAIN clk_node /\ DOMAIN clk_cache' = DOMAIN clk_cache
        /\ \A s \in SourcesOf(clk_part) : clk_cache'[s] = clk_cache[s]
        /\ (clk_cache').cpu0 = Frequency(clk_node.cpu0)'
        /\ (clk_cache').cpu0 = Frequency(Node(clk_cfg.cpu0))
        /\ "cpu1" \in DOMAIN clk_cache =>
             (clk_cache').cpu1 = Frequency(clk_node.cpu1)' /\ (clk_cache').cpu1 = Frequency(Node(clk_cfg.cpu1))
        /\ (clk_cache').ahb = BusFrequency(clk_node.bus)'
        /\ ~Divided(clk_part) => (clk_cache').ahb = Frequency(Node(clk_cfg.bus))
        /\ "axi" \in DOMAIN clk_cache => (clk_cache').axi = BusFrequency(clk_node.axi)'
    BY <1>4, NodesStep
  <2>4. \A c : Frequency(Node(c))' = Frequency(Node(c))
    BY <2>2 DEF Frequency
  <2>5. ClkStarted'
    BY <2>1 DEF ClkStarted
  <2> QED
    BY <2>1, <2>2, <2>3, <2>4, <2>5 DEF ClkInv
<1>6. CASE DmaUp
  BY <1>6, ClocksStay DEF DmaUp
<1>8. CASE \E r \in DriverResources : ClkOn(r) \/ ClkOff(r)
  BY <1>8, ClocksStay DEF ClkOn, ClkOff
<1>9. CASE UNCHANGED clkVars
  BY <1>9, ClocksStay DEF clkVars
<1> QED
  BY <1>1, <1>2, <1>3, <1>4, <1>6, <1>8, <1>9 DEF ClkNext

\* The frequencies in CLOCKS are those that PLLs, nodes and dividers produce, and
\* cores and buses run at what was asked for, from the end of start-up on
\* (sysctl::init of every part): for every family, source, divider and PLL
\* program, refused ones included, with and without overflow checks.
THEOREM ClocksAreHonest == ClkSpec => []ClocksHonest
<1>1. ClkInit => ClkInv
  BY ClkStart
<1>2. ClkInv /\ [ClkNext \/ \E r \in DriverResources : ClkOn(r) \/ ClkOff(r)]_clkVars => ClkInv'
  BY ClkStep
<1>3. ClkInv => ClocksHonest
  <2> SUFFICES ASSUME ClkInv, ClkStarted PROVE ClocksHonest
    BY DEF ClocksHonest
  <2>1. DOMAIN Running = SourcesOf(clk_part)
    BY RunningAt DEF ClkInv
  <2>2. \A s \in SourcesOf(clk_part) : clk_cache[s] = Running[s]
    BY DEF ClkInv, ClkStarted
  <2>3. /\ clk_cache.cpu0 = Frequency(clk_node.cpu0) /\ clk_cache.cpu0 = Frequency(Node(clk_cfg.cpu0))
        /\ "cpu1" \in DOMAIN clk_cache =>
             clk_cache.cpu1 = Frequency(clk_node.cpu1) /\ clk_cache.cpu1 = Frequency(Node(clk_cfg.cpu1))
        /\ clk_cache.ahb = BusFrequency(clk_node.bus)
        /\ ~Divided(clk_part) => clk_cache.ahb = Frequency(Node(clk_cfg.bus))
        /\ "axi" \in DOMAIN clk_cache => clk_cache.axi = BusFrequency(clk_node.axi)
    BY DEF ClkInv
  <2>4. \A k \in {"cpu0", "cpu1", "bus"} : Frequency(Node(clk_cfg[k])) = Asked(clk_cfg[k])
    BY RunsAsAsked DEF ClkInv
  <2>5. PllFollows(clk_part) => Fvco(clk_pll) = clk_cfg.pll.vco
    BY DEF ClkInv, ClkStarted
  <2> QED
    BY <2>1, <2>2, <2>3, <2>4, <2>5 DEF ClocksHonest, PllFollows
<1> QED
  BY <1>1, <1>2, <1>3, PTL DEF ClkSpec

(***************************************************************************)
(* The configuration of a UART that is in force, and its baud rate.         *)
(***************************************************************************)
\* The rate of the line is that of the baud rate asked for, as nearly as
\* calculate_baudrate promises.
RateFits(reg, baud) ==
  /\ LineRate(reg) >= baud
  /\ (LineRate(reg) - baud) * 20 * BitCycles(reg) <= baud * (BitCycles(reg) + 20)

\* The frame asked for, with or without a parity bit.
FrameFits(lcr, c) == Frame(lcr) = [latch |-> FALSE, parity |-> c.parity # "None", stop |-> c.stop]

\* As long as a half lives, the last configuration that was not refused is in
\* force.
SetupInv ==
  /\ DOMAIN uart_reg = {"lcr", "div", "osc", "fifo", "rxen"}
  /\ uart_live # {} /\ uart_asked # NoConfig =>
       /\ FrameFits(uart_reg.lcr, uart_asked) /\ RateFits(uart_reg, uart_asked.baud)
       /\ ~(UartFine /\ uart_erred) => uart_reg.fifo = uart_asked.fifo
       /\ "rx" \in uart_live => uart_irq

\* What the search finds fits: what is left of the clock is less than a
\* twenty-fifth of it and one cycle in a bit.
LEMMA SearchFits ==
  ASSUME NEW baud \in Nat \ {0, 1}, UartClock >= baud * 8,
         NEW osc \in Oversampling, WithinTolerance(baud, osc),
         NEW reg, reg.div = Divisor(baud, osc), reg.osc = osc % 32
  PROVE  RateFits(reg, baud)
<1> DEFINE d == Divisor(baud, osc)
           p == baud * osc
           n == d * osc
           rest == 240000 - d * osc * baud
           delta == rest \div baud
           rate == 240000 \div n
<1>1. osc \in Nat /\ osc >= 8 /\ osc <= 32
  BY SMT DEF Oversampling
<1>2. BitCycles(reg) = n
  BY <1>1, SMT DEF BitCycles
<1>3. p \in Nat \ {0} /\ baud <= 30000
  BY <1>1, SMT DEF UartClock
<1>4. d = 240000 \div p /\ d >= 1 /\ (delta * 100 * baud) \div 240000 <= 3
  BY SMT DEF Divisor, WithinTolerance, UartClock
<1> HIDE DEF d, p
<1>5. d \in Nat /\ 240000 % p \in 0 .. p - 1 /\ 240000 = p * d + (240000 % p)
  BY <1>3, <1>4, DivMod, SMT
<1>6. d * osc * baud = p * d
  BY <1>1, <1>5, SMT DEF p
<1>7. rest \in Nat /\ rest = 240000 - n * baud /\ n \in Nat \ {0} /\ n * baud \in Nat
  BY <1>1, <1>3, <1>4, <1>5, <1>6, SMT
<1> HIDE DEF n, rest
<1>8. delta \in Nat /\ rest % baud \in 0 .. baud - 1 /\ rest = baud * delta + (rest % baud)
  <2>1. rest \in Nat /\ baud \in Nat \ {0}
    BY <1>7, SMT
  <2>2. rest \div baud \in Nat /\ rest % baud \in 0 .. baud - 1 /\ rest = baud * (rest \div baud) + (rest % baud)
    BY <2>1, DivMod, Zenon
  <2> QED
    BY <2>2, Zenon
<1> HIDE DEF delta
<1>9. delta * baud <= 9599
  <2> DEFINE x == delta * 100 * baud
  <2>1. x \in Nat /\ x \div 240000 <= 3
    BY <1>4, <1>8, SMT
  <2>2. x = 100 * (delta * baud) /\ delta * baud \in Nat
    BY <1>8, SMT
  <2> HIDE DEF x
  <2>3. x < 960000
    BY <2>1, SMT
  <2> QED
    BY <2>2, <2>3, SMT
<1>10. rest <= 9598 + baud
  <2>1. baud * delta = delta * baud
    BY <1>8, SMT
  <2> DEFINE y == delta * baud
             r == rest % baud
  <2>2. y \in Nat /\ y <= 9599 /\ rest = y + r /\ r \in Nat /\ r <= baud - 1
    BY <1>8, <1>9, <2>1, SMT
  <2> HIDE DEF y, r
  <2> QED
    BY <2>2, SMT
<1>11. rate \in Nat /\ 240000 % n \in 0 .. n - 1 /\ 240000 = n * rate + (240000 % n)
  <2> DEFINE c == 240000
  <2>1. c \in Nat /\ n \in Nat \ {0}
    BY <1>7, SMT
  <2> HIDE DEF c
  <2>2. c \div n \in Nat /\ c % n \in 0 .. n - 1 /\ c = n * (c \div n) + (c % n)
    BY <2>1, DivMod, Zenon
  <2> QED
    BY <2>2, SMT DEF c
<1>12. LineRate(reg) = rate
  BY <1>2, SMT DEF LineRate, UartClock
<1> HIDE DEF rate
<1> DEFINE nb == n * baud
           nr == n * rate
<1>13. nb \in Nat /\ nr \in Nat /\ rest = 240000 - nb /\ nr <= 240000 /\ nr + n > 240000
  BY <1>7, <1>11, SMT
<1>14. rate >= baud
  <2> SUFFICES ASSUME rate < baud PROVE FALSE
    BY <1>11, SMT
  <2>1. n * (rate + 1) <= n * baud
    BY <1>7, <1>11, SMT
  <2>2. n * (rate + 1) = nr + n
    BY <1>7, <1>11, SMT
  <2> HIDE DEF nr
  <2>3. nr + n <= nb
    BY <2>1, <2>2, SMT
  <2> HIDE DEF nb
  <2> QED
    BY <1>7, <1>13, <2>3, SMT
<1>15. (rate - baud) * 20 * n = 20 * (nr - nb)
  BY <1>7, <1>11, SMT
<1>16. baud * (n + 20) = nb + 20 * baud
  BY <1>7, SMT
<1> HIDE DEF nb, nr
<1>17. 20 * (nr - nb) <= nb + 20 * baud
  BY <1>3, <1>7, <1>10, <1>13, SMT
<1>18. (rate - baud) * 20 * n <= baud * (n + 20)
  BY <1>15, <1>16, <1>17, SMT
<1> QED
  BY <1>2, <1>12, <1>14, <1>18, SMT DEF RateFits

\* A configuration that is accepted is in force.
LEMMA ConfiguredFits ==
  ASSUME DOMAIN uart_reg = {"lcr", "div", "osc", "fifo", "rxen"}, NEW c \in UartConfigs, NEW rx \in BOOLEAN
  PROVE  /\ DOMAIN Configured(uart_reg, c, rx) = {"lcr", "div", "osc", "fifo", "rxen"}
         /\ Accepted(c) => /\ FrameFits(Configured(uart_reg, c, rx).lcr, c)
                           /\ Configured(uart_reg, c, rx).fifo = c.fifo
                           /\ RateFits(Configured(uart_reg, c, rx), c.baud)
<1> DEFINE reg == Configured(uart_reg, c, rx)
<1>1. CASE ~Accepted(c)
  BY <1>1 DEF Configured
<1>2. CASE Accepted(c)
  <2> DEFINE b == CHOOSE x \in Searched[c.baud] : TRUE
  <2>1. c.baud \in UartBauds /\ c.baud \in Nat
    BY UartAssumption DEF UartConfigs
  <2>2. Searched[c.baud] = Baudrates(c.baud) /\ Searched[c.baud] # {}
    BY <1>2, <2>1 DEF Accepted, Searched
  <2>3. b \in Baudrates(c.baud)
    BY <2>2
  <2> HIDE DEF b
  <2>4. c.baud \in Nat \ {0, 1} /\ UartClock >= c.baud * 8
    BY <2>1, <2>3, SMT DEF Baudrates, UartClock
  <2>5. PICK osc \in Oversampling :
          WithinTolerance(c.baud, osc) /\ b = [div |-> Divisor(c.baud, osc), osc |-> osc % 32]
    BY <2>3, Zenon DEF Baudrates
  <2>6. reg = [uart_reg EXCEPT !.lcr = LineControl(c), !.div = b.div, !.osc = b.osc, !.fifo = c.fifo,
                               !.rxen = @ \/ rx]
    BY <1>2, Zenon DEF Configured, b
  <2>7. /\ DOMAIN reg = {"lcr", "div", "osc", "fifo", "rxen"} /\ reg.lcr = LineControl(c)
        /\ reg.div = b.div /\ reg.osc = b.osc /\ reg.fifo = c.fifo
    BY <2>6
  <2>8. reg.div = Divisor(c.baud, osc) /\ reg.osc = osc % 32
    BY <2>5, <2>7
  <2> HIDE DEF reg
  <2>9. RateFits(reg, c.baud)
    BY <2>4, <2>5, <2>8, SearchFits, Zenon
  <2>10. FrameFits(LineControl(c), c)
    BY DEF FrameFits, Frame, LineControl, UartConfigs
  <2> QED
    BY <2>7, <2>9, <2>10 DEF reg
<1> QED
  BY <1>1, <1>2

\* Nothing lives yet.
LEMMA SetupStart == ASSUME UartInit PROVE SetupInv
  BY DEF UartInit, SetupInv

\* Every step of the driver keeps the configuration.
LEMMA SetupStep == ASSUME SetupInv, UartNext \/ UNCHANGED uartVars PROVE SetupInv'
<1> DEFINE Fields == {"lcr", "div", "osc", "fifo", "rxen"}
<1>0. DOMAIN uart_reg = Fields
  BY DEF SetupInv
<1>1. ASSUME NEW c \in UartConfigs, NEW pins \in TxPins \cup RxPins \cup UartPins, Construct(pins, c)
      PROVE  SetupInv'
  <2> DEFINE rx == pins.rx # {}
             reg == Configured(uart_reg, c, rx)
  <2>1. rx \in BOOLEAN
    OBVIOUS
  <2>2. uart_reg' = reg
    BY <1>1 DEF Construct
  <2> HIDE DEF rx
  <2>3. DOMAIN reg = Fields /\ (Accepted(c) => FrameFits(reg.lcr, c) /\ reg.fifo = c.fifo /\ RateFits(reg, c.baud))
    BY <1>0, <2>1, ConfiguredFits
  <2> HIDE DEF reg
  <2>4. CASE Accepted(c)
    <3>1. uart_live' = Halves(pins) /\ uart_irq' = (uart_irq \/ pins.rx # {}) /\ uart_asked' = c
      BY <1>1, <2>4 DEF Construct
    <3>2. "rx" \in uart_live' => uart_irq'
      BY <3>1 DEF Halves
    <3> QED
      BY <2>2, <2>3, <2>4, <3>1, <3>2 DEF SetupInv
  <2>5. CASE ~Accepted(c)
    <3>1. uart_asked' = NoConfig
      BY <1>1, <2>5 DEF Construct
    <3> QED
      BY <2>2, <2>3, <3>1 DEF SetupInv
  <2> QED
    BY <2>4, <2>5
<1>2. ASSUME NEW h \in {"tx", "rx"}, DropHalf(h) PROVE SetupInv'
  <2>1. uart_live' \subseteq uart_live /\ UNCHANGED <<uart_reg, uart_irq, uart_asked, uart_erred>>
    BY <1>2 DEF DropHalf
  <2> QED
    BY <2>1 DEF SetupInv
<1>3. ASSUME NEW c \in UartConfigs, SetConfig(c) PROVE SetupInv'
  <2> DEFINE reg == Configured(uart_reg, c, TRUE)
  <2>1. /\ uart_reg' = reg /\ uart_irq' = Accepted(c)
        /\ uart_asked' = IF Accepted(c) THEN c ELSE NoConfig
    BY <1>3 DEF SetConfig
  <2>2. DOMAIN reg = Fields /\ (Accepted(c) => FrameFits(reg.lcr, c) /\ reg.fifo = c.fifo /\ RateFits(reg, c.baud))
    BY <1>0, ConfiguredFits
  <2> HIDE DEF reg
  <2>3. CASE Accepted(c)
    BY <2>1, <2>2, <2>3 DEF SetupInv
  <2>4. CASE ~Accepted(c)
    BY <2>1, <2>2, <2>4 DEF SetupInv
  <2> QED
    BY <2>3, <2>4
<1>4. CASE SendByte
  <2>1. /\ uart_reg' = IF uart_reg.lcr.dlab THEN [uart_reg EXCEPT !.div = 85] ELSE uart_reg
        /\ UNCHANGED <<uart_live, uart_irq, uart_asked, uart_erred>>
    BY <1>4 DEF SendByte
  <2>2. DOMAIN uart_reg' = Fields
    BY <1>0, <2>1
  <2>3. uart_live # {} /\ uart_asked # NoConfig => uart_reg' = uart_reg
    <3>1. uart_live # {} /\ uart_asked # NoConfig => uart_reg.lcr.dlab = FALSE
      BY DEF SetupInv, FrameFits, Frame
    <3> QED
      BY <2>1, <3>1
  <2> QED
    BY <2>1, <2>2, <2>3 DEF SetupInv
<1>5. CASE ErrorInterrupt
  <2>1. /\ uart_reg' = IF UartFine THEN [uart_reg EXCEPT !.fifo = 0] ELSE uart_reg
        /\ UNCHANGED <<uart_live, uart_irq, uart_asked>> /\ uart_erred' = TRUE
    BY <1>5 DEF ErrorInterrupt
  <2>2. /\ DOMAIN uart_reg' = Fields /\ (uart_reg').lcr = uart_reg.lcr
        /\ (uart_reg').div = uart_reg.div /\ (uart_reg').osc = uart_reg.osc
    BY <1>0, <2>1
  <2>3. RateFits(uart_reg, uart_asked.baud) => RateFits(uart_reg, uart_asked.baud)'
    BY <2>1, <2>2 DEF RateFits, LineRate, BitCycles
  <2> QED
    BY <2>1, <2>2, <2>3 DEF SetupInv
<1>6. CASE UNCHANGED uartVars
  BY <1>6 DEF SetupInv, uartVars
<1> QED
  BY <1>1, <1>2, <1>3, <1>4, <1>5, <1>6 DEF UartNext

\* While a half lives and the last configuration returned Ok, the line has its
\* frame, but for the sense of the parity bit, its FIFO if no line error turned it
\* off, and, within the tolerance of calculate_baudrate, its rate, and a receiver
\* has its interrupt, whatever constructor or set_config failed before it: for
\* every set of baud rates.
THEOREM UartIsAsConfigured == UartSetupSpec => []UartAsConfigured
<1>1. ClkInit /\ UartInit => SetupInv
  BY SetupStart
<1>2. SetupInv /\ [\/ UartNext
                   \/ UNCHANGED uartVars /\ (ClkNext \/ \E r \in DriverResources \ {"URT"} : ClkOn(r))]_<<clkVars, uartVars>>
        => SetupInv'
  BY SetupStep
<1>3. SetupInv => UartAsConfigured
  BY DEF SetupInv, UartAsConfigured, RateFits, FrameFits
<1> QED
  BY <1>1, <1>2, <1>3, PTL DEF UartSetupSpec

(***************************************************************************)
(* The system.  Each driver touches the clocks only to link its own         *)
(* resource, and MCSystem runs each as its own specification allows.        *)
(***************************************************************************)
\* The resources of the drivers but the UART.
Others == DriverResources \ {"URT"}

\* What the drivers but the UART do to the clocks.
LinksAtMost == UNCHANGED clkVars \/ \E r \in Others : ClkOn(r)

\* The resources of the drivers.
LEMMA OtherResources == {"ADC0", "DAC0", "USB0", "FEMC", "RNG0", "MOT0", "CAN0"} \subseteq Others
  BY DEF Others, DriverResources

\* The constructors of the converters link ADC0 and DAC0, and nothing else does.
LEMMA AnaClock == AnaNext => LinksAtMost
<1>1. ASSUME NEW c \in AdcConfigs, AdcNew(c) PROVE LinksAtMost
  BY <1>1, OtherResources DEF AdcNew, LinksAtMost
<1>2. ASSUME NEW mode \in DacModes, DacNew(mode) PROVE LinksAtMost
  BY <1>2, OtherResources DEF DacNew, LinksAtMost
<1>3. ASSUME StartCal \/ CalibrationDone \/ ReadParams \/ OpenConfig \/ StoreParams \/ Periodic \/ ReadBus \/ Converted
             \/ ReadResult \/ Trigger \/ StopBuffers
      PROVE LinksAtMost
  BY <1>3 DEF StartCal, CalibrationDone, ReadParams, OpenConfig, StoreParams, Periodic, ReadBus,
     Converted, ReadResult,
     Trigger, StopBuffers, LinksAtMost
<1>4. ASSUME NEW v, SetValue(v) PROVE LinksAtMost
  BY <1>4 DEF SetValue, LinksAtMost
<1>5. ASSUME NEW start, NEW end, NEW step, ConfigureStep(start, end, step) PROVE LinksAtMost
  BY <1>5 DEF ConfigureStep, LinksAtMost
<1>6. ASSUME NEW points, NEW size, GiveBuffers(points, size) PROVE LinksAtMost
  BY <1>6 DEF GiveBuffers, LinksAtMost
<1> QED
  BY <1>1, <1>2, <1>3, <1>4, <1>5, <1>6 DEF AnaNext

\* new_raw links FEMC.
LEMMA FemcClock == FemcNext => LinksAtMost
<1>1. FemcNew => LinksAtMost
  BY OtherResources DEF FemcNew, LinksAtMost
<1>2. ASSUME NEW c, ConfigureSdram(c) PROVE LinksAtMost
  BY <1>2 DEF ConfigureSdram, LinksAtMost
<1>3. FemcStart \/ IssueIpCmd \/ CheckIpCmdDone \/ EnableRefresh \/ FemcExecutes => LinksAtMost
  BY DEF FemcStart, IssueIpCmd, CheckIpCmdDone, EnableRefresh, FemcExecutes, LinksAtMost
<1> QED
  BY <1>1, <1>2, <1>3 DEF FemcNext

\* The random number generator, the encoders and CAN link a resource each.
LEMMA SmallClock == SmallNext => LinksAtMost
<1>1. ASSUME NEW unit \in SmallUnits, NewUnit(unit) PROVE LinksAtMost
  <2>1. CASE unit = "TRGM0"
    BY <1>1, <2>1 DEF NewUnit, LinksAtMost
  <2>2. CASE unit # "TRGM0"
    <3>1. Resource[unit] \in Others
      BY <2>2, UnitAssumption, OtherResources DEF Resource
    <3> QED
      BY <1>1, <2>2, <3>1 DEF NewUnit, LinksAtMost
  <2> QED
    BY <2>1, <2>2
<1>2. RngInit => LinksAtMost
  BY OtherResources DEF RngInit, LinksAtMost
<1>3. ASSUME NEW sec, NEW sub, Restore(sec, sub) \/ SetDatetime(sec) PROVE LinksAtMost
  BY <1>3 DEF Restore, SetDatetime, LinksAtMost
<1>4. ASSUME NEW a, CancelAlarm(a) \/ ClearInterrupt(a) PROVE LinksAtMost
  BY <1>4 DEF CancelAlarm, ClearInterrupt, LinksAtMost
<1>5. ASSUME NEW a, NEW at, NEW inc, ScheduleAlarm(a, at, inc) PROVE LinksAtMost
  BY <1>5 DEF ScheduleAlarm, LinksAtMost
<1>6. RestoreSeconds \/ Snapshot \/ ScheduleStep \/ RtcTicks => LinksAtMost
  BY DEF RestoreSeconds, Snapshot, ScheduleStep, RtcTicks, LinksAtMost
<1>7. RngSeeded \/ RunSelftest => LinksAtMost
  BY DEF RngSeeded, RunSelftest, LinksAtMost
<1> QED
  BY <1>1, <1>2, <1>3, <1>4, <1>5, <1>6, <1>7 DEF SmallNext

\* Driver::new links USB0.
LEMMA UsbClock == UsbNext => LinksAtMost
<1>1. UsbNew => LinksAtMost
  BY OtherResources DEF UsbNew, LinksAtMost
<1>2. ASSUME NEW x, NEW y, AllocEndpoint(x) \/ ReadOrWrite(x, y) \/ PollFuture(x) \/ ControlData(x, y) \/ SetEnabled(x, y)
                           \/ SetStalled(x, y) \/ HostMoves(x) \/ DropCall(x)
      PROVE LinksAtMost
  BY <1>2 DEF AllocEndpoint, ReadOrWrite, PollFuture, DropCall, ControlData, SetEnabled, SetStalled,
     HostMoves, LinksAtMost
<1>3. UsbStart \/ SetupCall \/ SetupPoll \/ DropSetup \/ ControlNext \/ Enable \/ Disable \/ PollReset => LinksAtMost
  BY DEF UsbStart, SetupCall, SetupPoll, DropSetup, ControlNext, Enable, Disable, PollReset, LinksAtMost
<1>4. HandlerReads \/ HandlerClears \/ HostReset \/ HostSetup => LinksAtMost
  BY DEF HandlerReads, HandlerClears, HostReset, HostSetup, LinksAtMost
<1> QED
  BY <1>1, <1>2, <1>3, <1>4 DEF UsbNext

\* The UART links and unlinks URT.
LEMMA UartLinks == UartNext => UNCHANGED clkVars \/ ClkOn("URT") \/ ClkOff("URT")
<1>1. ASSUME NEW pins, NEW c, Construct(pins, c) PROVE ClkOn("URT") \/ ClkOff("URT")
  BY <1>1 DEF Construct
<1>2. ASSUME NEW h, DropHalf(h) PROVE UNCHANGED clkVars \/ ClkOff("URT")
  BY <1>2 DEF DropHalf, UnlinkWhen
<1>3. ASSUME NEW c, SetConfig(c) PROVE UNCHANGED clkVars
  BY <1>3 DEF SetConfig
<1>4. SendByte \/ ErrorInterrupt => UNCHANGED clkVars
  BY DEF SendByte, ErrorInterrupt
<1> QED
  BY <1>1, <1>2, <1>3, <1>4 DEF UartNext

\* Whatever the system does, each component makes a step of its own, or none.
LEMMA EachStep ==
  [SysNext]_sysVars =>
    /\ [Next]_vars /\ [UartNext]_uartVars /\ [AnaNext]_anaVars /\ [UsbNext]_usbVars
    /\ [FlashNext]_flashVars
    /\ [FemcNext]_femcVars /\ [SmallNext]_smallVars /\ [IrqNext]_irqVars /\ [PinNext]_pinVars
    /\ [I2cSetupNext]_i2cVars
<1> SUFFICES ASSUME [SysNext]_sysVars
    PROVE /\ [Next]_vars /\ [UartNext]_uartVars /\ [AnaNext]_anaVars /\ [UsbNext]_usbVars /\ [FlashNext]_flashVars
          /\ [FemcNext]_femcVars /\ [SmallNext]_smallVars /\ [IrqNext]_irqVars
          /\ [PinNext]_pinVars
          /\ [I2cSetupNext]_i2cVars
  OBVIOUS
<1>1. CASE UNCHANGED sysVars
  BY <1>1 DEF sysVars
<1>2. CASE StartUp
  BY <1>2 DEF StartUp
<1>3. CASE SysNext /\ ~StartUp
  BY <1>3 DEF SysNext, Rest
<1> QED
  BY <1>1, <1>2, <1>3

\* The clocks move by start-up or by a driver's own resource.
LEMMA ClockStep ==
  [SysNext]_sysVars =>
    /\ [ClkNext \/ \E r \in DriverResources : ClkOn(r) \/ ClkOff(r)]_clkVars
    /\ [\/ UartNext
        \/ UNCHANGED uartVars /\ (ClkNext \/ \E r \in DriverResources \ {"URT"} : ClkOn(r))]_<<clkVars, uartVars>>
<1> DEFINE Linked == ClkNext \/ \E r \in DriverResources : ClkOn(r) \/ ClkOff(r)
           Beside == UNCHANGED uartVars /\ (ClkNext \/ \E r \in DriverResources \ {"URT"} : ClkOn(r))
<1> SUFFICES ASSUME [SysNext]_sysVars
    PROVE  /\ Linked \/ UNCHANGED clkVars
           /\ UartNext \/ Beside \/ UNCHANGED <<clkVars, uartVars>>
  OBVIOUS
<1>1. "URT" \in DriverResources
  BY DEF DriverResources
<1>2. CASE UartNext
  BY <1>1, <1>2, UartLinks
<1>3. CASE LinksAtMost /\ UNCHANGED uartVars
  BY <1>3 DEF LinksAtMost, Others
<1>4. CASE ClkNext /\ UNCHANGED uartVars
  BY <1>4
<1>5. UartNext \/ (LinksAtMost /\ UNCHANGED uartVars) \/ (ClkNext /\ UNCHANGED uartVars)
  <2>1. CASE UNCHANGED sysVars
    BY <2>1 DEF sysVars, LinksAtMost
  <2>2. CASE StartUp
    BY <2>2 DEF StartUp
  <2>3. CASE SysNext /\ ~StartUp
    <3>1. CASE focus \in {"time", "flash", "irq", "pins", "i2c"}
      BY <2>3, <3>1 DEF SysNext, Rest, LinksAtMost
    <3>2. CASE focus = "uart"
      BY <2>3, <3>2 DEF SysNext
    <3>3. CASE focus \in {"analog", "usb", "control", "femc", "small"}
      BY <2>3, <3>3, AnaClock, UsbClock, FemcClock, SmallClock DEF SysNext, Rest
    <3> QED
      BY <2>3, <3>1, <3>2, <3>3 DEF SysNext
  <2> QED
    BY <2>1, <2>2, <2>3
<1> QED
  BY <1>2, <1>3, <1>4, <1>5

\* The system starts where its drivers do.
LEMMA EachStart ==
  SysInit => /\ Init /\ ClkInit /\ UartInit /\ AnaInit /\ UsbInit /\ FlashInit /\ FemcInit /\ SmallInit /\ IrqInit
             /\ PinInit /\ I2cInit
  BY DEF SysInit

\* MCSystem runs one driver at a time on the clocks that all share: it is a
\* behaviour of start-up with drivers that come and go, of the UART beside the
\* others, and of every other driver's own specification, so what is proved of
\* those holds of the system.
THEOREM SystemObeys ==
  SysSpec => /\ Safety /\ ClkSpec /\ UartSetupSpec /\ AnaSpec /\ UsbSpec /\ FlashSpec /\ FemcSpec /\ SmallSpec
             /\ IrqSpec /\ PinSpec /\ I2cSetupSpec
<1>1. SysSpec => Safety
  BY EachStart, EachStep, PTL DEF SysSpec, Safety
<1>2. SysSpec => ClkSpec
  BY EachStart, ClockStep, PTL DEF SysSpec, ClkSpec
<1>3. SysSpec => UartSetupSpec
  BY EachStart, ClockStep, PTL DEF SysSpec, UartSetupSpec
<1>4. SysSpec => AnaSpec /\ UsbSpec /\ FlashSpec
  BY EachStart, EachStep, PTL DEF SysSpec, AnaSpec, UsbSpec, FlashSpec
<1>5. SysSpec => FemcSpec /\ SmallSpec /\ IrqSpec
  BY EachStart, EachStep, PTL DEF SysSpec, FemcSpec, SmallSpec, IrqSpec
<1>6. SysSpec => PinSpec /\ I2cSetupSpec
  BY EachStart, EachStep, PTL DEF SysSpec, PinSpec, I2cSetupSpec
<1> QED
  BY <1>1, <1>2, <1>3, <1>4, <1>5, <1>6

\* So of the system, too: CLOCKS is honest, the UART is
\* clocked and configured, the converters are as asked, SDRAM is refreshed, the
\* RTC is read whole, and the alarm is armed and not early.
THEOREM SystemIsSafe ==
  SysSpec => /\ []ClocksHonest /\ []ClockedWhileLive /\ []UartAsConfigured /\ []AnalogAsAsked
             /\ []SdramRefreshed /\ []RtcNoMixture /\ []PromiseArmed /\ []NeverEarly
<1>1. SysSpec => Safety /\ ClkSpec /\ UartSetupSpec /\ AnaSpec /\ FemcSpec /\ SmallSpec
  BY SystemObeys
<1>2. /\ Safety => []PromiseArmed /\ []NeverEarly
      /\ ClkSpec => []ClocksHonest
      /\ UartSetupSpec => []ClockedWhileLive /\ []UartAsConfigured
      /\ AnaSpec => []AnalogAsAsked
      /\ FemcSpec => []SdramRefreshed
      /\ SmallSpec => []RtcNoMixture
  BY AlarmAgreed, NeverFiresEarly, ClocksAreHonest, HalvesShareTheClock,
     UartIsAsConfigured,
     ConvertersAsAsked, SdramIsRefreshed, MomentsAreWhole, PTL
<1> QED
  BY <1>1, <1>2, PTL

\* And so of the system what rests on hypotheses: a primed buffer is held and a
\* packet is the call's own, flash reads and erases are honest, and the I2C bus
\* is usable.
THEOREM SystemIsSafeAsUsed ==
  ASSUME HalvesTogether, KernelInRange, \A offset \in FlashOffsets : offset % FlashLine = 0
  PROVE  SysSpec => /\ []UsbBufferHeld /\ UsbOwnCompletion /\ []FlashHonest /\ []I2cBusUsable
<1>1. SysSpec => UsbSpec /\ FlashSpec /\ I2cSetupSpec
  BY SystemObeys
<1>2. /\ UsbSpec => []UsbBufferHeld
      /\ UsbSpec => UsbOwnCompletion
      /\ FlashSpec => []FlashHonest
      /\ I2cSetupSpec => []I2cBusUsable
  BY BuffersAreHeld, OwnPacketMoved, FlashIsHonest, BusIsUsable
<1> QED
  BY <1>1, <1>2
=============================================================================
