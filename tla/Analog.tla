------------------------------- MODULE Analog -------------------------------
(***************************************************************************)
(* The ADC (src/src/adc/mod.rs) and the DAC (src/src/dac.rs): constructors, *)
(* calibration, reads and periodic conversion; the three modes of the DAC,  *)
(* whose control register is changed in a shadow (CFG0_BAK), then copied.   *)
(***************************************************************************)
EXTENDS ClockTree, Integers

CONSTANTS
  AdcDividers,  \* raw clock dividers, 0 to 15
  DacModes,     \* modes of the DAC that is built
  DacPoints,    \* start and end points of a step group
  DacSteps      \* steps, negative when the output falls

VARIABLES
  adc_reg,      \* registers of ADC0
  adc_call,     \* the method under way
  adc_asked,    \* the Config of Adc::new
  dac_pc,       \* where configure_buffered_mode is
  dac_mode,     \* type parameter of the Dac, or "none"
  dac_bak,      \* CFG0_BAK
  dac_cfg0,     \* CFG0
  dac_step,     \* step group 0
  dac_buf       \* the buffers the internal DMA reads: base, length in words

adcVars == <<adc_reg, adc_call, adc_asked>>
dacVars == <<dac_pc, dac_mode, dac_bak, dac_cfg0, dac_step, dac_buf>>
anaVars == <<adcVars, dacVars>>

(***************************************************************************)
(* ADC.                                                                     *)
(***************************************************************************)
Div2 == 1
AdcIdle == [pc |-> "none", saved |-> 0, rounds |-> 0]
Resolutions == {9, 21}
AdcConfigs == [div : AdcDividers, res : Resolutions, nowait : BOOLEAN]

AnaInit ==
  /\ adc_reg = [div |-> 0, clk_on |-> FALSE, res |-> 21, end |-> 1, nowait |-> FALSE, bus |-> FALSE,
                ahb |-> FALSE, calon |-> FALSE, params |-> FALSE, prd |-> 0, valid |-> FALSE,
                cflct |-> FALSE]
  /\ adc_call = AdcIdle
  /\ adc_asked = [div |-> 0, res |-> 21, nowait |-> TRUE]
  /\ dac_pc = "idle" /\ dac_mode = "none"
  /\ dac_bak = [data |-> 0, mode |-> "none", hw |-> FALSE, dma |-> FALSE, points |-> 1]
  /\ dac_cfg0 = dac_bak
  /\ dac_step = [start |-> 0, end |-> 0, step |-> 0]
  /\ dac_buf = <<0, 0>>

\* Adc::new, which programs the end of a conversion with the ADC's clock
\* divided by two and the configuration clock on, and the part of calibrate
\* before its loop, which does the same with other registers.
AdcNew(c) ==
  /\ clk_pc = "up" /\ adc_call.pc = "none"
  /\ adc_asked' = c
  /\ adc_reg' = [adc_reg EXCEPT !.div = c.div, !.res = c.res, !.end = 21 - c.res + 1,
                                !.nowait = c.nowait, !.clk_on = FALSE, !.ahb = TRUE]
  /\ adc_call' = [pc |-> "startcal", saved |-> c.div, rounds |-> 0]
  /\ ClkOn("ADC0")
  /\ UNCHANGED dacVars

\* Four rounds, each started by software and ended by the converter.
StartCal ==
  /\ adc_call.pc = "startcal"
  /\ adc_reg' = [adc_reg EXCEPT !.calon = TRUE]
  /\ adc_call' = [adc_call EXCEPT !.pc = "calon"]
  /\ UNCHANGED <<adc_asked, dacVars>> /\ UNCHANGED clkVars

CalibrationDone ==
  /\ adc_reg.calon
  /\ adc_reg' = [adc_reg EXCEPT !.calon = FALSE]
  /\ UNCHANGED <<adc_call, adc_asked, dacVars>> /\ UNCHANGED clkVars

ReadParams ==
  /\ adc_call.pc = "calon" /\ ~adc_reg.calon
  /\ adc_call' = [adc_call EXCEPT !.rounds = @ + 1, !.pc = IF @ = "calon" /\ adc_call.rounds < 3
                                                           THEN "startcal" ELSE "open"]
  /\ UNCHANGED <<adc_reg, adc_asked, dacVars>> /\ UNCHANGED clkVars

\* The configuration clock goes on, then the divider to two.
OpenConfig ==
  /\ adc_call.pc = "open"
  /\ adc_reg' = [adc_reg EXCEPT !.clk_on = TRUE, !.div = Div2]
  /\ adc_call' = [adc_call EXCEPT !.pc = "store"]
  /\ UNCHANGED <<adc_asked, dacVars>> /\ UNCHANGED clkVars

\* Mutant of StoreParams: the divider is not recovered.
StoreParams_KeepDivider ==
  /\ adc_call.pc = "store"
  /\ adc_reg' = [adc_reg EXCEPT !.params = TRUE, !.clk_on = FALSE]
  /\ adc_call' = [AdcIdle EXCEPT !.pc = "ready"]
  /\ UNCHANGED <<adc_asked, dacVars>> /\ UNCHANGED clkVars

\* The averaged parameters are written and the saved divider comes back.
StoreParams ==
  /\ adc_call.pc = "store"
  /\ adc_reg' = [adc_reg EXCEPT !.params = TRUE, !.clk_on = FALSE, !.div = adc_call.saved]
  /\ adc_call' = [AdcIdle EXCEPT !.pc = "ready"]
  /\ UNCHANGED <<adc_asked, dacVars>> /\ UNCHANGED clkVars

\* configure_periodic and disable_periodic.
Periodic ==
  /\ adc_call.pc = "ready"
  /\ adc_reg' \in {[adc_reg EXCEPT !.prd = n] : n \in {0, 5}}
  /\ UNCHANGED <<adc_call, adc_asked, dacVars>> /\ UNCHANGED clkVars

\* blocking_read sets the channel up and both modes of BUF_CFG0, whatever
\* disable_busywait asked for, then starts the conversion with its first read.
ReadBus ==
  /\ adc_call.pc = "ready"
  /\ adc_reg' = [adc_reg EXCEPT !.nowait = TRUE, !.bus = TRUE, !.valid = FALSE]
  /\ adc_call' = [adc_call EXCEPT !.pc = "reading"]
  /\ UNCHANGED <<adc_asked, dacVars>> /\ UNCHANGED clkVars

Converted ==
  /\ adc_call.pc = "reading" /\ ~adc_reg.valid
  /\ adc_reg' \in {[adc_reg EXCEPT !.valid = TRUE],
                   [adc_reg EXCEPT !.valid = (adc_reg.prd = 0), !.cflct = (adc_reg.prd # 0)]}
  /\ UNCHANGED <<adc_call, adc_asked, dacVars>> /\ UNCHANGED clkVars

\* A result, or a conflict with a periodic conversion, which panics.
ReadResult ==
  /\ adc_call.pc = "reading" /\ (adc_reg.valid \/ adc_reg.cflct)
  /\ adc_call' = [adc_call EXCEPT !.pc = IF adc_reg.valid THEN "ready" ELSE "panicked"]
  /\ UNCHANGED <<adc_reg, adc_asked, dacVars>> /\ UNCHANGED clkVars

(***************************************************************************)
(* DAC.                                                                     *)
(***************************************************************************)
\* Twelve bits: end points of a step group are cut to the field.
Field == 4096

\* StepConfig::fix_end_point: the last point the steps reach.  The range counts
\* both ends, so steps that divide it go one step past the end asked for.
FixedEnd(start, end, step) ==
  IF step = 0 THEN end
  ELSE IF step > 0 THEN start + ((end - start + 1) \div step) * step
  ELSE start - ((start - end + 1) \div (0 - step)) * (0 - step)

\* Every method of the DAC that changes CFG0 does it to the shadow, then copies
\* the shadow.
Commit(bak) == dac_bak' = bak /\ dac_cfg0' = bak

\* new_direct, new_step, new_buffered and configure.
DacNew(mode) ==
  /\ clk_pc = "up" /\ dac_mode = "none"
  /\ dac_mode' = mode
  /\ Commit([dac_bak EXCEPT !.data = 0, !.mode = mode])
  /\ ClkOn("DAC0")
  /\ UNCHANGED <<adcVars, dac_pc, dac_step, dac_buf>>

\* Values past the largest one panic.
SetValue(v) ==
  /\ dac_mode = "direct"
  /\ Commit([dac_bak EXCEPT !.data = v])
  /\ UNCHANGED <<adcVars, dac_pc, dac_mode, dac_step, dac_buf>> /\ UNCHANGED clkVars

\* oneshot or continuous, then configure_step_mode.
ConfigureStep(start, end, step) ==
  /\ dac_mode = "step"
  /\ step > 0 => start <= end
  /\ step < 0 => end <= start
  /\ dac_step' = [start |-> start, end |-> FixedEnd(start, end, step) % Field, step |-> step]
  /\ UNCHANGED <<adcVars, dac_pc, dac_mode, dac_bak, dac_cfg0, dac_buf>> /\ UNCHANGED clkVars

\* trigger_step_mode, trigger_buffered_mode.
Trigger ==
  /\ dac_mode \in {"step", "buffer"} /\ dac_pc = "idle"
  /\ Commit([dac_bak EXCEPT !.hw = FALSE])
  /\ UNCHANGED <<adcVars, dac_pc, dac_mode, dac_step, dac_buf>> /\ UNCHANGED clkVars

\* configure_buffered_mode stops the internal DMA and clears its FIFO first;
StopBuffers ==
  /\ dac_mode = "buffer" /\ dac_pc = "idle"
  /\ Commit([dac_bak EXCEPT !.dma = FALSE])
  /\ dac_pc' = "stopped"
  /\ UNCHANGED <<adcVars, dac_mode, dac_step, dac_buf>> /\ UNCHANGED clkVars

\* then it sets lengths and addresses and starts it again.  Lengths are in
\* words of 32 bits, less one: half a word of an odd number of 16-bit points is
\* left out, and a single one underflows.
GiveBuffers(points, size) ==
  /\ dac_pc = "stopped" /\ points * size >= 4
  /\ dac_buf' = <<(points * size) \div 4 - 1, points>>
  /\ Commit([dac_bak EXCEPT !.points = 4 \div size, !.dma = TRUE])
  /\ dac_pc' = "idle"
  /\ UNCHANGED <<adcVars, dac_mode, dac_step>> /\ UNCHANGED clkVars

AnaNext ==
  \/ \E c \in AdcConfigs : AdcNew(c)
  \/ StartCal
  \/ CalibrationDone
  \/ ReadParams
  \/ OpenConfig
  \/ StoreParams
  \/ Periodic
  \/ ReadBus
  \/ Converted
  \/ ReadResult
  \/ \E mode \in DacModes : DacNew(mode)
  \/ \E v \in {0, 4095} : SetValue(v)
  \/ \E start, end \in DacPoints, step \in DacSteps : ConfigureStep(start, end, step)
  \/ Trigger
  \/ StopBuffers
  \/ \E points \in 1 .. 3, size \in {2, 4} : GiveBuffers(points, size)

\* The driver, beside whatever else uses the clocks.
AnaSpec == AnaInit /\ [][AnaNext]_anaVars

(***************************************************************************)
(* Properties.                                                              *)
(***************************************************************************)
\* Adc::new and calibrate change the converter's clock divider and open its
\* configuration clock several times on the way: when they are through, the
\* divider is the one asked for, the clock is closed, and four rounds went into
\* the parameters.
AdcReady == adc_call.pc \in {"ready", "reading"} =>
  /\ adc_reg.div = adc_asked.div /\ adc_reg.res = adc_asked.res
  /\ ~adc_reg.clk_on /\ ~adc_reg.calon /\ adc_reg.params

\* The DAC's control register is what its shadow says after every method, and
\* the internal DMA is stopped while its buffers are replaced.
DacCommitted == dac_cfg0 = dac_bak /\ (dac_pc = "stopped" => ~dac_cfg0.dma)

\* Between calls both converters work as they were last asked to, however many
\* registers a method writes, clears again or writes twice on the way.
AnalogAsAsked == AdcReady /\ DacCommitted
============================================================================
