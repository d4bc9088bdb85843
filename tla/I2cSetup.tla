------------------------------ MODULE I2cSetup ------------------------------
(***************************************************************************)
(* The constructors of the I2C master (src/i2c/mod.rs): the pins as GPIO,   *)
(* the recovery of a bus that a slave still holds, the pads, the timing and *)
(* the controller.  The slave was interrupted in the middle of a byte, as   *)
(* after a reset of the chip: it holds SDA low until it has had the clocks  *)
(* of the rest of that byte.                                                *)
(***************************************************************************)
EXTENDS Integers, FiniteSetsExt

CONSTANTS
  I2cModes,     \* the modes asked for
  I2cKernel     \* kernel clock of the controller in kHz

ASSUME I2cAssumption ==
  /\ I2cModes \subseteq {"Standard", "Fast", "FastPlus"}
  /\ I2cKernel \in Nat \ {0}

VARIABLES
  i2c_pc,       \* where the constructor is
  i2c_cfg,      \* config.mode, and ip_feature_i2c_support_reset: whether the
                \* controller can clear a bus
  i2c_pads,     \* SCL and SDA: GPIO output, its latch, the I2C function, pull-up
  i2c_slave,    \* clocks the slave still needs, and whether it holds SCL
  i2c_pulses,   \* pulses of the recovery so far
  i2c_reg       \* timing registers, iicen

i2cVars == <<i2c_pc, i2c_cfg, i2c_pads, i2c_slave, i2c_pulses, i2c_reg>>

(***************************************************************************)
(* Timing, in units of 100 ps.                                              *)
(***************************************************************************)
\* period_in_100ps, of a frequency in kHz, and Rust's division.
Period100ps(khz) == 10000000 \div khz
Quotient(a, b) == IF a < 0 THEN -((-a) \div b) ELSE a \div b

Limits ==
  [Standard |-> [high |-> 40000, low |-> 47000, ratio |-> 1, setup |-> 2500, hold |-> 3000, khz |-> 100],
   Fast |-> [high |-> 6000, low |-> 13000, ratio |-> 2, setup |-> 1000, hold |-> 3000, khz |-> 400],
   FastPlus |-> [high |-> 2600, low |-> 5000, ratio |-> 2, setup |-> 500, hold |-> 0, khz |-> 1000]]

\* What SCLHI alone counts when a time is to last `t`, with T_SP and two more
\* cycles before and after.
Cycles(t, tpclk, sp) == Quotient(t - 2 * tpclk, tpclk) - 2 - sp

\* Mutant of Timing: the low period is not looked at.
Timing_HighOnly(khz, mode) ==
  LET tpclk == Period100ps(khz)
      sp == 500 \div tpclk
  IN [sp |-> sp, sudat |-> 0, hddat |-> 0, ratio |-> Limits[mode].ratio,
      sclhi |-> Cycles(Limits[mode].high, tpclk, sp)]

\* configure_timing.
Timing(khz, mode) ==
  LET l == Limits[mode]
      tpclk == Period100ps(khz)
      sp == 500 \div tpclk
  IN [sp |-> sp, ratio |-> l.ratio,
      sudat |-> Max({0, Cycles(l.setup, tpclk, sp)}),
      hddat |-> Max({0, Cycles(l.hold, tpclk, sp)}),
      sclhi |-> Max({Cycles(l.high, tpclk, sp),
                     Cycles(Period100ps(l.khz) \div (1 + l.ratio), tpclk, sp),
                     Quotient(Cycles(l.low, tpclk, sp), l.ratio)})]

\* The periods the controller makes of it, as the comments of configure_timing
\* give them.
HighTime(khz, t) == (4 + t.sp + t.sclhi) * Period100ps(khz)
LowTime(khz, t) == (4 + t.sp + (t.sclhi * t.ratio)) * Period100ps(khz)

(***************************************************************************)
(* Bus.                                                                     *)
(***************************************************************************)
NoTiming == [sp |-> 0, ratio |-> 1, sudat |-> 0, hddat |-> 0, sclhi |-> 0]
Unused == [out |-> FALSE, high |-> FALSE, i2c |-> FALSE, pull_up |-> FALSE]

I2cInit ==
  /\ i2c_pc = "idle"
  /\ i2c_cfg \in [mode : I2cModes, reset : BOOLEAN]
  /\ i2c_pads = [line \in {"scl", "sda"} |-> Unused]
  /\ i2c_slave \in [needs : 0 .. 9, stretches : BOOLEAN]
  /\ i2c_pulses = 0
  /\ i2c_reg = [iicen |-> FALSE, timing |-> NoTiming]

\* The lines have pull-ups outside: set_as_ioc_gpio pulls down inside.
SclHigh(pads, slave) == ~slave.stretches /\ (pads["scl"].out => pads["scl"].high)
SdaHigh(pads, slave) == slave.needs = 0

\* A new level of SCL: the slave sends its next bit when SCL falls.
Clocked(pads) ==
  IF SclHigh(i2c_pads, i2c_slave) /\ ~SclHigh(pads, i2c_slave) /\ i2c_slave.needs > 0
  THEN [i2c_slave EXCEPT !.needs = @ - 1] ELSE i2c_slave

Pads(pads) == i2c_pads' = pads /\ i2c_slave' = Clocked(pads)

(***************************************************************************)
(* new and new_blocking.                                                    *)
(***************************************************************************)
\* set_as_ioc_gpio of both lines.
I2cPins ==
  /\ i2c_pc = "idle"
  /\ Pads([line \in {"scl", "sda"} |-> [Unused EXCEPT !.high = i2c_pads[line].high]])
  /\ i2c_pc' = IF i2c_cfg.reset THEN "pads" ELSE "look"
  /\ UNCHANGED <<i2c_cfg, i2c_pulses, i2c_reg>>

\* A low SCL panics; a low SDA is a slave to recover the bus from.
I2cLook ==
  /\ i2c_pc = "look"
  /\ IF ~SclHigh(i2c_pads, i2c_slave) THEN i2c_pc' = "panic" /\ UNCHANGED <<i2c_pads, i2c_slave>>
     ELSE IF SdaHigh(i2c_pads, i2c_slave) THEN i2c_pc' = "pads" /\ UNCHANGED <<i2c_pads, i2c_slave>>
     ELSE i2c_pc' = "high" /\ Pads([i2c_pads EXCEPT !["scl"].out = TRUE])
  /\ UNCHANGED <<i2c_cfg, i2c_pulses, i2c_reg>>

\* Three rounds of nine pulses; SDA is not looked at again.
Pulses == 27

I2cHigh ==
  /\ i2c_pc = "high"
  /\ IF i2c_pulses < Pulses
     THEN i2c_pc' = "low" /\ Pads([i2c_pads EXCEPT !["scl"].high = TRUE])
     ELSE i2c_pc' = "pads" /\ UNCHANGED <<i2c_pads, i2c_slave>>
  /\ UNCHANGED <<i2c_cfg, i2c_pulses, i2c_reg>>

I2cLow ==
  /\ i2c_pc = "low"
  /\ Pads([i2c_pads EXCEPT !["scl"].high = FALSE])
  /\ i2c_pulses' = i2c_pulses + 1
  /\ i2c_pc' = "high"
  /\ UNCHANGED <<i2c_cfg, i2c_reg>>

\* The I2C function of the pads, open drain with pull-up: the controller, which
\* drives neither line, takes SCL over from the GPIO.
PadOf(pad) == [pad EXCEPT !.i2c = TRUE, !.pull_up = TRUE, !.out = FALSE]
I2cPads ==
  /\ i2c_pc = "pads"
  /\ Pads([line \in {"scl", "sda"} |-> PadOf(i2c_pads[line])])
  /\ i2c_pc' = "init"
  /\ UNCHANGED <<i2c_cfg, i2c_pulses, i2c_reg>>

\* init: reset, timing, enable.  It hangs on a low SCL; a controller that can
\* clear the bus sends nine clocks if SDA is low.
I2cEnable ==
  /\ i2c_pc = "init"
  /\ i2c_reg' = [iicen |-> TRUE, timing |-> Timing(I2cKernel, i2c_cfg.mode)]
  /\ i2c_pc' = IF SclHigh(i2c_pads, i2c_slave) THEN "done" ELSE "hang"
  /\ i2c_slave' = IF i2c_cfg.reset /\ ~SdaHigh(i2c_pads, i2c_slave) /\ SclHigh(i2c_pads, i2c_slave)
                  THEN [i2c_slave EXCEPT !.needs = Max({0, @ - 9})] ELSE i2c_slave
  /\ UNCHANGED <<i2c_cfg, i2c_pads, i2c_pulses>>

\* A slave that stretches the clock lets go.
SlaveReleases ==
  /\ i2c_slave.stretches /\ i2c_slave' = [i2c_slave EXCEPT !.stretches = FALSE]
  /\ UNCHANGED <<i2c_pc, i2c_cfg, i2c_pads, i2c_pulses, i2c_reg>>

I2cSetupNext == I2cPins \/ I2cLook \/ I2cHigh \/ I2cLow \/ I2cPads \/ I2cEnable \/ SlaveReleases

I2cSetupSpec == I2cInit /\ [][I2cSetupNext]_i2cVars

(***************************************************************************)
(* Property.                                                                *)
(***************************************************************************)
\* A constructor that returns hands out a bus that can be used, whatever the
\* slave was in the middle of: neither line is held low, by the slave or by the
\* pulses of the recovery, and SCL keeps the minimal times of the mode in
\* spite of the rounding.  FastPlus is left out: at 24 MHz its low period is
\* 4576 of at least 5000.
I2cBusUsable ==
  i2c_pc = "done" =>
    /\ SclHigh(i2c_pads, i2c_slave) /\ SdaHigh(i2c_pads, i2c_slave)
    /\ i2c_cfg.mode # "FastPlus" =>
         /\ HighTime(I2cKernel, i2c_reg.timing) >= Limits[i2c_cfg.mode].high
         /\ LowTime(I2cKernel, i2c_reg.timing) >= Limits[i2c_cfg.mode].low
=============================================================================
