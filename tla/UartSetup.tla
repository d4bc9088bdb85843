----------------------------- MODULE UartSetup -----------------------------
(***************************************************************************)
(* The life of a UART driver (src/src/uart/mod.rs) around the transfers     *)
(* that UartAsync models: constructors, the two halves and their drops with *)
(* tx_rx_refcount, configuration and reconfiguration, baud rate search,     *)
(* clock and pins.  Methods are called one after the other; the line error  *)
(* interrupt comes between them.                                            *)
(***************************************************************************)
EXTENDS ClockTree

CONSTANTS
  UartBauds,    \* baud rates asked for, in units of 100 Hz
  UartFine,     \* ip_feature_uart_fine_fifo_thrld
  UartCalls     \* bound on the number of constructors called

ASSUME UartAssumption == UartBauds \subseteq Nat

VARIABLES
  uart_refs,    \* State::tx_rx_refcount
  uart_live,    \* the halves that exist
  uart_owned,   \* the pins each half owns, in their alternate function
  uart_reg,     \* LCR, divisor latch, oversampling, FIFO and IER
  uart_irq,     \* the interrupt is enabled at the PLIC
  uart_asked,   \* the Config of the last configuration if it returned Ok, or none
  uart_erred,   \* history: a line error was handled since that configuration
  uart_calls

uartVars == <<uart_refs, uart_live, uart_owned, uart_reg, uart_irq, uart_asked, uart_erred, uart_calls>>

(***************************************************************************)
(* Config and its encoding in the line control register.                    *)
(***************************************************************************)
Parities == {"None", "Even", "Odd", "Always1", "Always0"}

\* 5 to 8 data bits are encoded alike; one and two stop bits stand for STOP1
\* and the rest.  A FIFO level of 0 is fifo_level: None.
UartConfigs == [baud : UartBauds, parity : Parities, stop : {1, 2}, fifo : {0, 16}]

\* Mutant of LineControl: the stop bits are written before the parity.
LineControl_StopFirst(c) ==
  [dlab |-> FALSE, pen |-> c.parity # "None", eps |-> c.parity \in {"Odd", "Always1"},
   stb |-> c.stop # 1 \/ c.parity \in {"Always1", "Always0"}]

\* The parities that set a bit of their own set the stop bit's, which the
\* line after it overwrites.
LineControl(c) == [dlab |-> FALSE, pen |-> c.parity # "None",
                   eps |-> c.parity \in {"Odd", "Always1"}, stb |-> c.stop # 1]

\* The frame that the hardware sends for a line control register, but for the
\* sense of its parity bit.
Frame(lcr) == [latch |-> lcr.dlab, parity |-> lcr.pen, stop |-> IF lcr.stb THEN 2 ELSE 1]

(***************************************************************************)
(* calculate_baudrate.  The kernel clock is CLK_24M.                        *)
(***************************************************************************)
UartClock == 240000

Oversampling == {2 * n : n \in 4 .. 16}

Divisor(baud, osc) == UartClock \div (baud * osc)

\* The part of the period that the divisor does not divide, in whole samples,
\* is at most 3 percent, cut to an integer again.
WithinTolerance(baud, osc) ==
  LET delta == (UartClock - Divisor(baud, osc) * osc * baud) \div baud
  IN Divisor(baud, osc) >= 1 /\ (delta * 100 * baud) \div UartClock <= 3

\* The smallest oversampling that fits; the register encodes 32 as 0.
Baudrates(baud) ==
  LET fit == {osc \in Oversampling : WithinTolerance(baud, osc)}
      least == {osc \in fit : \A other \in fit : osc <= other}
  IN IF baud < 2 \/ UartClock < baud * 8 THEN {}
     ELSE {[div |-> Divisor(baud, osc), osc |-> osc % 32] : osc \in least}

\* One search for each baud rate.
Searched == [baud \in UartBauds |-> Baudrates(baud)]

Accepted(c) == Searched[c.baud] # {}

\* Cycles of the kernel clock in a bit.
BitCycles(reg) == reg.div * (IF reg.osc = 0 THEN 32 ELSE reg.osc)
LineRate(reg) == UartClock \div BitCycles(reg)

(***************************************************************************)
(* configure and reconfigure.                                               *)
(***************************************************************************)
NoConfig == [baud |-> 0, parity |-> "None", stop |-> 1, fifo |-> 0]

UartInit ==
  /\ uart_refs = 0 /\ uart_live = {}
  /\ uart_owned = [h \in {"tx", "rx"} |-> {}]
  /\ uart_reg = [lcr |-> [LineControl(NoConfig) EXCEPT !.dlab = FALSE], div |-> 1, osc |-> 0,
                 fifo |-> 0, rxen |-> FALSE]
  /\ uart_irq = FALSE
  /\ uart_asked = NoConfig /\ uart_erred = FALSE
  /\ uart_calls = 0

\* Interrupts off and DLAB set come first, so a refused baud rate leaves them so.
Configured(reg, c, rx) ==
  IF ~Accepted(c) THEN [reg EXCEPT !.lcr = [LineControl(NoConfig) EXCEPT !.dlab = TRUE]]
  ELSE LET b == CHOOSE b \in Searched[c.baud] : TRUE
       IN [reg EXCEPT !.lcr = LineControl(c), !.div = b.div, !.osc = b.osc, !.fifo = c.fifo, !.rxen = @ \/ rx]

(***************************************************************************)
(* Constructors, each blocking and asynchronous: the pins they put into     *)
(* their alternate function, half by half.                                  *)
(***************************************************************************)
\* UartTx::new, new_with_cts.
TxPins == [tx : {{"tx"}, {"tx", "cts"}}, rx : {{}}]

\* UartRx::new, new_with_rts.
RxPins == [tx : {{}}, rx : {{"rx"}, {"rx", "rts"}}]

\* Uart::new, new_with_rtscts, new_with_de.
UartPins == {[tx |-> {"tx"}, rx |-> {"rx"}],
             [tx |-> {"tx", "cts"}, rx |-> {"rx", "rts"}],
             [tx |-> {"tx", "de"}, rx |-> {"rx"}]}

Halves(pins) == {h \in {"tx", "rx"} : pins[h] # {}}

\* drop of a value: the pins of its halves go back to their default, then
\* drop_tx_rx counts each of them.
UnlinkWhen(last) == IF last THEN ClkOff("URT") ELSE UNCHANGED clkVars

\* Mutant of Construct: the count is written when the driver is ready.
Construct_CountLate(pins, c) ==
  /\ uart_live = {} /\ clk_pc = "up" /\ uart_calls < UartCalls
  /\ uart_calls' = uart_calls + 1 /\ uart_erred' = FALSE
  /\ uart_reg' = Configured(uart_reg, c, pins.rx # {})
  /\ IF Accepted(c)
     THEN /\ uart_refs' = 1
          /\ uart_live' = Halves(pins)
          /\ uart_owned' = pins
          /\ uart_irq' = (uart_irq \/ pins.rx # {})
          /\ uart_asked' = c
          /\ ClkOn("URT")
     ELSE /\ uart_asked' = NoConfig
          /\ ClkOff("URT")
          /\ UNCHANGED <<uart_refs, uart_live, uart_owned, uart_irq>>

\* Clock and link, the count of halves, then configure; the interrupt is
\* enabled if there is a receiver.  If configure fails the halves are dropped:
\* the pins go back and the count to 0, which unlinks the clock.
Construct(pins, c) ==
  /\ uart_live = {} /\ clk_pc = "up" /\ uart_calls < UartCalls
  /\ uart_calls' = uart_calls + 1 /\ uart_erred' = FALSE
  /\ uart_reg' = Configured(uart_reg, c, pins.rx # {})
  /\ IF Accepted(c)
     THEN /\ uart_refs' = (IF pins.tx # {} /\ pins.rx # {} THEN 2 ELSE 1)
          /\ uart_live' = Halves(pins)
          /\ uart_owned' = pins
          /\ uart_irq' = (uart_irq \/ pins.rx # {})
          /\ uart_asked' = c
          /\ ClkOn("URT")
     ELSE /\ uart_asked' = NoConfig
          /\ ClkOff("URT")
          /\ uart_refs' = 0
          /\ UNCHANGED <<uart_live, uart_owned, uart_irq>>

\* Drop of a UartTx or UartRx; split moves the halves out of a Uart, and a Uart
\* that is dropped drops both.
DropHalf(h) ==
  /\ h \in uart_live
  /\ uart_live' = uart_live \ {h}
  /\ uart_owned' = [uart_owned EXCEPT ![h] = {}]
  /\ uart_refs' = uart_refs - 1
  /\ UnlinkWhen(uart_refs = 1)
  /\ UNCHANGED <<uart_reg, uart_irq, uart_asked, uart_erred, uart_calls>>

\* Mutant of SetConfig: the interrupt is disabled only.
SetConfig_NoEnable(c) ==
  /\ uart_live # {}
  /\ uart_reg' = Configured(uart_reg, c, TRUE)
  /\ uart_irq' = FALSE
  /\ uart_asked' = (IF Accepted(c) THEN c ELSE NoConfig) /\ uart_erred' = FALSE
  /\ UNCHANGED <<uart_refs, uart_live, uart_owned, uart_calls>> /\ UNCHANGED clkVars

\* set_config of either half: the interrupt is off meanwhile, and stays off if
\* the configuration is refused.
SetConfig(c) ==
  /\ uart_live # {}
  /\ uart_reg' = Configured(uart_reg, c, TRUE)
  /\ uart_irq' = Accepted(c)
  /\ uart_asked' = (IF Accepted(c) THEN c ELSE NoConfig) /\ uart_erred' = FALSE
  /\ UNCHANGED <<uart_refs, uart_live, uart_owned, uart_calls>> /\ UNCHANGED clkVars

\* blocking_write, and write of the embedded_hal and embedded_io traits: with
\* DLAB set the byte goes to the divisor latch.
SendByte ==
  /\ "tx" \in uart_live
  /\ uart_reg' = IF uart_reg.lcr.dlab THEN [uart_reg EXCEPT !.div = 85] ELSE uart_reg
  /\ UNCHANGED <<uart_refs, uart_live, uart_owned, uart_irq, uart_asked, uart_erred, uart_calls>>
  /\ UNCHANGED clkVars

\* on_interrupt after a line error of a read: where FCRR is written as a whole,
\* the FIFO and its levels are turned off with the DMA requests.
ErrorInterrupt ==
  /\ uart_irq /\ "rx" \in uart_live
  /\ uart_reg' = IF UartFine THEN [uart_reg EXCEPT !.fifo = 0] ELSE uart_reg
  /\ uart_erred' = TRUE
  /\ UNCHANGED <<uart_refs, uart_live, uart_owned, uart_irq, uart_asked, uart_calls>>
  /\ UNCHANGED clkVars

UartNext ==
  \/ \E c \in UartConfigs, pins \in TxPins \cup RxPins \cup UartPins : Construct(pins, c)
  \/ \E h \in {"tx", "rx"} : DropHalf(h)
  \/ \E c \in UartConfigs : SetConfig(c)
  \/ SendByte
  \/ ErrorInterrupt

\* The driver beside start-up and the others, which link resources of their own.
UartSetupSpec ==
  /\ ClkInit /\ UartInit
  /\ [][\/ UartNext
        \/ UNCHANGED uartVars /\ (ClkNext \/ \E r \in DriverResources \ {"URT"} : ClkOn(r))]_<<clkVars, uartVars>>

(***************************************************************************)
(* Properties.                                                              *)
(***************************************************************************)
\* Two halves that live in different tasks share one clock: it runs for as long
\* as one of them exists and is off when the last is gone, also when the
\* constructor failed (drop_tx_rx, uart/mod.rs).
ClockedWhileLive ==
  /\ uart_live # {} => "URT" \in clk_links
  /\ uart_calls > 0 /\ uart_live = {} => "URT" \notin clk_links /\ uart_owned = [h \in {"tx", "rx"} |-> {}]

\* A configuration that returned Ok is in force, whatever failed before it: the
\* divisor latch is closed, a frame has a parity bit and the stop bits asked for,
\* the FIFO is as asked for unless a line error was handled since where that
\* writes FCRR, the line runs within 5 percent and one cycle in a bit of the
\* baud rate asked for, and a receiver has its interrupt (configure,
\* calculate_baudrate, on_interrupt).  The sense of the parity bit is not
\* claimed: configure selects the odd parity for Even and the even one for Odd.
UartAsConfigured == uart_live # {} /\ uart_asked # NoConfig =>
  /\ Frame(uart_reg.lcr) = [latch |-> FALSE, parity |-> uart_asked.parity # "None", stop |-> uart_asked.stop]
  /\ ~(UartFine /\ uart_erred) => uart_reg.fifo = uart_asked.fifo
  /\ LineRate(uart_reg) >= uart_asked.baud
  /\ (LineRate(uart_reg) - uart_asked.baud) * 20 * BitCycles(uart_reg)
       <= uart_asked.baud * (BitCycles(uart_reg) + 20)
  /\ "rx" \in uart_live => uart_irq
============================================================================
