------------------------------ MODULE MCSystem ------------------------------
(***************************************************************************)
(* Model-checking instance of start-up and of the drivers that have no run  *)
(* of their own: one of them at a time, chosen at the start, so that the    *)
(* state spaces add up and do not multiply.                                 *)
(***************************************************************************)
EXTENDS TimeDriver, UartSetup, Analog, UsbDevice, Flash, Femc, Peripherals, Interrupts, GpioPins,
        I2cSetup

CONSTANTS
  Focuses       \* the drivers that run

VARIABLES
  focus

sysVars == <<focus, vars, clkVars, uartVars, anaVars, usbVars, flashVars, femcVars, smallVars, irqVars, pinVars, i2cVars>>

(***************************************************************************)
(* Instances.                                                               *)
(***************************************************************************)
\* Alarms in each half of the counter, on both sides of its rollover, and one
\* that is never reached.
Few == {0, 3, 4, 6, Never}

\* A clock as it is asked for.
From(source, divider) == [src |-> source, div |-> divider]

\* The PLL of each part, undivided and divided, the other PLL divided as far as
\* it goes, the crystal, and dividers that are refused.
CpuClocks == {From("pll0clk0", 1), From("pll0clk0", 2), From("pll1clk0", 256), From("clk_24m", 1),
              From("pll0clk0", 0), From("pll0clk0", 257)}
BusClocks == {From("pll1clk0", 2), From("pll1clk1", 4)}

\* Inside the range, with a fraction, and refused.
Plls == {[vco |-> 960000, post |-> <<0, 1, 2>>], [vco |-> 731713, post |-> <<1, 1, 9>>],
         [vco |-> 1100000, post |-> <<1, 3, 9>>]}

StepSizes == {-7, 0, 1, 15}

BothHalves == {<<1, "in">>, <<1, "out">>}
OneConfiguration == {BothHalves}

\* A packet, more than a page of an aligned buffer and of one that is not, and two
\* descriptors.
PacketBuffers == [e \in BothHalves |->
  IF e[2] = "in" THEN {[len |-> 64, aligned |-> FALSE], [len |-> 5000, aligned |-> TRUE]}
  ELSE {[len |-> 5000, aligned |-> FALSE], [len |-> 20000, aligned |-> TRUE]}]

\* Events of the host while the control task is idle.
ApplicationEvents == 2

\* Refresh counts from 0, which is refused, over 256 to 512, which is refused.
Sdrams == {[khz |-> 166000, ms |-> 64, rows |-> 8192, prescaler |-> p] : p \in {0, 3}}
            \cup {[khz |-> 65536, ms |-> 64, rows |-> r, prescaler |-> p] : r \in {512, 1024, 4096}, p \in {0, 1}}

(***************************************************************************)
(* One driver at a time.                                                    *)
(***************************************************************************)
\* Start-up is that of one part with one configuration, but where it is what
\* runs; hpm67 has the memory controller.
FixedStart ==
  /\ clk_part = IF focus = "femc" THEN "v67" ELSE "v53"
  /\ clk_cfg \in [cpu0 : NewClock("pll0clk0", 2), cpu1 : NewClock("pll0clk0", 2),
                  bus : NewClock("pll1clk0", 2), ahb : {2}, axi : {2}, pll : {NoPll}]

SysInit ==
  /\ focus \in Focuses
  /\ ClkInit /\ (focus # "clk" => FixedStart)
  /\ Init /\ (focus # "time" => mtime = 0)
  /\ IrqInit /\ (focus # "irq" => irq_en = {} /\ irq_active = {})
  /\ UartInit /\ AnaInit /\ UsbInit /\ FlashInit /\ FemcInit /\ SmallInit
  /\ PinInit /\ (focus # "pins" => pin_do = {})
  /\ I2cInit /\ (focus # "i2c" => /\ i2c_cfg = [mode |-> "Standard", reset |-> TRUE]
                                    /\ i2c_slave = [needs |-> 0, stretches |-> FALSE])

\* The USB device runs twice: with calls of any buffer on the application's
\* endpoints while the control task is idle, and with the control task, a longer
\* conversation with the host and packets on one endpoint besides, where only the
\* control task's calls are dropped.
BesideControl ==
  /\ usb_ctl' = "idle" /\ usb_host' <= ApplicationEvents
  /\ ~usb_ctrl'[<<1, "out">>].stall

BesideOneCall ==
  /\ usb_fut'[<<1, "out">>].pc = "idle" /\ usb_left' \subseteq {In0, Out0}
  /\ \A e \in UsbEndpoints : usb_fut'[e].buf.len <= UsbPacket /\ ~usb_ctrl'[e].stall

\* What a driver that does not run leaves alone.
Rest ==
  /\ UNCHANGED focus
  /\ focus # "time" => UNCHANGED vars
  /\ focus \in {"time", "flash", "irq", "pins", "i2c"} => UNCHANGED clkVars
  /\ focus # "uart" => UNCHANGED uartVars
  /\ focus # "analog" => UNCHANGED anaVars
  /\ focus \notin {"usb", "control"} => UNCHANGED usbVars
  /\ focus # "flash" => UNCHANGED flashVars
  /\ focus # "femc" => UNCHANGED femcVars
  /\ focus # "small" => UNCHANGED smallVars
  /\ focus # "irq" => UNCHANGED irqVars
  /\ focus # "pins" => UNCHANGED pinVars
  /\ focus # "i2c" => UNCHANGED i2cVars

\* Start-up, which leaves every driver alone.
StartUp ==
  /\ focus \in {"clk", "uart", "analog", "usb", "control", "femc", "small"}
  /\ ClkNext
  /\ UNCHANGED <<focus, vars, uartVars, anaVars, usbVars, flashVars, femcVars, smallVars, irqVars, pinVars, i2cVars>>

SysNext ==
  \/ StartUp
  \/ focus = "time" /\ Next /\ Rest
  \/ focus = "uart" /\ UartNext /\ Rest
  \/ focus = "analog" /\ AnaNext /\ Rest
  \/ focus = "usb" /\ UsbNext /\ BesideControl /\ Rest
  \/ focus = "control" /\ UsbNext /\ BesideOneCall /\ Rest
  \/ focus = "flash" /\ FlashNext /\ Rest
  \/ focus = "femc" /\ FemcNext /\ Rest
  \/ focus = "small" /\ SmallNext /\ Rest
  \/ focus = "irq" /\ IrqNext /\ Rest
  \/ focus = "pins" /\ PinNext /\ Rest
  \/ focus = "i2c" /\ I2cSetupNext /\ Rest

Timer(A) == focus = "time" /\ A /\ UNCHANGED focus

Irq(A) == focus = "irq" /\ A /\ UNCHANGED focus

\* TimeDriver's Fairness, where it runs; the runtime's loop and a handler go on,
\* the controller lets requests through and some vector is taken, by whatever
\* priorities.
SysFairness ==
  /\ WF_vars(Timer(Count)) /\ WF_vars(Timer(ReadFirst \/ ReadSecond \/ Decide))
  /\ SF_vars(Timer(MachineTimer))
  /\ WF_irqVars(Irq(CompleteAll)) /\ WF_irqVars(Irq(HandleInterrupt))
  /\ \A s \in IrqSources : WF_irqVars(Irq(Gateway(s)))
  /\ WF_irqVars(Irq(\E s \in IrqSources : TakeInterrupt(s)))

SysSpec == SysInit /\ [][SysNext]_sysVars /\ SysFairness
============================================================================
