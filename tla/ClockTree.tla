----------------------------- MODULE ClockTree -----------------------------
(***************************************************************************)
(* System control (src/src/sysctl/) and the start-up of the crate           *)
(* (hal::init): PLL 0, the clock nodes of CPU and bus, the cache CLOCKS     *)
(* that every driver computes its dividers from, and the resources linked   *)
(* to group 0, the clocks that run while CPU0 does.  Frequencies are in     *)
(* kHz.  Every loop on a busy bit ends in the step that starts it.          *)
(***************************************************************************)
EXTENDS Naturals

CONSTANTS
  ClkParts,     \* the chip families
  ClkCpu,       \* sources and dividers asked for as the CPU's clock
  ClkBus,       \* and as the bus clock, on parts where it has a node of its own
  ClkSub,       \* dividers of the bus clock on the other parts
  ClkPlls,      \* programs of PLL 0: VCO frequency, post dividers
  ClkChecked    \* whether the crate is built with overflow checks

ASSUME ClkAssumption ==
  /\ ClkParts \subseteq {"v53", "v62", "v63", "v67", "v68", "v6e"}
  /\ \A asked \in ClkCpu \cup ClkBus : asked.div \in Nat
  /\ ClkChecked \in BOOLEAN
  /\ \A pll \in ClkPlls : pll.vco \in Nat

VARIABLES
  clk_part,     \* the chip
  clk_pc,       \* where hal::init is
  clk_cfg,      \* the Config it was given
  clk_node,     \* clock node -> source and raw divider
  clk_pll,      \* MFI, MFN and post dividers of PLL 0
  clk_cache,    \* CLOCKS
  clk_links     \* GROUP0

clkVars == <<clk_part, clk_pc, clk_cfg, clk_node, clk_pll, clk_cache, clk_links>>

\* What was written last counts.
Over(new, old) == [k \in DOMAIN new \cup DOMAIN old |-> IF k \in DOMAIN new THEN new[k] ELSE old[k]]

Xtal == 24000
Mfd == 240000

(***************************************************************************)
(* What the parts differ in.                                                *)
(***************************************************************************)
\* Sources of the clock multiplexer, with the frequency CLOCKS starts with.
V53Sources == [pll0clk0 |-> 720000, pll0clk1 |-> 600000, pll0clk2 |-> 400000, pll1clk0 |-> 800000,
               pll1clk1 |-> 666667, pll1clk2 |-> 500000, pll1clk3 |-> 266667]
V62Sources == [pll0clk0 |-> 400000, pll0clk1 |-> 333333, pll0clk2 |-> 250000, pll1clk0 |-> 480000,
               pll1clk1 |-> 320000, pll2clk0 |-> 516096, pll2clk1 |-> 451584]
V67Sources == [pll0clk0 |-> 648000, pll1clk0 |-> 266667, pll1clk1 |-> 400000, pll2clk0 |-> 333333,
               pll2clk1 |-> 250000, pll3clk0 |-> 614400, pll4clk0 |-> 594000]
V68Sources == [pll0clk0 |-> 500000, pll1clk0 |-> 800000, pll1clk1 |-> 666667, pll2clk0 |-> 600000,
               pll2clk1 |-> 500000, pll3clk0 |-> 516096, pll4clk0 |-> 594000]
V6eSources == [pll0clk0 |-> 600000, pll0clk1 |-> 500000, pll1clk0 |-> 400000, pll1clk1 |-> 333333,
               pll1clk2 |-> 250000, pll2clk0 |-> 516096, pll2clk1 |-> 451584]
Sources == [v53 |-> V53Sources, v62 |-> V62Sources, v63 |-> V62Sources, v67 |-> V67Sources,
            v68 |-> V68Sources, v6e |-> V6eSources]

\* The other entries CLOCKS starts with.
V53Cores == [cpu0 |-> 360000, ahb |-> 180000]
V62Cores == [cpu0 |-> 400000, axi |-> 200000, ahb |-> 200000]
V63Cores == [cpu0 |-> 400000, axi |-> 133333, ahb |-> 133333]
V67Cores == [cpu0 |-> 324000, cpu1 |-> 324000, ahb |-> 100000]
V68Cores == [cpu0 |-> 500000, ahb |-> 400000]
V6eCores == [cpu0 |-> 600000, cpu1 |-> 600000, ahb |-> 200000]
Cores == [v53 |-> V53Cores, v62 |-> V62Cores, v63 |-> V63Cores, v67 |-> V67Cores,
          v68 |-> V68Cores, v6e |-> V6eCores]

\* The bus clock is the CPU's, divided; on the other parts it has a node.
Divided(part) == part \in {"v53", "v62", "v63"}
OwnPll(part) == part = "v53"

\* The resources that init links to group 0.
V53Group == {"CPU0", "AHB0", "LMM0", "MCT0", "ROM0", "TMR0", "TMR1", "I2C2", "SPI1", "URT0", "URT3",
             "WDG0", "WDG1", "MBX0", "TSNS", "CRC0", "ADC0", "ACMP", "KMAN", "GPIO", "HDMA", "XPI0",
             "USB0"}
V62Group == {"CPU0", "AHBP", "AXIC", "AXIS", "MCT0", "XPI0", "TMR0", "WDG0", "LMM0", "GPIO", "MBX0"}
V63Group == V62Group \cup {"FEMC", "XPI1"}
V67Group == {"CPU0", "AHBAPB", "AXI", "AXI_SRAM0", "AXI_SRAM1", "ROM", "XPI0", "XPI1", "FEMC",
             "MCT0", "LMM0", "LMM1", "GPIO", "MBX0"}
V68Group == {"CPU0", "AXIC", "AXIS", "AXIG", "AXIV", "ROM0", "XPI0", "MCT0", "LMM0", "GPIO", "HDMA",
             "XDMA", "USB0", "MBX0", "MBX1"}
V6eGroup == {"CPU0", "AHBP", "AXIC", "AXIN", "AXIS", "ROM0", "RAM0", "RAM1", "XPI0", "FEMC", "MCT0",
             "LMM0", "LMM1", "GPIO", "HDMA", "XDMA", "USB0", "MBX0", "MBX1", "CPU1"}
Group == [v53 |-> V53Group, v62 |-> V62Group, v63 |-> V63Group, v67 |-> V67Group,
          v68 |-> V68Group, v6e |-> V6eGroup]

\* What dma::init links and resets: XDMA only where the driver is v1 (hpm67).
DmaControllers(part) == {"HDMA"} \cup (IF part = "v67" THEN {"XDMA"} ELSE {})

(***************************************************************************)
(* Clocks::of, get_freq and get_clock_freq, on the cache; and what the      *)
(* hardware really does.                                                    *)
(***************************************************************************)
\* Mutant of NewClock: the divider is stored as it is.
NewClock_NotLess(src, div) ==
  IF div \notin 1 .. 255 THEN {}
  ELSE {[src |-> src, div |-> div, raw |-> div]}

\* ClockConfig::new: the assertion lets 1 to 256 through, and the divider is cut
\* to eight bits before one is taken off, so that 256 panics in a build with
\* overflow checks and wraps round to 255 in one without.  The code keeps the
\* source and the raw divider; div is what was asked for.
NewClock(src, div) ==
  IF div \notin 1 .. 256 \/ (ClkChecked /\ div % 256 = 0) THEN {}
  ELSE {[src |-> src, div |-> div, raw |-> ((div % 256) + 255) % 256]}

\* The configurations there can be.
Clocks(asked) == UNION {NewClock(a.src, a.div) : a \in asked}

\* What a clock node is set to.
Node(c) == [src |-> c.src, raw |-> c.raw]

OfCache(cache, node) ==
  (IF node.src = "clk_24m" THEN Xtal ELSE cache[node.src]) \div (node.raw + 1)

Fvco(pll) == Xtal * pll.mfi + pll.mfn \div (Mfd \div Xtal)
Post(pll, n) == (Fvco(pll) * 5) \div (pll.post[n] + 5)
Outputs(pll) == [pll0clk0 |-> Post(pll, 1), pll0clk1 |-> Post(pll, 2), pll0clk2 |-> Post(pll, 3)]

\* The PLLs that init does not touch run as the boot ROM left them, which is
\* what the initial value of CLOCKS says.
Running == IF OwnPll(clk_part) THEN Over(Outputs(clk_pll), Sources[clk_part]) ELSE Sources[clk_part]
Frequency(node) == OfCache(Running, node)
Asked(c) == (IF c.src = "clk_24m" THEN Xtal ELSE Running[c.src]) \div c.div
BusFrequency(node) == IF node.src = "cpu0" THEN Frequency(clk_node.cpu0) \div (node.raw + 1)
                      ELSE Frequency(node)

\* Pll::get_params: the range is checked, MFN counts in tenths of a kHz.
Params(vco) == IF vco < 16 * Xtal \/ vco > 43 * Xtal THEN {}
               ELSE {[mfi |-> vco \div Xtal, mfn |-> 10 * (vco % Xtal)]}

(***************************************************************************)
(* hal::init.                                                               *)
(***************************************************************************)
BootNode == [cpu0 |-> [src |-> "pll0clk0", raw |-> 1], cpu1 |-> [src |-> "pll0clk0", raw |-> 1],
             bus |-> [src |-> "pll1clk0", raw |-> 3], axi |-> [src |-> "pll1clk0", raw |-> 1]]
BootPll == [mfi |-> 30, mfn |-> 0, post |-> <<0, 1, 4>>]

NoPll == [vco |-> 0, post |-> <<0, 0, 0>>]

ClkInit ==
  /\ clk_part \in ClkParts
  /\ clk_pc = "reset"
  /\ clk_cfg \in [cpu0 : Clocks(ClkCpu), cpu1 : Clocks(ClkCpu), bus : Clocks(ClkBus), ahb : ClkSub,
                  axi : ClkSub, pll : ClkPlls \cup {NoPll}]
  /\ {clk_cfg.cpu0.src, clk_cfg.cpu1.src, clk_cfg.bus.src} \subseteq DOMAIN Sources[clk_part] \cup {"clk_24m"}
  /\ "cpu1" \notin DOMAIN Cores[clk_part] => clk_cfg.cpu1 = clk_cfg.cpu0
  /\ ~OwnPll(clk_part) => clk_cfg.pll = NoPll
  /\ clk_node = BootNode
  /\ clk_pll = BootPll
  /\ clk_cache = Over(Cores[clk_part], Sources[clk_part])
  /\ clk_links = {}

\* clock_add_to_group, for the resources of the part.
LinkGroups ==
  /\ clk_pc = "reset"
  /\ clk_links' = clk_links \cup Group[clk_part]
  /\ clk_pc' = IF OwnPll(clk_part) /\ clk_cfg.pll # NoPll THEN "pll" ELSE "nodes"
  /\ UNCHANGED <<clk_part, clk_cfg, clk_node, clk_pll, clk_cache>>

\* A VCO frequency that get_params refuses leaves MFI and MFN as they are.
SetPll ==
  /\ clk_pc = "pll"
  /\ LET params == Params(clk_cfg.pll.vco) IN
       \/ params = {} /\ UNCHANGED clk_pll
       \/ \E p \in params : clk_pll' = [clk_pll EXCEPT !.mfi = p.mfi, !.mfn = p.mfn]
  /\ clk_pc' = "post"
  /\ UNCHANGED <<clk_part, clk_cfg, clk_node, clk_cache, clk_links>>

\* Mutant of SetPost: the outputs are computed before the dividers are written.
SetPost_Early ==
  /\ clk_pc = "post"
  /\ clk_pll' = [clk_pll EXCEPT !.post = clk_cfg.pll.post]
  /\ clk_cache' = Over(Outputs(clk_pll), clk_cache)
  /\ clk_pc' = "nodes"
  /\ UNCHANGED <<clk_part, clk_cfg, clk_node, clk_links>>

\* The post dividers are written in any case and read back for the cache.
SetPost ==
  /\ clk_pc = "post"
  /\ clk_pll' = [clk_pll EXCEPT !.post = clk_cfg.pll.post]
  /\ clk_cache' = Over(Outputs(clk_pll'), clk_cache)
  /\ clk_pc' = "nodes"
  /\ UNCHANGED <<clk_part, clk_cfg, clk_node, clk_links>>

\* v53, v62 and v63: one register holds the CPU's clock and the dividers of the
\* buses.
DividedBuses ==
  /\ clk_node' = [clk_node EXCEPT !.cpu0 = Node(clk_cfg.cpu0),
                                  !.bus = [src |-> "cpu0", raw |-> clk_cfg.ahb],
                                  !.axi = [src |-> "cpu0", raw |-> clk_cfg.axi]]
  /\ LET cpu == OfCache(clk_cache, clk_cfg.cpu0)
         buses == [k \in {"ahb", "axi"} \cap DOMAIN clk_cache |-> cpu \div (clk_cfg[k] + 1)]
     IN clk_cache' = Over(buses, [clk_cache EXCEPT !.cpu0 = cpu])

\* v67, v68 and v6e: the bus has a node (AHB, AXIS or AHB0), and v67 sets the
\* clock of AXI, too, which CLOCKS has no entry for.
OwnBus ==
  /\ \E axi \in Clocks(ClkBus) :
       clk_node' = [clk_node EXCEPT !.cpu0 = Node(clk_cfg.cpu0), !.bus = Node(clk_cfg.bus),
                                    !.cpu1 = IF clk_part = "v68" THEN @ ELSE Node(clk_cfg.cpu1),
                                    !.axi = IF clk_part = "v67" THEN Node(axi) ELSE @]
  /\ LET clocks == [k \in {"cpu0", "cpu1", "ahb"} \cap DOMAIN clk_cache |->
                       OfCache(clk_cache, clk_cfg[IF k = "ahb" THEN "bus" ELSE k])]
     IN clk_cache' = Over(clocks, clk_cache)

SetNodes ==
  /\ clk_pc = "nodes"
  /\ IF Divided(clk_part) THEN DividedBuses ELSE OwnBus
  /\ clk_pc' = "dma"
  /\ UNCHANGED <<clk_part, clk_cfg, clk_pll, clk_links>>

\* dma::init links the controllers, which it then resets.
DmaUp ==
  /\ clk_pc = "dma"
  /\ clk_links' = clk_links \cup DmaControllers(clk_part)
  /\ clk_pc' = "up"
  /\ UNCHANGED <<clk_part, clk_cfg, clk_node, clk_pll, clk_cache>>

(***************************************************************************)
(* After start-up: drivers link, unlink and choose the clock of a node.     *)
(***************************************************************************)
\* ClockPeripheral::add_resource_group, the first thing a constructor does.
ClkOn(resource) ==
  /\ clk_links' = clk_links \cup {resource}
  /\ UNCHANGED <<clk_part, clk_pc, clk_cfg, clk_node, clk_pll, clk_cache>>

\* clock_remove_from_group: links are not counted.
ClkOff(resource) ==
  /\ clk_links' = clk_links \ {resource}
  /\ UNCHANGED <<clk_part, clk_pc, clk_cfg, clk_node, clk_pll, clk_cache>>

ClkNext ==
  \/ LinkGroups
  \/ SetPll
  \/ SetPost
  \/ SetNodes
  \/ DmaUp

ClkStarted == clk_pc \notin {"reset", "pll", "post", "nodes"}

\* What the drivers link: each its own resource.
DriverResources == {"URT", "ADC0", "DAC0", "USB0", "FEMC", "RNG0", "MOT0", "CAN0"}

\* Start-up, and drivers that come and go in any order.
ClkSpec ==
  ClkInit /\ [][ClkNext \/ \E r \in DriverResources : ClkOn(r) \/ ClkOff(r)]_clkVars

(***************************************************************************)
(* Properties.                                                              *)
(***************************************************************************)
\* Baud rates, bit timings and ticks are computed from CLOCKS, and CLOCKS is
\* written by hand beside the registers (sysctl::init of each part): once the
\* clocks are set up, every source, core and bus in the cache has the frequency
\* its clock has; the cores, and the bus where it has a node, run at their source
\* divided by what ClockConfig::new was asked for, 1 to 256; all this whatever
\* PLL program was asked for, one that get_params refuses included, and a PLL
\* whose program it accepts runs at the frequency asked for.
ClocksHonest == ClkStarted =>
  /\ \A s \in DOMAIN Running : clk_cache[s] = Running[s]
  /\ clk_cache.cpu0 = Frequency(clk_node.cpu0) /\ Frequency(clk_node.cpu0) = Asked(clk_cfg.cpu0)
  /\ "cpu1" \in DOMAIN clk_cache =>
       clk_cache.cpu1 = Frequency(clk_node.cpu1) /\ Frequency(clk_node.cpu1) = Asked(clk_cfg.cpu1)
  /\ clk_cache.ahb = BusFrequency(clk_node.bus)
  /\ ~Divided(clk_part) => BusFrequency(clk_node.bus) = Asked(clk_cfg.bus)
  /\ "axi" \in DOMAIN clk_cache => clk_cache.axi = BusFrequency(clk_node.axi)
  /\ OwnPll(clk_part) /\ clk_cfg.pll # NoPll /\ Params(clk_cfg.pll.vco) # {} =>
       Fvco(clk_pll) = clk_cfg.pll.vco
============================================================================
