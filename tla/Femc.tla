-------------------------------- MODULE Femc --------------------------------
(***************************************************************************)
(* The external memory controller (src/src/femc.rs): start, the commands to *)
(* the SDRAM with their time-out, and configure_sdram, which starts the     *)
(* refresh at its end.  Times are in clock cycles, frequencies in kHz.      *)
(***************************************************************************)
EXTENDS ClockTree, Sequences

CONSTANTS
  FemcConfigs,  \* clock, refresh time, rows and prescaler asked for
  FemcCalls     \* bound on the calls of configure_sdram and init

\* Widths of FemcSdramConfig; refresh_count divides.
SdramBytes == 0 .. 255
ASSUME FemcAssumption ==
  FemcConfigs \subseteq [khz : Nat, ms : SdramBytes, rows : Nat \ {0}, prescaler : SdramBytes]

VARIABLES
  fm_pc,        \* "off", "raw", "idle", or the step of configure_sdram
  fm_cfg,       \* the configuration asked for
  fm_reg,       \* BR valid and SDRCTRL3: prescale, rt, ren
  fm_queue,     \* commands written to IPCMD and not yet executed
  fm_flags,     \* INTR
  fm_dev,       \* commands that the SDRAM has seen since the configuration
  fm_late,      \* a command has been given up and not been executed before the next
  fm_calls

femcVars == <<fm_pc, fm_cfg, fm_reg, fm_queue, fm_flags, fm_dev, fm_late, fm_calls>>

FemcReset == [valid |-> FALSE, prescale |-> 0, rt |-> 0, ren |-> FALSE]
NoSdram == [khz |-> 1, ms |-> 1, rows |-> 1, prescaler |-> 1]

FemcInit ==
  /\ fm_pc = "off" /\ fm_cfg = NoSdram
  /\ fm_reg = FemcReset
  /\ fm_queue = <<>> /\ fm_flags = {} /\ fm_dev = <<>>
  /\ fm_late = FALSE
  /\ fm_calls = 0

\* new_raw.
FemcNew ==
  /\ fm_pc = "off" /\ clk_pc = "up"
  /\ ClkOn("FEMC")
  /\ fm_pc' = "raw"
  /\ UNCHANGED <<fm_cfg, fm_reg, fm_queue, fm_flags, fm_dev, fm_late, fm_calls>>

\* init: base registers invalid, reset, the wait for idle in disable, time-outs
\* and queue weights, enable.
FemcStart ==
  /\ fm_pc \in {"raw", "idle"} /\ fm_calls < FemcCalls
  /\ fm_calls' = fm_calls + 1
  /\ fm_reg' = FemcReset
  /\ fm_queue' = <<>> /\ fm_flags' = {} /\ fm_dev' = <<>>
  /\ fm_late' = FALSE
  /\ fm_pc' = "idle"
  /\ UNCHANGED fm_cfg /\ UNCHANGED clkVars

\* A field of eight bits in which 0 stands for 256.
Encoded(n) == IF n = 256 THEN 0 ELSE n
Decoded(field) == IF field = 0 THEN 256 ELSE field

RefreshCycle(c) == ((c.khz * c.ms) \div c.rows) \div (Decoded(c.prescaler) * 16)

\* Mutant of Accepts: counts past the field are written and lose their high bits.
Accepts_All(c) == TRUE

Accepts(c) == RefreshCycle(c) \in 1 .. 256

\* configure_sdram: a refused configuration writes nothing.
ConfigureSdram(c) ==
  /\ fm_pc = "idle" /\ fm_calls < FemcCalls
  /\ fm_calls' = fm_calls + 1
  /\ IF Accepts(c)
     THEN /\ fm_reg' = [valid |-> TRUE, prescale |-> Encoded(c.prescaler),
                        rt |-> Encoded(RefreshCycle(c)) % 256, ren |-> FALSE]
          /\ fm_cfg' = c /\ fm_dev' = <<>>
          /\ fm_pc' = "PRECHARGE_ALL"
     ELSE UNCHANGED <<fm_reg, fm_cfg, fm_dev, fm_pc>>
  /\ UNCHANGED <<fm_queue, fm_flags, fm_late>> /\ UNCHANGED clkVars

Steps == <<"PRECHARGE_ALL", "AUTO_REFRESH", "AUTO_REFRESH", "MODE_SET">>

\* Where configure_sdram is: the commands it has issued.
Issued == [PRECHARGE_ALL |-> 0, AUTO_REFRESH |-> 1, AGAIN |-> 2, MODE_SET |-> 3]
Checking == [PRECHARGE_ALL |-> "check PRECHARGE_ALL", AUTO_REFRESH |-> "check AUTO_REFRESH",
             AGAIN |-> "check AGAIN", MODE_SET |-> "check MODE_SET"]
AfterIssue == [PRECHARGE_ALL |-> "AUTO_REFRESH", AUTO_REFRESH |-> "AGAIN", AGAIN |-> "MODE_SET",
               MODE_SET |-> "refresh"]

\* issue_ip_cmd writes the command and polls for its end.
IssueIpCmd ==
  /\ fm_pc \in DOMAIN Issued
  /\ fm_queue' = Append(fm_queue, Steps[Issued[fm_pc] + 1])
  /\ fm_late' = (fm_late \/ fm_queue # <<>> \/ fm_flags # {})
  /\ fm_pc' = Checking[fm_pc]
  /\ UNCHANGED <<fm_cfg, fm_reg, fm_flags, fm_dev, fm_calls>> /\ UNCHANGED clkVars

\* check_ip_cmd_done, on the flags it read.
Answered == IF "err" \in fm_flags THEN "err" ELSE "ok"

CheckIpCmdDone ==
  \E step \in DOMAIN Issued :
    /\ fm_pc = Checking[step]
    /\ \/ /\ fm_flags # {} /\ fm_flags' = {}
          /\ fm_pc' = IF Answered = "ok" THEN AfterIssue[step] ELSE "idle"
       \/ fm_flags = {} /\ fm_pc' = "idle" /\ UNCHANGED fm_flags   \* Timeout
    /\ UNCHANGED <<fm_cfg, fm_reg, fm_queue, fm_dev, fm_late, fm_calls>> /\ UNCHANGED clkVars

EnableRefresh ==
  /\ fm_pc = "refresh"
  /\ fm_reg' = [fm_reg EXCEPT !.ren = TRUE]
  /\ fm_pc' = "idle"
  /\ UNCHANGED <<fm_cfg, fm_queue, fm_flags, fm_dev, fm_late, fm_calls>> /\ UNCHANGED clkVars

\* The controller executes a command, or drops it with an error.
FemcExecutes ==
  /\ fm_queue # <<>>
  /\ fm_queue' = Tail(fm_queue)
  /\ \/ fm_dev' = Append(fm_dev, Head(fm_queue)) /\ fm_flags' = fm_flags \cup {"done"}
     \/ UNCHANGED fm_dev /\ fm_flags' = fm_flags \cup {"err"}
  /\ UNCHANGED <<fm_pc, fm_cfg, fm_reg, fm_late, fm_calls>> /\ UNCHANGED clkVars

FemcNext ==
  \/ FemcNew
  \/ FemcStart
  \/ \E c \in FemcConfigs : ConfigureSdram(c)
  \/ IssueIpCmd
  \/ CheckIpCmdDone
  \/ EnableRefresh
  \/ FemcExecutes

\* The driver, beside whatever else uses the clocks.
FemcSpec == FemcInit /\ [][FemcNext]_femcVars

(***************************************************************************)
(* Property.                                                                *)
(***************************************************************************)
\* The SDRAM forgets what is not refreshed in time (configure_sdram).  Once the
\* refresh is on, the rows asked for are refreshed within the time asked for,
\* and less than one unit of the prescaler earlier than they must be, with the
\* fields read as the hardware reads them, also at 0 and 256; and the device
\* has seen the commands of its start in order, unless the answer to a command
\* given up earlier was taken for a later one's.
SdramRefreshed == fm_reg.ren =>
  /\ LET unit == Decoded(fm_reg.prescale) * 16
         every == Decoded(fm_reg.rt) * unit
         budget == (fm_cfg.khz * fm_cfg.ms) \div fm_cfg.rows
     IN every <= budget /\ every + unit > budget
  /\ ~fm_late => fm_dev = Steps
============================================================================
