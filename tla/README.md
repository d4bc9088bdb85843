# hpm-hal in TLA+

TLA+ models of [hpm-hal](../src/README.md), a Rust hardware abstraction layer for HPMicro RISC-V
microcontrollers: what its drivers, their interrupt handlers, the hardware and the embassy
executor do to each other. TLC checks them on small instances; TLAPS proves their safety
properties for every instance. Paths are relative to `src/`.

## The system

hpm-hal is a library without threads of its own. Its code runs in three places: in **tasks** (the
poll of a future, a blocking call, a drop), in **interrupt handlers**, and, seen from the registers
both share, in the **hardware**, which sets and clears bits whenever it likes. The supported parts
run one hart (`README.md` lists CPU1 as open) and one embassy executor, so polls of tasks do not
overlap, while handlers come between any two register accesses of a task. State lives in
peripheral registers, in `static` state with an `AtomicWaker` per peripheral, and in the futures.
Several registers are *write one to clear*, several are shared by two owners and changed by
read-modify-write: that is where most of the hazards come from.

| Component | State | Operations | Interacts with |
|---|---|---|---|
| DMA (`dma/`) | control, size, enable per channel; four status registers and the abort register per controller; `STATE` wakers | create, start, poll, `blocking_wait`, `request_abort`, drop of a `Transfer`; `dma_on_irq` | UART, SPI, I2C await transfers; hardware moves data |
| UART (`uart/mod.rs`) | LSR, IER, FCR, IIR2, FIFO; `saved_lsr`, `rx_waker`; `tx_rx_refcount` | async read (until idle), async and blocking write, flush, split, configuration; `on_interrupt` | DMA; two halves share FCR, IER, LSR |
| MBX (`mbx.rs`) | word register, FIFOs, CR; two wakers per side | `send`, `recv`, `send_fifo`, `recv_fifo`, stream, `nb_*`, `blocking_*`; `on_interrupt` | the peer side |
| GPIO inputs (`gpio/input_future.rs`) | IF, IE, PL, TP, PD; one waker per line number | `wait_for_*`, poll, drop; port handler | pins of one port share a handler, lines of all ports share wakers |
| GPIO pins (`gpio/mod.rs`) | direction, output, pad control | set, read, convert, drop | all drivers own pins |
| Time driver (`embassy/time_driver_mchtmr.rs`) | mtime, mtimecmp, mie; `AlarmState` | `now`, `set_alarm`, timer handler | executor timers, I2C timeouts |
| I2C (`i2c/mod.rs`) | ctrl, status, setup, int_en; waker | async and blocking read, write, transactions; `on_interrupt` | DMA, time driver, bus |
| SPI (`spi/mod.rs`) | transfer control, FIFOs, cached word size | blocking and async transfers | a pair of DMA channels |
| USB device (`usb/`) | endpoint prime, status and completion registers, queue heads; wakers per endpoint | endpoint read and write, control transfers, bus events | host |
| Flash (`flash/`) | XPI, data cache | read, erase, write | ROM, cache |
| ADC, DAC, RNG, RTC, FEMC, QEI, MCAN, TRGM | registers | configuration, polling | hardware |
| Interrupts, runtime (`internal/`, `rt.rs`) | PLIC enable, priority, claim | enable, pend, complete, `_setup_interrupts` | every handler |
| Clocks (`sysctl/`) | clock nodes, PLLs, cached frequencies, resource groups | `init`, `set_clock`, add and remove resources | every driver |
| Build script, patches, macros | | generate peripheral tables and `init_gpio` | |

What is hard, and what makes each part correct:

- **DMA**: a caller's buffer is lent to hardware. It may come back only when the channel has
  stopped, although `is_running` reads up to four registers one at a time; a completed transfer
  must wake its task, although the handler erases the status that the poll reads; a channel must
  not disturb another one's status.
- **UART**: a read can end by completion, idle line, error or drop at any await, against a handler
  that writes the same registers. Each way out must leave the receiver neutral, an error must not
  be lost or reported to the wrong read, and the byte count must be honest.
- **MBX**: words arrive once and in order under any mix of methods; a waiting task is told.
- **GPIO**: no edge or level served by the handler is lost by the task; an abandoned wait leaves
  no interrupt enabled.
- **Timer**: never early, never silently dropped, at the edges of 32 and 64 bits.
- **I2C, SPI**: framing of transactions, timeouts against late answers, cancellation mid-transfer,
  periods and divisors after rounding; a bus that is usable when the constructor returns.
- **USB**: completions of several endpoints in one write-one-to-clear register; reset at any time;
  buffers the controller owns while a future comes and goes.
- **Flash**: stale cache, an erase that fails half way. **SDRAM**: the refresh interval.
- **Clocks**: the cache of frequencies against the registers, clocks linked before they are needed
  and for as long, by two halves of one peripheral, too.
- **Pins, ADC, DAC, RTC**: registers written in several steps, beside drivers of other pins, a
  running conversion or a running clock. **Interrupts**: a device that asks is served.

PROJECT.json lists these hazards line by line, with the properties that cover them.

## The modules

| Module | Models | State and actions |
|---|---|---|
| `DmaChannels` | `dma/v1.rs`, `dma/v2.rs` | One controller, any number of channels and tasks, one action per register access. `enable`, `loop`, `tcmask`, `halfmask` are bits of the control registers, `sts` the status registers, `waker` is `STATE`, `pc` where the code that owns the channel is. `NewTransfer` to `Start` is `new_inner` with `configure`; `RegisterWaker` and `IsRunning` are `poll`; `Drop`, `DropAbort` the drop loop; `IsrEnter` to `IsrExit` the handler; `Beat`, `LastBeat`, `HwAbort`, `BusError` the hardware. `Version` selects v1 or v2, `Controller` HDMA or XDMA. |
| `TransferPromise` | what a `Transfer` promises | free, lent, moving, then complete or cut short, then free: abstract specification that `DmaChannels` implements. |
| `DmaProofs` | theorems of `DmaChannels` | |
| `UartAsync` | `uart/mod.rs`, async part | `ReadStart` to `DropGuard` is `inner_read_run` with its guard and abort future, `rpc` the await or register access it is at; `OnInterrupt` the handler; `WriteStart`, `Spin` the two writes; line, FIFO and DMA requests are hardware. DMA transfers are used by what `DmaChannels` shows of them. |
| `UartProofs` | theorems of `UartAsync` | |
| `Mailbox` | `mbx.rs` | Two sides; a message is its number. `Call` to `Register` is a method up to its await, `EnableRead` and `EnableWrite` the two halves of `cr.modify`. |
| `MailboxProofs` | theorems of `Mailbox` | |
| `GpioInput` | `gpio/input_future.rs` | A pin is a port and a line. `Polarity`, `Dual`, `Type`, `Enable` are the writes of `wait_for_*`, `Register` and `Check` the poll, `Cancel` the drop. |
| `GpioProofs` | theorems of `GpioInput` and `GpioPins` | |
| `TimeDriver` | `embassy/time_driver_mchtmr.rs` | `SetAlarm`, `ReadFirst`, `ReadSecond`, `Decide` are `set_alarm`; the counter is `Half * Half` values and read in two halves. |
| `TimeProofs` | theorems of `TimeDriver` | |
| `I2cMaster` | `i2c/mod.rs` | An operation is a direction and a size. `First` and `Last` are the frames; `BusFree` to `TimedOut` the blocking calls, one action per loop, with the deadline free to pass wherever the code checks it; `CheckBus` to `CancelOperation` the asynchronous ones; `Address` to `OtherMaster` controller, slaves and other masters, which may refuse, arbitrate or stay silent. `kind` tells `blocking_write_read`, which has a copy of the code of its own, from the other blocking calls. |
| `I2cProofs` | theorems of `I2cMaster` | |
| `I2cSetup` | `i2c/mod.rs`, construction | `I2cPins` to `I2cEnable` are `new_blocking` with its recovery pulses (`I2cHigh`, `I2cLow`) on open-drain lines; a slave is in the middle of a byte and may stretch the clock. `Timing` is `configure_timing` in units of 100 ps, `HighTime` and `LowTime` the periods that its result stands for. |
| `SpiTransfer` | `spi/mod.rs` | `SpiCall` and `ConfigureTransfer` are the set-up of every method, `PushWord`, `PopWord`, `LoopDone`, `Drained` the FIFO loops, `StartDma`, `Joined`, `DropFuture` the asynchronous ones; `Frame`, `DmaPush`, `DmaPop` controller and channels. A word is its position in its transfer, or old. |
| `SpiProofs` | theorems of `SpiTransfer` | |
| `ClockTree` | `sysctl/`, `init` of `lib.rs`, `dma`, `gpio`, `embassy` | Tables of the six parts (`Sources`, `Cores`, `Group`) and, in the order of the code, `LinkGroups`, `SetPll`, `SetPost`, `SetNodes`; `clk_cache` is `CLOCKS`, `Running` the frequencies the registers stand for; `NewClock` is `ClockConfig::new`, which refuses a divider or wraps. `ClkOn` and `ClkOff` are the resource groups, used by the modules of peripherals that link a clock. |
| `UartSetup` | `uart/mod.rs`, construction and configuration | `Baudrates` is the search of `calculate_baudrate`; `Frame` is what the hardware makes of the line control register; `Construct`, `SetConfig`, `DropHalf` count `tx_rx_refcount` and link the clock through `ClockTree`. |
| `GpioPins` | `gpio/mod.rs` | A constructor is the list of its steps (`Constructor`), which drivers of other pins may come between; OE and DO are sets of pins of a port. |
| `Analog` | `adc/mod.rs`, `dac.rs` | Calibration from `StartCal` to `StoreParams`, bus reads and period mode; the DAC's three modes with the control register and its shadow. |
| `UsbDevice` | `usb/` | Tasks run between awaits in one step: `Transfer` primes, `PollFuture` is the poll of a read or write, `DropCall` and `DropSetup` drop one at its await; `Chain` is the descriptor list of a buffer. `SetupCall` to `ControlNext` the control pipe, `PollReset`, `SetEnabled`, `SetStalled` the bus. The handler is `HandlerReads` and `HandlerClears`; the host resets, sends SETUP and moves packets. |
| `Flash` | `flash/` | A chip of one-bit bytes behind a cache that the program fills (`Fetch`, `Evict`); reads, writes, erases by sector or range. |
| `Femc` | `femc.rs` | `ConfigureSdram`, then `IssueIpCmd` and `CheckIpCmdDone` for each command of the start and `EnableRefresh`; `Encoded` and `Decoded` are the fields in which 0 means 256. |
| `Peripherals` | `rtc.rs`, `rng.rs`, `qei.rs`, `mcan.rs`, `trgm.rs` | RTC reads and alarms register by register while `RtcTicks`; RNG start and self test; constructors that link a clock. |
| `Interrupts` | `internal/interrupt.rs`, `rt.rs`, `bind_interrupts!` | `Gateway`, `TakeInterrupt`, `HandleInterrupt`, `Complete`; `CompleteAll` is the sweep of `_setup_interrupts` after a reset of the core. The read in `complete` claims the next source or does not (`Claims`). |
| `MCSystem` | | composes `TimeDriver`, `ClockTree` and the modules below `SpiTransfer`: start-up runs first, then the driver that `focus` names, on top of the clocks that are up. The USB device has two, `usb` for the calls of the application and `control` for the control task. |
| `SystemProofs` | theorems of the modules that `MCSystem` composes, and of `MCSystem` | |
| `MC*` | | constants for TLC only |

Conventions. A waker slot is modelled by whose waker it holds; embassy's `AtomicWaker` keeps the
waker when it wakes, so a stale waker stays. Where only one task at a time can use a slot, "mine"
and "other" is seen from that task. An interrupt handler is one step where nothing else touches
its registers while it runs (UART, MBX, GPIO, timer), and split at register accesses for the DMA,
whose hardware and handler race. Local variables return to a fixed value at the end of their
scope. Definitions named `X_Something` just before a definition `X` are faulty variants of `X`
that the properties were tried against; the model does not use them.

## What the runs show

| Run | Instance | Shows |
|---|---|---|
| `dma_v1` | v1, 2 channels, 1 task | memory safety, complete data, no lost wakeup, channels independent |
| `dma_v2` | v2, 1 channel, 2 tasks, circular or not | `TransferPromise` implemented, with stale wakers; awaited transfers resolve and drops end |
| `dma_v2_clear` | v2, 2 channels; violation | finding 1 |
| `uart` | both halves, errors, overrun, idle, cancellation | neutral between reads, honest count, wakeups, a read with a reason to return returns |
| `uart_split` | violation | finding 2 |
| `mbx` | all methods, 2 messages per channel | order, armed waits, waits end |
| `mbx_lost_wakeup` | violation | finding 3 |
| `gpio` | 2 pins of a port, all waits | no lost wakeup, nothing left enabled, level waits end |
| `i2c` | blocking and asynchronous calls on a shared bus, given up anywhere | frames obey the contract of `embedded_hal`, success releases the bus, no stale bytes, blocking calls end |
| `spi` | every method in any order, dropped half way, one-word FIFOs | a transfer receives its own words, Ok means sent with the bus idle, well-formed methods come back |
| `system` | the drivers of `MCSystem`, one at a time | see the next table |
| `usb_second_reset` | violation | finding 4 |

`system` explores one driver at a time, so that the state spaces add up; start-up of the part comes
first, and the peripherals that link a clock run on the clock tree it leaves.

| Property | Instance | Shows |
|---|---|---|
| `NeverEarly`, `PromiseArmed`, `AcceptedFires` | 16-value counter, 2 counts per tick, deadlines around each rollover and `u64::MAX` | no alarm early, caller and driver agree, accepted alarms fire |
| `ClocksHonest` | six parts, three PLL programs, one of them refused, dividers from 0 to 257 | the cached frequencies, `cpu1` included, are those of the registers |
| `ClockedWhileLive`, `UartAsConfigured` | three pin sets, four baud rates of which two are refused, failing calls | the clock lives exactly as long as a half; a configuration that returned Ok is in force whatever failed before: latch closed, a parity bit and stop bits as asked, FIFO as asked (until a line error on fine-FIFO parts), rate within 5 percent and one cycle in a bit |
| `PinsAsAsked` | two pins of a port, all drivers | after take-over a pin is what its driver asked for, whatever others do and earlier drivers left |
| `I2cBusUsable` | three modes at 24 MHz, slaves that hold SDA or stretch | both lines released, minimal periods kept (not FastPlus) |
| `AnalogAsAsked` | three dividers, three DAC modes | set-up and calibration leave what was asked for; register and shadow agree |
| `UsbBufferHeld`, `UsbOwnCompletion` | endpoint 0 and both halves of endpoint 1, one and two descriptors, aligned buffers or not, calls dropped at their await, two events of the host, four for the control task | a primed buffer is borrowed and, if the driver can describe it (`Proper`), covered; a call returns on its own packet. Neither is claimed of an endpoint a call was dropped on (`usb_left`) until the next reset, disabling or, for endpoint 0, SETUP |
| `FlashHonest` | two sectors of one line of two bytes | reads return what is on the chip; Ok means erased |
| `SdramRefreshed` | refresh counts from 0 to 512, late answers | refresh in time and not needlessly early |
| `RtcNoMixture` | two alarms, two values | time read and alarms set are never mixed |
| `AskedIsServed` | two sources, one of which may be enabled or in service at the reset | an enabled source that asks does not wait for an idle processor, unless `complete` claimed it |

A violation is a counterexample to what a doc or comment of the source says; PROJECT.json quotes
the text. `NoLostWakeup` of `Mailbox`, which the run refutes, is not the property of that name that `dma_v1` checks.

Bounds, all constants in the configurations: two channels are enough for one to disturb another
and one is enough for its own protocol (two channels of v2 are covered by the theorems, which need
no bound); transfers of one unit reach the terminal count and of two also the half-transfer
status; two tasks make a waker stale; reads of up to two bytes with a FIFO of one reach partial
reads and overrun, and `RetryCount` 0 lets a polled write time out; one kind of UART error stands
for all, since the driver treats them alike but for the value it returns; two messages fill word
register and FIFO behind a slow reader and make a stale word visible; two pins of a port share
handler and dual-edge register; a counter of two base-4
digits rolls its low half over three times. `LatchesAll` is the hardware that flags disabled pins,
which includes every behaviour of the other kind but that a flag is missed while disabled; the
GPIO theorems hold for both. Symmetry is used only in `dma_v1`, over channels that the code treats
alike. I2C operations have up to two bytes with a FIFO of one (`FifoDepth`), so writes wait for the
FIFO, and a third is too long (`MaxCount`); three operations in a transaction merge and turn around.
The `i2c` run does not check for deadlock: the first loop of `blocking_write_read` may wait for ever.
Nor do `mbx`, `spi` and `system`: an idle peer, a refused configuration, a used-up bound on calls
(`UartCalls`, `FemcCalls`, `SmallCalls`, `IrqCalls`, `PinCalls`, `UsbHost`) and a driver that is set up
are ends. Two of a kind is what these bounds need to reach: a second call on what a first one left.
The host of the USB device has four events beside the control task, a reset that opens endpoint 0, a SETUP and
two packets, or resets between them, and two beside calls of the application; one endpoint at a time has a
dropped call (`UsbDrops`), on which the next call may start.
What the sources do not settle are constants: `PinDelegated` and `PinReadsBack` (a clear register reads as zero
or as the state) of the hardware, `ClkChecked` (overflow checks) of the build. The run takes the harmless value
of the first two, and the observations say what happens with the other; the theorems on clocks hold for
both builds.
`usb_left` (endpoints with a dropped call), `uart_erred` (a line error was handled since the
configuration) and `irq_taken` (claimed by the read in `complete`) are histories that say openly where a
property does not hold; each case is an observation below.
`quiet` is a history variable: it tells calls that begin with no transaction of an abandoned call
under way, the only ones for which framing can be promised.

Fairness. Driver code between two awaits and a pending interrupt go on (weak fairness). A woken
task is polled: strong fairness where the poll is disabled now and then because another poll runs,
weak otherwise. The DMA moves data while the peripheral requests it, aborts take effect, and time
passes, so a blocking call that polls with a deadline gets there. The loop of `_setup_interrupts` and a handler
go on, the controller lets the request of a device through, and of the sources that are pending and enabled some
vector is taken (weak fairness). Nothing forces a user to call, a peer to send or a line to fall idle.

### Findings

1. v2 `clear_irqs` uses `modify` on write-one-to-clear registers and erases the completions of
   other channels: their tasks are not woken.
2. A UART half that finishes turns DMA requests off for the other half.
3. MBX methods register their waker after enabling the interrupt: a first wait can be lost.
4. The USB reset interrupt is never enabled again after the first reset of the bus.

Observations that the models contain and no run reports:

- `saved_lsr` of the UART is taken by a load and a store (`src/uart/mod.rs:610`); an error saved in
  between is lost, and the read stays pending with its interrupts and DMA requests off.
- `now` reads a 64-bit counter in two loads (`src/embassy/time_driver_mchtmr.rs:124`): across a
  rollover it is far ahead, and `set_alarm` refuses a deadline that has not passed.
- `PlicExt::claim` (`src/internal/interrupt.rs:257`) claims by reading the register that `complete`
  (line 228) and `_setup_interrupts` (`src/rt.rs:19`) read, by `modify`, before they write it. If that read
  claims in vectored mode, too, the next pending source is in service and nobody handles it.
- `ClockConfig::new` accepts a divider of 256 (`src/sysctl/v53.rs:113`), but `div as u8 - 1` (line 116) is
  then 0 - 1: a panic with overflow checks, 255, which is right, without.
- With `PinReadsBack`, `oe().clear().modify` (`src/gpio/mod.rs:569`) takes the direction of the other
  outputs of the port away, against `PinsAsAsked`. Drop leaves OE and DO, although a pin "will return
  to its floating state" when dropped (line 284); `OutputOpenDrain::new` drives push-pull first.
- FastPlus at 24 MHz has a low period of 457.6 ns, below the 500 ns that the comment at
  `src/i2c/mod.rs:1142` asks for. The constructor waits for ever for an SCL that stays low.
- A flash read from an offset inside a cache line may leave its last line stale; the doc forbids it
  (`src/flash/mod.rs:122`), but `ReadNorFlash::read` with `READ_SIZE` 1 does not. `FlashOffsets` states it.
- USB: clearing an endpoint's completion flag also clears every pending flag of the other direction
  (`src/usb/control_pipe.rs:38`, `src/usb/endpoint.rs:212`); the handler clears what is set after it
  has read (`src/usb/mod.rs:498`); closing one half of an endpoint disables the other unflushed; a
  future dropped while primed leaves the controller with its buffer, and the next call on the endpoint returns
  on its completion flag (`src/usb/endpoint.rs:206`). The last descriptor of a buffer of 16 KiB or more covers all
  of it and does not end the list (`src/usb/endpoint.rs:75`); one of more than 4 KiB that is not aligned is primed
  with neither address nor end (`src/usb/mod.rs:170`). `setup` modifies the write-one-to-clear USBSTS
  (`src/usb/control_pipe.rs:29`), and with it clears a reset that is pending.
- SPI: a refused merged write leaves `datamerge` set (`src/spi/mod.rs:824`), `mosibidir` is never cleared,
  the read length is not checked, a length of 0 wraps or
  panics (line 755), and the word size is set after the transfer has been started (line 883).
- UART: a failed `set_config` leaves the interrupts off and the divisor latch open until the next one
  that succeeds; even and odd parity are swapped, and the always-0 and always-1 kinds lose their stick bit.
  On fine-FIFO parts the handler turns the FIFO off with the DMA requests at a line error (`src/uart/mod.rs:216`).
- FEMC: the answer of a command that timed out is taken for the next one's (`fm_late`). RTC:
  `set_datetime` writes the seconds to the subsecond register (`src/rtc.rs:56`), and `clear_interrupt`
  clears both flags.
- PLL 0 is reprogrammed while the CPU runs from it; a refused program is ignored silently.
- v2 `init` enables the HDMA interrupt only (`src/dma/v2.rs:131`), so an awaited XDMA transfer has
  nobody to wake it; `IrqEnabled` states it and is an assumption of the proofs.
- A UART read clears LSR before it looks at `detect_previous_overrun` (`src/uart/mod.rs:539`), which
  discards the latent error the option is documented to report; without the option `saved_lsr`
  keeps the error of an earlier read (line 576).
- With the e00018 fix and without 9-bit mode the handler clears the idle flag that the abort future
  looks for (line 232), so an idle line does not end `read_until_idle`.
- Input futures of one line number on two ports share one waker (`src/gpio/input_future.rs:53`): of
  two tasks that wait for them the earlier is not woken. `LineOfOneTask` in `GpioProofs` excludes it.
- `irq_dual(false)` is written to a set register (`src/gpio/input_future.rs:140`), so dual-edge mode,
  once set by `wait_for_any_edge`, stays for the whole port.
- Every frame of `blocking_transaction` waits for a bus that its own transaction holds
  (`src/i2c/mod.rs:682`), so one of several operations times out at the second. The busy loop of
  `blocking_write_read` makes a new deadline in every turn (line 589) and never times out.
- `blocking_write_read` clears `addrhit` once for two addressed phases, so the bit of the second one
  makes a following probe succeed whether or not a slave answers; a register address longer than the
  FIFO overflows it (line 608).
- The asynchronous I2C calls look at the status only after the DMA transfer (line 463), so a slave
  that refuses leaves them pending; they take a STOP raised before they wait (line 398); they do not
  clear the FIFO, so bytes of a cancelled call go out with the next; an operation that is too long
  in the middle of a transaction leaves the bus held.

## What is proved

Every invariant and every action property of the passing runs is a theorem, checked by TLAPS for
every value of the constants that meets the named assumptions, with the hypotheses given below. Each module's proof
has the same shape: an inductive invariant, one lemma that every action preserves it, and temporal
steps that combine the two. The invariants were checked with TLC before they were proved.

`DmaProofs`: `TypeCorrect`; `BufferSafe` (the buffer comes back only from a stopped channel, both
versions, no further assumption); `PromiseKept` (`DmaChannels` implements `TransferPromise`);
`WakeupsKept` and `ResolvesComplete` (under `ExactClear`: v1, or one channel on
v2; `WakeupsKept` also under `IrqEnabled`), the former of which two channels of v2 break: finding 1. *Argument.*
`BufferReturnedOnlyWhenStopped` is not inductive: what `is_running` has read
must still hold when it decides. `SafeInv` adds that a set bit of `abort` or of `tc` on a channel
without `loop`, seen under an owner, implies that the channel is not enabled, and that these bits
are clear from `clear_irqs` to `start`; it needs nothing of other channels, which can only erase bits.
`WakeInv` follows a completion: in the status register, in the handler's `seen` and `todo`, in the
run queue, or not yet looked at by a poll that has registered.

`UartProofs`: `TypeCorrect`, `ReceiverNeutral`, `ReadIsWoken`, `CountIsHonest`, for any buffers, FIFO
depth and retry limit. *Argument.* `NeutralInv`: only a read enables anything, and its transfer is
stopped before the guard, which turns the rest off, is dropped. `WakeInv`: past the first look at the
transfer its end wakes the task, past the registering of the waker the handler does. `CountInv`: what
comes after the count was taken only adds to the buffer.

`MailboxProofs`: `TypeCorrect`, `WordsInOrder`, `HeldTasksAreTold`, for any FIFO depth and any calls.
*Argument.* `LinkInOrder` says what each register holds in terms of the counts of both sides; the status that a
method tests is what keeps it. `WakeupInv` follows a wait whose waker was in the slot when it began:
the interrupt is enabled, or the task is scheduled and its event is there, which only its own side
uses up. A first wait has no such theorem: finding 3.

`GpioProofs`: for `GpioInput` `TypeCorrect`, `WakeupsKept` (under `LineOfOneTask`: the pins of one line
number are awaited by one task, since all ports share the waker of a line) and `NothingLeftEnabled`.
For `GpioPins` `PinsFollow`, for any number of pins, if `PinReadsBack` is false. *Argument.* A future that
has registered and not been overtaken holds the waker of its line, so a handler that disables its
interrupt schedules its pin. `PinOk` relates a driver, what is left of its constructor, and the
registers of its pin: at each place of each constructor it says which of them already agree.

`I2cProofs`: `TypeCorrect` (with `Checked`: past the length check an operation fits the counter),
`BytesFresh`, `BusIsReleased` and `TransactionsAreFramed`, for any operations, FIFO depth
and transfer length. *Argument.* `FreshInv`: from `CLEAR_FIFO` on the FIFO holds no old
byte, and in a blocking call that began quietly the controller is idle or runs a transaction
of this call, so what it receives is new. `ReleasedInv`: a transaction with a STOP holds the bus no
longer than until that STOP, and the phases of the last operation have one. `FramesInv` names the
operation that CTRL was written for (`Phased`) and the one whose direction is on the wire (`Addressed`), which differ
while a START waits, and says that the frame of the one and the direction of the other are right.

`SpiProofs`: `SpiCorrect` (the inductive invariant), `OwnWordsReceived`, `SentWhenOk`, for any words,
FIFO depth and counter. *Argument.* `Receiving` gives the contents of the receive FIFO by the index of
the method, `Sending` those of the transmit FIFO and the words on the wire by what was pushed; both are
lost when a future is dropped, and come back because `configure_transfer` resets the FIFOs.

`TimeProofs`: `AlarmAgreed` (caller and driver agree) and `NeverFiresEarly` (the comparator is
never before the deadline, for every counter width, period and deadline that
`InRangeAssumption` admits). *Argument.* While an alarm is armed and no `set_alarm` is under way,
the comparator is that of the timestamp; the rest is arithmetic on ticks.

`SystemProofs`, on the specification of one driver each:

| Theorem | Hypotheses | Argument |
|---|---|---|
| `ClocksAreHonest` | | `ClkInv`: CLOCKS lags behind the registers only for the PLL outputs while the PLL is set up, for cores and buses until their nodes are |
| `HalvesShareTheClock` | | `HalvesInv`: `tx_rx_refcount` is the number of halves, and only the UART links its clock |
| `UartIsAsConfigured` | | `SetupInv`; `FrameFits`: what the line control register makes of a frame; `SearchFits`: what `calculate_baudrate` accepts leaves less than 1/25 of the clock and one cycle in a bit |
| `ConvertersAsAsked` | | `AdcInv`: while `calibrate` borrows the divider, the saved one is the one asked for; `DacInv`: register and shadow agree |
| `BuffersAreHeld` | `HalvesTogether` | `UsbInv`: what an endpoint without a dropped call is primed with belongs to its future, but for the empty packet of the status stage |
| `OwnPacketMoved` | `HalvesTogether` | `FlagInv`: a completion flag without a future exists only for the status stage, which the next SETUP clears, and where a call was dropped |
| `FlashIsHonest` | `FlashOffsets` are multiples of `FlashLine` | `FlashInv`: sectors behind the erase are erased, and nothing has been seen through a stale line |
| `SdramIsRefreshed` | | `SdramInv`: an answer is to the command before it unless one timed out; `IntervalHeld`: the arithmetic of the fields |
| `MomentsAreWhole` | | `RtcInv`: both latches hold one moment of the call; an alarm that is being written is disabled |
| `BusIsUsable` | `KernelInRange` | `BusInv`: clocks sent and clocks the slave still needs stay within nine; then arithmetic on periods |

`SystemObeys` shows that `SysSpec` of `MCSystem`, where drivers share the clocks, is a behaviour of each of these
specifications, so that `SystemIsSafe` (eight properties) and `SystemIsSafeAsUsed` (four, under the hypotheses of
the table) hold of the composed system, for every value of its constants.

The hypotheses are needed: TLC finds each of the properties violated on an instance that breaks its hypothesis.
`PinReadsBack` is a fact of the hardware that the sources do not settle. `HalvesTogether`, that a request enables or
disables both halves of an endpoint, is needed since closing one half disables the other unflushed. `FlashOffsets` is what the doc of the
driver asks for. `KernelInRange` is 20 MHz to 10 GHz: the
constructors select the oscillator of 24 MHz (`src/i2c/mod.rs:209`). At 15.5 MHz the rounding costs Fast mode
more than its low period spares; between there and 20 MHz, where the spike filter has no cycle, the property
holds but the argument does not cover it. Beyond 10 GHz the unit of the computation, 100 ps, is too coarse.

Only model-checked are the nine liveness properties, since the provers have no liveness under fairness:
`AwaitedTransferResolves`, `DropTerminates`, `PendingEnds`, `WaitEnds`, `LevelWaitEnds`, `AcceptedFires`,
`BlockingEnds`, `SpiReturns` and `AskedIsServed`. Nothing is proved by induction over data: sums of descriptors and repeated
steps of the erase loop are either over sequences of one element or follow the loop's own variables.

## Not modelled

PROJECT.json lists every component with its status. Left out: `dma/util.rs`, `word.rs`, `dmamux.rs`
(types and the write of one register), blocking UART reads beyond the flags they test, the SPI clock
divider, DAC frequency, SDRAM timings other than the refresh, interrupt priorities, USB suspend and
queue head layout (data), unit types, chip patches, the tables of the build script, ROM calls
(external) and the examples: each is a single write, data or an application, with no order or
sharing that a property could be about. Data contents, the timing of single bits and electrical
set-up are abstracted everywhere. Drivers are not composed with `DmaChannels`: they use of a transfer
what `TransferPromise` says, which `DmaChannels` is shown to implement.

## Plan

Every part that has state and order is modelled and every safety property that a passing run checks is proved. What is left:

1. Compose more drivers with what they use: UART, SPI and I2C with `TransferPromise` in place of their
   copy of what a transfer does.
2. State the lemmas that several proof modules repeat (typing of records field by field, steps that leave
   a part alone) once.
3. Weaken hypotheses: kernel clocks from 15.6 MHz for `BusIsUsable`; dropped USB calls
   and buffers beyond `Proper` once the driver handles them.
