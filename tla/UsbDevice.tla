------------------------------ MODULE UsbDevice ------------------------------
(***************************************************************************)
(* The USB device (src/src/usb/): the driver and its bus, the futures of    *)
(* the endpoints, the control pipe and the interrupt handler, against a     *)
(* host that may reset the bus, send SETUP or move a packet at any time.    *)
(* The tasks share one executor: what runs between two awaits is one step,  *)
(* and a future may be polled, or dropped at its await, at any time.        *)
(***************************************************************************)
EXTENDS ClockTree, Sequences, FiniteSets

CONSTANTS
  UsbEndpoints, \* endpoints the application allocated: number, direction
  UsbBuffers,   \* the buffers of each endpoint's calls: length, and whether 4K aligned
  UsbPacket,    \* their max_packet_size
  UsbGroups,    \* sets of them that a request enables or disables together
  UsbDrops,     \* bound on the endpoints with a dropped call at a time
  UsbHost       \* bound on the number of events of the host

ASSUME UsbAssumption ==
  /\ UsbEndpoints \subseteq (1 .. 15) \X {"in", "out"} /\ UsbPacket \in Nat
  /\ UsbBuffers \in [UsbEndpoints -> SUBSET [len : Nat, aligned : BOOLEAN]]

VARIABLES
  usb_bus,      \* "none", "new", "off" after start, "on" after Bus::enable
  usb_alloc,    \* the endpoints that are used
  usb_ctrl,     \* ENDPTCTRL, each half
  usb_prime,    \* the descriptors an endpoint is primed with
  usb_done,     \* ENDPTCOMPLETE
  usb_setup,    \* ENDPTSETUPSTAT
  usb_sts,      \* USBSTS
  usb_intr,     \* USBINTR
  usb_isr,      \* the status the handler has read, or {"idle"}
  usb_reset,    \* IRQ_RESET
  usb_fut,      \* the future of each endpoint
  usb_ctl,      \* what the control task awaits or does
  usb_left,     \* history: endpoints a call was dropped on since they were last reset
  usb_host      \* events of the host so far

usbVars == <<usb_bus, usb_alloc, usb_ctrl, usb_prime, usb_done, usb_setup, usb_sts, usb_intr, usb_isr, usb_reset,
             usb_fut, usb_ctl, usb_left, usb_host>>

In0 == <<0, "in">>
Out0 == <<0, "out">>
Endpoints == UsbEndpoints \cup {In0, Out0}

(***************************************************************************)
(* Descriptors.                                                             *)
(***************************************************************************)
\* The most a descriptor carries, the width of its byte count, their number, and
\* the page that its buffer pointers are in units of.
Chunk == 16384
TokenBytes == 32768
ListLength == 8
Page == 4096

Empty == [len |-> 0, aligned |-> TRUE]

\* Mutant of Chain: the list is ended where one page is enough.
Chain_EndsLate(buf) ==
  LET n == IF buf.len = 0 THEN 1 ELSE (buf.len + Chunk - 1) \div Chunk
      given(i) == IF i < n THEN Chunk ELSE buf.len
      filled(i) == given(i) <= Page \/ buf.aligned
  IN [i \in 1 .. n |-> [bytes |-> given(i) % TokenBytes, filled |-> filled(i),
                         last |-> filled(i) /\ given(i) < Page]]

\* Endpoint::transfer and Qtd::reinit_with: every descriptor but the last is
\* given a chunk, and the last the length of the whole buffer.  One that is
\* given more than a page of a buffer that is not aligned is left without its
\* buffer pointers and without the end of the list, and is primed all the same;
\* else it ends the list if it is given less than a chunk.
Chain(buf) ==
  LET n == IF buf.len = 0 THEN 1 ELSE (buf.len + Chunk - 1) \div Chunk
      given(i) == IF i < n THEN Chunk ELSE buf.len
      filled(i) == given(i) <= Page \/ buf.aligned
  IN [i \in 1 .. n |-> [bytes |-> given(i) % TokenBytes, filled |-> filled(i),
                         last |-> filled(i) /\ given(i) < Chunk]]

BytesOf(chain) ==
  LET sum[n \in 0 .. Len(chain)] == IF n = 0 THEN 0 ELSE sum[n - 1] + chain[n].bytes
  IN sum[Len(chain)]

(***************************************************************************)
(* Futures.                                                                 *)
(***************************************************************************)
NoFuture == [pc |-> "idle", buf |-> Empty, moved |-> FALSE]

UsbInit ==
  /\ usb_bus = "none" /\ usb_alloc = {}
  /\ usb_ctrl = [e \in Endpoints |-> [en |-> FALSE, stall |-> FALSE]]
  /\ usb_prime = [e \in Endpoints |-> <<>>]
  /\ usb_done = {} /\ usb_setup = FALSE
  /\ usb_sts = {} /\ usb_intr = {} /\ usb_isr = {"idle"}
  /\ usb_reset = FALSE
  /\ usb_fut = [e \in Endpoints |-> NoFuture]
  /\ usb_ctl = "idle" /\ usb_left = {}
  /\ usb_host = 0

(***************************************************************************)
(* UsbDriver.                                                               *)
(***************************************************************************)
usbRest == <<usb_ctrl, usb_prime, usb_done, usb_setup, usb_sts, usb_intr, usb_isr, usb_reset,
             usb_fut, usb_ctl, usb_left, usb_host>>

UsbNew ==
  /\ usb_bus = "none" /\ clk_pc = "up"
  /\ usb_bus' = "new"
  /\ ClkOn("USB0")
  /\ UNCHANGED <<usb_alloc, usbRest>>

EndpointCount == 16

\* find_free_endpoint: the first that is not used, number 0 for control only.
FindFree(type, dir) ==
  LET free == {n \in 0 .. EndpointCount - 1 : <<n, dir>> \notin usb_alloc /\ (n = 0 => type = "control")}
  IN CHOOSE n \in free : \A k \in free : n <= k

\* alloc_endpoint_in and alloc_endpoint_out; the application allocates its
\* endpoints in any order.
AllocEndpoint(dir) ==
  /\ usb_bus = "new" /\ <<FindFree("bulk", dir), dir>> \in UsbEndpoints
  /\ usb_alloc' = usb_alloc \cup {<<FindFree("bulk", dir), dir>>}
  /\ UNCHANGED <<usb_bus, usbRest>> /\ UNCHANGED clkVars

\* start asserts that both halves of endpoint 0 are free.
UsbStart ==
  /\ usb_bus = "new" /\ UsbEndpoints \subseteq usb_alloc
  /\ FindFree("control", "out") = 0 /\ FindFree("control", "in") = 0
  /\ usb_alloc' = usb_alloc \cup {In0, Out0}
  /\ usb_bus' = "off"
  /\ UNCHANGED usbRest /\ UNCHANGED clkVars

\* transfer waits for the SETUP flag of endpoint 0 to go, in a loop that only
\* setup or a bus reset ends.
MayTransfer(e, buf) == (e[1] = 0 => ~usb_setup) /\ (buf.len + Chunk - 1) \div Chunk <= ListLength

\* An endpoint that is primed already, by a call that was dropped, goes on with
\* what it has or takes the new list.
Transfer(e, buf) ==
  /\ MayTransfer(e, buf)
  /\ \/ usb_prime' = [usb_prime EXCEPT ![e] = Chain(buf)]
     \/ usb_prime[e] # <<>> /\ UNCHANGED usb_prime

\* Mutant of ClearFlag: the flag stays.
ClearFlag_Not(e) == usb_done

\* ENDPTCOMPLETE is cleared by writing ones, and modify writes back what it
\* read, but for the field of its direction: the completions of the other
\* direction are lost.
ClearFlag(e) == {d \in usb_done : d[2] = e[2] /\ d # e}

Begin(e, buf) ==
  /\ usb_fut[e].pc = "idle"
  /\ Transfer(e, buf)
  /\ usb_fut' = [usb_fut EXCEPT ![e] = [pc |-> "wait", buf |-> buf, moved |-> FALSE]]

\* EndpointOut::read and EndpointIn::write.
ReadOrWrite(e, buf) ==
  /\ e \in UsbEndpoints /\ usb_ctrl[e].en
  /\ Begin(e, buf)
  /\ UNCHANGED <<usb_bus, usb_alloc, usb_ctrl, usb_done, usb_setup, usb_sts, usb_intr, usb_isr, usb_reset, usb_ctl, usb_left, usb_host>>
  /\ UNCHANGED clkVars

UsbReturn(e) == usb_fut' = [usb_fut EXCEPT ![e] = NoFuture]

\* A write of a full packet goes on with an empty one.
Completed(e) ==
  /\ e \in usb_done
  /\ usb_done' = ClearFlag(e)
  /\ IF e[2] = "in" /\ usb_fut[e].pc = "wait" /\ usb_fut[e].buf.len = UsbPacket /\ e[1] # 0
     THEN /\ Transfer(e, Empty)
          /\ usb_fut' = [usb_fut EXCEPT ![e].pc = "zlt", ![e].moved = FALSE]
     ELSE UsbReturn(e) /\ UNCHANGED usb_prime

\* The first wait ends also when the endpoint is disabled, with Ok.
Disabled(e) ==
  /\ e \notin usb_done /\ e[1] # 0 /\ usb_fut[e].pc = "wait" /\ ~usb_ctrl[e].en
  /\ UsbReturn(e)
  /\ UNCHANGED <<usb_prime, usb_done>>

PollFuture(e) ==
  /\ usb_fut[e].pc \in {"wait", "zlt"}
  /\ Completed(e) \/ Disabled(e)
  /\ UNCHANGED <<usb_bus, usb_alloc, usb_ctrl, usb_setup, usb_sts, usb_intr, usb_isr, usb_reset, usb_ctl, usb_left, usb_host>>
  /\ UNCHANGED clkVars

\* A future that is dropped at its await, with the control task's for endpoint
\* 0: there is no Drop, so the endpoint stays primed, or its flag set.
DropCall(e) ==
  /\ usb_fut[e].pc # "idle" /\ Cardinality(usb_left) < UsbDrops
  /\ UsbReturn(e)
  /\ usb_left' = usb_left \cup {e}
  /\ usb_ctl' = IF e[1] = 0 THEN "idle" ELSE usb_ctl
  /\ UNCHANGED <<usb_bus, usb_alloc, usb_ctrl, usb_prime, usb_done, usb_setup, usb_sts, usb_intr, usb_isr, usb_reset,
                 usb_host>> /\ UNCHANGED clkVars

(***************************************************************************)
(* Control pipe.                                                            *)
(***************************************************************************)
\* USBSTS is cleared by writing ones, and modify writes back what it read: a
\* reset that is pending is lost with the transfer interrupt.
ClearStatus == usb_sts' = {} /\ usb_intr' = usb_intr \cup {"ui"}

\* setup, up to its await.
SetupCall ==
  /\ usb_ctl = "idle" /\ usb_bus = "on"
  /\ ClearStatus
  /\ usb_ctl' = "setup"
  /\ UNCHANGED <<usb_bus, usb_alloc, usb_ctrl, usb_prime, usb_done, usb_setup, usb_isr, usb_reset, usb_fut, usb_left, usb_host>>
  /\ UNCHANGED clkVars

SetupPoll ==
  /\ usb_ctl = "setup" /\ usb_setup
  /\ usb_setup' = FALSE
  /\ usb_done' = ClearFlag(Out0)
  /\ ClearStatus
  /\ usb_ctl' = "request"
  /\ usb_left' = usb_left \ {In0, Out0}
  /\ UNCHANGED <<usb_bus, usb_alloc, usb_ctrl, usb_prime, usb_isr, usb_reset, usb_fut, usb_host>> /\ UNCHANGED clkVars

\* The device task waits for SETUP and for the bus at once, and drops one.
DropSetup ==
  /\ usb_ctl = "setup"
  /\ usb_ctl' = "idle"
  /\ UNCHANGED <<usb_bus, usb_alloc, usb_ctrl, usb_prime, usb_done, usb_setup, usb_sts, usb_intr, usb_isr, usb_reset,
                 usb_fut, usb_left, usb_host>> /\ UNCHANGED clkVars

\* The control pipe is given a packet at a time, of at most 64 bytes.
ControlBuffers == {Empty, [len |-> 64, aligned |-> FALSE]}

\* data_out, data_in, accept and accept_set_address, up to their await.
ControlData(e, buf) ==
  /\ usb_ctl = "request"
  /\ Begin(e, buf)
  /\ usb_ctl' \in (IF e = Out0 THEN {"data_out"} ELSE {"data_in", "last", "accept"})
  /\ usb_ctl' = "accept" => buf = Empty
  /\ UNCHANGED <<usb_bus, usb_alloc, usb_ctrl, usb_done, usb_setup, usb_sts, usb_intr, usb_isr, usb_reset, usb_left, usb_host>>
  /\ UNCHANGED clkVars

\* The last data_in primes the status stage; reject stalls both halves.
ControlNext ==
  /\ \/ /\ usb_ctl \in {"data_out", "data_in", "accept"}
        /\ usb_fut[In0].pc = "idle" /\ usb_fut[Out0].pc = "idle"
        /\ usb_ctl' = (IF usb_ctl = "accept" THEN "idle" ELSE "request")
        /\ UNCHANGED <<usb_ctrl, usb_prime>>
     \/ /\ usb_ctl = "last" /\ usb_fut[In0].pc = "idle"
        /\ Transfer(Out0, Empty)
        /\ usb_ctl' = "idle"
        /\ UNCHANGED usb_ctrl
     \/ /\ usb_ctl = "request"
        /\ usb_ctrl' = [usb_ctrl EXCEPT ![In0].stall = TRUE, ![Out0].stall = TRUE]
        /\ usb_ctl' = "idle"
        /\ UNCHANGED usb_prime
  /\ UNCHANGED <<usb_bus, usb_alloc, usb_done, usb_setup, usb_sts, usb_intr, usb_isr, usb_reset, usb_fut, usb_left, usb_host>>
  /\ UNCHANGED clkVars

(***************************************************************************)
(* Bus.                                                                     *)
(***************************************************************************)
\* The port change interrupt turns itself off, and errors wake nobody: both are
\* left out.
AllInterrupts == {"ui", "uri"}

\* PHY and controller are reset, then the interrupts are on.
Enable ==
  /\ usb_bus = "off"
  /\ usb_bus' = "on"
  /\ usb_sts' = {} /\ usb_intr' = AllInterrupts
  /\ UNCHANGED clkVars
  /\ UNCHANGED <<usb_alloc, usb_ctrl, usb_prime, usb_done, usb_setup, usb_isr, usb_reset, usb_fut, usb_ctl, usb_left, usb_host>>

\* device_deinit: the controller is stopped and reset.
Stopped ==
  /\ usb_ctrl' = [e \in Endpoints |-> [en |-> FALSE, stall |-> FALSE]]
  /\ usb_prime' = [e \in Endpoints |-> <<>>]
  /\ usb_done' = {} /\ usb_setup' = FALSE /\ usb_sts' = {} /\ usb_intr' = {}
  /\ usb_left' = {}

Disable ==
  /\ usb_bus = "on"
  /\ usb_bus' = "off"
  /\ Stopped
  /\ UNCHANGED <<usb_alloc, usb_isr, usb_reset, usb_fut, usb_ctl, usb_host>> /\ UNCHANGED clkVars

CtrlHalf(open, ctrl) == [ctrl EXCEPT !.en = open]

\* endpoint_open leaves the stall flag; endpoint_close writes the register as a
\* whole, which disables the other half, too.
Opened(eps) == [e \in Endpoints |-> IF e \in eps THEN CtrlHalf(TRUE, usb_ctrl[e]) ELSE usb_ctrl[e]]
Closed(eps) == [e \in Endpoints |-> IF \E c \in eps : c[1] = e[1]
                                    THEN [en |-> FALSE, stall |-> FALSE] ELSE usb_ctrl[e]]

\* Mutant of Flushed: only the flag of endpoint 0 is waited for.
Flushed_Endpoint0(eps) == [e \in Endpoints |-> IF e \in eps /\ e[1] = 0 THEN <<>> ELSE usb_prime[e]]

\* The flush is repeated until the endpoint is not primed any more.
Flushed(eps) == [e \in Endpoints |-> IF e \in eps THEN <<>> ELSE usb_prime[e]]

\* endpoint_set_enabled for the endpoints of a configuration or an interface.
SetEnabled(eps, enabled) ==
  /\ usb_bus = "on"
  /\ IF enabled THEN usb_ctrl' = Opened(eps) /\ UNCHANGED usb_prime
     ELSE usb_ctrl' = Closed(eps) /\ usb_prime' = Flushed(eps)
  /\ UNCHANGED <<usb_bus, usb_alloc, usb_done, usb_setup, usb_sts, usb_intr, usb_isr, usb_reset, usb_fut, usb_ctl, usb_left, usb_host>>
  /\ UNCHANGED clkVars

SetStalled(e, stalled) ==
  /\ usb_bus = "on"
  /\ usb_ctrl' = [usb_ctrl EXCEPT ![e].stall = stalled]
  /\ UNCHANGED <<usb_bus, usb_alloc, usb_prime, usb_done, usb_setup, usb_sts, usb_intr, usb_isr, usb_reset,
                 usb_fut, usb_ctl, usb_left, usb_host>> /\ UNCHANGED clkVars

\* device_bus_reset clears every flag and flushes every endpoint once more.
BusReset ==
  /\ usb_prime' = [e \in Endpoints |-> <<>>]
  /\ usb_done' = {} /\ usb_setup' = FALSE /\ usb_sts' = {}
  /\ usb_left' = {}

\* Bus::poll after a reset: endpoints closed, address 0, endpoint 0 open, then
\* the bus reset.  The transfer interrupt is enabled, the reset interrupt is not.
PollReset ==
  /\ usb_bus = "on" /\ usb_reset
  /\ usb_reset' = FALSE
  /\ usb_ctrl' = [e \in Endpoints |-> IF e[1] = 0 THEN CtrlHalf(TRUE, usb_ctrl[e])
                                      ELSE [en |-> FALSE, stall |-> FALSE]]
  /\ BusReset
  /\ usb_intr' = (usb_intr \cup {"ui"}) \ {"uri"}
  /\ UNCHANGED <<usb_bus, usb_alloc, usb_isr, usb_fut, usb_ctl, usb_host>> /\ UNCHANGED clkVars

(***************************************************************************)
(* Interrupt handler: it reads the status, then clears whatever is set by   *)
(* then.                                                                    *)
(***************************************************************************)
HandlerReads ==
  /\ usb_isr = {"idle"} /\ usb_sts \cap usb_intr # {}
  /\ usb_isr' = usb_sts \cap usb_intr
  /\ UNCHANGED <<usb_bus, usb_alloc, usb_ctrl, usb_prime, usb_done, usb_setup, usb_sts, usb_intr, usb_reset,
                 usb_fut, usb_ctl, usb_left, usb_host>> /\ UNCHANGED clkVars

\* Wakes are not modelled: any future may be polled.
HandlerClears ==
  /\ usb_isr # {"idle"}
  /\ usb_sts' = {}
  /\ usb_reset' = (usb_reset \/ "uri" \in usb_isr)
  /\ usb_intr' = usb_intr \ (usb_isr \cap {"uri"})
  /\ usb_isr' = {"idle"}
  /\ UNCHANGED <<usb_bus, usb_alloc, usb_ctrl, usb_prime, usb_done, usb_setup, usb_fut, usb_ctl, usb_left, usb_host>>
  /\ UNCHANGED clkVars

(***************************************************************************)
(* Host and controller.                                                     *)
(***************************************************************************)
HostEvent == usb_host < UsbHost /\ usb_host' = usb_host + 1

\* A reset of the bus.
HostReset ==
  /\ HostEvent
  /\ usb_bus = "on"
  /\ usb_sts' = usb_sts \cup {"uri"}
  /\ UNCHANGED <<usb_bus, usb_alloc, usb_ctrl, usb_prime, usb_done, usb_setup, usb_intr, usb_isr, usb_reset,
                 usb_fut, usb_ctl, usb_left>> /\ UNCHANGED clkVars

\* SETUP ends whatever endpoint 0 was primed or stalled for.
HostSetup ==
  /\ HostEvent
  /\ usb_bus = "on" /\ usb_ctrl[Out0].en
  /\ usb_setup' = TRUE
  /\ usb_prime' = [usb_prime EXCEPT ![In0] = <<>>, ![Out0] = <<>>]
  /\ usb_ctrl' = [usb_ctrl EXCEPT ![In0].stall = FALSE, ![Out0].stall = FALSE]
  /\ usb_sts' = usb_sts \cup {"ui"}
  /\ UNCHANGED <<usb_bus, usb_alloc, usb_done, usb_intr, usb_isr, usb_reset, usb_fut, usb_ctl, usb_left>>
  /\ UNCHANGED clkVars

\* A packet moves and the descriptors are through.
HostMoves(e) ==
  /\ HostEvent
  /\ usb_prime[e] # <<>> /\ usb_ctrl[e].en /\ ~usb_ctrl[e].stall
  /\ usb_prime' = [usb_prime EXCEPT ![e] = <<>>]
  /\ usb_done' = usb_done \cup {e}
  /\ usb_fut' = [usb_fut EXCEPT ![e].moved = usb_fut[e].pc # "idle"]
  /\ usb_sts' = usb_sts \cup {"ui"}
  /\ UNCHANGED <<usb_bus, usb_alloc, usb_ctrl, usb_setup, usb_intr, usb_isr, usb_reset, usb_ctl, usb_left>>
  /\ UNCHANGED clkVars

UsbNext ==
  \/ UsbNew
  \/ \E dir \in {"in", "out"} : AllocEndpoint(dir)
  \/ UsbStart
  \/ \E e \in UsbEndpoints : \E buf \in UsbBuffers[e] : ReadOrWrite(e, buf)
  \/ \E e \in Endpoints : PollFuture(e) \/ DropCall(e)
  \/ SetupCall
  \/ SetupPoll
  \/ DropSetup
  \/ \E e \in {In0, Out0}, buf \in ControlBuffers : ControlData(e, buf)
  \/ ControlNext
  \/ Enable
  \/ Disable
  \/ \E eps \in UsbGroups, enabled \in BOOLEAN : SetEnabled(eps, enabled)
  \/ \E e \in UsbEndpoints, stalled \in BOOLEAN : SetStalled(e, stalled)
  \/ PollReset
  \/ HandlerReads
  \/ HandlerClears
  \/ HostReset
  \/ HostSetup
  \/ \E e \in Endpoints : HostMoves(e)

\* The driver, beside whatever else uses the clocks.
UsbSpec == UsbInit /\ [][UsbNext]_usbVars

(***************************************************************************)
(* Properties.                                                              *)
(***************************************************************************)
\* The completion flags outlive the transfer they belong to and share one
\* register with those of every endpoint (Endpoint::read and write, ControlPipe):
\* a call that returns because of its flag moved its own packet, never on the
\* flag of an earlier call that returned, a status stage or a bus reset, nor, on
\* endpoint 0, of one that was dropped before SETUP.  On another endpoint a
\* dropped call leaves its flag to the next, so none is claimed from then until
\* a reset.
UsbOwnCompletion ==
  [][\A e \in Endpoints \ usb_left :
       e \in usb_done /\ usb_fut[e].pc # "idle" /\ usb_fut'[e].pc # usb_fut[e].pc => usb_fut[e].moved]_usb_fut

\* What reinit_with asks of a buffer ("if the data length is larger than 4K, we
\* require the data address to be 4K bytes aligned"), and one descriptor carries.
Proper(buf) == buf.len < Chunk /\ (buf.len > Page => buf.aligned)

\* The controller reads and writes the caller's buffer for as long as the
\* endpoint is primed.  While it is primed with bytes, the future that borrows
\* the buffer has not returned, and the descriptors of a proper buffer point to
\* it, cover it and no more, and end.  A bus reset, a new configuration or SETUP
\* that takes the endpoint away unprimes it first (endpoint_close,
\* device_bus_reset).  A future that is dropped at its await leaves its buffer to
\* the controller, so nothing is claimed of the endpoint from then until a reset
\* or, for endpoint 0, SETUP.
UsbBufferHeld == \A e \in Endpoints \ usb_left : BytesOf(usb_prime[e]) > 0 =>
  /\ usb_fut[e].pc = "wait"
  /\ Proper(usb_fut[e].buf) =>
       /\ BytesOf(usb_prime[e]) = usb_fut[e].buf.len
       /\ \A i \in DOMAIN usb_prime[e] : usb_prime[e][i].filled
       /\ usb_prime[e][Len(usb_prime[e])].last

\* "Disable USB reset interrupt while processing RESET event" (on_interrupt):
\* when no reset is being processed, the interrupt is enabled, so that the next
\* one is seen.
UsbResetHeard == usb_bus = "on" /\ ~usb_reset /\ usb_isr = {"idle"} => "uri" \in usb_intr
============================================================================
