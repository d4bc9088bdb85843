------------------------------ MODULE Mailbox ------------------------------
(***************************************************************************)
(* A mailbox of hpm-hal (src/mbx.rs): two sides, each with an Mbx driver,   *)
(* that exchange words and, through a FIFO, streams of words.               *)
(*                                                                          *)
(* What one side transmits the other receives, so everything in flight is   *)
(* indexed by the side that sent it.  A message is its number in the order  *)
(* of sending.  The two sides may run on two cores or in two tasks: any two *)
(* steps of theirs interleave.  On one side the interrupt handler runs      *)
(* between two steps of the driver, and as one step.                        *)
(***************************************************************************)
EXTENDS Naturals, Sequences

CONSTANTS
  Sides,        \* the two sides of the mailbox, MBXnA and MBXnB
  FifoDepth,    \* words a transmit FIFO holds
  MaxSent,      \* messages sent per side and channel in a behaviour
  Uses          \* per side: the methods that the user calls

AsyncOps == {"send", "recv", "send_fifo", "recv_fifo", "next"}

ASSUME ConstantsAssumption ==
  /\ FifoDepth \in Nat \ {0}
  /\ MaxSent \in Nat
  /\ \A s \in Sides : \E t \in Sides : t # s /\ Sides = {s, t}
  /\ \A s \in Sides : Uses[s] \subseteq AsyncOps \cup {"nb_send", "nb_recv", "reopen"}

VARIABLES
  txreg,        \* per side: the word it has sent and the other not read, or 0
  txfifo,       \* per side: the words in its transmit FIFO
  sent,         \* per side and channel: messages sent so far
  received,     \* per side and channel: the last message of it received
  cr,           \* per side: interrupts enabled in CR
  cr_read,      \* per side: CR as a modify of the driver read it
  pc,           \* per side: where the driver is
  op,           \* per side: the method under way
  waker,        \* per side: whose waker the two State slots hold, seen from
                \* the task that runs the method
  woken,        \* sides whose task is scheduled
  held          \* sides whose task's waker was held when the method began

linkVars == <<txreg, txfifo, sent, received>>
vars == <<linkVars, cr, cr_read, pc, op, waker, woken, held>>

Events == {"twme", "tfma", "rwmv", "rfma"}
Channels == {"word", "fifo"}
Slots == {"send_waker", "recv_waker"}

\* The status bit a method waits for and the waker slot it registers in.
Event(o) == CASE o \in {"send", "nb_send"} -> "twme"
              [] o \in {"recv", "nb_recv"} -> "rwmv"
              [] o = "send_fifo"           -> "tfma"
              [] o \in {"recv_fifo", "next"} -> "rfma"

Slot(e) == IF e \in {"twme", "tfma"} THEN "send_waker" ELSE "recv_waker"

Labels == {"idle", "try", "enableRead", "enableWrite", "check", "register", "pending"}

TypeOK ==
  /\ txreg \in [Sides -> 0 .. MaxSent]
  /\ txfifo \in [Sides -> Seq(1 .. MaxSent)]
  /\ \A s \in Sides : Len(txfifo[s]) <= FifoDepth
  /\ sent \in [Sides -> [Channels -> 0 .. MaxSent]]
  /\ received \in [Sides -> [Channels -> 0 .. MaxSent]]
  /\ cr \in [Sides -> SUBSET Events]
  /\ cr_read \in [Sides -> SUBSET Events]
  /\ pc \in [Sides -> Labels]
  /\ op \in [Sides -> AsyncOps]
  /\ \A s \in Sides : /\ pc[s] = "check" => op[s] # "next"
                      /\ pc[s] = "try" => op[s] \notin {"send", "recv"}
  /\ waker \in [Sides -> [Slots -> {"none", "mine", "other"}]]
  /\ woken \subseteq Sides
  /\ held \subseteq Sides

\* Mbx::new on both sides.
Init ==
  /\ txreg = [s \in Sides |-> 0]
  /\ txfifo = [s \in Sides |-> <<>>]
  /\ sent = [s \in Sides |-> [c \in Channels |-> 0]]
  /\ received = [s \in Sides |-> [c \in Channels |-> 0]]
  /\ cr = [s \in Sides |-> {}]
  /\ cr_read = [s \in Sides |-> {}]
  /\ pc = [s \in Sides |-> "idle"]
  /\ op = [s \in Sides |-> "recv"]
  /\ waker = [s \in Sides |-> [w \in Slots |-> "none"]]
  /\ woken = {}
  /\ held = {}

(***************************************************************************)
(* The link.                                                                *)
(***************************************************************************)
Other(s) == CHOOSE t \in Sides : t # s

\* The status register of side s.
Status(s) ==
  {e \in Events : \/ e = "twme" /\ txreg[s] = 0
                  \/ e = "tfma" /\ Len(txfifo[s]) < FifoDepth
                  \/ e = "rwmv" /\ txreg[Other(s)] # 0
                  \/ e = "rfma" /\ txfifo[Other(s)] # <<>>}

PutWord(s) ==
  /\ sent[s]["word"] < MaxSent
  /\ sent' = [sent EXCEPT ![s]["word"] = @ + 1]
  /\ txreg' = [txreg EXCEPT ![s] = sent[s]["word"] + 1]
  /\ UNCHANGED <<txfifo, received>>

TakeWord(s) ==
  /\ received' = [received EXCEPT ![Other(s)]["word"] = txreg[Other(s)]]
  /\ txreg' = [txreg EXCEPT ![Other(s)] = 0]
  /\ UNCHANGED <<txfifo, sent>>

\* A word written to a full FIFO is lost.
PutFifo(s) ==
  /\ sent[s]["fifo"] < MaxSent
  /\ sent' = [sent EXCEPT ![s]["fifo"] = @ + 1]
  /\ txfifo' = IF Len(txfifo[s]) < FifoDepth
               THEN [txfifo EXCEPT ![s] = Append(@, sent[s]["fifo"] + 1)]
               ELSE txfifo
  /\ UNCHANGED <<txreg, received>>

TakeFifo(s) ==
  /\ received' = [received EXCEPT ![Other(s)]["fifo"] = Head(txfifo[Other(s)])]
  /\ txfifo' = [txfifo EXCEPT ![Other(s)] = Tail(@)]
  /\ UNCHANGED <<txreg, sent>>

\* What the method does once its status bit is set.
Transfer(s, e) == \/ e = "twme" /\ PutWord(s)
                  \/ e = "rwmv" /\ TakeWord(s)
                  \/ e = "tfma" /\ PutFifo(s)
                  \/ e = "rfma" /\ TakeFifo(s)

(***************************************************************************)
(* The driver.                                                              *)
(***************************************************************************)
Goto(s, label) == pc' = [pc EXCEPT ![s] = label]

\* A method is called.  send and recv enable the interrupt first, the others
\* look at the status first.  The task need not be the one that called last.
Call(s, o) ==
  /\ pc[s] = "idle" /\ o \in Uses[s] \cap AsyncOps
  /\ op' = [op EXCEPT ![s] = o]
  /\ \E w \in [Slots -> {"none", "mine", "other"}] :
       /\ \A slot \in Slots : w[slot] = "none" <=> waker[s][slot] = "none"
       /\ waker' = [waker EXCEPT ![s] = w]
       /\ held' = IF w[Slot(Event(o))] = "mine" THEN held \cup {s} ELSE held \ {s}
  /\ Goto(s, IF o \in {"send", "recv"} THEN "enableRead" ELSE "try")
  /\ UNCHANGED <<linkVars, cr, cr_read, woken>>

\* The method ends, and the state of its call with it.  Its waker stays in the
\* slots: whether the next task is the same one is seen when it calls.
Finish(s) ==
  /\ Goto(s, "idle")
  /\ op' = [op EXCEPT ![s] = "recv"]
  /\ waker' = [waker EXCEPT ![s] =
                 [slot \in Slots |-> IF waker[s][slot] = "none" THEN "none" ELSE "other"]]
  /\ woken' = woken \ {s}
  /\ held' = held \ {s}

\* send_fifo, recv_fifo and poll_next: the status decides whether to wait.
Try(s) ==
  /\ pc[s] = "try"
  /\ \/ /\ Event(op[s]) \in Status(s)
        /\ Transfer(s, Event(op[s]))
        /\ Finish(s)
     \/ /\ Event(op[s]) \notin Status(s)
        /\ Goto(s, "enableRead")
        /\ UNCHANGED <<linkVars, op, waker, woken, held>>
  /\ UNCHANGED <<cr, cr_read>>

\* cr.modify reads the register ...
EnableRead(s) ==
  /\ pc[s] = "enableRead"
  /\ cr_read' = [cr_read EXCEPT ![s] = cr[s]]
  /\ Goto(s, "enableWrite")
  /\ UNCHANGED <<linkVars, cr, op, waker, woken, held>>

\* Mutant of EnableWrite: poll_next enables the interrupt of the word register.
EnableWrite_WordBit(s) ==
  /\ pc[s] = "enableWrite"
  /\ cr' = [cr EXCEPT ![s] =
              cr_read[s] \cup {IF op[s] = "next" THEN "rwmv" ELSE Event(op[s])}]
  /\ cr_read' = [cr_read EXCEPT ![s] = {}]
  /\ Goto(s, IF op[s] = "next" THEN "register" ELSE "check")
  /\ UNCHANGED <<linkVars, op, waker, woken, held>>

\* ... and writes it back with one bit set: bits that the handler has cleared
\* in between come back.
EnableWrite(s) ==
  /\ pc[s] = "enableWrite"
  /\ cr' = [cr EXCEPT ![s] = cr_read[s] \cup {Event(op[s])}]
  /\ cr_read' = [cr_read EXCEPT ![s] = {}]
  /\ Goto(s, IF op[s] = "next" THEN "register" ELSE "check")
  /\ UNCHANGED <<linkVars, op, waker, woken, held>>

\* Mutant of Check: a word is sent whatever the status says.
Check_Blind(s) ==
  /\ pc[s] = "check"
  /\ \/ /\ Event(op[s]) \in Status(s) \cup {"twme", "tfma"}
        /\ Transfer(s, Event(op[s]))
        /\ Finish(s)
     \/ /\ Event(op[s]) \notin Status(s) \cup {"twme", "tfma"}
        /\ Goto(s, "register")
        /\ UNCHANGED <<linkVars, op, waker, woken, held>>
  /\ UNCHANGED <<cr, cr_read>>

\* The poll function: first the status ...
Check(s) ==
  /\ pc[s] = "check"
  /\ \/ /\ Event(op[s]) \in Status(s)
        /\ Transfer(s, Event(op[s]))
        /\ Finish(s)
     \/ /\ Event(op[s]) \notin Status(s)
        /\ Goto(s, "register")
        /\ UNCHANGED <<linkVars, op, waker, woken, held>>
  /\ UNCHANGED <<cr, cr_read>>

\* ... then the waker.
Register(s) ==
  /\ pc[s] = "register"
  /\ waker' = [waker EXCEPT ![s][Slot(Event(op[s]))] = "mine"]
  /\ Goto(s, "pending")
  /\ UNCHANGED <<linkVars, cr, cr_read, op, woken, held>>

\* A woken task polls again; poll_next starts over.
Poll(s) ==
  /\ pc[s] = "pending" /\ s \in woken
  /\ woken' = woken \ {s}
  /\ Goto(s, IF op[s] = "next" THEN "try" ELSE "check")
  /\ UNCHANGED <<linkVars, cr, cr_read, op, waker, held>>

\* The user drops the future, or no longer polls the stream.
Cancel(s) ==
  /\ pc[s] = "pending"
  /\ Finish(s)
  /\ UNCHANGED <<linkVars, cr, cr_read>>

\* nb_send and nb_recv, and the last turn of the loops of blocking_send and
\* blocking_receive.
NonBlocking(s, o) ==
  /\ pc[s] = "idle" /\ o \in Uses[s] \cap {"nb_send", "nb_recv"}
  /\ Event(o) \in Status(s)
  /\ Transfer(s, Event(o))
  /\ UNCHANGED <<cr, cr_read, pc, op, waker, woken, held>>

\* Mbx is dropped and created anew, which clears CR and resets the transmitter.
\* Only with nothing in flight: what the reset does to a word the other side
\* has not read is the hardware's business.
Reopen(s) ==
  /\ pc[s] = "idle" /\ "reopen" \in Uses[s]
  /\ txreg[s] = 0 /\ txfifo[s] = <<>>
  /\ cr' = [cr EXCEPT ![s] = {}]
  /\ UNCHANGED <<linkVars, cr_read, pc, op, waker, woken, held>>

(***************************************************************************)
(* The interrupt handler.                                                   *)
(***************************************************************************)
\* Mutant of Served: the handler looks at what is enabled only.
Served_Enabled(s) == cr[s]

\* Events that are both signalled and enabled.
Served(s) == Status(s) \cap cr[s]

\* on_interrupt disables what it serves and wakes whoever waits for it.
OnInterrupt(s) ==
  /\ Status(s) \cap cr[s] # {}
  /\ cr' = [cr EXCEPT ![s] = @ \ Served(s)]
  /\ woken' = IF \E e \in Served(s) : waker[s][Slot(e)] = "mine"
              THEN woken \cup {s} ELSE woken
  /\ UNCHANGED <<linkVars, cr_read, pc, op, waker, held>>

Step(s) == \/ Try(s) \/ EnableRead(s) \/ EnableWrite(s) \/ Check(s) \/ Register(s)

Next == \E s \in Sides :
  \/ \E o \in AsyncOps : Call(s, o)
  \/ Step(s) \/ Poll(s) \/ Cancel(s)
  \/ \E o \in {"nb_send", "nb_recv"} : NonBlocking(s, o)
  \/ Reopen(s)
  \/ OnInterrupt(s)

Safety == Init /\ [][Next]_vars

\* A method runs on to its await, woken tasks are polled, and a pending
\* interrupt is taken.  Nobody has to call, send or receive anything.
Fairness == \A s \in Sides :
  WF_vars(Step(s)) /\ WF_vars(Poll(s)) /\ WF_vars(OnInterrupt(s))

Spec == Safety /\ Fairness

(***************************************************************************)
(* Properties.                                                              *)
(***************************************************************************)

\* Words arrive once, in the order of sending, and none is overwritten before
\* it is read: what is in flight is exactly what was sent and not received,
\* with callers, cancelled calls and handlers interleaved in any way.
InOrder == \A s \in Sides :
  /\ txreg[s] = IF sent[s]["word"] = received[s]["word"] THEN 0 ELSE sent[s]["word"]
  /\ sent[s]["word"] <= received[s]["word"] + 1
  /\ txfifo[s] = [i \in 1 .. sent[s]["fifo"] - received[s]["fifo"] |-> received[s]["fifo"] + i]

Waiting(s) == pc[s] = "pending" /\ s \notin woken

\* A task that waits is told: its interrupt is enabled, whatever the handler
\* and the other method calls of this side have done to CR.  It is claimed for
\* tasks whose waker the slot held from an earlier wait; see NoLostWakeup.
WakeupKept == \A s \in held : Waiting(s) => Event(op[s]) \in cr[s]

\* Such a task gets on: once the other side has made it possible, its method
\* does not wait for ever.
WaitEnds == \A s \in Sides :
  Waiting(s) /\ s \in held /\ Event(op[s]) \in Status(s) ~> ~ Waiting(s)

\* "message word(u32): send/recv interface", "message queue(fifo):
\* send_fifo/recv_fifo/Stream interface" (lines 3 and 4): a task that awaits
\* one of them is still to be told of its event.
NoLostWakeup == \A s \in Sides : Waiting(s) => Event(op[s]) \in cr[s]
============================================================================
