----------------------------- MODULE Interrupts -----------------------------
(***************************************************************************)
(* The interrupt controller and the runtime (src/src/rt.rs,                 *)
(* src/src/internal/interrupt.rs, bind_interrupts!): the cleaning up at     *)
(* reset, the vector, the handlers and the completion.  One handler runs at *)
(* a time: no handler sets mstatus.MIE.                                     *)
(***************************************************************************)
EXTENDS Naturals

CONSTANTS
  IrqSources,   \* numbers of the sources
  IrqLast,      \* number of the last one, 127 in the code
  IrqStale,     \* sources that may be enabled or in service at reset
  IrqCalls      \* bound on the calls of the drivers

ASSUME IrqAssumption == IrqLast \in Nat /\ IrqStale \subseteq 0 .. IrqLast

VARIABLES
  irq_pc,       \* <<the next source _setup_interrupts completes>>, or <<>>
  irq_en,       \* INTEN
  irq_line,     \* devices that ask for service
  irq_pend,     \* PENDING
  irq_active,   \* sources claimed and not completed
  irq_now,      \* <<the source whose handler runs>>, or <<>>
  irq_calls,
  irq_taken     \* history: sources that a read in complete claimed

irqVars == <<irq_pc, irq_en, irq_line, irq_pend, irq_active, irq_now, irq_calls, irq_taken>>

\* A reset of the core alone leaves the controller as it is.
IrqInit ==
  /\ irq_pc = <<0>>
  /\ irq_en \in SUBSET IrqStale
  /\ irq_line = {} /\ irq_pend = {}
  /\ irq_active \in SUBSET IrqStale
  /\ irq_now = <<>>
  /\ irq_calls = 0
  /\ irq_taken = {}

Claimable == irq_pend \cap irq_en

\* What the read of the claim register in complete takes.  Reading it claims in a
\* PLIC (PlicExt::claim); whether it does in vectored mode the code does not
\* tell, so both happen.
Claims == {{}} \cup {{s} : s \in Claimable}

\* Mutant of Complete: the claim register is read and not written.
Complete_ReadOnly(id) ==
  \E claimed \in Claims :
    /\ irq_pend' = irq_pend \ claimed
    /\ irq_active' = irq_active \cup claimed
    /\ irq_taken' = irq_taken \cup claimed

\* claim().modify(|w| w.set_interrupt_id(id)): a read, then a write.
Complete(id) ==
  \E claimed \in Claims :
    /\ irq_pend' = irq_pend \ claimed
    /\ irq_active' = (irq_active \cup claimed) \ {id}
    /\ irq_taken' = (irq_taken \cup claimed) \ {id}

\* _setup_interrupts, its loop.
CompleteAll ==
  /\ irq_pc # <<>>
  /\ Complete(irq_pc[1])
  /\ irq_pc' = IF irq_pc[1] = IrqLast THEN <<>> ELSE <<irq_pc[1] + 1>>
  /\ irq_en' = IF irq_pc[1] = IrqLast THEN {} ELSE irq_en
  /\ UNCHANGED <<irq_line, irq_now, irq_calls>>

\* InterruptExt::enable and disable of a driver, not inside a handler.
IrqEnable(s, enabled) ==
  /\ irq_pc = <<>> /\ irq_now = <<>> /\ irq_calls < IrqCalls
  /\ irq_calls' = irq_calls + 1
  /\ irq_en' = IF enabled THEN irq_en \cup {s} ELSE irq_en \ {s}
  /\ UNCHANGED <<irq_pc, irq_line, irq_pend, irq_active, irq_now, irq_taken>>

\* pend and unpend.
IrqPend(s, pending) ==
  /\ irq_pc = <<>> /\ irq_now = <<>> /\ irq_calls < IrqCalls
  /\ irq_calls' = irq_calls + 1
  /\ irq_pend' = IF pending THEN irq_pend \cup {s} ELSE irq_pend \ {s}
  /\ UNCHANGED <<irq_pc, irq_en, irq_line, irq_active, irq_now, irq_taken>>

\* The vector of the source is taken.
TakeInterrupt(s) ==
  /\ irq_pc = <<>> /\ irq_now = <<>> /\ s \in Claimable
  /\ irq_now' = <<s>>
  /\ irq_active' = irq_active \cup {s} /\ irq_pend' = irq_pend \ {s}
  /\ UNCHANGED <<irq_pc, irq_en, irq_line, irq_calls, irq_taken>>

\* The function bind_interrupts! makes: the handlers, then complete.
HandleInterrupt ==
  /\ irq_now # <<>>
  /\ irq_line' = irq_line \ {irq_now[1]}
  /\ Complete(irq_now[1])
  /\ irq_now' = <<>>
  /\ UNCHANGED <<irq_pc, irq_en, irq_calls>>

\* A device asks for service.
DeviceAsks(s) ==
  /\ s \notin irq_line
  /\ irq_line' = irq_line \cup {s}
  /\ UNCHANGED <<irq_pc, irq_en, irq_pend, irq_active, irq_now, irq_calls, irq_taken>>

\* Its gateway lets the request through when the one before is completed.
Gateway(s) ==
  /\ s \in irq_line /\ s \notin irq_active /\ s \notin irq_pend
  /\ irq_pend' = irq_pend \cup {s}
  /\ UNCHANGED <<irq_pc, irq_en, irq_line, irq_active, irq_now, irq_calls, irq_taken>>

IrqNext ==
  \/ CompleteAll
  \/ \E s \in IrqSources, on \in BOOLEAN : IrqEnable(s, on) \/ IrqPend(s, on)
  \/ \E s \in IrqSources : TakeInterrupt(s) \/ DeviceAsks(s) \/ Gateway(s)
  \/ HandleInterrupt

IrqSpec == IrqInit /\ [][IrqNext]_irqVars

(***************************************************************************)
(* Property.                                                                *)
(***************************************************************************)
\* on_interrupt must be called "every time the `I` interrupt fires" (Handler): a
\* device that asks while its source is enabled does not wait for ever for a
\* processor that runs no handler, though the source was in service when the
\* core was reset (_setup_interrupts) and whatever was enabled, disabled, pended
\* and handled since.  A source that the read in complete claimed is not
\* spoken of: its handler never runs.
Waiting(s) == s \in irq_line /\ s \in irq_en /\ s \notin irq_taken

AskedIsServed == \A s \in IrqSources : Waiting(s) ~> (~Waiting(s) \/ irq_now # <<>>)
============================================================================
