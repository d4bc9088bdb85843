-------------------------- MODULE TransferPromise --------------------------
(***************************************************************************)
(* What a DMA Transfer of hpm-hal promises to its caller, without registers,*)
(* interrupts or polls: the caller lends a buffer, the hardware works on it *)
(* from start to completion or until it is cut short, and only then does    *)
(* the caller get it back (src/dma/v1.rs, src/dma/v2.rs: Transfer).         *)
(***************************************************************************)
CONSTANT Channels

VARIABLE phase

Phases == {"free", "lent", "moving", "complete", "cut"}

Init == phase = [c \in Channels |-> "free"]

Move(c, from, to) == phase[c] = from /\ phase' = [phase EXCEPT ![c] = to]

Lend(c)     == Move(c, "free", "lent")
Begin(c)    == Move(c, "lent", "moving")
Complete(c) == Move(c, "moving", "complete")
Cut(c)      == Move(c, "moving", "cut")
Return(c)   == Move(c, "complete", "free") \/ Move(c, "cut", "free")

Next == \E c \in Channels : Lend(c) \/ Begin(c) \/ Complete(c) \/ Cut(c) \/ Return(c)

Spec == Init /\ [][Next]_phase
============================================================================
