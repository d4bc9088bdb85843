--------------------------- MODULE MCDmaChannels ---------------------------
(* Model-checking instances of DmaChannels. *)
EXTENDS DmaChannels, TLC

DefaultOption  == [circular |-> FALSE, half_transfer_irq |-> FALSE,
                   complete_transfer_irq |-> TRUE]
CircularOption == [circular |-> TRUE, half_transfer_irq |-> TRUE,
                   complete_transfer_irq |-> TRUE]
MaskedOption   == [circular |-> FALSE, half_transfer_irq |-> FALSE,
                   complete_transfer_irq |-> FALSE]

OnlyDefault == {DefaultOption}
DefaultOrMasked == {DefaultOption, MaskedOption}
DefaultOrCircular == {DefaultOption, CircularOption}

ChannelSymmetry == Permutations(Channels) \cup Permutations(Tasks)
============================================================================
