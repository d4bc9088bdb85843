---------------------------- MODULE MCGpioInput ----------------------------
(* Model-checking instances of GpioInput. *)
EXTENDS GpioInput

CONSTANTS PA, t1, t2

\* Two lines of one port, in two tasks.
OnePort == {<<PA, 0>>, <<PA, 1>>}
ByLine == [p \in Pins |-> IF Line(p) = 0 THEN t1 ELSE t2]

AllWaits == {"high", "low", "rising", "falling", "any"}
============================================================================
