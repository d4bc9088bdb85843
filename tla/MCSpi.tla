------------------------------- MODULE MCSpi -------------------------------
(* Model-checking instance of SpiTransfer. *)
EXTENDS SpiTransfer
============================================================================
