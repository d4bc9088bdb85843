---------------------------- MODULE MCUartAsync ----------------------------
(* Model-checking instances of UartAsync. *)
EXTENDS UartAsync

BothTxOps == {"write", "blocking_write"}
NoTxOps == {}
============================================================================
