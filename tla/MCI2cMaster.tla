---------------------------- MODULE MCI2cMaster ----------------------------
(* Model-checking instances of I2cMaster. *)
EXTENDS I2cMaster

Write(n) == [dir |-> "write", size |-> n]
Read(n) == [dir |-> "read", size |-> n]

\* A probe, a write longer than the FIFO, a read, and a transaction.
SomeBlocking == {<<Write(0)>>, <<Write(2)>>, <<Read(1)>>, <<Write(1), Read(1)>>}
SomeWriteReads == {<<Write(1), Read(1)>>}

\* Merged operations, changes of direction, and one that is too long.
SomeAsync == {<<Write(1), Write(1), Read(1)>>, <<Read(1)>>, <<Write(1), Read(3)>>}
============================================================================
