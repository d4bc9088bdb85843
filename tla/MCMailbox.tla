----------------------------- MODULE MCMailbox -----------------------------
(* Model-checking instances of Mailbox. *)
EXTENDS Mailbox

CONSTANTS A, B

\* One side transmits by every method, the other receives by every method.
OneWay == [s \in Sides |-> IF s = A THEN {"send", "send_fifo", "nb_send", "reopen"}
                           ELSE {"recv", "recv_fifo", "next", "nb_recv"}]

\* Both sides exchange words.
Words == [s \in Sides |-> {"send", "recv"}]
============================================================================
