------------------------------ MODULE MCTransfer ------------------------------
(* Transfer with frames that are longer than a ring: a message without a     *)
(* value, and one with a value in which there is a 0 byte (binary).          *)
EXTENDS Transfer

MCByte == 0 .. Base - 1

MCBinaryMessages == {[id |-> 1, name |-> <<2>>, value |-> << >>],
                     [id |-> 2, name |-> <<2>>, value |-> <<0, 1>>]}

MCTextMessages == {[id |-> <<1>>, name |-> <<2>>, value |-> << >>],
                   [id |-> <<2>>, name |-> <<2>>, value |-> <<1, 1>>]}

MCBuilds == {[binary |-> TRUE, tx_order |-> "big", rx_order |-> "big"],
             [binary |-> FALSE, tx_order |-> "little", rx_order |-> "little"]}

\* the fields of these messages are no longer than three bytes
MCItems == UNION {[1..n -> MCByte] : n \in 1..3}
===============================================================================
