------------------------------- MODULE MCFraming -------------------------------
(* Framing with three messages: an empty value, a value with 0 bytes (binary) *)
(* and names of different length, one the beginning of the other.             *)
EXTENDS Framing

MCBinaryMessages == {[id |-> 1, name |-> <<2>>, value |-> << >>],
                     [id |-> 3, name |-> <<2, 1>>, value |-> <<0>>],
                     [id |-> 5, name |-> <<2>>, value |-> <<0, 2, 1>>]}

MCTextMessages == {[id |-> <<1>>, name |-> <<2>>, value |-> << >>],
                   [id |-> <<1, 2>>, name |-> <<2, 1>>, value |-> <<1>>],
                   [id |-> <<2>>, name |-> <<2>>, value |-> <<1, 2, 1>>]}

\* the byte orders play no part in the text protocol
MCBuilds == {[binary |-> TRUE, tx_order |-> "big", rx_order |-> "big"],
             [binary |-> FALSE, tx_order |-> "little", rx_order |-> "little"]}

\* a little endian client and a big endian server
EndianBuilds == {[binary |-> TRUE, tx_order |-> "little", rx_order |-> "big"]}
===============================================================================
