------------------------------ MODULE MCStreamer ------------------------------
(***************************************************************************)
(* Streamer with numbered bytes: the sender writes 0, 1, .., Modulus - 1   *)
(* and starts again, so that a lost, repeated or displaced byte shows.     *)
(* The code never looks at a byte, so this choice of bytes is enough.      *)
(***************************************************************************)
EXTENDS Streamer

CONSTANTS Modulus, MaxWriteSize,
          MaxResets             \* bound on the calls of reset()

VARIABLES serial,       \* number of the next byte to be written
          resets        \* calls of reset() so far

MCBytes == 0 .. Modulus - 1

\* arrays of one to MaxWriteSize consecutively numbered bytes
MCItems == {[i \in 1..n |-> (from + i - 1) % Modulus] : from \in MCBytes, n \in 1..MaxWriteSize}

mc_vars == <<vars, serial, resets>>

MCInit == /\ m_tx_buffer = [c \in Cell |-> 0] /\ m_rx_buffer = [c \in Cell |-> 0]
          /\ Init
          /\ serial = 0 /\ resets = 0

WriteNext == \E src \in Items :
    /\ src[1] = serial
    /\ write(src)
    /\ serial' = (serial + accepted(Len(src))) % Modulus
    /\ UNCHANGED resets

\* after a reset the sender writes again what it lost
ResetNext == /\ resets < MaxResets /\ resets' = resets + 1
             /\ \/ tx_reset /\ serial' = (serial - tx_size) % Modulus
                \/ rx_reset /\ UNCHANGED serial

MCNext == \/ Others /\ UNCHANGED <<serial, resets>>
          \/ WriteNext
          \/ ResetNext

MCSpec == MCInit /\ [][MCNext]_mc_vars
MCFairSpec == MCSpec /\ Fairness
===============================================================================
