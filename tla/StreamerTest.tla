----------------------------- MODULE StreamerTest -----------------------------
(***************************************************************************)
(* The streamer test of bmRPCTest.cpp: a block of memory is written in     *)
(* pieces of random size at the client and read back at the server, and    *)
(* the two blocks are compared.  One thread runs both ends.  As in the     *)
(* test, MEM_SIZE is such that the ring is never found full in the last    *)
(* MaxChunk bytes, where a new random size would run past the block.       *)
(***************************************************************************)
EXTENDS Streamer

CONSTANTS MEM_SIZE,      \* length of the memory block
          MaxChunk       \* largest random size, 10 in the test

\* i bytes fill the client's ring and the medium a whole number of times
fills(i) == \E k \in 0..i : i = k * (m_max_size + LinkCapacity)

ASSUME TestAssumption ==
    /\ MEM_SIZE \in Nat \ {0} /\ MaxChunk \in Nat \ {0}
    /\ 0..MEM_SIZE \subseteq Byte
    /\ \A i \in 0..MEM_SIZE - 1 : fills(i) => i + MaxChunk <= MEM_SIZE

VARIABLES i_write,       \* bytes of mem_1 written so far
          randSize,      \* size of the pieces in this round
          mem_2,         \* the bytes received; its length is i_read
          n_read,        \* what rx_size() returned
          test_pc        \* "opening", "round", "send", "poll" (rx_size()),
                         \* "read", "flush" or "done"

test_vars == <<vars, i_write, randSize, mem_2, n_read, test_pc>>

\* all bytes different, so that any disorder shows in the comparison
mem_1 == [i \in 1..MEM_SIZE |-> i]

TestInit ==
    /\ m_tx_buffer = [c \in Cell |-> 0] /\ m_rx_buffer = [c \in Cell |-> 0]
    /\ Init
    /\ i_write = 0 /\ randSize = 0 /\ mem_2 = << >> /\ n_read = 0 /\ test_pc = "opening"

\* client_com.open()
Opening ==
    /\ test_pc = "opening" /\ open
    /\ test_pc' = "round"
    /\ UNCHANGED <<i_write, randSize, mem_2, n_read>>

\* the outer while loop
Round ==
    /\ test_pc = "round"
    /\ IF i_write < MEM_SIZE
         THEN randSize' \in 1..MaxChunk /\ test_pc' = "send"
         ELSE randSize' = randSize /\ test_pc' = "done"
    /\ UNCHANGED <<vars, i_write, mem_2, n_read>>

\* the inner while loop: write until nothing is accepted or all is written
Send ==
    /\ test_pc = "send"
    /\ write(SubSeq(mem_1, i_write + 1, i_write + randSize))
    /\ i_write' = i_write + accepted(randSize)
    /\ randSize' = IF i_write' > i_write /\ i_write' >= MEM_SIZE - MaxChunk
                     THEN MEM_SIZE - i_write' ELSE randSize
    /\ test_pc' = IF i_write' = i_write \/ i_write' >= MEM_SIZE THEN "poll" ELSE "send"
    /\ UNCHANGED <<mem_2, n_read>>

\* server_streamer.rx_size() returned: 0 ends the loop over the received bytes
Poll ==
    /\ test_pc = "poll" /\ rx_return
    /\ n_read' = rx_size
    /\ test_pc' = IF n_read' > 0 THEN "read" ELSE "round"
    /\ UNCHANGED <<i_write, randSize, mem_2>>

\* what rx_size() promised is read
Receive ==
    /\ test_pc = "read" /\ read(n_read)
    /\ mem_2' = mem_2 \o items'
    /\ test_pc' = "flush"
    /\ UNCHANGED <<i_write, randSize, n_read>>

ClientFlush ==
    /\ test_pc = "flush" /\ flush
    /\ test_pc' = "poll"
    /\ UNCHANGED <<i_write, randSize, mem_2, n_read>>

\* the streamer works inside one of its calls
Inside ==
    /\ \/ flush_step
       \/ test_pc \in {"poll", "read"} /\ com_read
    /\ UNCHANGED <<i_write, randSize, mem_2, n_read, test_pc>>

Done == test_pc = "done" /\ UNCHANGED test_vars

TestNext == Opening \/ Round \/ Send \/ Poll \/ Receive \/ ClientFlush \/ Inside \/ Done

TestSpec == TestInit /\ [][TestNext]_test_vars /\ WF_test_vars(TestNext)

-------------------------------------------------------------------------------

\* "Streamer test passed: Memory blocks match": when the test has read all the
\* server's streamer delivers, the block received is the block sent.
MemoryBlocksMatch == test_pc = "done" => mem_2 = mem_1

\* At every moment of the test the bytes received so far are the first bytes
\* of the block: the comparison the test ends with, without its last round.
ReceivedIsPrefix ==
    Len(mem_2) <= MEM_SIZE /\ \A i \in 1..Len(mem_2) : mem_2[i] = mem_1[i]

\* The test ends: the read loop with its flush() leaves no byte behind in the
\* client's ring, and the write loop always gets room again.
TestCompletes == <>(test_pc = "done")

TestBytes == 0..MEM_SIZE
TestItems == {SubSeq(mem_1, i + 1, i + n) : i \in 0..MEM_SIZE - MaxChunk, n \in 1..MaxChunk}
===============================================================================
