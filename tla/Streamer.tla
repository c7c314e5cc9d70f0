------------------------------- MODULE Streamer -------------------------------
(***************************************************************************)
(* One direction of the connection: the transmit half of the Streamer at   *)
(* one end, the Comm driver and the medium (the link), and the receive     *)
(* half of the Streamer at the other end.  One step is one call of         *)
(* m_com->write() or m_com->read(), so the two ends interleave inside      *)
(* flush() and com_read().                                                 *)
(***************************************************************************)
EXTENDS Integers, Sequences

CONSTANTS
    Byte,            \* values of T
    Items,           \* the arrays passed to write()
    m_max_size,      \* STREAMER_BUFFER_SIZE, a power of two
    m_packet_size,   \* get_packet_size() of the driver
    LinkCapacity,    \* bytes the medium holds, MAX_BUFFER_SIZE of SharedBuffer
    Driver,          \* how the driver answers a write, see com_write_returns
    LoopBack,        \* TRUE: both ends run in one thread (main.cpp, the tests)
    MaxReadSize      \* bound on the size passed to the read functions

ASSUME SizesAssumption ==
    /\ m_max_size \in Nat \ {0}
    /\ m_packet_size \in Nat \ {0}
    /\ LinkCapacity \in Nat
    /\ MaxReadSize \in Nat
ASSUME ItemsAssumption == Items \subseteq Seq(Byte) \ {<< >>}
ASSUME DriverAssumption ==
    /\ Driver \in {"shared", "whole", "partial"}
    /\ LoopBack \in BOOLEAN
ASSUME ByteAssumption == Byte # {}

VARIABLES
    m_tx_buffer, m_tx_in, m_tx_out, m_tx_full,    \* transmit ring
    tx_pc,           \* where the sender is: "idle", in flush(), in its "wrap"
    used_size,       \* local of flush(), 0 outside
    count,           \* local of flush(): the wrapped part of the packet
    m_open,          \* m_open of the sender's driver
    link,            \* bytes in the medium, oldest first
    m_rx_buffer, m_rx_in, m_rx_out, m_rx_full,    \* receive ring
    rx_pc,           \* where the receiver is: "idle", com_read's "second"
                     \* read, or the "body" of the call after com_read()
    items            \* array filled by the latest read() or try_read()

tx_ring == <<m_tx_buffer, m_tx_in, m_tx_out, m_tx_full>>
tx_vars == <<m_tx_buffer, m_tx_in, m_tx_out, m_tx_full, tx_pc, used_size, count, m_open>>
rx_ring == <<m_rx_buffer, m_rx_in, m_rx_out, m_rx_full>>
rx_vars == <<m_rx_buffer, m_rx_in, m_rx_out, m_rx_full, rx_pc, items>>
vars == <<m_tx_buffer, m_tx_in, m_tx_out, m_tx_full, tx_pc, used_size, count, m_open,
          link, m_rx_buffer, m_rx_in, m_rx_out, m_rx_full, rx_pc, items>>

Cell == 0 .. m_max_size - 1

Least(a, b) == IF a < b THEN a ELSE b

\* x & (m_max_size - 1) on size_t, for a power of two
masked(x) == x % m_max_size

\* mutant of inc: > for >=
inc_late(p, v) == IF p + v > m_max_size THEN p + v - m_max_size ELSE p + v

inc(p, v) == IF p + v >= m_max_size THEN p + v - m_max_size ELSE p + v

\* memcpy(&dst[at], &src[from], n), dst indexed from 0 and src from 1
memcpy(dst, at, src, from, n) ==
    [c \in Cell |-> IF c \in at .. at + n - 1 THEN src[from + c - at] ELSE dst[c]]

\* mutant of tx_empty: a full ring counts as empty
tx_empty_ignores_full == m_tx_in = m_tx_out

tx_empty == ~m_tx_full /\ m_tx_in = m_tx_out

tx_size == IF m_tx_full THEN m_max_size
           ELSE IF m_tx_in >= m_tx_out THEN m_tx_in - m_tx_out
           ELSE m_max_size + m_tx_in - m_tx_out

rx_empty == ~m_rx_full /\ m_rx_in = m_rx_out

\* rx_size() after its call of com_read()
rx_size == IF m_rx_full THEN m_max_size
           ELSE IF m_rx_in >= m_rx_out THEN m_rx_in - m_rx_out
           ELSE m_max_size + m_rx_in - m_rx_out

-------------------------------------------------------------------------------
(* The Comm driver.  SharedBuffer truncates a write to its free space and  *)
(* a read to what it holds.  A driver of another medium may take a packet  *)
(* whole or not at all, or any part of it.                                 *)

Free == LinkCapacity - Len(link)

com_write_returns(len) ==
    CASE Driver = "shared"  -> {Least(len, Free)}
      [] Driver = "whole"   -> {n \in {0, len} : n <= Free}
      [] Driver = "partial" -> 0 .. Least(len, Free)

com_read_returns(len) ==
    CASE Driver = "shared"  -> {Least(len, Len(link))}
      [] Driver # "shared"  -> 0 .. Least(len, Len(link))

\* m_com->write(&m_tx_buffer[at], ...) returned n
com_write(at, n) == link' = link \o [i \in 1..n |-> m_tx_buffer[at + i - 1]]

\* m_com->read(&m_rx_buffer[at], ...) returned n
com_read_bytes(at, n) ==
    /\ m_rx_buffer' = memcpy(m_rx_buffer, at, link, 1, n)
    /\ link' = SubSeq(link, n + 1, Len(link))

open == /\ tx_pc = "idle" /\ ~m_open
        /\ m_open' = TRUE
        /\ UNCHANGED <<tx_ring, tx_pc, used_size, count, link, rx_vars>>

close == /\ tx_pc = "idle" /\ m_open
         /\ m_open' = FALSE
         /\ UNCHANGED <<tx_ring, tx_pc, used_size, count, link, rx_vars>>

-------------------------------------------------------------------------------
(* The transmitting end.                                                   *)

\* in one thread an end runs only while the other is not inside a call
tx_may_start == tx_pc = "idle" /\ (LoopBack => rx_pc = "idle")

\* flush() up to its loop, called with the ring in its new state
flush_begin ==
    /\ count' = 0
    /\ IF m_open /\ ~tx_empty'
         THEN /\ tx_pc' = "flush"
              /\ used_size' = IF m_tx_full' THEN m_max_size
                              ELSE masked(m_tx_in' - m_tx_out')
         ELSE tx_pc' = "idle" /\ used_size' = 0

\* the number of items write() takes
accepted(size) ==
    IF m_tx_full THEN 0
    ELSE Least(size, IF tx_empty THEN m_max_size ELSE masked(m_tx_out - m_tx_in))

\* mutant of tx_store: the second memcpy starts one item early
tx_store_early(src, n) ==
    LET over == m_tx_in + n - m_max_size
    IN  IF m_tx_out > m_tx_in \/ over <= 0
          THEN memcpy(m_tx_buffer, m_tx_in, src, 1, n)
          ELSE memcpy(memcpy(m_tx_buffer, m_tx_in, src, 1, n - over),
                      0, src, n - over, over)

\* where write() puts the first n of its items
tx_store(src, n) ==
    LET over == m_tx_in + n - m_max_size
    IN  IF m_tx_out > m_tx_in \/ over <= 0
          THEN memcpy(m_tx_buffer, m_tx_in, src, 1, n)
          ELSE memcpy(memcpy(m_tx_buffer, m_tx_in, src, 1, n - over),
                      0, src, n - over + 1, over)

write(src) ==
    /\ tx_may_start
    /\ \/ /\ ~m_tx_full
          /\ m_tx_buffer' = tx_store(src, accepted(Len(src)))
          /\ m_tx_in' = inc(m_tx_in, accepted(Len(src)))
          /\ m_tx_full' = (m_tx_in' = m_tx_out)
          /\ m_tx_out' = m_tx_out
       \/ /\ m_tx_full
          /\ UNCHANGED tx_ring
    /\ flush_begin
    /\ UNCHANGED <<m_open, link, rx_vars>>

flush ==
    /\ tx_may_start
    /\ UNCHANGED tx_ring
    /\ flush_begin
    /\ UNCHANGED <<m_open, link, rx_vars>>

packet == Least(m_packet_size, used_size)
\* mutant of overhang: the end of the buffer is taken one cell early
overhang_early == m_tx_out + packet - m_max_size + 1

overhang == m_tx_out + packet - m_max_size

\* mutant of tx_advance: m_tx_full is not cleared
tx_advance_keeps_full(n) ==
    /\ m_tx_out' = inc(m_tx_out, n)
    /\ UNCHANGED <<m_tx_buffer, m_tx_in, m_tx_full>>

\* bookkeeping after m_com->write() returned n
tx_advance(n) ==
    /\ m_tx_out' = inc(m_tx_out, n)
    /\ m_tx_full' = (m_tx_full /\ n = 0)
    /\ UNCHANGED <<m_tx_buffer, m_tx_in>>

\* while(used_size > 0 && n_written > 0)
flush_loop(n) ==
    /\ count' = 0
    /\ IF used_size - n > 0 /\ n > 0
         THEN tx_pc' = "flush" /\ used_size' = used_size - n
         ELSE tx_pc' = "idle" /\ used_size' = 0

flush_straight ==
    /\ tx_pc = "flush" /\ overhang <= 0
    /\ \E n_written \in com_write_returns(packet) :
          /\ com_write(m_tx_out, n_written)
          /\ tx_advance(n_written)
          /\ flush_loop(n_written)
    /\ UNCHANGED <<m_open, rx_vars>>

\* first write of a packet that wraps: the cells up to the end of the buffer
flush_wrap_first ==
    /\ tx_pc = "flush" /\ overhang > 0
    /\ \E n_written \in com_write_returns(packet - overhang) :
          /\ com_write(m_tx_out, n_written)
          /\ tx_advance(n_written)
          /\ IF n_written > 0
               THEN /\ tx_pc' = "wrap"
                    /\ used_size' = used_size - n_written
                    /\ count' = overhang
               ELSE flush_loop(n_written)
    /\ UNCHANGED <<m_open, rx_vars>>

\* mutant of flush_wrap_second: m_tx_out is not moved past the second write
flush_wrap_second_stays ==
    /\ tx_pc = "wrap"
    /\ \E n_written \in com_write_returns(count) :
          /\ com_write(0, n_written)
          /\ flush_loop(n_written)
    /\ UNCHANGED <<tx_ring, m_open, rx_vars>>

\* second write: from the start of the buffer, however short the first fell
flush_wrap_second ==
    /\ tx_pc = "wrap"
    /\ \E n_written \in com_write_returns(count) :
          /\ com_write(0, n_written)
          /\ tx_advance(n_written)
          /\ flush_loop(n_written)
    /\ UNCHANGED <<m_open, rx_vars>>

tx_reset ==
    /\ tx_may_start
    /\ m_tx_in' = m_tx_out
    /\ m_tx_full' = FALSE
    /\ UNCHANGED <<m_tx_buffer, m_tx_out, tx_pc, used_size, count, m_open, link, rx_vars>>

-------------------------------------------------------------------------------
(* The receiving end.  Every call begins with com_read(); which call it is *)
(* shows only in the body.                                                 *)

rx_may_start == rx_pc = "idle" /\ (LoopBack => tx_pc = "idle")

com_read_skip ==
    /\ rx_may_start
    /\ m_rx_full
    /\ rx_pc' = "body"
    /\ items' = << >>
    /\ UNCHANGED <<rx_ring, tx_vars, link>>

\* m_rx_in >= m_rx_out: read up to the end of the buffer
com_read_first ==
    /\ rx_may_start
    /\ ~m_rx_full /\ m_rx_in >= m_rx_out
    /\ LET len == m_max_size - m_rx_in
       IN  \E n \in com_read_returns(len) :
             /\ com_read_bytes(m_rx_in, n)
             /\ m_rx_in' = inc(m_rx_in, n)
             /\ m_rx_full' = (n > 0 /\ m_rx_in' = m_rx_out)
             /\ rx_pc' = IF n = len THEN "second" ELSE "body"
    /\ items' = << >>
    /\ UNCHANGED <<m_rx_out, tx_vars>>

com_read_second ==
    /\ rx_pc = "second"
    /\ \E n \in com_read_returns(m_rx_out) :
          /\ com_read_bytes(0, n)
          /\ m_rx_in' = inc(m_rx_in, n)
          /\ m_rx_full' = IF n > 0 THEN m_rx_in' = m_rx_out ELSE m_rx_full
    /\ rx_pc' = "body"
    /\ UNCHANGED <<m_rx_out, items, tx_vars>>

com_read_gap ==
    /\ rx_may_start
    /\ ~m_rx_full /\ m_rx_in < m_rx_out
    /\ \E n \in com_read_returns(m_rx_out - m_rx_in) :
          /\ com_read_bytes(m_rx_in, n)
          /\ m_rx_in' = inc(m_rx_in, n)
          /\ m_rx_full' = (n > 0 /\ m_rx_in' >= m_rx_out)
    /\ rx_pc' = "body"
    /\ items' = << >>
    /\ UNCHANGED <<m_rx_out, tx_vars>>

\* the number of bytes a read of size bytes yields
available(size) ==
    IF rx_empty THEN 0
    ELSE Least(size, IF m_rx_full THEN m_max_size ELSE masked(m_rx_in - m_rx_out))

\* mutant of rx_fetch: the wrapped part is taken one cell late
rx_fetch_late(n) ==
    LET over == m_rx_out + n - m_max_size
    IN  [i \in 1..n |-> IF m_rx_in > m_rx_out \/ over <= 0 \/ i <= n - over
                          THEN m_rx_buffer[m_rx_out + i - 1]
                          ELSE m_rx_buffer[i - (n - over)]]

\* the first n bytes of the receive ring
rx_fetch(n) ==
    LET over == m_rx_out + n - m_max_size
    IN  [i \in 1..n |-> IF m_rx_in > m_rx_out \/ over <= 0 \/ i <= n - over
                          THEN m_rx_buffer[m_rx_out + i - 1]
                          ELSE m_rx_buffer[i - (n - over) - 1]]

rx_drop(n) == /\ m_rx_full' = FALSE
              /\ m_rx_out' = inc(m_rx_out, n)
              /\ UNCHANGED <<m_rx_buffer, m_rx_in>>

\* rx_size() and rx_empty() end after com_read(), and so does a read function
\* that finds the ring empty
rx_return ==
    /\ rx_pc = "body"
    /\ rx_pc' = "idle"
    /\ UNCHANGED <<rx_ring, items, tx_vars, link>>

read(size) ==
    /\ rx_pc = "body" /\ ~rx_empty
    /\ items' = rx_fetch(available(size))
    /\ rx_drop(available(size))
    /\ rx_pc' = "idle"
    /\ UNCHANGED <<tx_vars, link>>

try_read(size) ==
    /\ rx_pc = "body" /\ ~rx_empty
    /\ items' = rx_fetch(available(size))
    /\ rx_pc' = "idle"
    /\ UNCHANGED <<rx_ring, tx_vars, link>>

consume_read(size) ==
    /\ rx_pc = "body" /\ ~rx_empty
    /\ rx_drop(available(size))
    /\ rx_pc' = "idle"
    /\ UNCHANGED <<items, tx_vars, link>>

\* mutant of rx_reset: the indices are not made equal
rx_reset_to_zero ==
    /\ rx_may_start
    /\ m_rx_in' = 0
    /\ m_rx_full' = FALSE
    /\ UNCHANGED <<m_rx_buffer, m_rx_out, rx_pc, items, tx_vars, link>>

rx_reset ==
    /\ rx_may_start
    /\ m_rx_in' = m_rx_out
    /\ m_rx_full' = FALSE
    /\ UNCHANGED <<m_rx_buffer, m_rx_out, rx_pc, items, tx_vars, link>>

-------------------------------------------------------------------------------

Init ==
    /\ m_tx_buffer \in [Cell -> Byte] /\ m_tx_in = 0 /\ m_tx_out = 0 /\ m_tx_full = FALSE
    /\ tx_pc = "idle" /\ used_size = 0 /\ count = 0 /\ m_open = FALSE
    /\ link = << >>
    /\ m_rx_buffer \in [Cell -> Byte] /\ m_rx_in = 0 /\ m_rx_out = 0 /\ m_rx_full = FALSE
    /\ rx_pc = "idle" /\ items = << >>

com_read == com_read_skip \/ com_read_first \/ com_read_second \/ com_read_gap
flush_step == flush_straight \/ flush_wrap_first \/ flush_wrap_second

\* every step but write() and reset()
Others ==
    \/ open \/ close
    \/ flush \/ flush_step
    \/ com_read \/ rx_return
    \/ \E size \in 1..MaxReadSize : read(size) \/ try_read(size) \/ consume_read(size)

Next == Others \/ tx_reset \/ rx_reset \/ \E src \in Items : write(src)

Spec == Init /\ [][Next]_vars

-------------------------------------------------------------------------------
(* Properties.                                                             *)

TypeOK ==
    /\ m_tx_buffer \in [Cell -> Byte] /\ m_tx_in \in Cell /\ m_tx_out \in Cell
    /\ m_tx_full \in BOOLEAN
    /\ tx_pc \in {"idle", "flush", "wrap"}
    /\ used_size \in 0..m_max_size /\ count \in 0..m_max_size
    /\ m_open \in BOOLEAN
    /\ link \in Seq(Byte) /\ Len(link) <= LinkCapacity
    /\ m_rx_buffer \in [Cell -> Byte] /\ m_rx_in \in Cell /\ m_rx_out \in Cell
    /\ m_rx_full \in BOOLEAN
    /\ rx_pc \in {"idle", "second", "body"}
    /\ items \in Seq(Byte)
    /\ LoopBack => tx_pc = "idle" \/ rx_pc = "idle"

\* The full flags are only ever set on rings whose indices meet, so the size
\* formulas of tx_size() and rx_size() and the masked ones agree, and while
\* flush() runs its local used_size is exactly what the ring still holds.
RingsConsistent ==
    /\ m_tx_full => m_tx_in = m_tx_out
    /\ m_rx_full => m_rx_in = m_rx_out
    /\ tx_pc # "idle" => used_size = tx_size /\ used_size > 0
    /\ tx_pc = "wrap" => count \in 1..used_size
    /\ rx_pc = "second" => m_rx_in = 0 /\ (m_rx_full => m_rx_out = 0)

\* When flush() writes the wrapped part of a packet, the bytes before it have
\* left the ring; or else the medium is full and nobody can drain it before
\* this second write, which therefore writes nothing.
WrapSafe == tx_pc = "wrap" => m_tx_out = 0 \/ (LoopBack /\ Free = 0)

\* The bytes between the two users of the connection, oldest first: those in
\* the receive ring, in the medium, and in the transmit ring.
stream ==
    [i \in 1 .. rx_size + Len(link) + tx_size |->
        IF i <= rx_size THEN m_rx_buffer[inc(m_rx_out, i - 1)]
        ELSE IF i <= rx_size + Len(link) THEN link[i - rx_size]
        ELSE m_tx_buffer[inc(m_tx_out, i - rx_size - Len(link) - 1)]]

Abstract == INSTANCE ByteStream WITH queue <- stream, last <- items

\* The two rings and the medium together are one FIFO byte stream: write()
\* only appends, read() and try_read() yield the oldest bytes, and nothing
\* repeats or reorders a byte, whatever the positions of the ring indices.
IsByteStream == Abstract!Spec

\* flush() and com_read() only move bytes: no step of theirs loses, adds or
\* displaces a byte of the stream.
TransportConserves == [][flush_step \/ com_read => stream' = stream]_vars

\* write() appends to the stream exactly the first accepted(size) of the items
\* it was given, never some other bytes, and reports that number.
WriteAppends ==
    [][\A src \in Items :
          write(src) => stream' = stream \o SubSeq(src, 1, accepted(Len(src)))]_vars

-------------------------------------------------------------------------------
(* Liveness.  A call that has begun runs on.  The loops of the two ends    *)
(* alternate, so each calls flush() and com_read() again and again, and    *)
(* receive() consumes whenever it finds bytes.  A driver that refuses for  *)
(* a while does not refuse for ever what fits, nor hold back what is there. *)

Fairness ==
    /\ WF_vars(flush_step) /\ WF_vars(com_read_second) /\ WF_vars(rx_return)
    /\ SF_vars(flush) /\ SF_vars(com_read)
    /\ SF_vars(flush_step /\ link' # link) /\ SF_vars(com_read /\ link' # link)
    /\ SF_vars(consume_read(1))

FairSpec == Spec /\ Fairness

\* A full transmit ring does not stay full: if the driver stays open, flush()
\* always finds room again and write() accepts bytes again.
TxRingDrains == <>[]m_open => (m_tx_full ~> ~m_tx_full)
===============================================================================
