---------------------------- MODULE StreamerProofs ----------------------------
(***************************************************************************)
(* Proofs about Streamer for every buffer size, packet size, link capacity *)
(* and set of bytes.                                                       *)
(***************************************************************************)
EXTENDS Streamer, TLAPS

\* The drivers for which flush() is correct: one that takes each write whole
\* or not at all, or SharedBuffer with both ends in one thread.
DriverContract == Driver = "whole" \/ (Driver = "shared" /\ LoopBack)

IInv == TypeOK /\ RingsConsistent /\ (DriverContract => WrapSafe)

-------------------------------------------------------------------------------
(* Arithmetic of the rings.                                                *)

LEMMA MaskedDifference ==
    \A a, b \in Cell : masked(a - b) = IF a >= b THEN a - b ELSE m_max_size + a - b
BY SizesAssumption DEF Cell, masked

LEMMA IncCell == \A p \in Cell : \A v \in 0..m_max_size : inc(p, v) \in Cell
BY SizesAssumption DEF Cell, inc

LEMMA AcceptedIsFree ==
    ASSUME TypeOK, RingsConsistent, NEW size \in Nat
    PROVE  accepted(size) = Least(size, m_max_size - tx_size)
<1>1. /\ m_tx_in \in Cell /\ m_tx_out \in Cell /\ m_tx_full \in BOOLEAN
      /\ m_tx_full => m_tx_in = m_tx_out
  BY DEF TypeOK, RingsConsistent
<1>2. masked(m_tx_out - m_tx_in) = IF m_tx_out >= m_tx_in THEN m_tx_out - m_tx_in
                                   ELSE m_max_size + m_tx_out - m_tx_in
  BY <1>1, MaskedDifference
<1>3. CASE m_tx_full
  BY <1>1, <1>3, SizesAssumption DEF accepted, tx_size, Least
<1>4. CASE ~m_tx_full
  BY <1>1, <1>2, <1>4, SizesAssumption DEF accepted, tx_size, tx_empty, Least, Cell
<1>5. QED
  BY <1>3, <1>4

LEMMA AvailableIsSize ==
    ASSUME TypeOK, RingsConsistent, NEW size \in Nat
    PROVE  available(size) = Least(size, rx_size)
<1>1. /\ m_rx_in \in Cell /\ m_rx_out \in Cell /\ m_rx_full \in BOOLEAN
      /\ m_rx_full => m_rx_in = m_rx_out
  BY DEF TypeOK, RingsConsistent
<1>2. masked(m_rx_in - m_rx_out) = IF m_rx_in >= m_rx_out THEN m_rx_in - m_rx_out
                                   ELSE m_max_size + m_rx_in - m_rx_out
  BY <1>1, MaskedDifference
<1>3. CASE m_rx_full
  BY <1>1, <1>3, SizesAssumption DEF available, rx_size, rx_empty, Least
<1>4. CASE ~m_rx_full
  BY <1>1, <1>2, <1>4, SizesAssumption DEF available, rx_size, rx_empty, Least, Cell
<1>5. QED
  BY <1>3, <1>4

LEMMA SizesInRange ==
    ASSUME TypeOK, RingsConsistent
    PROVE  /\ tx_size \in 0..m_max_size /\ rx_size \in 0..m_max_size
           /\ tx_empty <=> tx_size = 0
           /\ rx_empty <=> rx_size = 0
BY SizesAssumption DEF TypeOK, RingsConsistent, tx_size, rx_size, tx_empty, rx_empty, Cell

LEMMA DriverWrites ==
    ASSUME TypeOK, NEW len \in Nat, NEW n \in com_write_returns(len)
    PROVE  /\ n \in 0..len /\ n <= Free
           /\ Driver = "shared" => n = len \/ n = Free
           /\ Driver = "whole" => n = len \/ n = 0
BY SizesAssumption, DriverAssumption, SMTT(30) DEF TypeOK, com_write_returns, Least, Free

LEMMA DriverReads ==
    ASSUME TypeOK, NEW len \in Nat, NEW n \in com_read_returns(len)
    PROVE  n \in 0..len /\ n <= Len(link)
BY SizesAssumption, DriverAssumption DEF TypeOK, com_read_returns, Least

-------------------------------------------------------------------------------
(* The inductive invariant.                                                *)

LEMMA InitIInv == Init => IInv
BY SizesAssumption
   DEF Init, IInv, TypeOK, RingsConsistent, WrapSafe, Cell

\* the part of the invariant about the receiver, which no sender step changes
LEMMA SenderStep ==
    ASSUME IInv, UNCHANGED rx_vars,
           /\ m_tx_buffer' \in [Cell -> Byte] /\ m_tx_in' \in Cell /\ m_tx_out' \in Cell
           /\ m_tx_full' \in BOOLEAN /\ m_open' \in BOOLEAN
           /\ tx_pc' \in {"idle", "flush", "wrap"}
           /\ used_size' \in 0..m_max_size /\ count' \in 0..m_max_size
           /\ link' \in Seq(Byte) /\ Len(link') <= LinkCapacity
           /\ LoopBack => tx_pc' = "idle" \/ rx_pc = "idle",
           /\ m_tx_full' => m_tx_in' = m_tx_out'
           /\ tx_pc' # "idle" => used_size' = tx_size' /\ used_size' > 0
           /\ tx_pc' = "wrap" => count' \in 1..used_size',
           DriverContract => WrapSafe'
    PROVE  IInv'
BY DEF IInv, TypeOK, RingsConsistent, rx_vars

LEMMA FlushBegin ==
    ASSUME m_tx_in' \in Cell, m_tx_out' \in Cell, m_tx_full' \in BOOLEAN,
           m_tx_full' => m_tx_in' = m_tx_out', flush_begin
    PROVE  /\ tx_pc' \in {"idle", "flush"} /\ count' = 0
           /\ used_size' \in 0..m_max_size
           /\ tx_pc' # "idle" => used_size' = tx_size' /\ used_size' > 0
<1>1. masked(m_tx_in' - m_tx_out') = IF m_tx_in' >= m_tx_out' THEN m_tx_in' - m_tx_out'
                                     ELSE m_max_size + m_tx_in' - m_tx_out'
  BY MaskedDifference
<1>2. QED
  BY <1>1, SizesAssumption DEF flush_begin, tx_empty, tx_size, Cell

LEMMA OpenClose == IInv /\ (open \/ close) => IInv'
<1> SUFFICES ASSUME IInv, open \/ close PROVE IInv'
  OBVIOUS
<1>1. /\ UNCHANGED <<m_tx_buffer, m_tx_in, m_tx_out, m_tx_full, tx_pc, used_size, count, link>>
      /\ UNCHANGED rx_vars /\ m_open' \in BOOLEAN
  BY Zenon DEF open, close, tx_ring, rx_vars
<1>2. tx_size' = tx_size /\ WrapSafe' = WrapSafe
  BY <1>1 DEF tx_size, WrapSafe, Free
<1>3. QED
  BY <1>1, <1>2, SenderStep DEF IInv, TypeOK, RingsConsistent

LEMMA MemcpyType ==
    ASSUME NEW dst \in [Cell -> Byte], NEW src \in Seq(Byte),
           NEW at \in Nat, NEW from \in Nat \ {0}, NEW n \in Nat, from + n - 1 <= Len(src)
    PROVE  memcpy(dst, at, src, from, n) \in [Cell -> Byte]
BY SizesAssumption DEF memcpy, Cell

\* tx_store() copies the items it is given to the cells from m_tx_in on
LEMMA TxStore ==
    ASSUME TypeOK, RingsConsistent, ~m_tx_full,
           NEW src \in Seq(Byte), NEW n \in 0..Len(src), n <= m_max_size - tx_size
    PROVE  /\ tx_store(src, n) \in [Cell -> Byte]
           /\ \A i \in 0..n-1 : tx_store(src, n)[inc(m_tx_in, i)] = src[i + 1]
           /\ \A i \in 0..tx_size-1 :
                 tx_store(src, n)[inc(m_tx_out, i)] = m_tx_buffer[inc(m_tx_out, i)]
<1> DEFINE over == m_tx_in + n - m_max_size
<1>1. /\ m_tx_in \in Cell /\ m_tx_out \in Cell /\ m_tx_buffer \in [Cell -> Byte]
      /\ n \in Nat /\ m_max_size \in Nat \ {0} /\ Len(src) \in Nat
  BY SizesAssumption DEF TypeOK
<1>2. CASE m_tx_out > m_tx_in \/ over <= 0
  <2>1. tx_store(src, n) = memcpy(m_tx_buffer, m_tx_in, src, 1, n)
    BY <1>2 DEF tx_store
  <2>2. tx_store(src, n) \in [Cell -> Byte]
    BY <1>1, <2>1, MemcpyType DEF Cell
  <2>3. m_tx_in + n <= m_max_size
    BY <1>1, <1>2 DEF tx_size, Cell
  <2>4. \A i \in 0..n-1 : tx_store(src, n)[inc(m_tx_in, i)] = src[i + 1]
    BY <1>1, <2>1, <2>3 DEF memcpy, inc, Cell
  <2>5. \A i \in 0..tx_size-1 :
                 tx_store(src, n)[inc(m_tx_out, i)] = m_tx_buffer[inc(m_tx_out, i)]
    BY <1>1, <2>1, <2>3 DEF memcpy, inc, Cell, tx_size
  <2>6. QED
    BY <2>2, <2>4, <2>5
<1>3. CASE ~(m_tx_out > m_tx_in \/ over <= 0)
  <2> DEFINE b == memcpy(m_tx_buffer, m_tx_in, src, 1, n - over)
  <2>1. tx_store(src, n) = memcpy(b, 0, src, n - over + 1, over)
    BY <1>3 DEF tx_store
  <2>2. /\ over \in Nat \ {0} /\ n - over \in Nat /\ n - over + 1 \in Nat \ {0}
        /\ over <= m_tx_out /\ m_tx_out <= m_tx_in /\ n - over = m_max_size - m_tx_in
    BY <1>1, <1>3 DEF tx_size, Cell
  <2>3. b \in [Cell -> Byte]
    BY <1>1, <2>2, MemcpyType, SMTT(30) DEF Cell
  <2>4. tx_store(src, n) \in [Cell -> Byte]
    <3> HIDE DEF b, over
    <3> QED BY <1>1, <2>1, <2>2, <2>3, MemcpyType
  <2>5. \A i \in 0..n-1 : tx_store(src, n)[inc(m_tx_in, i)] = src[i + 1]
    BY <1>1, <2>1, <2>2 DEF memcpy, inc, Cell
  <2>6. \A i \in 0..tx_size-1 :
                 tx_store(src, n)[inc(m_tx_out, i)] = m_tx_buffer[inc(m_tx_out, i)]
    BY <1>1, <1>3, <2>1, <2>2 DEF memcpy, inc, Cell, tx_size
  <2>7. QED
    BY <2>4, <2>5, <2>6
<1>4. QED
  BY <1>2, <1>3, Zenon

\* what write() does to the transmit ring
LEMMA WriteRing ==
    ASSUME IInv, NEW src \in Seq(Byte) \ {<< >>}, write(src)
    PROVE  /\ accepted(Len(src)) \in 0..Len(src) /\ accepted(Len(src)) <= m_max_size - tx_size
           /\ m_tx_buffer' \in [Cell -> Byte] /\ m_tx_in' \in Cell /\ m_tx_full' \in BOOLEAN
           /\ m_tx_out' = m_tx_out
           /\ m_tx_full' => m_tx_in' = m_tx_out'
           /\ tx_size' = tx_size + accepted(Len(src))
           /\ \A i \in 0..tx_size-1 :
                 m_tx_buffer'[inc(m_tx_out, i)] = m_tx_buffer[inc(m_tx_out, i)]
           /\ \A i \in 0..accepted(Len(src))-1 :
                 m_tx_buffer'[inc(m_tx_out, tx_size + i)] = src[i + 1]
<1> DEFINE n == accepted(Len(src))
<1>1. /\ src \in Seq(Byte) /\ Len(src) \in Nat \ {0}
      /\ TypeOK /\ RingsConsistent /\ m_max_size \in Nat \ {0}
  BY SizesAssumption DEF IInv
<1>2. /\ m_tx_in \in Cell /\ m_tx_out \in Cell /\ m_tx_full \in BOOLEAN
      /\ m_tx_buffer \in [Cell -> Byte] /\ (m_tx_full => m_tx_in = m_tx_out)
      /\ tx_size \in 0..m_max_size
  BY <1>1, SizesInRange DEF TypeOK, RingsConsistent
<1>3. n = Least(Len(src), m_max_size - tx_size)
  BY <1>1, AcceptedIsFree
<1>4. n \in 0..Len(src) /\ n <= m_max_size - tx_size
  BY <1>1, <1>2, <1>3 DEF Least
<1>5. CASE m_tx_full
  <2>1. UNCHANGED <<m_tx_buffer, m_tx_in, m_tx_out, m_tx_full>> /\ n = 0
    BY <1>5 DEF write, tx_ring, accepted
  <2>2. QED
    BY <1>2, <1>4, <2>1 DEF tx_size
<1>6. CASE ~m_tx_full
  <2>1. /\ m_tx_buffer' = tx_store(src, n)
        /\ m_tx_in' = inc(m_tx_in, n)
        /\ m_tx_full' = (m_tx_in' = m_tx_out)
        /\ m_tx_out' = m_tx_out
    BY <1>6 DEF write
  <2>2. n > 0
    BY <1>1, <1>2, <1>3, <1>6 DEF Least, tx_size, Cell
  <2>3. tx_size' = tx_size + n /\ m_tx_in' \in Cell
    <3>1. m_tx_in' \in Cell /\ m_tx_in' = inc(m_tx_in, n)
      BY <1>1, <1>2, <1>4, <2>1, IncCell
    <3>2. CASE m_tx_in' = m_tx_out
      <4>1. m_tx_full'
        BY <2>1, <3>2, Zenon
      <4>2. tx_size' = m_max_size
        BY <4>1 DEF tx_size
      <4>3. tx_size + n = m_max_size
        <5>1. tx_size = IF m_tx_in >= m_tx_out THEN m_tx_in - m_tx_out
                        ELSE m_max_size + m_tx_in - m_tx_out
          BY <1>6 DEF tx_size
        <5> HIDE DEF n
        <5>2. QED
          BY <1>1, <1>2, <1>4, <2>2, <3>1, <3>2, <5>1, SMTT(30) DEF inc, Cell
      <4>4. QED
        BY <3>1, <4>2, <4>3
    <3>3. CASE m_tx_in' # m_tx_out
      <4>1. ~m_tx_full'
        BY <2>1, <3>3, Zenon
      <4>2. tx_size' = IF m_tx_in' >= m_tx_out THEN m_tx_in' - m_tx_out
                       ELSE m_max_size + m_tx_in' - m_tx_out
        BY <2>1, <4>1 DEF tx_size
      <4>3. tx_size = IF m_tx_in >= m_tx_out THEN m_tx_in - m_tx_out
                      ELSE m_max_size + m_tx_in - m_tx_out
        BY <1>6 DEF tx_size
      <4>4. QED
        <5> HIDE DEF n
        <5> QED BY <1>1, <1>2, <1>4, <2>2, <3>1, <3>3, <4>2, <4>3 DEF inc, Cell
    <3>4. QED
      BY <3>2, <3>3
  <2>4. \A i \in 0..n-1 : inc(m_tx_out, tx_size + i) = inc(m_tx_in, i)
    BY <1>1, <1>2, <1>4, <1>6 DEF tx_size, inc, Cell
  <2>5. /\ tx_store(src, n) \in [Cell -> Byte]
        /\ \A i \in 0..n-1 : tx_store(src, n)[inc(m_tx_in, i)] = src[i + 1]
        /\ \A i \in 0..tx_size-1 :
              tx_store(src, n)[inc(m_tx_out, i)] = m_tx_buffer[inc(m_tx_out, i)]
    BY <1>1, <1>4, <1>6, TxStore, Zenon
  <2>6. \A i \in 0..n-1 : m_tx_buffer'[inc(m_tx_out, tx_size + i)] = src[i + 1]
    BY <2>1, <2>4, <2>5
  <2>7. m_tx_full' \in BOOLEAN /\ (m_tx_full' => m_tx_in' = m_tx_out')
    BY <2>1, Zenon
  <2>8. QED
    BY <1>4, <2>1, <2>3, <2>5, <2>6, <2>7
<1>7. QED
  BY <1>2, <1>5, <1>6

LEMMA WriteStep ==
    ASSUME IInv, NEW src \in Seq(Byte) \ {<< >>}, write(src)
    PROVE  IInv'
<1>1. /\ m_tx_buffer' \in [Cell -> Byte] /\ m_tx_in' \in Cell /\ m_tx_full' \in BOOLEAN
      /\ m_tx_out' = m_tx_out /\ (m_tx_full' => m_tx_in' = m_tx_out')
  BY WriteRing
<1>2. /\ flush_begin /\ UNCHANGED rx_vars /\ m_open' = m_open /\ link' = link
      /\ (LoopBack => rx_pc = "idle")
  BY DEF write, tx_may_start, rx_vars
<1>3. m_tx_out' \in Cell
  BY <1>1 DEF IInv, TypeOK
<1>4. /\ tx_pc' \in {"idle", "flush"} /\ count' = 0 /\ used_size' \in 0..m_max_size
      /\ tx_pc' # "idle" => used_size' = tx_size' /\ used_size' > 0
  BY <1>1, <1>2, <1>3, FlushBegin
<1>5. WrapSafe' /\ count' \in 0..m_max_size
  BY <1>4, SizesAssumption DEF WrapSafe
<1>6. QED
  BY <1>1, <1>2, <1>3, <1>4, <1>5, SenderStep DEF IInv, TypeOK

LEMMA FlushCallStep == IInv /\ flush => IInv'
<1> SUFFICES ASSUME IInv, flush PROVE IInv'
  OBVIOUS
<1>1. UNCHANGED <<m_tx_buffer, m_tx_in, m_tx_out, m_tx_full>>
  BY DEF flush, tx_ring
<1>2. /\ flush_begin /\ UNCHANGED rx_vars /\ m_open' = m_open /\ link' = link
      /\ (LoopBack => rx_pc = "idle")
  BY DEF flush, tx_may_start, rx_vars
<1>3. m_tx_in' \in Cell /\ m_tx_out' \in Cell /\ m_tx_full' \in BOOLEAN
      /\ (m_tx_full' => m_tx_in' = m_tx_out')
  BY <1>1 DEF IInv, TypeOK, RingsConsistent
<1>4. /\ tx_pc' \in {"idle", "flush"} /\ count' = 0 /\ used_size' \in 0..m_max_size
      /\ tx_pc' # "idle" => used_size' = tx_size' /\ used_size' > 0
  BY <1>2, <1>3, FlushBegin
<1>5. WrapSafe' /\ count' \in 0..m_max_size
  BY <1>4, SizesAssumption DEF WrapSafe
<1>6. QED
  BY <1>1, <1>2, <1>3, <1>4, <1>5, SenderStep DEF IInv, TypeOK

LEMMA TxResetStep == IInv /\ tx_reset => IInv'
<1> SUFFICES ASSUME IInv, tx_reset PROVE IInv'
  OBVIOUS
<1>1. /\ m_tx_in' = m_tx_out /\ m_tx_full' = FALSE /\ tx_pc = "idle"
      /\ UNCHANGED <<m_tx_buffer, m_tx_out, tx_pc, used_size, count, m_open, link>>
      /\ UNCHANGED rx_vars
  BY DEF tx_reset, tx_may_start, rx_vars
<1>2. WrapSafe'
  BY <1>1 DEF WrapSafe
<1>3. QED
  BY <1>1, <1>2, SenderStep, Zenon DEF IInv, TypeOK, RingsConsistent

\* what sending n bytes does to the transmit ring
LEMMA TxAdvance ==
    ASSUME TypeOK, RingsConsistent, NEW n \in 0..tx_size, tx_advance(n)
    PROVE  /\ m_tx_buffer' = m_tx_buffer /\ m_tx_in' = m_tx_in /\ m_tx_out' = inc(m_tx_out, n)
           /\ m_tx_out' \in Cell /\ m_tx_full' \in BOOLEAN
           /\ m_tx_full' => m_tx_in' = m_tx_out'
           /\ tx_size' = tx_size - n
           /\ \A i \in 0..tx_size-n-1 : inc(m_tx_out', i) = inc(m_tx_out, n + i)
<1>1. /\ m_tx_in \in Cell /\ m_tx_out \in Cell /\ m_tx_full \in BOOLEAN
      /\ (m_tx_full => m_tx_in = m_tx_out) /\ tx_size \in 0..m_max_size
      /\ m_max_size \in Nat \ {0} /\ n \in Nat
  BY SizesInRange, SizesAssumption DEF TypeOK, RingsConsistent
<1>2. /\ m_tx_out' = inc(m_tx_out, n) /\ m_tx_full' = (m_tx_full /\ n = 0)
      /\ m_tx_in' = m_tx_in /\ m_tx_buffer' = m_tx_buffer
  BY DEF tx_advance
<1>3. m_tx_out' \in Cell /\ \A i \in 0..tx_size-n-1 : inc(m_tx_out', i) = inc(m_tx_out, n + i)
  BY <1>1, <1>2 DEF inc, Cell
<1>4. CASE n = 0
  <2>1. m_tx_out' = m_tx_out /\ m_tx_full' = m_tx_full
    BY <1>1, <1>2, <1>4 DEF inc, Cell
  <2>2. tx_size' = tx_size
    BY <1>2, <2>1 DEF tx_size
  <2>3. QED
    BY <1>1, <1>2, <1>3, <1>4, <2>1, <2>2
<1>5. CASE n > 0
  <2>a. n # 0
    BY <1>1, <1>5
  <2>1. ~m_tx_full' /\ m_tx_full' \in BOOLEAN
    BY <1>2, <2>a, Zenon
  <2>2. tx_size' = IF m_tx_in >= m_tx_out' THEN m_tx_in - m_tx_out'
                   ELSE m_max_size + m_tx_in - m_tx_out'
    BY <1>2, <2>1 DEF tx_size
  <2>3. tx_size = IF m_tx_full THEN m_max_size
                  ELSE IF m_tx_in >= m_tx_out THEN m_tx_in - m_tx_out
                  ELSE m_max_size + m_tx_in - m_tx_out
    BY DEF tx_size
  <2>4. tx_size' = tx_size - n
    BY <1>1, <1>2, <1>5, <2>2, <2>3 DEF inc, Cell
  <2>5. QED
    BY <1>2, <1>3, <2>1, <2>4
<1>6. QED
  BY <1>1, <1>4, <1>5

\* what the driver's write() does to the medium
LEMMA ComWrite ==
    ASSUME TypeOK, NEW at \in Nat, NEW n \in Nat, at + n <= m_max_size, n <= Free, com_write(at, n)
    PROVE  /\ link' \in Seq(Byte) /\ Len(link') = Len(link) + n /\ Len(link') <= LinkCapacity
           /\ Free' = Free - n
           /\ \A i \in 1..Len(link) : link'[i] = link[i]
           /\ \A i \in 1..n : link'[Len(link) + i] = m_tx_buffer[at + i - 1]
<1> DEFINE sent == [i \in 1..n |-> m_tx_buffer[at + i - 1]]
<1>1. /\ link \in Seq(Byte) /\ Len(link) \in Nat /\ LinkCapacity \in Nat
      /\ m_tx_buffer \in [Cell -> Byte] /\ m_max_size \in Nat \ {0}
  BY SizesAssumption DEF TypeOK
<1>2. sent \in Seq(Byte) /\ Len(sent) = n
  <2>1. \A i \in 1..n : m_tx_buffer[at + i - 1] \in Byte
    BY <1>1 DEF Cell
  <2>2. QED
    BY <2>1
<1>3. link' = link \o sent
  BY DEF com_write
<1> HIDE DEF sent
<1>4. /\ link' \in Seq(Byte) /\ Len(link') = Len(link) + n
      /\ \A i \in 1..Len(link') : link'[i] = IF i <= Len(link) THEN link[i] ELSE sent[i - Len(link)]
  <2> DEFINE c == link \o sent
  <2>1. link \in Seq(Byte) /\ sent \in Seq(Byte)
    BY <1>1, <1>2
  <2>2. /\ c \in Seq(Byte) /\ Len(c) = Len(link) + Len(sent)
        /\ \A i \in 1..Len(link) + Len(sent) : c[i] = IF i <= Len(link) THEN link[i] ELSE sent[i - Len(link)]
    BY <2>1
  <2>3. link' = c
    BY <1>3
  <2> HIDE DEF c
  <2>4. QED
    BY <1>2, <2>2, <2>3, Zenon
<1>5. Free' = Free - n /\ Len(link') <= LinkCapacity
  BY <1>1, <1>4 DEF Free
<1>6. /\ \A i \in 1..n : link'[Len(link) + i] = sent[i]
      /\ \A i \in 1..Len(link) : link'[i] = link[i]
  BY <1>1, <1>4, SMTT(30)
<1>7. \A i \in 1..n : link'[Len(link) + i] = m_tx_buffer[at + i - 1]
  BY <1>6, Zenon DEF sent
<1>8. QED
  BY <1>4, <1>5, <1>6, <1>7

\* every call of the driver's write() in flush() takes its bytes from the ring
LEMMA FlushPacket ==
    ASSUME IInv, tx_pc = "flush"
    PROVE  /\ packet \in 1..tx_size /\ overhang \in Int
           /\ overhang = m_tx_out + packet - m_max_size
           /\ overhang > 0 => packet - overhang \in 1..packet
                              /\ packet - overhang = m_max_size - m_tx_out
BY SizesAssumption, SMTT(30) DEF IInv, TypeOK, RingsConsistent, packet, overhang, Least, Cell

LEMMA FlushLoop ==
    ASSUME IInv, tx_pc # "idle", NEW n \in 0..tx_size, tx_size' = tx_size - n, flush_loop(n)
    PROVE  /\ tx_pc' \in {"idle", "flush"} /\ count' = 0 /\ used_size' \in 0..m_max_size
           /\ tx_pc' # "idle" => used_size' = tx_size' /\ used_size' > 0
<1>1. used_size = tx_size /\ used_size \in 0..m_max_size /\ n \in Nat /\ m_max_size \in Nat
  BY SizesAssumption DEF IInv, TypeOK, RingsConsistent
<1>2. QED
  BY <1>1 DEF flush_loop

LEMMA FlushStraightStep == IInv /\ flush_straight => IInv'
<1> SUFFICES ASSUME IInv, flush_straight PROVE IInv'
  OBVIOUS
<1>1. PICK n \in com_write_returns(packet) :
         com_write(m_tx_out, n) /\ tx_advance(n) /\ flush_loop(n)
  BY DEF flush_straight
<1>2. /\ tx_pc = "flush" /\ overhang <= 0 /\ UNCHANGED rx_vars /\ m_open' = m_open
      /\ TypeOK /\ RingsConsistent
  BY DEF flush_straight, rx_vars, IInv
<1>3. /\ packet \in 1..tx_size /\ overhang = m_tx_out + packet - m_max_size
      /\ tx_size \in 0..m_max_size /\ m_tx_out \in Cell /\ m_max_size \in Nat
  BY <1>2, FlushPacket, SizesInRange, SizesAssumption DEF TypeOK
<1>4. n \in 0..packet /\ n <= Free
  BY <1>2, <1>3, DriverWrites
<1>5. n \in 0..tx_size /\ n \in Nat /\ m_tx_out \in Nat /\ m_tx_out + n <= m_max_size
  BY <1>2, <1>3, <1>4 DEF Cell
<1>6. link' \in Seq(Byte) /\ Len(link') <= LinkCapacity
  BY <1>1, <1>2, <1>4, <1>5, ComWrite
<1>7. /\ m_tx_buffer' = m_tx_buffer /\ m_tx_in' = m_tx_in /\ m_tx_out' \in Cell
      /\ m_tx_full' \in BOOLEAN /\ (m_tx_full' => m_tx_in' = m_tx_out')
      /\ tx_size' = tx_size - n
  BY <1>1, <1>2, <1>5, TxAdvance
<1>8. /\ tx_pc' \in {"idle", "flush"} /\ count' = 0 /\ used_size' \in 0..m_max_size
      /\ tx_pc' # "idle" => used_size' = tx_size' /\ used_size' > 0
  BY <1>1, <1>2, <1>5, <1>7, FlushLoop
<1>9. WrapSafe' /\ count' \in 0..m_max_size /\ (LoopBack => tx_pc' = "idle" \/ rx_pc = "idle")
  BY <1>2, <1>3, <1>8 DEF WrapSafe, TypeOK
<1>10. QED
  BY <1>2, <1>6, <1>7, <1>8, <1>9, SenderStep DEF TypeOK

\* Here the driver contract is used: after a short first write the medium is
\* full and, with one thread, stays full until the second.
LEMMA FlushWrapFirstStep == IInv /\ flush_wrap_first => IInv'
<1> SUFFICES ASSUME IInv, flush_wrap_first PROVE IInv'
  OBVIOUS
<1>1. PICK n \in com_write_returns(packet - overhang) :
         /\ com_write(m_tx_out, n) /\ tx_advance(n)
         /\ IF n > 0
              THEN tx_pc' = "wrap" /\ used_size' = used_size - n /\ count' = overhang
              ELSE flush_loop(n)
  BY DEF flush_wrap_first
<1>2. /\ tx_pc = "flush" /\ overhang > 0 /\ UNCHANGED rx_vars /\ m_open' = m_open
      /\ TypeOK /\ RingsConsistent
  BY DEF flush_wrap_first, rx_vars, IInv
<1>3. /\ packet \in 1..tx_size /\ packet - overhang \in 1..packet /\ overhang \in 1..packet
      /\ packet - overhang = m_max_size - m_tx_out
      /\ tx_size \in 0..m_max_size /\ m_tx_out \in Cell /\ m_max_size \in Nat
      /\ used_size = tx_size
  BY <1>2, FlushPacket, SizesInRange, SizesAssumption, SMTT(30) DEF TypeOK, RingsConsistent, Cell
<1>4. /\ n \in 0..(packet - overhang) /\ n <= Free
      /\ Driver = "shared" => n = packet - overhang \/ n = Free
      /\ Driver = "whole" => n = packet - overhang \/ n = 0
  BY <1>2, <1>3, DriverWrites
<1>5. n \in 0..tx_size /\ n \in Nat /\ m_tx_out \in Nat /\ m_tx_out + n <= m_max_size
  BY <1>2, <1>3, <1>4 DEF Cell
<1>6. link' \in Seq(Byte) /\ Len(link') <= LinkCapacity /\ Free' = Free - n
  BY <1>1, <1>2, <1>4, <1>5, ComWrite
<1>7. /\ m_tx_buffer' = m_tx_buffer /\ m_tx_in' = m_tx_in /\ m_tx_out' \in Cell
      /\ m_tx_out' = inc(m_tx_out, n)
      /\ m_tx_full' \in BOOLEAN /\ (m_tx_full' => m_tx_in' = m_tx_out')
      /\ tx_size' = tx_size - n
  BY <1>1, <1>2, <1>5, TxAdvance
<1>8. LoopBack => rx_pc = "idle"
  BY <1>2 DEF TypeOK
<1>9. CASE n = 0
  <2>1. /\ tx_pc' \in {"idle", "flush"} /\ count' = 0 /\ used_size' \in 0..m_max_size
        /\ tx_pc' # "idle" => used_size' = tx_size' /\ used_size' > 0
    BY <1>1, <1>2, <1>5, <1>7, <1>9, FlushLoop
  <2>2. WrapSafe' /\ count' \in 0..m_max_size
    BY <1>3, <2>1 DEF WrapSafe
  <2>3. QED
    BY <1>2, <1>6, <1>7, <1>8, <2>1, <2>2, SenderStep, SMTT(30) DEF TypeOK
<1>10. CASE n > 0
  <2>1. tx_pc' = "wrap" /\ used_size' = used_size - n /\ count' = overhang
    BY <1>1, <1>10
  <2>2. used_size' = tx_size' /\ used_size' > 0 /\ count' \in 1..used_size'
        /\ used_size' \in 0..m_max_size /\ count' \in 0..m_max_size
    BY <1>3, <1>4, <1>5, <1>7, <2>1
  <2>3. n = packet - overhang => m_tx_out' = 0
    BY <1>3, <1>7 DEF inc, Cell
  <2>4. DriverContract /\ n # packet - overhang => LoopBack /\ Free' = 0
    <3>1. Free \in Int
      BY <1>2, SizesAssumption DEF TypeOK, Free
    <3>2. QED
      BY <1>4, <1>6, <1>10, <3>1 DEF DriverContract
  <2>5. DriverContract => WrapSafe'
    BY <2>3, <2>4 DEF WrapSafe
  <2>6. QED
    BY <1>2, <1>6, <1>7, <1>8, <2>1, <2>2, <2>5, SenderStep, SMTT(30) DEF TypeOK
<1>11. QED
  BY <1>5, <1>9, <1>10

LEMMA FlushWrapSecondStep == IInv /\ flush_wrap_second => IInv'
<1> SUFFICES ASSUME IInv, flush_wrap_second PROVE IInv'
  OBVIOUS
<1>1. PICK n \in com_write_returns(count) :
         com_write(0, n) /\ tx_advance(n) /\ flush_loop(n)
  BY DEF flush_wrap_second
<1>2. /\ tx_pc = "wrap" /\ UNCHANGED rx_vars /\ m_open' = m_open
      /\ TypeOK /\ RingsConsistent
  BY DEF flush_wrap_second, rx_vars, IInv
<1>3. count \in 1..tx_size /\ tx_size \in 0..m_max_size /\ m_max_size \in Nat
  BY <1>2, SizesInRange, SizesAssumption DEF RingsConsistent
<1>4. n \in 0..count /\ n <= Free
  BY <1>2, <1>3, DriverWrites
<1>5. n \in 0..tx_size /\ n \in Nat /\ 0 + n <= m_max_size
  BY <1>3, <1>4
<1>6. link' \in Seq(Byte) /\ Len(link') <= LinkCapacity
  BY <1>1, <1>2, <1>4, <1>5, ComWrite, Zenon
<1>7. /\ m_tx_buffer' = m_tx_buffer /\ m_tx_in' = m_tx_in /\ m_tx_out' \in Cell
      /\ m_tx_full' \in BOOLEAN /\ (m_tx_full' => m_tx_in' = m_tx_out')
      /\ tx_size' = tx_size - n
  BY <1>1, <1>2, <1>5, TxAdvance
<1>8. /\ tx_pc' \in {"idle", "flush"} /\ count' = 0 /\ used_size' \in 0..m_max_size
      /\ tx_pc' # "idle" => used_size' = tx_size' /\ used_size' > 0
  BY <1>1, <1>2, <1>5, <1>7, FlushLoop
<1>9. WrapSafe' /\ count' \in 0..m_max_size /\ (LoopBack => tx_pc' = "idle" \/ rx_pc = "idle")
  BY <1>2, <1>3, <1>8 DEF WrapSafe, TypeOK
<1>10. QED
  BY <1>2, <1>6, <1>7, <1>8, <1>9, SenderStep DEF TypeOK

\* the part of the invariant about the sender, which no receiver step changes
LEMMA ReceiverStep ==
    ASSUME IInv, UNCHANGED tx_vars, LoopBack => tx_pc = "idle",
           link' \in Seq(Byte), Len(link') <= Len(link),
           /\ m_rx_buffer' \in [Cell -> Byte] /\ m_rx_in' \in Cell /\ m_rx_out' \in Cell
           /\ m_rx_full' \in BOOLEAN
           /\ rx_pc' \in {"idle", "second", "body"}
           /\ items' \in Seq(Byte),
           /\ m_rx_full' => m_rx_in' = m_rx_out'
           /\ rx_pc' = "second" => m_rx_in' = 0 /\ (m_rx_full' => m_rx_out' = 0)
    PROVE  IInv'
<1>1. UNCHANGED <<m_tx_buffer, m_tx_in, m_tx_out, m_tx_full, tx_pc, used_size, count, m_open>>
  BY DEF tx_vars
<1>2. tx_size' = tx_size
  BY <1>1 DEF tx_size
<1>3. Len(link') <= LinkCapacity
  BY SizesAssumption DEF IInv, TypeOK
<1>4. TypeOK'
  BY <1>1, <1>3 DEF IInv, TypeOK
<1>5. RingsConsistent'
  BY <1>1, <1>2 DEF IInv, RingsConsistent
<1>6. DriverContract => WrapSafe'
  BY <1>1 DEF IInv, WrapSafe
<1>7. QED
  BY <1>4, <1>5, <1>6 DEF IInv

LEMMA RxRuns ==
    ASSUME IInv, rx_may_start \/ rx_pc # "idle"
    PROVE  LoopBack => tx_pc = "idle"
BY DEF IInv, TypeOK, rx_may_start

\* what the driver's read() does to the medium and to the receive buffer
LEMMA ComRead ==
    ASSUME TypeOK, NEW at \in Nat, NEW n \in Nat, at + n <= m_max_size, n <= Len(link),
           com_read_bytes(at, n)
    PROVE  /\ m_rx_buffer' \in [Cell -> Byte]
           /\ link' \in Seq(Byte) /\ Len(link') = Len(link) - n
           /\ \A i \in 1..Len(link)-n : link'[i] = link[n + i]
           /\ \A i \in 0..n-1 : m_rx_buffer'[at + i] = link[i + 1]
           /\ \A c \in Cell : c < at \/ c >= at + n => m_rx_buffer'[c] = m_rx_buffer[c]
<1>1. /\ link \in Seq(Byte) /\ Len(link) \in Nat
      /\ m_rx_buffer \in [Cell -> Byte] /\ m_max_size \in Nat \ {0}
  BY SizesAssumption DEF TypeOK
<1>2. m_rx_buffer' = memcpy(m_rx_buffer, at, link, 1, n) /\ link' = SubSeq(link, n + 1, Len(link))
  BY DEF com_read_bytes
<1>3. m_rx_buffer' \in [Cell -> Byte]
  BY <1>1, <1>2, MemcpyType
<1>4. /\ link' \in Seq(Byte) /\ Len(link') = Len(link) - n
      /\ \A i \in 1..Len(link)-n : link'[i] = link[n + i]
  BY <1>1, <1>2
<1>5. /\ \A i \in 0..n-1 : m_rx_buffer'[at + i] = link[i + 1]
      /\ \A c \in Cell : c < at \/ c >= at + n => m_rx_buffer'[c] = m_rx_buffer[c]
  BY <1>1, <1>2, SMTT(30) DEF memcpy, Cell
<1>6. QED
  BY <1>3, <1>4, <1>5

LEMMA ComReadSkipStep == IInv /\ com_read_skip => IInv'
<1> SUFFICES ASSUME IInv, com_read_skip PROVE IInv'
  OBVIOUS
<1>1. /\ UNCHANGED <<m_rx_buffer, m_rx_in, m_rx_out, m_rx_full>> /\ UNCHANGED tx_vars
      /\ link' = link /\ rx_pc' = "body" /\ items' = << >>
  BY DEF com_read_skip, rx_ring, tx_vars
<1>2. LoopBack => tx_pc = "idle"
  BY RxRuns DEF com_read_skip
<1>3. items' \in Seq(Byte) /\ Len(link') <= Len(link)
  BY <1>1 DEF IInv, TypeOK
<1>4. QED
  BY <1>1, <1>2, <1>3, ReceiverStep DEF IInv, TypeOK, RingsConsistent

\* com_read() never makes the ring longer than its buffer
LEMMA ComReadFirstRing ==
    ASSUME IInv, com_read_first
    PROVE  \E n \in 0..(m_max_size - m_rx_in) :
             /\ n <= Len(link)
             /\ com_read_bytes(m_rx_in, n)
             /\ m_rx_in' = inc(m_rx_in, n) /\ m_rx_in' \in Cell /\ m_rx_out' = m_rx_out
             /\ m_rx_full' \in BOOLEAN /\ (m_rx_full' => m_rx_in' = m_rx_out)
             /\ rx_size' = rx_size + n
             /\ rx_pc' \in {"second", "body"}
             /\ rx_pc' = "second" => m_rx_in' = 0
<1>1. /\ m_rx_in \in Cell /\ m_rx_out \in Cell /\ ~m_rx_full /\ m_rx_in >= m_rx_out
      /\ m_max_size \in Nat \ {0} /\ TypeOK /\ m_rx_out' = m_rx_out
      /\ rx_size = m_rx_in - m_rx_out
  BY SizesAssumption DEF IInv, TypeOK, com_read_first, rx_size
<1>2. PICK n \in com_read_returns(m_max_size - m_rx_in) :
             /\ com_read_bytes(m_rx_in, n)
             /\ m_rx_in' = inc(m_rx_in, n)
             /\ m_rx_full' = (n > 0 /\ m_rx_in' = m_rx_out)
             /\ rx_pc' = IF n = m_max_size - m_rx_in THEN "second" ELSE "body"
  BY DEF com_read_first
<1>3. n \in 0..(m_max_size - m_rx_in) /\ n <= Len(link)
  <2>1. m_max_size - m_rx_in \in Nat
    BY <1>1 DEF Cell
  <2>2. QED
    BY <1>1, <2>1, DriverReads
<1>4. m_rx_in' \in Cell /\ (rx_pc' = "second" => m_rx_in' = 0)
  BY <1>1, <1>2, <1>3 DEF inc, Cell
<1>5. m_rx_full' \in BOOLEAN /\ (m_rx_full' => m_rx_in' = m_rx_out)
  BY <1>2, Zenon
<1>6. rx_size' = rx_size + n
  <2>1. CASE n > 0 /\ m_rx_in' = m_rx_out
    <3>1. rx_size' = m_max_size
      BY <1>2, <2>1, Zenon DEF rx_size
    <3>2. QED
      BY <1>1, <1>2, <1>3, <2>1, <3>1 DEF inc, Cell
  <2>2. CASE ~(n > 0 /\ m_rx_in' = m_rx_out)
    <3>1. ~m_rx_full'
      BY <1>2, <2>2, Zenon
    <3>2. rx_size' = IF m_rx_in' >= m_rx_out THEN m_rx_in' - m_rx_out
                     ELSE m_max_size + m_rx_in' - m_rx_out
      BY <1>1, <3>1 DEF rx_size
    <3>3. QED
      BY <1>1, <1>2, <1>3, <2>2, <3>2 DEF inc, Cell
  <2>3. QED
    BY <2>1, <2>2
<1>7. QED
  BY <1>1, <1>2, <1>3, <1>4, <1>5, <1>6, SMTT(30)

LEMMA ComReadSecondRing ==
    ASSUME IInv, com_read_second
    PROVE  \E n \in 0..m_rx_out :
             /\ n <= Len(link)
             /\ com_read_bytes(m_rx_in, n)
             /\ m_rx_in' = inc(m_rx_in, n) /\ m_rx_in' \in Cell /\ m_rx_out' = m_rx_out
             /\ m_rx_full' \in BOOLEAN /\ (m_rx_full' => m_rx_in' = m_rx_out)
             /\ rx_size' = rx_size + n
             /\ m_rx_in = 0
<1>1. /\ m_rx_in = 0 /\ m_rx_out \in Cell /\ m_rx_full \in BOOLEAN
      /\ (m_rx_full => m_rx_out = 0)
      /\ m_max_size \in Nat \ {0} /\ TypeOK /\ m_rx_out' = m_rx_out
  BY SizesAssumption DEF IInv, TypeOK, RingsConsistent, com_read_second
<1>2. PICK n \in com_read_returns(m_rx_out) :
             /\ com_read_bytes(0, n)
             /\ m_rx_in' = inc(m_rx_in, n)
             /\ m_rx_full' = IF n > 0 THEN m_rx_in' = m_rx_out ELSE m_rx_full
  BY DEF com_read_second
<1>3. n \in 0..m_rx_out /\ n <= Len(link)
  <2>1. m_rx_out \in Nat
    BY <1>1 DEF Cell
  <2>2. QED
    BY <1>1, <2>1, DriverReads
<1>4. m_rx_in' = n /\ m_rx_in' \in Cell
  BY <1>1, <1>2, <1>3 DEF inc, Cell
<1>5. CASE n = 0
  <2>1. m_rx_full' = m_rx_full /\ m_rx_in' = m_rx_in
    BY <1>1, <1>2, <1>4, <1>5
  <2>2. rx_size' = rx_size + n
    BY <1>1, <1>5, <2>1 DEF rx_size, Cell
  <2>3. m_rx_full' \in BOOLEAN /\ (m_rx_full' => m_rx_in' = m_rx_out)
    BY <1>1, <2>1
  <2>4. com_read_bytes(m_rx_in, n)
    BY <1>1, <1>2
  <2>5. QED
    BY <1>1, <1>2, <1>3, <1>4, <2>2, <2>3, <2>4
<1>6. CASE n > 0
  <2>1. ~m_rx_full
    BY <1>1, <1>3, <1>6
  <2>2. m_rx_full' = (m_rx_in' = m_rx_out)
    BY <1>2, <1>6
  <2>3. rx_size = m_max_size - m_rx_out
    BY <1>1, <1>3, <1>6, <2>1 DEF rx_size, Cell
  <2>4. rx_size' = rx_size + n
    <3>1. CASE n = m_rx_out
      <4>1. m_rx_full'
        BY <1>4, <2>2, <3>1, Zenon
      <4>2. rx_size' = m_max_size
        BY <4>1 DEF rx_size
      <4>3. QED
        BY <1>1, <2>3, <3>1, <4>2 DEF Cell
    <3>2. CASE n # m_rx_out
      <4>1. ~m_rx_full'
        BY <1>4, <2>2, <3>2, Zenon
      <4>2. QED
        BY <1>1, <1>3, <1>4, <2>3, <3>2, <4>1 DEF rx_size, Cell
    <3>3. QED
      BY <3>1, <3>2
  <2>5. QED
    BY <1>1, <1>2, <1>3, <1>4, <2>2, <2>4, Zenon
<1>7. QED
  BY <1>3, <1>5, <1>6

LEMMA ComReadGapRing ==
    ASSUME IInv, com_read_gap
    PROVE  \E n \in 0..(m_rx_out - m_rx_in) :
             /\ n <= Len(link)
             /\ com_read_bytes(m_rx_in, n)
             /\ m_rx_in' = inc(m_rx_in, n) /\ m_rx_in' \in Cell /\ m_rx_out' = m_rx_out
             /\ m_rx_full' \in BOOLEAN /\ (m_rx_full' => m_rx_in' = m_rx_out)
             /\ rx_size' = rx_size + n
<1>1. /\ m_rx_in \in Cell /\ m_rx_out \in Cell /\ ~m_rx_full /\ m_rx_in < m_rx_out
      /\ m_max_size \in Nat \ {0} /\ TypeOK /\ m_rx_out' = m_rx_out
  BY SizesAssumption DEF IInv, TypeOK, com_read_gap
<1>2. PICK n \in com_read_returns(m_rx_out - m_rx_in) :
             /\ com_read_bytes(m_rx_in, n)
             /\ m_rx_in' = inc(m_rx_in, n)
             /\ m_rx_full' = (n > 0 /\ m_rx_in' >= m_rx_out)
  BY DEF com_read_gap
<1>3. n \in 0..(m_rx_out - m_rx_in) /\ n <= Len(link)
  <2>1. m_rx_out - m_rx_in \in Nat
    BY <1>1 DEF Cell
  <2>2. QED
    BY <1>1, <2>1, DriverReads
<1>4. m_rx_in' = m_rx_in + n /\ m_rx_in' \in Cell
  BY <1>1, <1>2, <1>3 DEF inc, Cell
<1>5. rx_size = m_max_size + m_rx_in - m_rx_out
  BY <1>1 DEF rx_size, Cell
<1>6. CASE m_rx_in' = m_rx_out
  <2>1. n > 0 /\ m_rx_in' >= m_rx_out /\ rx_size + n = m_max_size
    BY <1>1, <1>3, <1>4, <1>5, <1>6 DEF Cell
  <2>2. m_rx_full' /\ m_rx_full' \in BOOLEAN
    BY <1>2, <2>1, Zenon
  <2>3. rx_size' = rx_size + n
    BY <2>1, <2>2 DEF rx_size
  <2>4. QED
    BY <1>1, <1>2, <1>3, <1>4, <1>6, <2>2, <2>3, Zenon
<1>7. CASE m_rx_in' # m_rx_out
  <2>1. ~(m_rx_in' >= m_rx_out)
    BY <1>1, <1>3, <1>4, <1>7 DEF Cell
  <2>2. ~m_rx_full' /\ m_rx_full' \in BOOLEAN
    BY <1>2, <2>1, Zenon
  <2>3. rx_size' = rx_size + n
    BY <1>1, <1>3, <1>4, <1>5, <2>1, <2>2 DEF rx_size, Cell
  <2>4. QED
    BY <1>1, <1>2, <1>3, <1>4, <2>2, <2>3, Zenon
<1>8. QED
  BY <1>6, <1>7

LEMMA ComReadFirstStep == IInv /\ com_read_first => IInv'
<1> SUFFICES ASSUME IInv, com_read_first PROVE IInv'
  OBVIOUS
<1>1. PICK n \in 0..(m_max_size - m_rx_in) :
             /\ n <= Len(link)
             /\ com_read_bytes(m_rx_in, n)
             /\ m_rx_in' \in Cell /\ m_rx_out' = m_rx_out
             /\ m_rx_full' \in BOOLEAN /\ (m_rx_full' => m_rx_in' = m_rx_out)
             /\ rx_pc' \in {"second", "body"}
             /\ rx_pc' = "second" => m_rx_in' = 0
  BY ComReadFirstRing, SMTT(30)
<1>2. /\ UNCHANGED tx_vars /\ items' = << >> /\ TypeOK /\ m_rx_in \in Cell /\ m_rx_out' \in Cell
      /\ (LoopBack => tx_pc = "idle")
  BY <1>1, RxRuns DEF com_read_first, tx_vars, IInv, TypeOK
<1>3. m_rx_in \in Nat /\ n \in Nat /\ m_rx_in + n <= m_max_size
  BY <1>2, SizesAssumption, SMTT(30) DEF Cell
<1>4. m_rx_buffer' \in [Cell -> Byte] /\ link' \in Seq(Byte) /\ Len(link') = Len(link) - n
  BY <1>1, <1>2, <1>3, ComRead
<1>5. Len(link') <= Len(link) /\ items' \in Seq(Byte)
  BY <1>2, <1>3, <1>4 DEF TypeOK
<1>6. QED
  BY <1>1, <1>2, <1>4, <1>5, ReceiverStep

LEMMA ComReadSecondStep == IInv /\ com_read_second => IInv'
<1> SUFFICES ASSUME IInv, com_read_second PROVE IInv'
  OBVIOUS
<1>1. PICK n \in 0..m_rx_out :
             /\ n <= Len(link)
             /\ com_read_bytes(m_rx_in, n)
             /\ m_rx_in' \in Cell /\ m_rx_out' = m_rx_out
             /\ m_rx_full' \in BOOLEAN /\ (m_rx_full' => m_rx_in' = m_rx_out)
             /\ m_rx_in = 0
  BY ComReadSecondRing, SMTT(30)
<1>2. /\ UNCHANGED tx_vars /\ items' = items /\ TypeOK /\ m_rx_out \in Cell /\ rx_pc' = "body"
      /\ (LoopBack => tx_pc = "idle")
  BY RxRuns DEF com_read_second, tx_vars, IInv, TypeOK
<1>3. m_rx_in \in Nat /\ n \in Nat /\ m_rx_in + n <= m_max_size
  BY <1>1, <1>2, SizesAssumption, SMTT(30) DEF Cell
<1>4. m_rx_buffer' \in [Cell -> Byte] /\ link' \in Seq(Byte) /\ Len(link') = Len(link) - n
  BY <1>1, <1>2, <1>3, ComRead, Zenon
<1>5. Len(link') <= Len(link) /\ items' \in Seq(Byte)
  BY <1>2, <1>3, <1>4 DEF TypeOK
<1>6. QED
  BY <1>1, <1>2, <1>4, <1>5, ReceiverStep

LEMMA ComReadGapStep == IInv /\ com_read_gap => IInv'
<1> SUFFICES ASSUME IInv, com_read_gap PROVE IInv'
  OBVIOUS
<1>1. PICK n \in 0..(m_rx_out - m_rx_in) :
             /\ n <= Len(link)
             /\ com_read_bytes(m_rx_in, n)
             /\ m_rx_in' \in Cell /\ m_rx_out' = m_rx_out
             /\ m_rx_full' \in BOOLEAN /\ (m_rx_full' => m_rx_in' = m_rx_out)
  BY ComReadGapRing, SMTT(30)
<1>2. /\ UNCHANGED tx_vars /\ items' = << >> /\ TypeOK /\ rx_pc' = "body"
      /\ m_rx_in \in Cell /\ m_rx_out \in Cell /\ (LoopBack => tx_pc = "idle")
  BY RxRuns DEF com_read_gap, tx_vars, IInv, TypeOK
<1>3. m_rx_in \in Nat /\ n \in Nat /\ m_rx_in + n <= m_max_size
  BY <1>1, <1>2, SizesAssumption, SMTT(30) DEF Cell
<1>4. m_rx_buffer' \in [Cell -> Byte] /\ link' \in Seq(Byte) /\ Len(link') = Len(link) - n
  BY <1>1, <1>2, <1>3, ComRead, SMTT(30)
<1>5. Len(link') <= Len(link) /\ items' \in Seq(Byte)
  BY <1>2, <1>3, <1>4 DEF TypeOK
<1>6. QED
  BY <1>1, <1>2, <1>4, <1>5, ReceiverStep

\* what removing n bytes does to the receive ring
LEMMA RxDrop ==
    ASSUME TypeOK, RingsConsistent, NEW n \in 1..rx_size, rx_drop(n)
    PROVE  /\ m_rx_buffer' = m_rx_buffer /\ m_rx_in' = m_rx_in /\ m_rx_out' \in Cell
           /\ m_rx_full' = FALSE
           /\ rx_size' = rx_size - n
           /\ \A i \in 0..rx_size-n-1 : inc(m_rx_out', i) = inc(m_rx_out, n + i)
<1>1. /\ m_rx_in \in Cell /\ m_rx_out \in Cell /\ m_rx_full \in BOOLEAN
      /\ (m_rx_full => m_rx_in = m_rx_out) /\ rx_size \in 0..m_max_size
      /\ m_max_size \in Nat \ {0} /\ n \in Nat /\ n > 0
  BY SizesInRange, SizesAssumption DEF TypeOK, RingsConsistent
<1>2. /\ m_rx_out' = inc(m_rx_out, n) /\ m_rx_full' = FALSE
      /\ m_rx_in' = m_rx_in /\ m_rx_buffer' = m_rx_buffer
  BY DEF rx_drop
<1>3. m_rx_out' \in Cell /\ \A i \in 0..rx_size-n-1 : inc(m_rx_out', i) = inc(m_rx_out, n + i)
  BY <1>1, <1>2 DEF inc, Cell
<1>4. rx_size' = IF m_rx_in >= m_rx_out' THEN m_rx_in - m_rx_out'
                 ELSE m_max_size + m_rx_in - m_rx_out'
  BY <1>2 DEF rx_size
<1>5. rx_size = IF m_rx_full THEN m_max_size
                ELSE IF m_rx_in >= m_rx_out THEN m_rx_in - m_rx_out
                ELSE m_max_size + m_rx_in - m_rx_out
  BY DEF rx_size
<1>6. rx_size' = rx_size - n
  BY <1>1, <1>2, <1>4, <1>5 DEF inc, Cell
<1>7. QED
  BY <1>2, <1>3, <1>6

\* what the read functions return: the oldest bytes of the receive ring
LEMMA RxFetch ==
    ASSUME TypeOK, RingsConsistent, NEW n \in 0..rx_size
    PROVE  /\ rx_fetch(n) \in Seq(Byte) /\ Len(rx_fetch(n)) = n
           /\ \A i \in 1..n : rx_fetch(n)[i] = m_rx_buffer[inc(m_rx_out, i - 1)]
<1>1. /\ m_rx_in \in Cell /\ m_rx_out \in Cell /\ m_rx_full \in BOOLEAN
      /\ (m_rx_full => m_rx_in = m_rx_out) /\ rx_size \in 0..m_max_size
      /\ m_max_size \in Nat \ {0} /\ n \in Nat /\ m_rx_buffer \in [Cell -> Byte]
  BY SizesInRange, SizesAssumption DEF TypeOK, RingsConsistent
<1>2. \A i \in 1..n : rx_fetch(n)[i] = m_rx_buffer[inc(m_rx_out, i - 1)]
  BY <1>1 DEF rx_fetch, inc, Cell, rx_size
<1>3. \A i \in 1..n : rx_fetch(n)[i] \in Byte
  BY <1>1, <1>2 DEF inc, Cell
<1>4. rx_fetch(n) \in Seq(Byte) /\ Len(rx_fetch(n)) = n
  <2>1. rx_fetch(n) = [i \in 1..n |-> rx_fetch(n)[i]]
    BY DEF rx_fetch
  <2>2. QED
    BY <1>1, <1>3, <2>1
<1>5. QED
  BY <1>2, <1>4

LEMMA AvailableSome ==
    ASSUME IInv, ~rx_empty, NEW size \in Nat \ {0}
    PROVE  available(size) \in 1..rx_size
<1>1. size \in Nat \ {0} /\ TypeOK /\ RingsConsistent
  BY SizesAssumption DEF IInv
<1>2. rx_size \in 0..m_max_size /\ rx_size # 0 /\ m_max_size \in Nat
  BY <1>1, SizesInRange, SizesAssumption
<1>3. available(size) = Least(size, rx_size)
  BY <1>1, AvailableIsSize
<1>4. QED
  BY <1>1, <1>2, <1>3 DEF Least

LEMMA ReadStep ==
    ASSUME IInv, NEW size \in Nat \ {0}, read(size) \/ try_read(size) \/ consume_read(size)
    PROVE  IInv'
<1>1. /\ TypeOK /\ RingsConsistent /\ available(size) \in 1..rx_size
      /\ rx_size \in Nat /\ rx_pc = "body" /\ rx_pc' = "idle"
      /\ UNCHANGED tx_vars /\ link' = link /\ (LoopBack => tx_pc = "idle")
  <2>1. rx_pc = "body" /\ ~rx_empty /\ rx_pc' = "idle" /\ UNCHANGED tx_vars /\ link' = link
    BY DEF read, try_read, consume_read, tx_vars
  <2>2. TypeOK /\ RingsConsistent
    BY DEF IInv
  <2>3. QED
    BY <2>1, <2>2, AvailableSome, SizesInRange, SizesAssumption, RxRuns
<1>2. items' \in Seq(Byte)
  <2>1. available(size) \in 0..rx_size
    BY <1>1, SMTT(30)
  <2>2. rx_fetch(available(size)) \in Seq(Byte)
    BY <1>1, <2>1, RxFetch
  <2>3. QED
    BY <1>1, <2>2 DEF read, try_read, consume_read, TypeOK
<1>3. /\ m_rx_buffer' \in [Cell -> Byte] /\ m_rx_in' \in Cell /\ m_rx_out' \in Cell
      /\ m_rx_full' \in BOOLEAN /\ (m_rx_full' => m_rx_in' = m_rx_out')
  <2>1. CASE try_read(size)
    BY <1>1, <2>1, SMTT(30) DEF try_read, rx_ring, TypeOK, RingsConsistent
  <2>2. CASE rx_drop(available(size))
    BY <1>1, <2>2, RxDrop, Zenon DEF TypeOK
  <2>3. QED
    BY <2>1, <2>2 DEF read, consume_read
<1>4. link' \in Seq(Byte) /\ Len(link') <= Len(link)
  BY <1>1, SMTT(30) DEF TypeOK
<1>5. QED
  BY <1>1, <1>2, <1>3, <1>4, ReceiverStep

LEMMA RxReturnStep == IInv /\ rx_return => IInv'
<1> SUFFICES ASSUME IInv, rx_return PROVE IInv'
  OBVIOUS
<1>1. /\ UNCHANGED <<m_rx_buffer, m_rx_in, m_rx_out, m_rx_full, items>> /\ UNCHANGED tx_vars
      /\ link' = link /\ rx_pc' = "idle" /\ rx_pc = "body"
  BY DEF rx_return, rx_ring, tx_vars
<1>2. (LoopBack => tx_pc = "idle") /\ Len(link') <= Len(link)
  BY <1>1, RxRuns, SMTT(30) DEF IInv, TypeOK
<1>3. QED
  BY <1>1, <1>2, ReceiverStep DEF IInv, TypeOK, RingsConsistent

LEMMA RxResetStep == IInv /\ rx_reset => IInv'
<1> SUFFICES ASSUME IInv, rx_reset PROVE IInv'
  OBVIOUS
<1>1. /\ m_rx_in' = m_rx_out /\ m_rx_full' = FALSE
      /\ UNCHANGED <<m_rx_buffer, m_rx_out, rx_pc, items, link>> /\ UNCHANGED tx_vars
      /\ rx_pc = "idle"
  BY DEF rx_reset, rx_may_start, tx_vars
<1>2. (LoopBack => tx_pc = "idle") /\ Len(link') <= Len(link) /\ items' \in Seq(Byte)
  BY <1>1, RxRuns, SMTT(30) DEF rx_reset, IInv, TypeOK
<1>3. QED
  BY <1>1, <1>2, ReceiverStep, ZenonT(30) DEF IInv, TypeOK

LEMMA StutterStep == IInv /\ UNCHANGED vars => IInv'
BY DEF IInv, TypeOK, RingsConsistent, WrapSafe, Free, tx_size, vars

\* the invariant is inductive
LEMMA NextIInv == IInv /\ [Next]_vars => IInv'
<1> SUFFICES ASSUME IInv, [Next]_vars PROVE IInv'
  OBVIOUS
<1>1. CASE open \/ close
  BY <1>1, OpenClose
<1>2. CASE flush
  BY <1>2, FlushCallStep
<1>3. CASE flush_step
  BY <1>3, FlushStraightStep, FlushWrapFirstStep, FlushWrapSecondStep DEF flush_step
<1>4. CASE com_read
  BY <1>4, ComReadSkipStep, ComReadFirstStep, ComReadSecondStep, ComReadGapStep DEF com_read
<1>5. CASE rx_return
  BY <1>5, RxReturnStep
<1>6. CASE \E size \in 1..MaxReadSize : read(size) \/ try_read(size) \/ consume_read(size)
  BY <1>6, ReadStep
<1>7. CASE tx_reset
  BY <1>7, TxResetStep
<1>8. CASE rx_reset
  BY <1>8, RxResetStep
<1>9. CASE \E src \in Items : write(src)
  BY <1>9, WriteStep, ItemsAssumption
<1>10. CASE UNCHANGED vars
  BY <1>10, StutterStep
<1>11. QED
  BY <1>1, <1>2, <1>3, <1>4, <1>5, <1>6, <1>7, <1>8, <1>9, <1>10 DEF Next, Others

\* The inductive invariant holds, with any driver.
THEOREM StreamerInvariant == Spec => []IInv
<1>1. Init => IInv
  BY InitIInv
<1>2. IInv /\ [Next]_vars => IInv'
  BY NextIInv
<1>3. QED
  BY <1>1, <1>2, PTL DEF Spec

\* Whatever the driver answers, the indices of both rings stay inside their
\* buffers, and the local sizes of flush() and com_read() do not underflow.
THEOREM StreamerTypes == Spec => []TypeOK
<1>1. IInv => TypeOK
  BY DEF IInv
<1>2. QED
  BY <1>1, StreamerInvariant, PTL

\* Whatever the driver answers, a full flag is only set on a ring whose indices
\* meet, and used_size of a flush() under way is what the ring still holds, also
\* after a short first write at the wrap.
THEOREM StreamerRingsConsistent == Spec => []RingsConsistent
<1>1. IInv => RingsConsistent
  BY DEF IInv
<1>2. QED
  BY <1>1, StreamerInvariant, PTL

\* With a driver that honours the contract, the second write of a wrapped packet
\* never overtakes bytes left at the end of the buffer.
THEOREM StreamerWrapSafe == ASSUME DriverContract PROVE Spec => []WrapSafe
<1>1. IInv => WrapSafe
  BY DEF IInv
<1>2. QED
  BY <1>1, StreamerInvariant, PTL

-------------------------------------------------------------------------------
(* Refinement: the stream is a FIFO.                                       *)

LEMMA StreamType ==
    ASSUME IInv
    PROVE  /\ rx_size \in Nat /\ tx_size \in Nat /\ Len(link) \in Nat
           /\ stream \in Seq(Byte) /\ Len(stream) = rx_size + Len(link) + tx_size
           /\ \A i \in 1..rx_size : stream[i] = m_rx_buffer[inc(m_rx_out, i - 1)]
           /\ \A i \in 1..Len(link) : stream[rx_size + i] = link[i]
           /\ \A i \in 1..tx_size :
                 stream[rx_size + Len(link) + i] = m_tx_buffer[inc(m_tx_out, i - 1)]
<1> DEFINE L == rx_size + Len(link) + tx_size
<1>1. /\ rx_size \in 0..m_max_size /\ tx_size \in 0..m_max_size /\ Len(link) \in Nat
      /\ m_max_size \in Nat \ {0} /\ link \in Seq(Byte)
      /\ m_rx_buffer \in [Cell -> Byte] /\ m_tx_buffer \in [Cell -> Byte]
      /\ m_rx_out \in Cell /\ m_tx_out \in Cell
  BY SizesInRange, SizesAssumption, SMTT(30) DEF IInv, TypeOK
<1>2. /\ \A i \in 1..rx_size : stream[i] = m_rx_buffer[inc(m_rx_out, i - 1)]
      /\ \A i \in 1..Len(link) : stream[rx_size + i] = link[i]
      /\ \A i \in 1..tx_size :
            stream[rx_size + Len(link) + i] = m_tx_buffer[inc(m_tx_out, i - 1)]
  BY <1>1 DEF stream
<1>3. \A i \in 1..L : stream[i] \in Byte
  <2> SUFFICES ASSUME NEW i \in 1..L PROVE stream[i] \in Byte
    OBVIOUS
  <2>1. CASE i <= rx_size
    <3>1. inc(m_rx_out, i - 1) \in Cell
      BY <1>1, <2>1, IncCell, SMTT(30)
    <3>2. stream[i] = m_rx_buffer[inc(m_rx_out, i - 1)]
      BY <1>1, <1>2, <2>1
    <3>3. QED
      BY <1>1, <3>1, <3>2
  <2>2. CASE i > rx_size /\ i <= rx_size + Len(link)
    BY <1>1, <2>2 DEF stream
  <2>3. CASE i > rx_size + Len(link)
    <3>1. inc(m_tx_out, i - rx_size - Len(link) - 1) \in Cell
      BY <1>1, <2>3, IncCell
    <3>2. stream[i] = m_tx_buffer[inc(m_tx_out, i - rx_size - Len(link) - 1)]
      BY <1>1, <2>3 DEF stream
    <3>3. QED
      BY <1>1, <3>1, <3>2
  <2>4. QED
    BY <1>1, <2>1, <2>2, <2>3
<1>4. stream \in Seq(Byte) /\ Len(stream) = L
  <2>1. stream = [i \in 1..L |-> stream[i]]
    BY DEF stream
  <2>2. L \in Nat
    BY <1>1
  <2>3. QED
    BY <1>3, <2>1, <2>2, SMTT(30)
<1>5. QED
  BY <1>1, <1>2, <1>4, SMTT(30)

\* A sequence that holds the right bytes in the three places is the stream
\* after the step: how every step of the refinement is shown.
LEMMA StreamAfter ==
    ASSUME NEW rs \in Nat, NEW ls \in Nat, NEW ts \in Nat,
           rx_size' = rs, Len(link') = ls, tx_size' = ts,
           NEW s \in Seq(Byte), Len(s) = rs + ls + ts,
           \A i \in 1..rs : s[i] = m_rx_buffer'[inc(m_rx_out', i - 1)],
           \A i \in 1..ls : s[rs + i] = link'[i],
           \A i \in 1..ts : s[rs + ls + i] = m_tx_buffer'[inc(m_tx_out', i - 1)]
    PROVE  stream' = s
<1> DEFINE at(i) == IF i <= rs THEN m_rx_buffer'[inc(m_rx_out', i - 1)]
                    ELSE IF i <= rs + ls THEN link'[i - rs]
                    ELSE m_tx_buffer'[inc(m_tx_out', i - rs - ls - 1)]
<1>1. stream' = [i \in 1..(rs + ls + ts) |-> at(i)]
  BY SMTT(30) DEF stream
<1>2. ASSUME NEW i \in 1..(rs + ls + ts) PROVE s[i] = at(i)
  <2>1. CASE i <= rs
    BY <2>1, SMTT(30)
  <2>2. CASE i > rs /\ i <= rs + ls
    <3> DEFINE j == i - rs
    <3>1. j \in 1..ls /\ i = rs + j
      BY <2>2, SMTT(30)
    <3>2. s[rs + j] = link'[j]
      BY <3>1, SMTT(30)
    <3>3. QED
      BY <2>2, <3>1, <3>2, SMTT(30)
  <2>3. CASE i > rs + ls
    <3> DEFINE j == i - (rs + ls)
    <3>1. j \in 1..ts /\ i = rs + ls + j /\ j - 1 = i - rs - ls - 1
      BY <2>3, SMTT(30)
    <3>2. s[rs + ls + j] = m_tx_buffer'[inc(m_tx_out', j - 1)]
      BY <3>1, Zenon
    <3>3. QED
      BY <2>3, <3>1, <3>2, SMTT(30)
  <2>4. QED
    BY <2>1, <2>2, <2>3, SMTT(30)
<1>3. s = [i \in 1..(rs + ls + ts) |-> s[i]]
  OBVIOUS
<1>4. QED
  <2> HIDE DEF at
  <2> QED BY <1>1, <1>2, <1>3, SMTT(30)

\* sending bytes from the front of the transmit ring leaves the stream alone
LEMMA FlushStutters ==
    ASSUME IInv, NEW at \in Nat, NEW n \in 0..tx_size, n <= Free, at + n <= m_max_size,
           n > 0 => at = m_tx_out,
           com_write(at, n), tx_advance(n), UNCHANGED rx_vars
    PROVE  stream' = stream
<1>1. /\ TypeOK /\ RingsConsistent /\ n \in Nat /\ m_tx_out \in Cell /\ m_max_size \in Nat \ {0}
      /\ tx_size \in 0..m_max_size
  BY SizesInRange, SizesAssumption DEF IInv, TypeOK
<1>2. /\ Len(link') = Len(link) + n
      /\ \A i \in 1..Len(link) : link'[i] = link[i]
      /\ \A i \in 1..n : link'[Len(link) + i] = m_tx_buffer[at + i - 1]
  BY <1>1, ComWrite, Zenon
<1>3. /\ m_tx_buffer' = m_tx_buffer /\ tx_size' = tx_size - n
      /\ \A i \in 0..tx_size-n-1 : inc(m_tx_out', i) = inc(m_tx_out, n + i)
  BY <1>1, TxAdvance
<1>4. m_rx_buffer' = m_rx_buffer /\ m_rx_out' = m_rx_out /\ rx_size' = rx_size
  BY DEF rx_vars, rx_size
<1>5. /\ rx_size \in Nat /\ tx_size \in Nat /\ Len(link) \in Nat
      /\ stream \in Seq(Byte) /\ Len(stream) = rx_size + Len(link) + tx_size
      /\ \A i \in 1..rx_size : stream[i] = m_rx_buffer[inc(m_rx_out, i - 1)]
      /\ \A i \in 1..Len(link) : stream[rx_size + i] = link[i]
      /\ \A i \in 1..tx_size :
            stream[rx_size + Len(link) + i] = m_tx_buffer[inc(m_tx_out, i - 1)]
  BY StreamType, SMTT(30)
<1> HIDE DEF stream
<1>6. \A i \in 1..Len(link)+n : stream[rx_size + i] = link'[i]
  <2> SUFFICES ASSUME NEW i \in 1..Len(link)+n PROVE stream[rx_size + i] = link'[i]
    BY SMTT(30)
  <2>1. CASE i <= Len(link)
    BY <1>1, <1>2, <1>5, <2>1, SMTT(30)
  <2>2. CASE i > Len(link)
    <3> DEFINE j == i - Len(link)
    <3>1. j \in 1..n /\ j \in 1..tx_size /\ i = Len(link) + j /\ n > 0
          /\ rx_size + i = rx_size + Len(link) + j
      BY <1>1, <1>5, <2>2, SMTT(30)
    <3>2. inc(m_tx_out, j - 1) = at + j - 1
      BY <1>1, <3>1 DEF inc, Cell
    <3>3. stream[rx_size + Len(link) + j] = m_tx_buffer[inc(m_tx_out, j - 1)]
      BY <1>5, <3>1, Zenon
    <3>4. link'[Len(link) + j] = m_tx_buffer[at + j - 1]
      BY <1>2, <3>1, SMTT(30)
    <3>5. QED
      BY <3>1, <3>2, <3>3, <3>4, SMTT(30)
  <2>3. QED
    BY <1>1, <1>5, <2>1, <2>2
<1>7. \A i \in 1..tx_size-n :
         stream[rx_size + (Len(link) + n) + i] = m_tx_buffer'[inc(m_tx_out', i - 1)]
  <2> SUFFICES ASSUME NEW i \in 1..tx_size-n
               PROVE  stream[rx_size + (Len(link) + n) + i] = m_tx_buffer'[inc(m_tx_out', i - 1)]
    OBVIOUS
  <2>1. /\ n + i \in 1..tx_size /\ rx_size + (Len(link) + n) + i = rx_size + Len(link) + (n + i)
        /\ i - 1 \in 0..tx_size-n-1 /\ (n + i) - 1 = n + (i - 1)
    <3>1. /\ n \in Nat /\ rx_size \in Nat /\ tx_size \in Nat /\ Len(link) \in Nat
          /\ tx_size - n \in Nat
      BY <1>1, <1>5, SMTT(30)
    <3>2. QED
      BY <3>1
  <2>2. stream[rx_size + Len(link) + (n + i)] = m_tx_buffer[inc(m_tx_out, (n + i) - 1)]
    BY <1>5, <2>1, Zenon
  <2>3. inc(m_tx_out', i - 1) = inc(m_tx_out, n + (i - 1))
    BY <1>3, <2>1, SMTT(30)
  <2>4. QED
    BY <1>3, <2>1, <2>2, <2>3
<1>8. /\ Len(link) + n \in Nat /\ tx_size - n \in Nat
      /\ Len(stream) = rx_size + (Len(link) + n) + (tx_size - n)
  BY <1>1, <1>5, SMTT(30)
<1>9. \A i \in 1..rx_size : stream[i] = m_rx_buffer'[inc(m_rx_out', i - 1)]
  BY <1>4, <1>5, SMTT(30)
<1>10. QED
  BY <1>2, <1>3, <1>4, <1>5, <1>6, <1>7, <1>8, <1>9, StreamAfter, ZenonT(30)

\* moving bytes from the medium to the free cells of the receive ring leaves
\* the stream alone
LEMMA ComReadStutters ==
    ASSUME IInv, NEW n \in Nat, n <= Len(link), m_rx_in + n <= m_max_size,
           rx_size + n <= m_max_size, rx_size' = rx_size + n, m_rx_out' = m_rx_out,
           com_read_bytes(m_rx_in, n), UNCHANGED tx_vars
    PROVE  stream' = stream
<1>1. /\ TypeOK /\ RingsConsistent /\ m_rx_in \in Cell /\ m_rx_out \in Cell
      /\ m_max_size \in Nat \ {0} /\ m_rx_full \in BOOLEAN /\ (m_rx_full => m_rx_in = m_rx_out)
  BY SizesInRange, SizesAssumption DEF IInv, TypeOK, RingsConsistent
<1>2. /\ Len(link') = Len(link) - n
      /\ \A i \in 1..Len(link)-n : link'[i] = link[n + i]
      /\ \A i \in 0..n-1 : m_rx_buffer'[m_rx_in + i] = link[i + 1]
      /\ \A c \in Cell : c < m_rx_in \/ c >= m_rx_in + n => m_rx_buffer'[c] = m_rx_buffer[c]
  <2>1. m_rx_in \in Nat
    BY <1>1 DEF Cell
  <2>2. QED
    BY <1>1, <2>1, ComRead, ZenonT(30)
<1>3. m_tx_buffer' = m_tx_buffer /\ m_tx_out' = m_tx_out /\ tx_size' = tx_size
  BY DEF tx_vars, tx_size
<1>4. /\ rx_size \in Nat /\ tx_size \in Nat /\ Len(link) \in Nat
      /\ stream \in Seq(Byte) /\ Len(stream) = rx_size + Len(link) + tx_size
      /\ \A i \in 1..rx_size : stream[i] = m_rx_buffer[inc(m_rx_out, i - 1)]
      /\ \A i \in 1..Len(link) : stream[rx_size + i] = link[i]
      /\ \A i \in 1..tx_size :
            stream[rx_size + Len(link) + i] = m_tx_buffer[inc(m_tx_out, i - 1)]
  BY StreamType, ZenonT(30)
<1>5. /\ rx_size \in Nat /\ tx_size \in Nat /\ Len(link) \in Nat /\ Len(link) - n \in Nat
      /\ rx_size + n \in Nat
  <2>1. rx_size \in Nat /\ tx_size \in Nat /\ Len(link) \in Nat
    BY <1>4, Zenon
  <2>2. QED
    BY <2>1
<1> HIDE DEF stream
<1>6. \A i \in 1..rx_size+n : stream[i] = m_rx_buffer'[inc(m_rx_out', i - 1)]
  <2> SUFFICES ASSUME NEW i \in 1..rx_size+n
               PROVE  stream[i] = m_rx_buffer'[inc(m_rx_out, i - 1)]
    BY SMTT(30)
  <2>1. CASE i <= rx_size
    <3>1. i \in 1..rx_size
      BY <1>5, <2>1, SMTT(30)
    <3>2. stream[i] = m_rx_buffer[inc(m_rx_out, i - 1)]
      BY <1>4, <3>1, SMTT(30)
    <3>3. /\ inc(m_rx_out, i - 1) \in Cell
          /\ inc(m_rx_out, i - 1) < m_rx_in \/ inc(m_rx_out, i - 1) >= m_rx_in + n
      BY <1>1, <1>5, <3>1, SMTT(30) DEF inc, Cell, rx_size
    <3>4. QED
      BY <1>2, <3>2, <3>3
  <2>2. CASE i > rx_size
    <3> DEFINE j == i - rx_size
    <3>1. j \in 1..n /\ j \in 1..Len(link) /\ i = rx_size + j /\ j - 1 \in 0..n-1
          /\ (j - 1) + 1 = j
      BY <1>5, <2>2, SMTT(30)
    <3>2. inc(m_rx_out, i - 1) = m_rx_in + (j - 1)
      BY <1>1, <1>5, <2>2, SMTT(30) DEF inc, Cell, rx_size
    <3>3. stream[rx_size + j] = link[j]
      BY <1>4, <3>1, Zenon
    <3>4. m_rx_buffer'[m_rx_in + (j - 1)] = link[(j - 1) + 1]
      BY <1>2, <3>1, SMTT(30)
    <3>5. QED
      BY <3>1, <3>2, <3>3, <3>4, SMTT(30)
  <2>3. QED
    BY <1>5, <2>1, <2>2
<1>7. \A i \in 1..Len(link)-n : stream[(rx_size + n) + i] = link'[i]
  <2> SUFFICES ASSUME NEW i \in 1..Len(link)-n PROVE stream[(rx_size + n) + i] = link'[i]
    OBVIOUS
  <2>1. n + i \in 1..Len(link) /\ (rx_size + n) + i = rx_size + (n + i)
    BY <1>5, SMTT(30)
  <2>2. stream[rx_size + (n + i)] = link[n + i]
    BY <1>4, <2>1, SMTT(30)
  <2>3. QED
    BY <1>2, <2>1, <2>2, SMTT(30)
<1>8. \A i \in 1..tx_size :
         stream[(rx_size + n) + (Len(link) - n) + i] = m_tx_buffer'[inc(m_tx_out', i - 1)]
  <2> SUFFICES ASSUME NEW i \in 1..tx_size
               PROVE  stream[(rx_size + n) + (Len(link) - n) + i]
                         = m_tx_buffer[inc(m_tx_out, i - 1)]
    BY <1>3
  <2>1. (rx_size + n) + (Len(link) - n) + i = rx_size + Len(link) + i
    BY <1>5, SMTT(30)
  <2>2. QED
    BY <1>4, <2>1, Zenon
<1>9. stream \in Seq(Byte) /\ Len(stream) = (rx_size + n) + (Len(link) - n) + tx_size
  BY <1>4, <1>5, SMTT(30)
<1>10. Len(link') = Len(link) - n /\ tx_size' = tx_size
  BY <1>2, <1>3
<1>11. QED
  BY <1>5, <1>6, <1>7, <1>8, <1>9, <1>10, StreamAfter, ZenonT(30)

LEMMA DropFront ==
    ASSUME NEW q \in Seq(Byte), NEW n \in 0..Len(q)
    PROVE  /\ SubSeq(q, n + 1, Len(q)) \in Seq(Byte)
           /\ Len(SubSeq(q, n + 1, Len(q))) = Len(q) - n
           /\ \A i \in 1..Len(q)-n : SubSeq(q, n + 1, Len(q))[i] = q[n + i]
OBVIOUS

LEMMA TakeFront ==
    ASSUME NEW q \in Seq(Byte), NEW n \in 0..Len(q)
    PROVE  /\ SubSeq(q, 1, n) \in Seq(Byte)
           /\ Len(SubSeq(q, 1, n)) = n
           /\ \A i \in 1..n : SubSeq(q, 1, n)[i] = q[i]
OBVIOUS

\* removing n bytes from the receive ring removes them from the stream's front
LEMMA DropRefines ==
    ASSUME IInv, NEW n \in 1..rx_size, rx_drop(n), UNCHANGED tx_vars, link' = link
    PROVE  stream' = SubSeq(stream, n + 1, Len(stream))
<1> DEFINE s == SubSeq(stream, n + 1, Len(stream))
<1>1. TypeOK /\ RingsConsistent
  BY DEF IInv
<1>2. /\ m_rx_buffer' = m_rx_buffer /\ rx_size' = rx_size - n
      /\ \A i \in 0..rx_size-n-1 : inc(m_rx_out', i) = inc(m_rx_out, n + i)
  BY <1>1, RxDrop, Zenon
<1>3. m_tx_buffer' = m_tx_buffer /\ m_tx_out' = m_tx_out /\ tx_size' = tx_size
  BY SMTT(30) DEF tx_vars, tx_size
<1>4. /\ rx_size \in Nat /\ tx_size \in Nat /\ Len(link) \in Nat
      /\ stream \in Seq(Byte) /\ Len(stream) = rx_size + Len(link) + tx_size
      /\ \A i \in 1..rx_size : stream[i] = m_rx_buffer[inc(m_rx_out, i - 1)]
      /\ \A i \in 1..Len(link) : stream[rx_size + i] = link[i]
      /\ \A i \in 1..tx_size :
            stream[rx_size + Len(link) + i] = m_tx_buffer[inc(m_tx_out, i - 1)]
  BY StreamType, SMTT(30)
<1>5. /\ rx_size \in Nat /\ tx_size \in Nat /\ Len(link) \in Nat /\ n \in Nat
      /\ rx_size - n \in Nat /\ Len(stream) \in Nat
      /\ Len(stream) = rx_size + Len(link) + tx_size /\ n <= Len(stream)
  BY <1>4, SMTT(30)
<1> HIDE DEF stream
<1>6. /\ s \in Seq(Byte) /\ Len(s) = (rx_size - n) + Len(link) + tx_size
      /\ \A i \in 1..Len(s) : s[i] = stream[n + i]
  BY <1>4, <1>5, DropFront, SMTT(30)
<1> HIDE DEF s
<1>7. \A i \in 1..rx_size-n : s[i] = m_rx_buffer'[inc(m_rx_out', i - 1)]
  <2> SUFFICES ASSUME NEW i \in 1..rx_size-n PROVE s[i] = m_rx_buffer[inc(m_rx_out', i - 1)]
    BY <1>2
  <2>1. /\ i \in 1..Len(s) /\ n + i \in 1..rx_size /\ i - 1 \in 0..rx_size-n-1
        /\ (n + i) - 1 = n + (i - 1)
    BY <1>5, <1>6, SMTT(30)
  <2>2. s[i] = stream[n + i] /\ stream[n + i] = m_rx_buffer[inc(m_rx_out, (n + i) - 1)]
    BY <1>4, <1>6, <2>1, SMTT(30)
  <2>3. QED
    BY <1>2, <2>1, <2>2, SMTT(30)
<1>8. \A i \in 1..Len(link) : s[(rx_size - n) + i] = link'[i]
  <2> SUFFICES ASSUME NEW i \in 1..Len(link) PROVE s[(rx_size - n) + i] = link[i]
    OBVIOUS
  <2>1. (rx_size - n) + i \in 1..Len(s) /\ n + ((rx_size - n) + i) = rx_size + i
    BY <1>5, <1>6, SMTT(30)
  <2>2. QED
    BY <1>4, <1>6, <2>1, SMTT(30)
<1>9. \A i \in 1..tx_size :
         s[(rx_size - n) + Len(link) + i] = m_tx_buffer'[inc(m_tx_out', i - 1)]
  <2> SUFFICES ASSUME NEW i \in 1..tx_size
               PROVE  s[(rx_size - n) + Len(link) + i] = m_tx_buffer[inc(m_tx_out, i - 1)]
    BY <1>3
  <2>1. /\ (rx_size - n) + Len(link) + i \in 1..Len(s)
        /\ n + ((rx_size - n) + Len(link) + i) = rx_size + Len(link) + i
    BY <1>5, <1>6
  <2>2. QED
    BY <1>4, <1>6, <2>1, ZenonT(30)
<1>10. stream' = s
  BY <1>2, <1>3, <1>5, <1>6, <1>7, <1>8, <1>9, StreamAfter, ZenonT(30)
<1>11. QED
  BY <1>10 DEF s

\* write() appends the items it accepts to the stream
LEMMA WriteRefines ==
    ASSUME IInv, NEW src \in Seq(Byte) \ {<< >>}, write(src)
    PROVE  stream' = stream \o SubSeq(src, 1, accepted(Len(src)))
<1> DEFINE n == accepted(Len(src))
           t == SubSeq(src, 1, n)
           s == stream \o t
<1>1. /\ n \in 0..Len(src)
      /\ m_tx_out' = m_tx_out /\ tx_size' = tx_size + n
      /\ \A i \in 0..tx_size-1 :
            m_tx_buffer'[inc(m_tx_out, i)] = m_tx_buffer[inc(m_tx_out, i)]
      /\ \A i \in 0..n-1 : m_tx_buffer'[inc(m_tx_out, tx_size + i)] = src[i + 1]
  BY WriteRing
<1>2. /\ m_rx_buffer' = m_rx_buffer /\ m_rx_out' = m_rx_out /\ rx_size' = rx_size
      /\ link' = link
  BY DEF write, rx_vars, rx_size
<1>3. /\ rx_size \in Nat /\ tx_size \in Nat /\ Len(link) \in Nat
      /\ stream \in Seq(Byte) /\ Len(stream) = rx_size + Len(link) + tx_size
      /\ \A i \in 1..rx_size : stream[i] = m_rx_buffer[inc(m_rx_out, i - 1)]
      /\ \A i \in 1..Len(link) : stream[rx_size + i] = link[i]
      /\ \A i \in 1..tx_size :
            stream[rx_size + Len(link) + i] = m_tx_buffer[inc(m_tx_out, i - 1)]
  BY StreamType
<1> HIDE DEF stream, n
<1>4. t \in Seq(Byte) /\ Len(t) = n /\ \A i \in 1..n : t[i] = src[i]
  BY <1>1, TakeFront, SMTT(30)
<1>5. n \in Nat
  BY <1>1, SMTT(30)
<1>6. /\ rx_size \in Nat /\ tx_size \in Nat /\ Len(link) \in Nat /\ tx_size + n \in Nat
      /\ Len(stream) = rx_size + Len(link) + tx_size
  BY <1>3, <1>5, SMTT(30)
<1> HIDE DEF t
<1>7. /\ s \in Seq(Byte) /\ Len(s) = Len(stream) + n
      /\ \A i \in 1..Len(stream)+n :
            s[i] = IF i <= Len(stream) THEN stream[i] ELSE t[i - Len(stream)]
  <2>1. stream \in Seq(Byte) /\ t \in Seq(Byte) /\ Len(t) = n
    BY <1>3, <1>4
  <2>2. QED
    BY <2>1
<1> HIDE DEF s
<1>8. \A i \in 1..rx_size : s[i] = m_rx_buffer'[inc(m_rx_out', i - 1)]
  <2> SUFFICES ASSUME NEW i \in 1..rx_size PROVE s[i] = m_rx_buffer[inc(m_rx_out, i - 1)]
    BY <1>2
  <2>1. i \in 1..Len(stream)+n /\ i <= Len(stream)
    BY <1>5, <1>6, SMTT(30)
  <2>2. QED
    BY <1>3, <1>7, <2>1, SMTT(30)
<1>9. \A i \in 1..Len(link) : s[rx_size + i] = link'[i]
  <2> SUFFICES ASSUME NEW i \in 1..Len(link) PROVE s[rx_size + i] = link[i]
    BY <1>2
  <2>1. rx_size + i \in 1..Len(stream)+n /\ rx_size + i <= Len(stream)
    BY <1>5, <1>6, SMTT(30)
  <2>2. QED
    BY <1>3, <1>7, <2>1, SMTT(30)
<1>10. \A i \in 1..tx_size+n :
          s[rx_size + Len(link) + i] = m_tx_buffer'[inc(m_tx_out', i - 1)]
  <2> SUFFICES ASSUME NEW i \in 1..tx_size+n
               PROVE  s[rx_size + Len(link) + i] = m_tx_buffer'[inc(m_tx_out, i - 1)]
    BY <1>1, SMTT(30)
  <2>1. CASE i <= tx_size
    <3>1. /\ i \in 1..tx_size /\ i - 1 \in 0..tx_size-1
          /\ rx_size + Len(link) + i \in 1..Len(stream)+n
          /\ rx_size + Len(link) + i <= Len(stream)
      BY <1>5, <1>6, <2>1, SMTT(30)
    <3>2. s[rx_size + Len(link) + i] = stream[rx_size + Len(link) + i]
      BY <1>7, <3>1, SMTT(30)
    <3>3. stream[rx_size + Len(link) + i] = m_tx_buffer[inc(m_tx_out, i - 1)]
      BY <1>3, <3>1, ZenonT(30)
    <3>4. m_tx_buffer'[inc(m_tx_out, i - 1)] = m_tx_buffer[inc(m_tx_out, i - 1)]
      BY <1>1, <3>1, SMTT(30)
    <3>5. QED
      BY <3>2, <3>3, <3>4, SMTT(30)
  <2>2. CASE i > tx_size
    <3> DEFINE j == i - tx_size
               k == rx_size + Len(link) + i
    <3>1. /\ j \in 1..n /\ j - 1 \in 0..n-1 /\ (j - 1) + 1 = j
          /\ i - 1 = tx_size + (j - 1)
          /\ k \in 1..Len(stream)+n /\ ~(k <= Len(stream)) /\ k - Len(stream) = j
      BY <1>5, <1>6, <2>2, SMTT(30)
    <3> HIDE DEF j
    <3>2. s[k] = t[j]
      <4> HIDE DEF k
      <4> QED BY <1>7, <3>1, SMTT(30)
    <3>5. t[j] = src[j]
      BY <1>4, <3>1, SMTT(30)
    <3>3. m_tx_buffer'[inc(m_tx_out, tx_size + (j - 1))] = src[(j - 1) + 1]
      BY <1>1, <3>1, SMTT(30)
    <3>4. QED
      BY <3>1, <3>2, <3>3, <3>5, SMTT(30)
  <2>3. QED
    BY <1>5, <1>6, <2>1, <2>2, SMTT(30)
<1>11. Len(s) = rx_size + Len(link) + (tx_size + n) /\ s \in Seq(Byte)
  BY <1>5, <1>6, <1>7, SMTT(30)
<1>12. rx_size' = rx_size /\ Len(link') = Len(link) /\ tx_size' = tx_size + n
  BY <1>1, <1>2, SMTT(30)
<1>13. stream' = s
  BY <1>6, <1>8, <1>9, <1>10, <1>11, <1>12, StreamAfter, ZenonT(30)
<1>14. QED
  BY <1>13 DEF s, t, n

\* read() and try_read() return the oldest bytes of the stream
LEMMA FetchRefines ==
    ASSUME IInv, NEW n \in 0..rx_size
    PROVE  rx_fetch(n) = SubSeq(stream, 1, n)
<1>1. TypeOK /\ RingsConsistent
  BY DEF IInv
<1>2. /\ rx_fetch(n) \in Seq(Byte) /\ Len(rx_fetch(n)) = n
      /\ \A i \in 1..n : rx_fetch(n)[i] = m_rx_buffer[inc(m_rx_out, i - 1)]
  BY <1>1, RxFetch, SMTT(30)
<1>a. /\ stream \in Seq(Byte) /\ Len(stream) = rx_size + Len(link) + tx_size
      /\ rx_size \in Nat /\ tx_size \in Nat /\ Len(link) \in Nat
      /\ \A i \in 1..rx_size : stream[i] = m_rx_buffer[inc(m_rx_out, i - 1)]
  BY StreamType
<1> HIDE DEF stream
<1>3. stream \in Seq(Byte) /\ n \in 0..Len(stream) /\ n \in Nat
  BY <1>a
<1>4. /\ SubSeq(stream, 1, n) \in Seq(Byte) /\ Len(SubSeq(stream, 1, n)) = n
      /\ \A i \in 1..n : SubSeq(stream, 1, n)[i] = stream[i]
  BY <1>3, TakeFront, SMTT(30)
<1> DEFINE bytes == rx_fetch(n)
           front == SubSeq(stream, 1, n)
<1>5. /\ bytes \in Seq(Byte) /\ Len(bytes) = n /\ front \in Seq(Byte) /\ Len(front) = n
      /\ \A i \in 1..n : bytes[i] = front[i]
  <2>1. \A i \in 1..n : i \in 1..rx_size
    BY <1>a
  <2>2. QED
    BY <1>2, <1>4, <1>a, <2>1, Zenon
<1> HIDE DEF bytes, front
<1>6. bytes = front
  <2>1. Len(bytes) = Len(front) /\ \A i \in 1..Len(bytes) : bytes[i] = front[i]
    BY <1>5
  <2>2. QED
    BY <1>5, <2>1
<1>7. QED
  BY <1>6 DEF bytes, front

\* reset() at the sender forgets the bytes of the transmit ring only
LEMMA TxResetRefines ==
    ASSUME IInv, tx_reset
    PROVE  stream' = SubSeq(stream, 1, Len(stream) - tx_size)
<1> DEFINE n == Len(stream) - tx_size
           s == SubSeq(stream, 1, n)
<1>1. /\ m_tx_in' = m_tx_out /\ m_tx_full' = FALSE /\ m_tx_out' = m_tx_out /\ link' = link
      /\ m_rx_buffer' = m_rx_buffer /\ m_rx_out' = m_rx_out /\ rx_size' = rx_size
      /\ m_tx_out \in Cell
  BY DEF tx_reset, rx_vars, rx_size, IInv, TypeOK
<1>2. tx_size' = 0
  BY <1>1, SizesAssumption, SMTT(30) DEF tx_size, Cell
<1>3. /\ rx_size \in Nat /\ tx_size \in Nat /\ Len(link) \in Nat
      /\ stream \in Seq(Byte) /\ Len(stream) = rx_size + Len(link) + tx_size
      /\ \A i \in 1..rx_size : stream[i] = m_rx_buffer[inc(m_rx_out, i - 1)]
      /\ \A i \in 1..Len(link) : stream[rx_size + i] = link[i]
  BY StreamType, SMTT(30)
<1> HIDE DEF stream
<1>4. n \in 0..Len(stream) /\ n = rx_size + Len(link)
  BY <1>3, SMTT(30)
<1>5. s \in Seq(Byte) /\ Len(s) = rx_size + Len(link) + 0 /\ \A i \in 1..n : s[i] = stream[i]
  BY <1>3, <1>4, TakeFront, SMTT(30)
<1> HIDE DEF s, n
<1>6. \A i \in 1..rx_size : s[i] = m_rx_buffer'[inc(m_rx_out', i - 1)]
  BY <1>1, <1>3, <1>4, <1>5, SMTT(30)
<1>7. \A i \in 1..Len(link) : s[rx_size + i] = link'[i]
  <2> SUFFICES ASSUME NEW i \in 1..Len(link) PROVE s[rx_size + i] = link[i]
    BY <1>1
  <2>1. rx_size + i \in 1..n
    BY <1>3, <1>4
  <2>2. QED
    BY <1>3, <1>5, <2>1
<1>8. Len(link') = Len(link) /\ 0 \in Nat
  BY <1>1
<1>9. \A i \in 1..0 : s[rx_size + Len(link) + i] = m_tx_buffer'[inc(m_tx_out', i - 1)]
  BY SMTT(30)
<1>10. stream' = s
  BY <1>1, <1>2, <1>3, <1>5, <1>6, <1>7, <1>8, <1>9, StreamAfter, ZenonT(30)
<1>11. QED
  BY <1>10, SMTT(30) DEF s, n

\* reset() at the receiver drops the bytes of the receive ring only
LEMMA RxResetRefines ==
    ASSUME IInv, rx_reset
    PROVE  stream' = SubSeq(stream, rx_size + 1, Len(stream))
<1> DEFINE s == SubSeq(stream, rx_size + 1, Len(stream))
<1>1. /\ m_rx_in' = m_rx_out /\ m_rx_full' = FALSE /\ m_rx_out' = m_rx_out /\ link' = link
      /\ m_tx_buffer' = m_tx_buffer /\ m_tx_out' = m_tx_out /\ tx_size' = tx_size
      /\ m_rx_out \in Cell
  BY DEF rx_reset, tx_vars, tx_size, IInv, TypeOK
<1>2. rx_size' = 0
  BY <1>1, SizesAssumption, SMTT(30) DEF rx_size, Cell
<1>3. /\ rx_size \in Nat /\ tx_size \in Nat /\ Len(link) \in Nat
      /\ stream \in Seq(Byte) /\ Len(stream) = rx_size + Len(link) + tx_size
      /\ \A i \in 1..Len(link) : stream[rx_size + i] = link[i]
      /\ \A i \in 1..tx_size :
            stream[rx_size + Len(link) + i] = m_tx_buffer[inc(m_tx_out, i - 1)]
  BY StreamType
<1> HIDE DEF stream
<1>4. rx_size \in 0..Len(stream)
  BY <1>3
<1>5. /\ s \in Seq(Byte) /\ Len(s) = 0 + Len(link) + tx_size
      /\ \A i \in 1..Len(stream)-rx_size : s[i] = stream[rx_size + i]
  BY <1>3, <1>4, DropFront, SMTT(30)
<1> HIDE DEF s
<1>6. \A i \in 1..Len(link) : s[0 + i] = link'[i]
  <2> SUFFICES ASSUME NEW i \in 1..Len(link) PROVE s[0 + i] = link[i]
    BY <1>1
  <2>1. i \in 1..Len(stream)-rx_size /\ 0 + i = i
    BY <1>3, SMTT(30)
  <2>2. QED
    BY <1>3, <1>5, <2>1, SMTT(30)
<1>7. \A i \in 1..tx_size : s[0 + Len(link) + i] = m_tx_buffer'[inc(m_tx_out', i - 1)]
  <2> SUFFICES ASSUME NEW i \in 1..tx_size
               PROVE  s[0 + Len(link) + i] = m_tx_buffer[inc(m_tx_out, i - 1)]
    BY <1>1
  <2> DEFINE j == Len(link) + i
  <2>1. /\ j \in 1..Len(stream)-rx_size /\ 0 + Len(link) + i = j
        /\ rx_size + j = rx_size + Len(link) + i
    BY <1>3
  <2>2. s[j] = stream[rx_size + j]
    BY <1>5, <2>1
  <2>3. QED
    BY <1>3, <2>1, <2>2, SMTT(30)
<1>8. Len(link') = Len(link) /\ 0 \in Nat
  BY <1>1
<1>9. \A i \in 1..0 : s[i] = m_rx_buffer'[inc(m_rx_out', i - 1)]
  BY SMTT(30)
<1>10. stream' = s
  BY <1>1, <1>2, <1>3, <1>5, <1>6, <1>7, <1>8, <1>9, StreamAfter, ZenonT(30)
<1>11. QED
  BY <1>10 DEF s

LEMMA StreamUnchanged ==
    ASSUME UNCHANGED <<m_tx_buffer, m_tx_in, m_tx_out, m_tx_full, link,
                       m_rx_buffer, m_rx_in, m_rx_out, m_rx_full>>
    PROVE  stream' = stream
BY DEF stream, tx_size, rx_size

\* flush() moves bytes from the transmit ring to the medium and keeps them all
LEMMA FlushKeeps ==
    ASSUME DriverContract, IInv, flush_step
    PROVE  stream' = stream
<1>0. /\ rx_size \in Nat /\ tx_size \in Nat /\ Len(link) \in Nat /\ stream \in Seq(Byte)
      /\ Len(stream) = rx_size + Len(link) + tx_size /\ TypeOK /\ RingsConsistent
  BY StreamType, SMTT(30) DEF IInv
<1> HIDE DEF stream
<1>1. UNCHANGED rx_vars /\ items' = items /\ m_tx_out \in Cell /\ m_max_size \in Nat
  BY SizesAssumption DEF flush_step, flush_straight, flush_wrap_first, flush_wrap_second,
                               rx_vars, IInv, TypeOK
<1>2. CASE flush_straight
  <2>1. PICK n \in com_write_returns(packet) : com_write(m_tx_out, n) /\ tx_advance(n)
    BY <1>2 DEF flush_straight
  <2>2. packet \in 1..tx_size /\ m_tx_out + packet <= m_max_size
    <3>1. tx_pc = "flush" /\ overhang <= 0
      BY <1>2 DEF flush_straight
    <3>2. packet \in 1..tx_size /\ overhang = m_tx_out + packet - m_max_size
      BY <3>1, FlushPacket
    <3>3. QED
      BY <1>0, <1>1, <3>1, <3>2 DEF Cell
  <2>3. n \in 0..packet /\ n <= Free
    BY <1>0, <2>2, DriverWrites
  <2>4. n \in 0..tx_size /\ m_tx_out \in Nat /\ m_tx_out + n <= m_max_size
    BY <1>0, <1>1, <2>2, <2>3, SMTT(30) DEF Cell
  <2>5. stream' = stream
    BY <1>1, <2>1, <2>3, <2>4, FlushStutters
  <2>6. QED
    BY <1>1, <2>5
<1>3. CASE flush_wrap_first
  <2>1. PICK n \in com_write_returns(packet - overhang) :
           com_write(m_tx_out, n) /\ tx_advance(n)
    BY <1>3 DEF flush_wrap_first
  <2>2. /\ packet \in 1..tx_size /\ packet - overhang \in 1..packet
        /\ packet - overhang = m_max_size - m_tx_out
    BY <1>3, FlushPacket DEF flush_wrap_first
  <2>3. n \in 0..(packet - overhang) /\ n <= Free
    BY <1>0, <2>2, DriverWrites, SMTT(30)
  <2>4. n \in 0..tx_size /\ m_tx_out \in Nat /\ m_tx_out + n <= m_max_size
    BY <1>0, <1>1, <2>2, <2>3, SMTT(30) DEF Cell
  <2>5. stream' = stream
    BY <1>1, <2>1, <2>3, <2>4, FlushStutters
  <2>6. QED
    BY <1>1, <2>5
<1>4. CASE flush_wrap_second
  <2>1. PICK n \in com_write_returns(count) : com_write(0, n) /\ tx_advance(n)
    BY <1>4 DEF flush_wrap_second
  <2>2. tx_pc = "wrap" /\ count \in 1..tx_size /\ tx_size <= m_max_size
    BY <1>0, <1>4, SizesInRange, SizesAssumption DEF flush_wrap_second, RingsConsistent
  <2>3. n \in 0..count /\ n <= Free
    BY <1>0, <2>2, DriverWrites
  <2>4. n \in 0..tx_size /\ 0 + n <= m_max_size /\ (n > 0 => 0 = m_tx_out)
    <3>1. n > 0 => Free # 0
      BY <2>3, SizesAssumption DEF IInv, TypeOK, Free
    <3>2. QED
      BY <1>0, <1>1, <2>2, <2>3, <3>1, SMTT(30) DEF IInv, WrapSafe
  <2>5. stream' = stream
    BY <1>1, <2>1, <2>3, <2>4, FlushStutters
  <2>6. QED
    BY <1>1, <2>5
<1>5. QED
  BY <1>2, <1>3, <1>4 DEF flush_step

\* com_read() moves bytes from the medium to the receive ring and keeps them all
LEMMA ComReadKeeps ==
    ASSUME IInv, com_read
    PROVE  stream' = stream
<1>0. /\ rx_size \in Nat /\ tx_size \in Nat /\ Len(link) \in Nat /\ stream \in Seq(Byte)
      /\ Len(stream) = rx_size + Len(link) + tx_size /\ TypeOK /\ RingsConsistent
  BY StreamType DEF IInv
<1> HIDE DEF stream
<1>1. UNCHANGED tx_vars /\ m_rx_in \in Cell /\ m_rx_out \in Cell /\ m_max_size \in Nat
      /\ rx_size \in 0..m_max_size
  BY <1>0, SizesInRange, SizesAssumption
     DEF com_read, com_read_skip, com_read_first, com_read_second, com_read_gap,
         tx_vars, TypeOK
<1>2. CASE com_read_skip
  <2>1. stream' = stream
    BY <1>1, <1>2, StreamUnchanged DEF com_read_skip, rx_ring, tx_vars
  <2>2. QED
    BY <1>2, <2>1
<1>3. CASE com_read_first
  <2>1. PICK n \in 0..(m_max_size - m_rx_in) :
           /\ n <= Len(link) /\ com_read_bytes(m_rx_in, n)
           /\ m_rx_out' = m_rx_out /\ rx_size' = rx_size + n
    BY <1>3, ComReadFirstRing
  <2>2. n \in Nat /\ m_rx_in + n <= m_max_size /\ rx_size + n <= m_max_size
    <3>1. rx_size = m_rx_in - m_rx_out
      BY <1>3 DEF com_read_first, rx_size
    <3>2. QED
      BY <1>1, <3>1, SMTT(30) DEF Cell
  <2>3. stream' = stream
    BY <1>1, <2>1, <2>2, ComReadStutters, SMTT(30)
  <2>4. QED
    BY <1>3, <2>3, SMTT(30)
<1>4. CASE com_read_second
  <2>1. PICK n \in 0..m_rx_out :
           /\ n <= Len(link) /\ com_read_bytes(m_rx_in, n) /\ m_rx_in = 0
           /\ m_rx_out' = m_rx_out /\ rx_size' = rx_size + n
    BY <1>4, ComReadSecondRing, SMTT(30)
  <2>2. n \in Nat /\ m_rx_in + n <= m_max_size /\ rx_size + n <= m_max_size
    <3>1. m_rx_full => m_rx_out = 0
      BY <1>0, <1>4 DEF com_read_second, RingsConsistent
    <3>2. QED
      BY <1>1, <2>1, <3>1, SMTT(30) DEF Cell, rx_size
  <2>3. stream' = stream
    BY <1>1, <2>1, <2>2, ComReadStutters
  <2>4. QED
    BY <1>4, <2>3
<1>5. CASE com_read_gap
  <2>1. PICK n \in 0..(m_rx_out - m_rx_in) :
           /\ n <= Len(link) /\ com_read_bytes(m_rx_in, n)
           /\ m_rx_out' = m_rx_out /\ rx_size' = rx_size + n
    BY <1>5, ComReadGapRing, SMTT(30)
  <2>2. n \in Nat /\ m_rx_in + n <= m_max_size /\ rx_size + n <= m_max_size
    <3>1. ~m_rx_full /\ m_rx_in < m_rx_out
      BY <1>5 DEF com_read_gap
    <3>2. QED
      BY <1>1, <2>1, <3>1 DEF Cell, rx_size
  <2>3. stream' = stream
    BY <1>1, <2>1, <2>2, ComReadStutters
  <2>4. QED
    BY <1>5, <2>3
<1>6. QED
  BY <1>2, <1>3, <1>4, <1>5, SMTT(30) DEF com_read

\* every step of the streamer is a step of the abstract stream or leaves it
LEMMA StepRefines ==
    ASSUME DriverContract, IInv, [Next]_vars
    PROVE  [Abstract!Next]_(Abstract!vars)
<1> USE DEF Abstract!vars
<1>1. ASSUME NEW src \in Items, write(src) PROVE Abstract!Next
  <2>0. src \in Seq(Byte) \ {<< >>}
    BY ItemsAssumption
  <2>1. stream' = stream \o SubSeq(src, 1, accepted(Len(src)))
    BY <1>1, <2>0, WriteRefines, Zenon
  <2>2. accepted(Len(src)) \in 0..Len(src)
    BY <1>1, <2>0, WriteRing
  <2>3. items' = items
    BY <1>1 DEF write, rx_vars
  <2>4. Abstract!Write(src)
    BY <2>1, <2>2, <2>3, Zenon DEF Abstract!Write
  <2>5. QED
    BY <2>4 DEF Abstract!Next
<1>2. /\ rx_size \in Nat /\ tx_size \in Nat /\ Len(link) \in Nat /\ stream \in Seq(Byte)
      /\ Len(stream) = rx_size + Len(link) + tx_size /\ TypeOK /\ RingsConsistent
  BY StreamType DEF IInv
<1> HIDE DEF stream
<1>3. rx_size \in 0..Len(stream) /\ tx_size \in 0..Len(stream)
  BY <1>2
<1>4. ASSUME stream' = stream, items' = << >> PROVE Abstract!Next
  <2>1. SubSeq(stream, 1, 0) = << >> /\ 0 \in 0..Len(stream)
    BY <1>2
  <2>2. Abstract!Peek(0)
    BY <1>4, <2>1 DEF Abstract!Peek
  <2>3. QED
    BY <2>1, <2>2 DEF Abstract!Next
<1>5. ASSUME NEW size \in 1..MaxReadSize, read(size) \/ try_read(size) \/ consume_read(size)
      PROVE  [Abstract!Next]_(Abstract!vars)
  <2> DEFINE n == available(size)
  <2>1. ~rx_empty /\ UNCHANGED tx_vars /\ link' = link
    BY <1>5 DEF read, try_read, consume_read, tx_vars
  <2>2. n \in 1..rx_size
    BY <2>1, AvailableSome, SizesAssumption
  <2>3. n \in 0..rx_size /\ n \in 0..Len(stream)
    BY <1>2, <2>2, SMTT(30)
  <2>4. rx_fetch(n) = SubSeq(stream, 1, n)
    BY <2>3, FetchRefines, SMTT(30)
  <2> HIDE DEF n
  <2>5. ASSUME rx_drop(n) PROVE stream' = SubSeq(stream, n + 1, Len(stream))
    BY <2>1, <2>2, <2>5, DropRefines, SMTT(30)
  <2>6. CASE read(size)
    <3>1. Abstract!Read(n)
      BY <2>4, <2>5, <2>6 DEF read, Abstract!Read, n
    <3>2. QED
      BY <2>3, <3>1, SMTT(30) DEF Abstract!Next
  <2>7. CASE try_read(size)
    <3>1. stream' = stream
      BY <2>1, <2>7, StreamUnchanged DEF try_read, rx_ring, tx_vars
    <3>2. Abstract!Peek(n)
      BY <2>4, <2>7, <3>1 DEF try_read, Abstract!Peek, n
    <3>3. QED
      BY <2>3, <3>2, SMTT(30) DEF Abstract!Next
  <2>8. CASE consume_read(size)
    <3>1. stream' = SubSeq(stream, n + 1, Len(stream)) /\ items' = items
      BY <2>5, <2>8 DEF consume_read, n
    <3>2. Abstract!Consume(n)
      BY <3>1 DEF Abstract!Consume
    <3>3. QED
      BY <2>3, <3>2 DEF Abstract!Next
  <2>9. QED
    BY <1>5, <2>6, <2>7, <2>8, SMTT(30)
<1>6. CASE tx_reset
  <2>1. Abstract!Forget(tx_size)
    BY <1>6, TxResetRefines, Zenon DEF tx_reset, rx_vars, Abstract!Forget
  <2>2. QED
    BY <1>3, <2>1, SMTT(30) DEF Abstract!Next
<1>7. CASE rx_reset
  <2>1. Abstract!Consume(rx_size)
    BY <1>7, RxResetRefines, Zenon DEF rx_reset, Abstract!Consume
  <2>2. QED
    BY <1>3, <2>1 DEF Abstract!Next
<1>8. CASE flush_step
  <2>1. items' = items
    BY <1>8 DEF flush_step, flush_straight, flush_wrap_first, flush_wrap_second, rx_vars
  <2>2. QED
    BY <1>8, <2>1, FlushKeeps, SMTT(30)
<1>9. CASE com_read
  <2>1. stream' = stream
    BY <1>9, ComReadKeeps, SMTT(30)
  <2>2. items' = << >> \/ items' = items
    BY <1>9 DEF com_read, com_read_skip, com_read_first, com_read_second, com_read_gap
  <2>3. QED
    BY <1>4, <2>1, <2>2
<1>10. CASE open \/ close \/ flush \/ rx_return
  <2>1. UNCHANGED <<m_tx_buffer, m_tx_in, m_tx_out, m_tx_full, link,
                    m_rx_buffer, m_rx_in, m_rx_out, m_rx_full, items>>
    BY <1>10, SMTT(30) DEF open, close, flush, rx_return, tx_ring, tx_vars, rx_ring, rx_vars
  <2>2. QED
    BY <2>1, StreamUnchanged, SMTT(30)
<1>11. CASE UNCHANGED vars
  <2>1. UNCHANGED <<m_tx_buffer, m_tx_in, m_tx_out, m_tx_full, link,
                    m_rx_buffer, m_rx_in, m_rx_out, m_rx_full, items>>
    BY <1>11 DEF vars
  <2>2. QED
    BY <2>1, StreamUnchanged
<1>12. QED
  BY <1>1, <1>5, <1>6, <1>7, <1>8, <1>9, <1>10, <1>11, SMTT(30) DEF Next, Others

\* With a driver that honours the contract, the transmit ring, the medium and
\* the receive ring implement one lossless FIFO byte stream: write() appends,
\* read(), try_read() and consume_read() see the oldest bytes, and flush() and
\* com_read() never lose, repeat or reorder a byte.
THEOREM StreamerImplementsByteStream == DriverContract => (Spec => IsByteStream)
<1> SUFFICES ASSUME DriverContract PROVE Spec => IsByteStream
  OBVIOUS
<1>1. Init => Abstract!Init
  <2> SUFFICES ASSUME Init PROVE stream = << >> /\ items = << >>
    BY DEF Abstract!Init
  <2>1. IInv
    BY InitIInv
  <2>2. tx_size = 0 /\ rx_size = 0 /\ Len(link) = 0 /\ items = << >>
    BY SizesAssumption, SMTT(30) DEF Init, tx_size, rx_size
  <2>3. stream \in Seq(Byte) /\ Len(stream) = 0
    <3>1. stream \in Seq(Byte) /\ Len(stream) = rx_size + Len(link) + tx_size
      BY <2>1, StreamType, Zenon
    <3>2. QED
      BY <2>2, <3>1
  <2>4. QED
    BY <2>2, <2>3
<1>2. Init => IInv
  BY InitIInv
<1>3. IInv /\ [Next]_vars => IInv'
  BY NextIInv
<1>4. IInv /\ [Next]_vars => [Abstract!Next]_(Abstract!vars)
  BY StepRefines
<1>5. QED
  BY <1>1, <1>2, <1>3, <1>4, PTL DEF Spec, IsByteStream, Abstract!Spec

\* write() appends to the stream exactly the accepted prefix of its items, with
\* any driver.
THEOREM StreamerWriteAppends == Spec => WriteAppends
<1> DEFINE Appends == \A src \in Items :
              write(src) => stream' = stream \o SubSeq(src, 1, accepted(Len(src)))
<1>1. Init => IInv
  BY InitIInv
<1>2. IInv /\ [Next]_vars => IInv'
  BY NextIInv
<1>3. IInv => Appends
  BY WriteRefines, ItemsAssumption, Zenon
<1>4. QED
  BY <1>1, <1>2, <1>3, PTL DEF Spec, WriteAppends

\* Moving bytes conserves them: no step of flush() or com_read() changes the
\* stream, with any ring positions, packet size and capacity of the medium.
THEOREM StreamerTransportConserves == DriverContract => (Spec => TransportConserves)
<1> SUFFICES ASSUME DriverContract PROVE Spec => TransportConserves
  OBVIOUS
<1> DEFINE Keeps == flush_step \/ com_read => stream' = stream
<1>1. Init => IInv
  BY InitIInv
<1>2. IInv /\ [Next]_vars => IInv'
  BY NextIInv
<1>3. IInv => Keeps
  BY FlushKeeps, ComReadKeeps
<1>4. QED
  BY <1>1, <1>2, <1>3, PTL DEF Spec, TransportConserves

===============================================================================
