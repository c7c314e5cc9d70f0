-------------------------- MODULE StreamerTestProofs --------------------------
(***************************************************************************)
(* The streamer test passes for every size of the ring, the packets, the   *)
(* medium, the block and its pieces, with the driver of the repository and *)
(* both ends in one thread.                                                *)
(***************************************************************************)
EXTENDS StreamerTest, StreamerProofs

\* the solver the steps without one of their own go to
USE SMTT(30)

-------------------------------------------------------------------------------
(* The inductive invariant.                                                *)

Empty == tx_size = 0 /\ rx_size = 0 /\ Len(link) = 0

\* what flush() leaves in the ring, it leaves because the medium is full
Pushed == tx_pc = "idle" => tx_size = 0 \/ Free = 0 \/ rx_size > 0 \/ test_pc = "flush"

\* com_read() leaves the ring empty only when the medium is empty
Pulled ==
    /\ rx_pc = "body" /\ rx_size = 0 => Len(link) = 0
    /\ rx_pc = "second" => rx_size > 0

TestTypes ==
    /\ test_pc \in {"opening", "round", "send", "poll", "read", "flush", "done"}
    /\ m_open <=> test_pc # "opening"
    /\ i_write \in 0..MEM_SIZE /\ mem_2 \in Seq(Byte) /\ n_read \in Nat
    /\ test_pc = "read" => n_read > 0

Progress ==
    /\ test_pc \in {"opening", "round", "done"} => tx_pc = "idle" /\ rx_pc = "idle" /\ Empty
    /\ test_pc = "flush" => tx_pc = "idle" /\ rx_pc = "idle"
    /\ test_pc = "send" =>
          /\ rx_pc = "idle" /\ rx_size = 0 /\ fills(Len(mem_2))
          /\ i_write < MEM_SIZE /\ randSize \in 1..MaxChunk /\ i_write + randSize <= MEM_SIZE
    /\ test_pc \in {"opening", "round", "poll", "read", "flush"} => i_write = MEM_SIZE \/ fills(i_write)
    /\ test_pc = "done" => i_write = MEM_SIZE

\* every byte written is received or on its way
Conserved ==
    /\ Len(mem_2) + Len(stream) = i_write
    /\ \A i \in 1..Len(mem_2) : mem_2[i] = i
    /\ \A i \in 1..Len(stream) : stream[i] = Len(mem_2) + i

TestInv == IInv /\ TestTypes /\ Progress /\ Pushed /\ Pulled /\ Conserved

\* the driver of the repository, and both ends in one thread
Looped == Driver = "shared" /\ LoopBack /\ LinkCapacity > 0

-------------------------------------------------------------------------------
(* What the calls of the streamer leave behind.                            *)

LEMMA FillsNext ==
    ASSUME NEW i \in Nat, fills(i)
    PROVE  fills(i + m_max_size + LinkCapacity)
<1> DEFINE c == m_max_size + LinkCapacity
<1>1. c \in Nat \ {0} /\ i + m_max_size + LinkCapacity = i + c
  BY SizesAssumption
<1>2. PICK k \in 0..i : i = k * c
  BY Zenon DEF fills
<1> HIDE DEF c
<1>3. k + 1 \in 0..i + c /\ (k + 1) * c = i + c
  BY <1>1, <1>2
<1> QED
  BY <1>1, <1>3, Zenon DEF fills, c

\* flush() ends with an empty ring or with a full medium
LEMMA FlushPushes ==
    ASSUME Looped, IInv, flush_step
    PROVE  tx_pc' = "idle" => tx_size' = 0 \/ Free' = 0
<1>1. /\ TypeOK /\ RingsConsistent /\ tx_size \in Nat /\ Free \in Nat /\ tx_pc # "idle"
      /\ used_size = tx_size /\ used_size > 0 /\ m_tx_out \in Cell /\ m_max_size \in Nat \ {0}
  <2>1. TypeOK /\ RingsConsistent /\ tx_pc # "idle"
    BY Zenon DEF IInv, flush_step, flush_straight, flush_wrap_first, flush_wrap_second
  <2>2. tx_size \in 0..m_max_size
    BY <2>1, SizesInRange, Zenon
  <2>3. Len(link) \in Nat /\ Len(link) <= LinkCapacity /\ LinkCapacity \in Nat
    BY <2>1, SizesAssumption DEF TypeOK
  <2>4. Free \in Nat
    BY <2>3 DEF Free
  <2> QED
    BY <2>1, <2>2, <2>4, SizesAssumption DEF TypeOK, RingsConsistent
<1>2. ASSUME NEW at \in Nat, NEW len \in 1..tx_size, NEW n \in com_write_returns(len),
             at + len <= m_max_size, com_write(at, n), tx_advance(n)
      PROVE  /\ n \in 0..tx_size /\ tx_size' = tx_size - n /\ Free' = Free - n
             /\ n = 0 => Free = 0
  <2>1. n \in 0..len /\ n <= Free /\ (n = len \/ n = Free)
    BY <1>1, DriverWrites DEF Looped
  <2>2. n \in 0..tx_size /\ n \in Nat /\ at + n <= m_max_size
    BY <1>1, <1>2, <2>1
  <2>3. tx_size' = tx_size - n
    BY <1>1, <1>2, <2>2, TxAdvance, Zenon
  <2>4. Free' = Free - n
    BY <1>1, <1>2, <2>1, <2>2, ComWrite, ZenonT(30)
  <2> QED
    BY <1>1, <2>1, <2>2, <2>3, <2>4
<1>3. ASSUME NEW n \in 0..tx_size, tx_size' = tx_size - n, Free' = Free - n, n = 0 => Free = 0,
             flush_loop(n), tx_pc' = "idle"
      PROVE  tx_size' = 0 \/ Free' = 0
  BY <1>1, <1>3 DEF flush_loop
<1>4. CASE flush_straight
  <2>1. PICK n \in com_write_returns(packet) : com_write(m_tx_out, n) /\ tx_advance(n) /\ flush_loop(n)
    BY <1>4, Zenon DEF flush_straight
  <2>2. packet \in 1..tx_size /\ m_tx_out \in Nat /\ m_tx_out + packet <= m_max_size
    BY <1>1, <1>4, FlushPacket DEF flush_straight, Cell
  <2>3. n \in 0..tx_size /\ tx_size' = tx_size - n /\ Free' = Free - n /\ (n = 0 => Free = 0)
    BY <1>2, <2>1, <2>2, ZenonT(30)
  <2> QED
    BY <1>3, <2>1, <2>3, ZenonT(30)
<1>5. CASE flush_wrap_first
  <2>1. PICK n \in com_write_returns(packet - overhang) :
           /\ com_write(m_tx_out, n) /\ tx_advance(n)
           /\ IF n > 0 THEN tx_pc' = "wrap" ELSE flush_loop(n)
    BY <1>5, Zenon DEF flush_wrap_first
  <2>2. packet - overhang \in 1..tx_size /\ m_tx_out \in Nat /\ m_tx_out + (packet - overhang) <= m_max_size
    BY <1>1, <1>5, FlushPacket DEF flush_wrap_first, Cell
  <2>3. n \in 0..tx_size /\ tx_size' = tx_size - n /\ Free' = Free - n /\ (n = 0 => Free = 0)
    BY <1>2, <2>1, <2>2, ZenonT(30)
  <2> QED
    BY <1>3, <2>1, <2>3, ZenonT(30)
<1>6. CASE flush_wrap_second
  <2>1. PICK n \in com_write_returns(count) : com_write(0, n) /\ tx_advance(n) /\ flush_loop(n)
    BY <1>6, Zenon DEF flush_wrap_second
  <2>2. count \in 1..tx_size /\ 0 \in Nat /\ 0 + count <= m_max_size
    BY <1>1, <1>6 DEF flush_wrap_second, RingsConsistent, TypeOK
  <2>3. n \in 0..tx_size /\ tx_size' = tx_size - n /\ Free' = Free - n /\ (n = 0 => Free = 0)
    BY <1>2, <2>1, <2>2, Zenon
  <2> QED
    BY <1>3, <2>1, <2>3, ZenonT(30)
<1> QED
  BY <1>4, <1>5, <1>6, Zenon DEF flush_step

LEMMA EmptyRing ==
    ASSUME IInv', tx_empty'
    PROVE  tx_size' = 0
<1>1. \A x \in Cell : x - x = 0 /\ x >= x
  BY SizesAssumption DEF Cell
<1>2. m_tx_in' \in Cell /\ m_tx_out' = m_tx_in' /\ ~m_tx_full'
  BY Zenon DEF IInv, TypeOK, tx_empty
<1>3. tx_size' = m_tx_in' - m_tx_in'
  BY <1>1, <1>2, Zenon DEF tx_size
<1> QED
  BY <1>1, <1>2, <1>3, Zenon

\* com_read() leaves the ring empty only when it has found the medium empty
LEMMA ReadPulls ==
    ASSUME Looped, IInv, Pulled, com_read
    PROVE  Pulled' /\ rx_pc' # "idle" /\ (rx_size > 0 \/ Len(link) > 0 => rx_size' > 0)
<1>1. /\ TypeOK /\ RingsConsistent /\ rx_size \in 0..m_max_size /\ Len(link) \in Nat
      /\ m_rx_in \in Cell /\ m_rx_out \in Cell /\ m_max_size \in Nat \ {0}
  <2>1. TypeOK /\ RingsConsistent
    BY Zenon DEF IInv
  <2> QED
    BY <2>1, SizesInRange, SizesAssumption DEF TypeOK
<1>2. ASSUME NEW len \in Nat \ {0}, NEW n \in com_read_returns(len)
      PROVE  n \in 0..len /\ n <= Len(link) /\ (n = 0 => Len(link) = 0)
  BY <1>1 DEF com_read_returns, Looped, Least
<1>3. ASSUME NEW at \in Nat, NEW n \in Nat, at + n <= m_max_size, n <= Len(link), com_read_bytes(at, n)
      PROVE  Len(link') = Len(link) - n
  BY <1>1, <1>3, ComRead, Zenon
<1>4. CASE com_read_skip
  <2>1. rx_size' = m_max_size /\ rx_pc' = "body"
    BY <1>4, Zenon DEF com_read_skip, rx_ring, rx_size
  <2> QED
    BY <1>1, <2>1 DEF Pulled
<1>5. CASE com_read_first
  <2> DEFINE len == m_max_size - m_rx_in
  <2>1. PICK n \in com_read_returns(len) :
           com_read_bytes(m_rx_in, n) /\ rx_pc' = IF n = len THEN "second" ELSE "body"
    BY <1>5, Zenon DEF com_read_first
  <2>2. len \in Nat \ {0} /\ m_rx_in \in Nat /\ m_rx_in + len <= m_max_size
    BY <1>1 DEF Cell
  <2>3. PICK k \in 0..len : k <= Len(link) /\ com_read_bytes(m_rx_in, k) /\ rx_size' = rx_size + k
    BY <1>5, ComReadFirstRing, ZenonT(30)
  <2> HIDE DEF len
  <2>4. n \in 0..len /\ n <= Len(link) /\ (n = 0 => Len(link) = 0)
    BY <1>2, <2>1, <2>2, ZenonT(30)
  <2>5. Len(link') = Len(link) - n /\ Len(link') = Len(link) - k
    <3>1. m_rx_in + n <= m_max_size /\ m_rx_in + k <= m_max_size /\ n \in Nat /\ k \in Nat
      BY <1>1, <2>2, <2>3, <2>4
    <3> QED
      BY <1>3, <2>1, <2>2, <2>3, <2>4, <3>1, ZenonT(30)
  <2>6. rx_size' = rx_size + n /\ rx_size' \in Nat
    BY <1>1, <2>3, <2>4, <2>5
  <2> QED
    BY <1>1, <2>1, <2>2, <2>4, <2>5, <2>6 DEF Pulled
<1>6. CASE com_read_second
  <2>1. PICK k \in 0..m_rx_out : rx_size' = rx_size + k
    BY <1>6, ComReadSecondRing, Zenon
  <2>2. rx_pc = "second" /\ rx_pc' = "body" /\ rx_size > 0
    BY <1>6, Zenon DEF com_read_second, Pulled
  <2>3. rx_size' > 0
    BY <1>1, <2>1, <2>2 DEF Cell
  <2> QED
    BY <2>2, <2>3 DEF Pulled
<1>7. CASE com_read_gap
  <2> DEFINE len == m_rx_out - m_rx_in
  <2>1. PICK n \in com_read_returns(len) : com_read_bytes(m_rx_in, n)
    BY <1>7, Zenon DEF com_read_gap
  <2>2. /\ len \in Nat \ {0} /\ m_rx_in \in Nat /\ m_rx_in + len <= m_max_size
        /\ rx_pc' = "body" /\ rx_size \in Nat
    BY <1>1, <1>7 DEF com_read_gap, Cell
  <2>3. PICK k \in 0..len : k <= Len(link) /\ com_read_bytes(m_rx_in, k) /\ rx_size' = rx_size + k
    BY <1>7, ComReadGapRing, Zenon
  <2> HIDE DEF len
  <2>4. n \in 0..len /\ n <= Len(link) /\ (n = 0 => Len(link) = 0)
    BY <1>2, <2>1, <2>2, ZenonT(30)
  <2>5. Len(link') = Len(link) - n /\ Len(link') = Len(link) - k
    <3>1. m_rx_in + n <= m_max_size /\ m_rx_in + k <= m_max_size /\ n \in Nat /\ k \in Nat
      BY <1>1, <2>2, <2>3, <2>4
    <3> QED
      BY <1>3, <2>1, <2>2, <2>3, <2>4, <3>1, ZenonT(30)
  <2> QED
    BY <1>1, <2>2, <2>3, <2>4, <2>5 DEF Pulled
<1> QED
  BY <1>4, <1>5, <1>6, <1>7, ZenonT(30) DEF com_read

-------------------------------------------------------------------------------
(* The steps of the test.                                                  *)

LEMMA TestFacts ==
    ASSUME TestInv
    PROVE  /\ TypeOK /\ RingsConsistent
           /\ tx_size \in 0..m_max_size /\ rx_size \in 0..m_max_size
           /\ tx_size \in Nat /\ rx_size \in Nat /\ Len(link) \in Nat
           /\ stream \in Seq(Byte) /\ Len(stream) = rx_size + Len(link) + tx_size
           /\ Len(stream) \in Nat /\ Len(mem_2) \in Nat /\ i_write \in Nat
<1>1. TypeOK /\ RingsConsistent
  BY Zenon DEF TestInv, IInv
<1>2. tx_size \in 0..m_max_size /\ rx_size \in 0..m_max_size
  BY <1>1, SizesInRange, Zenon
<1>3. /\ rx_size \in Nat /\ tx_size \in Nat /\ Len(link) \in Nat
      /\ stream \in Seq(Byte) /\ Len(stream) = rx_size + Len(link) + tx_size
  BY StreamType, Zenon DEF TestInv
<1>4. Len(mem_2) \in Nat /\ i_write \in Nat
  BY TestAssumption DEF TestInv, TestTypes
<1> QED
  BY <1>1, <1>2, <1>3, <1>4

LEMMA TestInitOK == TestInit => TestInv
<1> SUFFICES ASSUME TestInit PROVE TestInv
  BY Zenon
<1>1. IInv
  <2>1. 0 \in Byte
    BY TestAssumption
  <2> QED
    BY <2>1, InitIInv, Zenon DEF TestInit
<1>2. /\ tx_pc = "idle" /\ rx_pc = "idle" /\ m_open = FALSE /\ test_pc = "opening"
      /\ i_write = 0 /\ mem_2 = << >> /\ n_read = 0 /\ Empty
  BY SizesAssumption DEF TestInit, Init, Empty, tx_size, rx_size
<1>3. TestTypes
  BY <1>2, TestAssumption DEF TestTypes
<1>4. fills(0)
  BY SizesAssumption DEF fills
<1>5. Progress /\ Pushed /\ Pulled
  BY <1>2, <1>4, Zenon DEF Progress, Pushed, Pulled, Empty
<1>6. Len(stream) = 0
  <2>1. Len(stream) = rx_size + Len(link) + tx_size
    BY <1>1, StreamType, Zenon
  <2> QED
    BY <1>2, <2>1 DEF Empty
<1>7. Conserved
  BY <1>2, <1>6 DEF Conserved
<1> QED
  BY <1>1, <1>3, <1>5, <1>7, Zenon DEF TestInv

LEMMA OpeningStep ==
    ASSUME TestInv, Opening
    PROVE  TestInv'
<1>1. /\ open /\ test_pc = "opening" /\ test_pc' = "round"
      /\ UNCHANGED <<i_write, randSize, mem_2, n_read>>
      /\ UNCHANGED <<m_tx_buffer, m_tx_in, m_tx_out, m_tx_full, tx_pc, link,
                     m_rx_buffer, m_rx_in, m_rx_out, m_rx_full, rx_pc>> /\ m_open' = TRUE
  BY Zenon DEF Opening, open, tx_ring, rx_vars
<1>2. IInv'
  BY <1>1, OpenClose, Zenon DEF TestInv
<1>3. stream' = stream /\ tx_size' = tx_size /\ rx_size' = rx_size /\ Free' = Free
  BY <1>1, StreamUnchanged, Zenon DEF tx_size, rx_size, Free
<1>4. TestTypes'
  BY <1>1, Zenon DEF TestInv, TestTypes
<1>5. Progress'
  BY <1>1, <1>3, Zenon DEF TestInv, Progress, Empty
<1>6. Pushed' /\ Pulled'
  BY <1>1, <1>3, Zenon DEF TestInv, Progress, Empty, Pushed, Pulled
<1>7. Conserved'
  BY <1>1, <1>3, Zenon DEF TestInv, Conserved
<1> QED
  BY <1>2, <1>4, <1>5, <1>6, <1>7, ZenonT(30) DEF TestInv

LEMMA RoundStep ==
    ASSUME TestInv, Round
    PROVE  TestInv'
<1>1. test_pc = "round" /\ UNCHANGED vars /\ UNCHANGED <<i_write, mem_2, n_read>>
  BY Zenon DEF Round
<1>2. /\ IInv' /\ stream' = stream /\ tx_size' = tx_size /\ rx_size' = rx_size /\ Free' = Free
      /\ UNCHANGED <<tx_pc, rx_pc, m_open, link>>
  <2>1. IInv'
    BY <1>1, StutterStep, Zenon DEF TestInv
  <2> QED
    BY <1>1, <2>1, StreamUnchanged, Zenon DEF vars, tx_size, rx_size, Free
<1>3. Pushed' /\ Pulled' /\ Conserved'
  BY <1>1, <1>2, Zenon DEF TestInv, Progress, Empty, Pushed, Pulled, Conserved
<1>4. i_write \in Nat /\ Len(mem_2) = i_write /\ MEM_SIZE \in Nat /\ MaxChunk \in Nat
  <2>1. Len(stream) = 0
    BY <1>1, TestFacts DEF TestInv, Progress, Empty
  <2> QED
    BY <2>1, TestFacts, TestAssumption DEF TestInv, Conserved
<1>5. CASE i_write < MEM_SIZE
  <2>1. randSize' \in 1..MaxChunk /\ test_pc' = "send"
    BY <1>5, Zenon DEF Round
  <2>2. fills(i_write) /\ i_write \in 0..MEM_SIZE - 1
    BY <1>1, <1>4, <1>5 DEF TestInv, Progress
  <2>3. i_write + MaxChunk <= MEM_SIZE
    BY <2>2, TestAssumption, Zenon
  <2>4. i_write + randSize' <= MEM_SIZE
    <3>1. PICK r \in 1..MaxChunk : randSize' = r
      BY <2>1, Zenon
    <3>2. i_write + r <= MEM_SIZE
      BY <1>4, <2>3
    <3> QED
      BY <3>1, <3>2, Zenon
  <2>5. fills(Len(mem_2))' /\ rx_size' = 0
    BY <1>1, <1>2, <1>4, <2>2, ZenonT(30) DEF TestInv, Progress, Empty, fills
  <2>6. TestTypes'
    BY <1>1, <1>2, <2>1, ZenonT(30) DEF TestInv, TestTypes
  <2>7. Progress'
    BY <1>1, <1>2, <1>5, <2>1, <2>4, <2>5, ZenonT(30) DEF TestInv, Progress
  <2> QED
    BY <1>2, <1>3, <2>6, <2>7, Zenon DEF TestInv
<1>6. CASE ~(i_write < MEM_SIZE)
  <2>1. test_pc' = "done"
    BY <1>6, Zenon DEF Round
  <2>2. i_write = MEM_SIZE
    BY <1>4, <1>6 DEF TestInv, TestTypes
  <2>3. TestTypes'
    BY <1>1, <1>2, <2>1, Zenon DEF TestInv, TestTypes
  <2>4. Progress'
    BY <1>1, <1>2, <2>1, <2>2, ZenonT(30) DEF TestInv, Progress, Empty
  <2> QED
    BY <1>2, <1>3, <2>3, <2>4, Zenon DEF TestInv
<1> QED
  BY <1>5, <1>6, Zenon

\* a refused piece: the ring and the medium are full
LEMMA RefusedFills ==
    ASSUME Looped, TestInv, test_pc = "send", tx_pc = "idle", tx_size = m_max_size
    PROVE  fills(i_write)
<1>1. /\ rx_size = 0 /\ fills(Len(mem_2)) /\ Len(mem_2) \in Nat /\ m_max_size \in Nat \ {0}
      /\ LinkCapacity \in Nat /\ Len(link) \in Nat
      /\ i_write = Len(mem_2) + (rx_size + Len(link) + tx_size)
  BY TestFacts, SizesAssumption, Zenon DEF TestInv, Progress, Conserved
<1>2. Free = 0
  BY <1>1 DEF TestInv, Pushed
<1>3. i_write = Len(mem_2) + m_max_size + LinkCapacity
  BY <1>1, <1>2 DEF Free
<1> QED
  BY <1>1, <1>3, FillsNext, Zenon

LEMMA SendStep ==
    ASSUME Looped, TestInv, Send
    PROVE  TestInv'
<1> DEFINE src == SubSeq(mem_1, i_write + 1, i_write + randSize)
           n == accepted(randSize)
           w == i_write + n
           r == IF w > i_write /\ w >= MEM_SIZE - MaxChunk THEN MEM_SIZE - w ELSE randSize
<1>1. /\ test_pc = "send" /\ i_write \in Nat /\ i_write < MEM_SIZE /\ randSize \in Nat \ {0}
      /\ i_write + randSize <= MEM_SIZE /\ MEM_SIZE \in Nat /\ MaxChunk \in Nat /\ randSize <= MaxChunk
      /\ rx_pc = "idle" /\ rx_size = 0 /\ fills(Len(mem_2)) /\ IInv
  BY TestFacts, TestAssumption DEF Send, TestInv, Progress
<1>2. src \in Seq(Byte) \ {<< >>} /\ Len(src) = randSize /\ \A k \in 1..randSize : src[k] = i_write + k
  <2>1. mem_1 \in Seq(Byte) /\ Len(mem_1) = MEM_SIZE /\ \A k \in 1..MEM_SIZE : mem_1[k] = k
    <3>1. \A k \in 1..MEM_SIZE : k \in Byte
      BY <1>1, TestAssumption
    <3> QED
      BY <1>1, <3>1 DEF mem_1
  <2>2. src \in Seq(Byte) /\ Len(src) = randSize /\ \A k \in 1..randSize : src[k] = mem_1[i_write + k]
    BY <1>1, <2>1
  <2> HIDE DEF src
  <2>3. \A k \in 1..randSize : src[k] = i_write + k
    BY <1>1, <2>1, <2>2
  <2> QED
    BY <1>1, <2>2, <2>3, Zenon
<1>3. /\ write(src) /\ i_write' = w /\ randSize' = r
      /\ test_pc' = IF w = i_write \/ w >= MEM_SIZE THEN "poll" ELSE "send"
      /\ UNCHANGED <<mem_2, n_read>>
  BY Zenon DEF Send
<1> HIDE DEF src
<1>4. n = accepted(Len(src))
  BY <1>2, Zenon
<1> HIDE DEF n, w, r
<1>5. n \in 0..randSize /\ n <= m_max_size - tx_size /\ tx_size' = tx_size + n
  BY <1>1, <1>2, <1>3, <1>4, WriteRing, Zenon
<1>6. IInv' /\ stream' = stream \o SubSeq(src, 1, n)
  BY <1>1, <1>2, <1>3, <1>4, WriteStep, WriteRefines, Zenon
<1>7. /\ flush_begin /\ tx_pc = "idle" /\ m_open' = m_open /\ link' = link /\ UNCHANGED rx_vars
  BY <1>3, Zenon DEF write, tx_may_start, rx_vars
<1>8. rx_size' = rx_size /\ rx_pc' = rx_pc /\ Free' = Free
  BY <1>7, Zenon DEF rx_vars, rx_size, Free
<1>9. w \in Nat /\ w = i_write + n /\ w <= MEM_SIZE /\ n \in Nat
  BY <1>1, <1>5 DEF w
<1>10. n = 0 => fills(i_write)
  <2>1. n = Least(randSize, m_max_size - tx_size) /\ tx_size \in 0..m_max_size
    BY <1>1, TestFacts, AcceptedIsFree, Zenon DEF n
  <2>2. n = 0 => tx_size = m_max_size
    BY <1>1, <2>1, SizesAssumption DEF Least
  <2> QED
    BY <1>1, <1>7, <2>2, RefusedFills, Zenon
<1>11. TestTypes'
  <2>1. test_pc' \in {"send", "poll"} /\ i_write' \in 0..MEM_SIZE
    BY <1>1, <1>3, <1>9
  <2> QED
    BY <1>1, <1>3, <1>7, <2>1, ZenonT(30) DEF TestInv, TestTypes
<1>12. Progress'
  <2>1. CASE w = i_write \/ w >= MEM_SIZE
    <3>1. test_pc' = "poll" /\ (w = MEM_SIZE \/ fills(w))
      BY <1>1, <1>3, <1>9, <1>10, <2>1
    <3> QED
      BY <1>3, <3>1, Zenon DEF Progress, fills
  <2>2. CASE ~(w = i_write \/ w >= MEM_SIZE)
    <3>1. test_pc' = "send" /\ w < MEM_SIZE /\ r \in 1..MaxChunk /\ w + r <= MEM_SIZE
      BY <1>1, <1>3, <1>9, <2>2 DEF r
    <3>2. fills(Len(mem_2))' /\ rx_size' = 0 /\ rx_pc' = "idle"
      BY <1>1, <1>3, <1>8, Zenon DEF fills
    <3> QED
      BY <1>3, <3>1, <3>2, Zenon DEF Progress
  <2> QED
    BY <2>1, <2>2, Zenon
<1>13. Pushed'
  <2>1. m_open
    BY <1>1, Zenon DEF TestInv, TestTypes
  <2>2. tx_pc' = "idle" => tx_empty'
    BY <1>7, <2>1, Zenon DEF flush_begin
  <2>3. tx_empty' => tx_size' = 0
    BY <1>6, EmptyRing, Zenon
  <2> QED
    BY <2>2, <2>3, Zenon DEF Pushed
<1>14. Pulled'
  BY <1>1, <1>8, Zenon DEF Pulled
<1>15. Conserved'
  <2>1. /\ stream \in Seq(Byte) /\ Len(stream) \in Nat /\ Len(mem_2) \in Nat
        /\ Len(mem_2) + Len(stream) = i_write
        /\ \A k \in 1..Len(mem_2) : mem_2[k] = k
        /\ \A k \in 1..Len(stream) : stream[k] = Len(mem_2) + k
    BY TestFacts, Zenon DEF TestInv, Conserved
  <2> DEFINE d == SubSeq(src, 1, n)
  <2>2. d \in Seq(Byte) /\ Len(d) = n /\ \A k \in 1..n : d[k] = src[k]
    BY <1>1, <1>2, <1>5, TakeFront, Zenon
  <2>3. \A k \in 1..n : d[k] = i_write + k
    BY <1>1, <1>2, <1>5, <2>2
  <2>4. stream' = stream \o d
    BY <1>6, Zenon
  <2> HIDE DEF d
  <2>5. /\ Len(stream') = Len(stream) + n
        /\ \A k \in 1..Len(stream) + n : stream'[k] = IF k <= Len(stream) THEN stream[k] ELSE d[k - Len(stream)]
    <3> DEFINE c == stream \o d
    <3>1. stream \in Seq(Byte) /\ d \in Seq(Byte)
      BY <2>1, <2>2, Zenon
    <3>2. /\ Len(c) = Len(stream) + Len(d)
          /\ \A k \in 1..Len(stream) + Len(d) : c[k] = IF k <= Len(stream) THEN stream[k] ELSE d[k - Len(stream)]
      BY <3>1
    <3>3. stream' = c
      BY <2>4, Zenon
    <3> HIDE DEF c
    <3> QED
      BY <2>2, <3>2, <3>3, Zenon
  <2>6. ASSUME NEW k \in 1..Len(stream) + n
        PROVE  stream'[k] = Len(mem_2) + k
    <3>1. CASE k <= Len(stream)
      BY <3>1, <2>1, <2>5
    <3>2. CASE ~(k <= Len(stream))
      <4>1. k - Len(stream) \in 1..n /\ i_write + (k - Len(stream)) = Len(mem_2) + k
        BY <3>2, <1>9, <2>1
      <4> QED
        BY <3>2, <4>1, <2>3, <2>5, Zenon
    <3> QED
      BY <3>1, <3>2, Zenon
  <2>7. Len(mem_2) + Len(stream') = w
    BY <1>9, <2>1, <2>5
  <2> QED
    BY <1>3, <2>1, <2>5, <2>6, <2>7, Zenon DEF Conserved
<1> QED
  BY <1>6, <1>11, <1>12, <1>13, <1>14, <1>15, Zenon DEF TestInv

LEMMA PollStep ==
    ASSUME Looped, TestInv, Poll
    PROVE  TestInv'
<1>1. /\ test_pc = "poll" /\ rx_return /\ n_read' = rx_size /\ UNCHANGED <<i_write, randSize, mem_2>>
      /\ test_pc' = IF rx_size > 0 THEN "read" ELSE "round"
  BY Zenon DEF Poll
<1>2. /\ rx_pc = "body" /\ rx_pc' = "idle" /\ UNCHANGED <<tx_pc, link, m_open>>
      /\ UNCHANGED <<m_tx_buffer, m_tx_in, m_tx_out, m_tx_full,
                     m_rx_buffer, m_rx_in, m_rx_out, m_rx_full>>
  BY <1>1, Zenon DEF rx_return, rx_ring, tx_vars
<1>3. IInv' /\ tx_pc = "idle" /\ rx_size \in Nat /\ tx_size \in Nat /\ Len(link) \in Nat
  BY <1>1, <1>2, RxReturnStep, RxRuns, TestFacts, Zenon DEF TestInv, Looped
<1>4. stream' = stream /\ tx_size' = tx_size /\ rx_size' = rx_size /\ Free' = Free
  BY <1>2, StreamUnchanged, ZenonT(30) DEF tx_size, rx_size, Free
<1>5. rx_size = 0 => Empty
  <2> SUFFICES ASSUME rx_size = 0 PROVE Empty
    BY Zenon
  <2>1. Len(link) = 0
    BY <1>2, Zenon DEF TestInv, Pulled
  <2>2. Free # 0
    BY <2>1, SizesAssumption DEF Free, Looped
  <2> QED
    BY <1>1, <1>3, <2>1, <2>2 DEF TestInv, Pushed, Empty
<1>6. TestTypes'
  <2>1. test_pc' \in {"read", "round"} /\ (test_pc' = "read" => rx_size > 0)
    BY <1>1, Zenon
  <2> QED
    BY <1>1, <1>2, <1>3, <2>1, ZenonT(30) DEF TestInv, TestTypes
<1>7. i_write' = MEM_SIZE \/ fills(i_write)'
  BY <1>1, Zenon DEF TestInv, Progress, fills
<1>8. Progress'
  <2>1. CASE rx_size = 0
    <3>1. Empty'
      BY <2>1, <1>2, <1>4, <1>5, ZenonT(30) DEF Empty
    <3>2. test_pc' = "round"
      BY <1>1, <2>1
    <3> QED
      BY <1>2, <1>3, <1>7, <3>1, <3>2, ZenonT(30) DEF Progress
  <2>2. CASE rx_size # 0
    <3>1. test_pc' = "read"
      BY <1>1, <1>3, <2>2
    <3> QED
      BY <1>7, <3>1, Zenon DEF Progress
  <2> QED
    BY <2>1, <2>2, Zenon
<1>9. Pushed' /\ Pulled'
  BY <1>1, <1>2, <1>3, <1>4, ZenonT(30) DEF TestInv, Pushed, Pulled
<1>10. Conserved'
  BY <1>1, <1>4, ZenonT(30) DEF TestInv, Conserved
<1> QED
  BY <1>3, <1>6, <1>8, <1>9, <1>10, Zenon DEF TestInv

LEMMA ClientFlushStep ==
    ASSUME TestInv, ClientFlush
    PROVE  TestInv'
<1>1. /\ test_pc = "flush" /\ flush /\ test_pc' = "poll"
      /\ UNCHANGED <<i_write, randSize, mem_2, n_read>>
  BY Zenon DEF ClientFlush
<1>2. /\ flush_begin /\ m_open' = m_open /\ link' = link /\ rx_pc' = rx_pc
      /\ UNCHANGED <<m_tx_buffer, m_tx_in, m_tx_out, m_tx_full,
                     m_rx_buffer, m_rx_in, m_rx_out, m_rx_full>>
  BY <1>1, Zenon DEF flush, tx_ring, rx_vars
<1>3. IInv'
  BY <1>1, FlushCallStep, Zenon DEF TestInv
<1>4. stream' = stream /\ tx_size' = tx_size /\ rx_size' = rx_size
  BY <1>2, StreamUnchanged, Zenon DEF tx_size, rx_size
<1>5. TestTypes'
  BY <1>1, <1>2, Zenon DEF TestInv, TestTypes
<1>6. Progress'
  BY <1>1, Zenon DEF TestInv, Progress, fills
<1>7. Pushed'
  <2>1. m_open
    BY <1>1, Zenon DEF TestInv, TestTypes
  <2>2. tx_pc' = "idle" => tx_empty'
    BY <1>2, <2>1, Zenon DEF flush_begin
  <2>3. tx_empty' => tx_size' = 0
    BY <1>3, EmptyRing, Zenon
  <2> QED
    BY <2>2, <2>3, ZenonT(30) DEF Pushed
<1>8. Pulled'
  BY <1>1, <1>2, ZenonT(30) DEF TestInv, Progress, Pulled
<1>9. Conserved'
  BY <1>1, <1>4, Zenon DEF TestInv, Conserved
<1> QED
  BY <1>3, <1>5, <1>6, <1>7, <1>8, <1>9, ZenonT(30) DEF TestInv

LEMMA ReceiveStep ==
    ASSUME Looped, TestInv, Receive
    PROVE  TestInv'
<1> DEFINE n == available(n_read)
<1>1. /\ test_pc = "read" /\ read(n_read) /\ mem_2' = mem_2 \o items' /\ test_pc' = "flush"
      /\ UNCHANGED <<i_write, randSize, n_read>> /\ n_read \in Nat \ {0} /\ IInv
  BY DEF Receive, TestInv, TestTypes
<1>2. /\ rx_pc = "body" /\ ~rx_empty /\ items' = rx_fetch(n) /\ rx_drop(n) /\ rx_pc' = "idle"
      /\ UNCHANGED tx_vars /\ link' = link
  BY <1>1, Zenon DEF read
<1>3. n \in 1..rx_size /\ n \in 0..rx_size /\ rx_size \in Nat /\ n \in Nat
  <2>1. n \in 1..rx_size
    BY <1>1, <1>2, AvailableSome, ZenonT(30)
  <2>2. rx_size \in Nat
    BY TestFacts, Zenon
  <2> HIDE DEF n
  <2> QED
    BY <2>1, <2>2
<1> HIDE DEF n
<1>4. IInv' /\ tx_pc = "idle" /\ tx_pc' = tx_pc /\ m_open' = m_open
  BY <1>1, <1>2, ReadStep, RxRuns, ZenonT(30) DEF Looped, tx_vars
<1>5. stream' = SubSeq(stream, n + 1, Len(stream))
  BY <1>1, <1>2, <1>3, DropRefines, ZenonT(30)
<1>6. items' = SubSeq(stream, 1, n)
  BY <1>1, <1>2, <1>3, FetchRefines, Zenon
<1>7. /\ stream \in Seq(Byte) /\ Len(stream) \in Nat /\ n \in 0..Len(stream)
      /\ mem_2 \in Seq(Byte) /\ Len(mem_2) \in Nat
      /\ Len(mem_2) + Len(stream) = i_write
      /\ \A k \in 1..Len(mem_2) : mem_2[k] = k
      /\ \A k \in 1..Len(stream) : stream[k] = Len(mem_2) + k
  BY <1>3, TestFacts DEF TestInv, TestTypes, Conserved
<1> DEFINE t == SubSeq(stream, 1, n)
           d == SubSeq(stream, n + 1, Len(stream))
           m == mem_2 \o t
<1>8. t \in Seq(Byte) /\ Len(t) = n /\ \A k \in 1..n : t[k] = stream[k]
  BY <1>7, TakeFront, Zenon
<1>9. /\ d \in Seq(Byte) /\ Len(d) = Len(stream) - n
      /\ \A k \in 1..Len(stream) - n : d[k] = stream[n + k]
  BY <1>7, DropFront, Zenon
<1>10. mem_2' = m /\ stream' = d
  BY <1>1, <1>5, <1>6, ZenonT(30)
<1> HIDE DEF t, d
<1>11. /\ m \in Seq(Byte) /\ Len(m) = Len(mem_2) + n
       /\ \A k \in 1..Len(mem_2) + n : m[k] = IF k <= Len(mem_2) THEN mem_2[k] ELSE t[k - Len(mem_2)]
  <2>1. mem_2 \in Seq(Byte) /\ t \in Seq(Byte)
    BY <1>7, <1>8, Zenon
  <2>2. /\ m \in Seq(Byte) /\ Len(m) = Len(mem_2) + Len(t)
        /\ \A k \in 1..Len(mem_2) + Len(t) : m[k] = IF k <= Len(mem_2) THEN mem_2[k] ELSE t[k - Len(mem_2)]
    BY <2>1
  <2> HIDE DEF m
  <2> QED
    BY <1>8, <2>2, Zenon
<1> HIDE DEF m
<1>12. \A k \in 1..Len(m) : m[k] = k
  <2> SUFFICES ASSUME NEW k \in 1..Len(m) PROVE m[k] = k
    BY Zenon
  <2>1. CASE k <= Len(mem_2)
    BY <2>1, <1>7, <1>11
  <2>2. CASE ~(k <= Len(mem_2))
    <3>1. k - Len(mem_2) \in 1..n /\ k - Len(mem_2) \in 1..Len(stream) /\ Len(mem_2) + (k - Len(mem_2)) = k
      BY <2>2, <1>3, <1>7, <1>11
    <3>2. m[k] = t[k - Len(mem_2)] /\ t[k - Len(mem_2)] = stream[k - Len(mem_2)]
      BY <2>2, <3>1, <1>8, <1>11, Zenon
    <3>3. stream[k - Len(mem_2)] = Len(mem_2) + (k - Len(mem_2))
      BY <3>1, <1>7, Zenon
    <3> QED
      BY <3>1, <3>2, <3>3, Zenon
  <2> QED
    BY <2>1, <2>2, ZenonT(30)
<1>13. \A k \in 1..Len(d) : d[k] = Len(m) + k
  <2> SUFFICES ASSUME NEW k \in 1..Len(d) PROVE d[k] = Len(m) + k
    BY Zenon
  <2>1. n + k \in 1..Len(stream) /\ k \in 1..Len(stream) - n /\ Len(mem_2) + (n + k) = Len(m) + k
    BY <1>3, <1>7, <1>9, <1>11
  <2>2. d[k] = stream[n + k] /\ stream[n + k] = Len(mem_2) + (n + k)
    BY <2>1, <1>7, <1>9, Zenon
  <2> QED
    BY <2>1, <2>2, ZenonT(30)
<1>14. Conserved'
  <2>1. Len(m) + Len(d) = i_write
    BY <1>3, <1>7, <1>9, <1>11
  <2> QED
    BY <1>1, <1>10, <1>12, <1>13, <2>1, Zenon DEF Conserved
<1>15. TestTypes'
  BY <1>1, <1>4, <1>10, <1>11, Zenon DEF TestInv, TestTypes
<1>16. Progress'
  BY <1>1, <1>2, <1>4, ZenonT(30) DEF TestInv, Progress, fills
<1>17. Pushed' /\ Pulled'
  BY <1>1, <1>2, ZenonT(30) DEF Pushed, Pulled
<1> QED
  BY <1>4, <1>14, <1>15, <1>16, <1>17, ZenonT(30) DEF TestInv

LEMMA InsideStep ==
    ASSUME Looped, TestInv, Inside
    PROVE  TestInv'
<1>1. UNCHANGED <<i_write, randSize, mem_2, n_read, test_pc>> /\ IInv
  BY Zenon DEF Inside, TestInv
<1>2. DriverContract
  BY Zenon DEF Looped, DriverContract
<1>3. ASSUME m_open' = m_open, stream' = stream
      PROVE  TestTypes' /\ Conserved'
  BY <1>1, <1>3, ZenonT(30) DEF TestInv, TestTypes, Conserved
<1>4. CASE flush_step
  <2>1. tx_pc # "idle" /\ rx_pc' = rx_pc /\ rx_size' = rx_size /\ m_open' = m_open
    BY <1>4 DEF flush_step, flush_straight, flush_wrap_first, flush_wrap_second, rx_vars, rx_ring, rx_size
  <2>2. rx_pc = "idle"
    BY <1>1, <2>1, ZenonT(30) DEF IInv, TypeOK, Looped
  <2>3. IInv'
    BY <1>1, <1>4, FlushStraightStep, FlushWrapFirstStep, FlushWrapSecondStep, ZenonT(30) DEF flush_step
  <2>4. stream' = stream
    BY <1>1, <1>2, <1>4, FlushKeeps, ZenonT(30)
  <2>5. Pushed'
    BY <1>1, <1>4, FlushPushes, ZenonT(30) DEF Pushed
  <2>6. Pulled'
    BY <2>1, <2>2, ZenonT(30) DEF Pulled
  <2>7. Progress'
    BY <1>1, <2>1, <2>2, ZenonT(30) DEF TestInv, Progress, fills
  <2> QED
    BY <1>3, <2>1, <2>3, <2>4, <2>5, <2>6, <2>7, ZenonT(30) DEF TestInv
<1>5. CASE test_pc \in {"poll", "read"} /\ com_read
  <2>1. tx_pc' = tx_pc /\ tx_size' = tx_size /\ m_open' = m_open
    BY <1>5 DEF com_read, com_read_skip, com_read_first, com_read_second, com_read_gap, tx_vars, tx_ring, tx_size
  <2>2. IInv'
    BY <1>1, <1>5, ComReadSkipStep, ComReadFirstStep, ComReadSecondStep, ComReadGapStep, ZenonT(30) DEF com_read
  <2>3. stream' = stream
    BY <1>1, <1>5, ComReadKeeps, ZenonT(30)
  <2>4. Pulled' /\ (rx_size > 0 \/ Len(link) > 0 => rx_size' > 0)
    BY <1>5, ReadPulls, Zenon DEF TestInv
  <2>5. Free = 0 => Len(link) > 0
    BY TestFacts, SizesAssumption DEF Free, Looped
  <2>6. Pushed'
    BY <1>1, <1>5, <2>1, <2>4, <2>5, ZenonT(30) DEF TestInv, Pushed
  <2>7. Progress'
    BY <1>1, <1>5, Zenon DEF TestInv, Progress, fills
  <2> QED
    BY <1>3, <2>1, <2>2, <2>3, <2>4, <2>6, <2>7, ZenonT(30) DEF TestInv
<1> QED
  BY <1>4, <1>5, ZenonT(30) DEF Inside

LEMMA TestStutter == TestInv /\ UNCHANGED test_vars => TestInv'
<1> SUFFICES ASSUME TestInv, UNCHANGED test_vars PROVE TestInv'
  BY Zenon
<1>1. UNCHANGED vars /\ UNCHANGED <<i_write, randSize, mem_2, n_read, test_pc>>
  BY Zenon DEF test_vars
<1>2. IInv' /\ UNCHANGED <<m_tx_buffer, m_tx_in, m_tx_out, m_tx_full, m_rx_buffer, m_rx_in, m_rx_out,
                           m_rx_full, link, m_open, tx_pc, rx_pc>>
  BY <1>1, StutterStep, ZenonT(30) DEF TestInv, vars, tx_vars, rx_vars, tx_ring, rx_ring
<1>3. stream' = stream /\ tx_size' = tx_size /\ rx_size' = rx_size /\ Free' = Free
  BY <1>2, StreamUnchanged, ZenonT(30) DEF tx_size, rx_size, Free
<1>4. TestTypes' /\ Conserved'
  BY <1>1, <1>2, <1>3, ZenonT(30) DEF TestInv, TestTypes, Conserved
<1>5. Progress'
  BY <1>1, <1>2, <1>3, Zenon DEF TestInv, Progress, Empty, fills
<1>6. Pushed' /\ Pulled'
  BY <1>1, <1>2, <1>3, ZenonT(30) DEF TestInv, Pushed, Pulled
<1> QED
  BY <1>2, <1>4, <1>5, <1>6, ZenonT(30) DEF TestInv

LEMMA TestStep ==
    ASSUME Looped, TestInv, [TestNext]_test_vars
    PROVE  TestInv'
<1>1. CASE Opening
  BY <1>1, OpeningStep, Zenon
<1>2. CASE Round
  BY <1>2, RoundStep, Zenon
<1>3. CASE Send
  BY <1>3, SendStep, Zenon
<1>4. CASE Poll
  BY <1>4, PollStep, ZenonT(30)
<1>5. CASE Receive
  BY <1>5, ReceiveStep, Zenon
<1>6. CASE ClientFlush
  BY <1>6, ClientFlushStep, Zenon
<1>7. CASE Inside
  BY <1>7, InsideStep, Zenon
<1>8. CASE Done \/ UNCHANGED test_vars
  BY <1>8, TestStutter, Zenon DEF Done
<1> QED
  BY <1>1, <1>2, <1>3, <1>4, <1>5, <1>6, <1>7, <1>8, ZenonT(30) DEF TestNext

-------------------------------------------------------------------------------
(* The theorems.                                                           *)

\* Every reachable state of the test satisfies the inductive invariant: no byte
\* written by the client is lost, repeated or reordered on its way, and whatever
\* a call leaves behind it leaves for a reason the next call removes.
THEOREM StreamerTestInvariant == Looped => (TestSpec => []TestInv)
<1> SUFFICES ASSUME Looped PROVE TestSpec => []TestInv
  BY Zenon
<1>1. TestInit => TestInv
  BY TestInitOK, Zenon
<1>2. TestInv /\ [TestNext]_test_vars => TestInv'
  BY TestStep, Zenon
<1>3. QED
  BY <1>1, <1>2, PTL DEF TestSpec

\* The loop of the streamer test over the received bytes never stores a byte
\* that differs from the one written at the same place, however the random
\* sizes fall and wherever the rings wrap.
THEOREM StreamerTestPrefix == Looped => (TestSpec => []ReceivedIsPrefix)
<1> SUFFICES ASSUME Looped PROVE TestSpec => []ReceivedIsPrefix
  BY Zenon
<1>1. TestInv => ReceivedIsPrefix
  <2> SUFFICES ASSUME TestInv PROVE ReceivedIsPrefix
    BY Zenon
  <2>1. /\ Len(mem_2) \in Nat /\ Len(stream) \in Nat /\ i_write \in 0..MEM_SIZE
        /\ Len(mem_2) + Len(stream) = i_write /\ \A i \in 1..Len(mem_2) : mem_2[i] = i
    BY TestFacts, Zenon DEF TestInv, TestTypes, Conserved
  <2>2. Len(mem_2) <= MEM_SIZE /\ \A i \in 1..Len(mem_2) : i \in 1..MEM_SIZE
    BY <2>1, TestAssumption
  <2>3. \A i \in 1..MEM_SIZE : mem_1[i] = i
    BY Zenon DEF mem_1
  <2> QED
    BY <2>1, <2>2, <2>3, Zenon DEF ReceivedIsPrefix
<1>2. QED
  BY <1>1, StreamerTestInvariant, PTL

\* "Streamer test passed: Memory blocks match" is what the test ends with, for
\* every size of the rings, the packets, the medium and the block.
THEOREM StreamerTestPasses == Looped => (TestSpec => []MemoryBlocksMatch)
<1> SUFFICES ASSUME Looped PROVE TestSpec => []MemoryBlocksMatch
  BY Zenon
<1>1. TestInv => MemoryBlocksMatch
  <2> SUFFICES ASSUME TestInv, test_pc = "done" PROVE mem_2 = mem_1
    BY Zenon DEF MemoryBlocksMatch
  <2>1. i_write = MEM_SIZE /\ tx_size = 0 /\ rx_size = 0 /\ Len(link) = 0 /\ mem_2 \in Seq(Byte)
    BY Zenon DEF TestInv, Progress, Empty, TestTypes
  <2>2. Len(stream) = 0
    BY <2>1, TestFacts
  <2>3. Len(mem_2) = MEM_SIZE /\ \A i \in 1..Len(mem_2) : mem_2[i] = i
    BY <2>1, <2>2, TestFacts DEF TestInv, Conserved
  <2>4. mem_2 = [i \in 1..MEM_SIZE |-> mem_2[i]]
    BY <2>1, <2>3
  <2> QED
    BY <2>3, <2>4, Zenon DEF mem_1
<1>2. QED
  BY <1>1, StreamerTestInvariant, PTL
===============================================================================
