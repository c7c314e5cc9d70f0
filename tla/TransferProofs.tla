---------------------------- MODULE TransferProofs ----------------------------
(***************************************************************************)
(* Transfer implements Framing, for every size of the rings, the packets   *)
(* and the medium, every set of messages and every width of the integers.  *)
(***************************************************************************)
EXTENDS Transfer, StreamerProofs, DataLemmas

\* the solver the steps without one of their own go to
USE SMTT(30)

-------------------------------------------------------------------------------
(* The inductive invariant.                                                *)

\* send() always has bytes to write
SenderOK ==
    /\ build \in Builds
    /\ m_tx_phase \in {"IDLE", "ID", "NAME", "SIZE", "ARGS_VALUE"}
    /\ m_tx_phase = "SIZE" => build.binary
    /\ m_tx_phase # "IDLE" =>
          /\ tx_msg \in messages!Messages
          /\ m_tx_phase = "ARGS_VALUE" /\ build.binary => tx_msg.value # << >>
          /\ m_i \in Nat /\ m_i < Len(messages!field(tx_msg, m_tx_phase))

\* of the bytes rx_size() has promised to receive(), those that it has not used
\* yet are in the receive ring, whatever the other end and com_read() do meanwhile
ReceiverOK ==
    /\ m_len \in Nat /\ ix \in Nat /\ buffer \in Seq(Byte) /\ m_v \in Seq(Byte)
    /\ m_len = 0 => buffer = << >>
    /\ buffer = << >> => ix = 0
    /\ buffer # << >> => Len(buffer) = m_len /\ ix < m_len /\ (m_rx_phase = "ID" => ix = 0)
    /\ m_len > 0 => m_len - ix <= rx_size
    /\ m_len > 0 \/ rx_pc # "idle" => ~m_init_deserializer /\ m_rx_phase # "IDLE"

TInv == IInv /\ SenderOK /\ ReceiverOK

-------------------------------------------------------------------------------
(* What send() passes to write().                                          *)

LEMMA Constants ==
    /\ Base \in Nat \ {0, 1} /\ IdBytes \in Nat \ {0} /\ SizeBytes \in Nat \ {0}
    /\ Byte = 0 .. Base - 1 /\ 0 \in Byte /\ messages!Octet = Byte
    /\ \A b \in Builds : b \in [binary : BOOLEAN, tx_order : {"little", "big"},
                                rx_order : {"little", "big"}]
<1>1. Byte = messages!Octet /\ messages!Octet = 0 .. Base - 1
  BY TransferAssumption, Zenon DEF messages!Octet
<1>2. /\ Base \in Nat \ {0, 1} /\ IdBytes \in Nat \ {0} /\ SizeBytes \in Nat \ {0}
      /\ \A b \in Builds : b \in [binary : BOOLEAN, tx_order : {"little", "big"},
                                  rx_order : {"little", "big"}]
  BY TransferAssumption, Zenon DEF messages!WellFormed
<1> QED
  BY <1>1, <1>2

LEMMA CharactersAreBytes == \A s \in Seq(messages!Character) : s \in Seq(Byte)
<1>1. messages!Character \subseteq Byte
  BY Constants DEF messages!Character
<1> QED
  BY <1>1

LEMMA MessageFields ==
    ASSUME build \in Builds, NEW msg \in messages!Messages
    PROVE  /\ build.binary \in BOOLEAN /\ build.tx_order \in {"little", "big"}
           /\ msg.name \in Seq(Byte) /\ msg.value \in Seq(Byte)
           /\ build.binary => msg.id \in Nat
           /\ ~build.binary => msg.id \in Seq(Byte)
<1>1. build.binary \in BOOLEAN /\ build.tx_order \in {"little", "big"}
  BY Constants, Zenon
<1>2. CASE build.binary
  <2>1. msg \in [id : Nat, name : Seq(messages!Character), value : Seq(messages!Octet)]
    BY <1>2, TransferAssumption, ZenonT(30) DEF messages!WellFormed, messages!Messages, messages!Binary
  <2>2. msg.id \in Nat /\ msg.name \in Seq(messages!Character) /\ msg.value \in Seq(messages!Octet)
    BY <2>1, Zenon
  <2> QED
    BY <1>1, <1>2, <2>2, CharactersAreBytes, Constants, ZenonT(30)
<1>3. CASE ~build.binary
  <2>1. msg \in [id : Seq(messages!Character), name : Seq(messages!Character),
                 value : Seq(messages!Character)]
    BY <1>3, TransferAssumption, ZenonT(30) DEF messages!WellFormed, messages!Messages, messages!Binary
  <2>2. /\ msg.id \in Seq(messages!Character) /\ msg.name \in Seq(messages!Character)
        /\ msg.value \in Seq(messages!Character)
    BY <2>1, Zenon
  <2> QED
    BY <1>1, <1>3, <2>2, CharactersAreBytes, ZenonT(30)
<1> QED
  BY <1>2, <1>3, Zenon

LEMMA InMemoryBytes ==
    ASSUME NEW n \in Nat, NEW width \in Nat, NEW order
    PROVE  /\ messages!in_memory(n, width, order) \in Seq(Byte)
           /\ Len(messages!in_memory(n, width, order)) = width
<1> DEFINE q == quotients(n, Base, width)
           d == [i \in 1..width |-> q[i - 1] % Base]
<1>1. Base \in Nat \ {0}
  BY Constants, Zenon
<1>2. q \in [0..width -> Nat]
  BY <1>1, QuotientsDef, ZenonT(30)
<1>3. messages!above(n, width) = q
  BY Zenon DEF messages!above, quotients
<1>4. messages!in_memory(n, width, order) = IF order = "little" THEN d ELSE messages!backwards(d)
  BY <1>3, Zenon DEF messages!in_memory
<1> HIDE DEF q
<1>5. d \in Seq(Byte) /\ Len(d) = width
  <2>1. \A i \in 1..width : q[i - 1] % Base \in Byte
    BY <1>1, <1>2, Constants
  <2> QED
    BY <2>1
<1> HIDE DEF d
<1>6. messages!backwards(d) \in Seq(Byte) /\ Len(messages!backwards(d)) = width
  <2>1. \A i \in 1..Len(d) : d[(Len(d) - i) + 1] \in Byte
    BY <1>5
  <2> QED
    BY <2>1, <1>5 DEF messages!backwards
<1> QED
  BY <1>4, <1>5, <1>6, ZenonT(30)

LEMMA FieldBytes ==
    ASSUME build \in Builds, NEW msg \in messages!Messages,
           NEW phase \in {"ID", "NAME", "SIZE", "ARGS_VALUE"},
           phase = "ARGS_VALUE" /\ build.binary => msg.value # << >>
    PROVE  messages!field(msg, phase) \in Seq(Byte) /\ Len(messages!field(msg, phase)) > 0
<1>1. /\ build.binary \in BOOLEAN /\ msg.name \in Seq(Byte) /\ msg.value \in Seq(Byte)
      /\ (build.binary => msg.id \in Nat) /\ (~build.binary => msg.id \in Seq(Byte))
  BY MessageFields, ZenonT(30)
<1>2. IdBytes \in Nat \ {0} /\ SizeBytes \in Nat \ {0} /\ 0 \in Byte
  BY Constants, ZenonT(30)
<1>3. \A s \in Seq(Byte) : Append(s, 0) \in Seq(Byte) /\ Len(Append(s, 0)) > 0
  BY <1>2
<1>4. CASE phase = "ID"
  <2>1. CASE build.binary
    <3>1. messages!field(msg, phase) = messages!in_memory(msg.id, IdBytes, messages!TxOrder)
      BY <1>4, <2>1, ZenonT(30) DEF messages!field, messages!Binary
    <3> QED
      BY <3>1, <2>1, <1>1, <1>2, InMemoryBytes
  <2>2. CASE ~build.binary
    <3>1. messages!field(msg, phase) = Append(msg.id, 0)
      BY <1>4, <2>2, ZenonT(30) DEF messages!field, messages!Binary
    <3> QED
      BY <3>1, <2>2, <1>1, <1>3, ZenonT(30)
  <2> QED
    BY <2>1, <2>2, ZenonT(30)
<1>5. CASE phase = "NAME"
  <2>1. messages!field(msg, phase) = Append(msg.name, 0)
    BY <1>5, ZenonT(30) DEF messages!field
  <2> QED
    BY <2>1, <1>1, <1>3, ZenonT(30)
<1>6. CASE phase = "SIZE"
  <2>1. messages!field(msg, phase) = messages!in_memory(Len(msg.value), SizeBytes, messages!TxOrder)
    BY <1>6, Zenon DEF messages!field
  <2>2. Len(msg.value) \in Nat
    BY <1>1
  <2> QED
    BY <2>1, <2>2, <1>2, InMemoryBytes
<1>7. CASE phase = "ARGS_VALUE"
  <2>1. CASE build.binary
    <3>1. messages!field(msg, phase) = msg.value
      BY <1>7, <2>1, ZenonT(30) DEF messages!field, messages!Binary
    <3>2. msg.value # << >>
      BY <1>7, <2>1, ZenonT(30)
    <3> QED
      BY <3>1, <3>2, <1>1
  <2>2. CASE ~build.binary
    <3>1. messages!field(msg, phase) = Append(msg.value, 0)
      BY <1>7, <2>2, ZenonT(30) DEF messages!field, messages!Binary
    <3> QED
      BY <3>1, <1>1, <1>3, ZenonT(30)
  <2> QED
    BY <2>1, <2>2, Zenon
<1> QED
  BY <1>4, <1>5, <1>6, <1>7, ZenonT(30)

LEMMA UnwrittenBytes ==
    ASSUME SenderOK, m_tx_phase # "IDLE"
    PROVE  /\ messages!unwritten \in Seq(Byte) \ {<< >>}
           /\ Len(messages!unwritten) = Len(messages!field(tx_msg, m_tx_phase)) - m_i
<1> DEFINE f == messages!field(tx_msg, m_tx_phase)
<1>1. f \in Seq(Byte) /\ m_i \in Nat /\ m_i < Len(f)
  BY FieldBytes, ZenonT(30) DEF SenderOK
<1>2. messages!unwritten = SubSeq(f, m_i + 1, Len(f))
  BY Zenon DEF messages!unwritten
<1> HIDE DEF f
<1>3. m_i \in 0..Len(f) /\ Len(f) \in Nat
  BY <1>1
<1>4. /\ SubSeq(f, m_i + 1, Len(f)) \in Seq(Byte)
      /\ Len(SubSeq(f, m_i + 1, Len(f))) = Len(f) - m_i
  BY <1>1, <1>3, DropFront, ZenonT(30)
<1> DEFINE u == SubSeq(f, m_i + 1, Len(f))
<1> HIDE DEF u
<1>5. u \in Seq(Byte) /\ Len(u) = Len(f) - m_i
  BY <1>4, ZenonT(30) DEF u
<1>6. u # << >>
  BY <1>1, <1>5
<1> QED
  BY <1>2, <1>5, <1>6, ZenonT(30) DEF f, u

-------------------------------------------------------------------------------
(* What a step leaves alone.                                               *)

LEMMA SameField ==
    ASSUME build' = build
    PROVE  /\ messages!Messages' = messages!Messages
           /\ \A msg, phase : messages!field(msg, phase)' = messages!field(msg, phase)
BY Zenon DEF messages!Messages, messages!field, messages!Binary, messages!TxOrder

LEMMA SenderKept ==
    ASSUME SenderOK, UNCHANGED <<build, tx_msg, m_tx_phase, m_i>>
    PROVE  SenderOK'
<1>1. messages!Messages' = messages!Messages
  BY SameField, ZenonT(30)
<1>2. messages!field(tx_msg, m_tx_phase)' = messages!field(tx_msg, m_tx_phase)
  BY ZenonT(30) DEF messages!field, messages!Binary, messages!TxOrder
<1> QED
  BY <1>1, <1>2, ZenonT(30) DEF SenderOK

LEMMA ReceiverKept ==
    ASSUME ReceiverOK, UNCHANGED <<m_rx_phase, m_v, m_len, buffer, ix, m_init_deserializer>>,
           rx_size \in Nat, rx_size' \in Nat, rx_size' >= rx_size,
           rx_pc' # "idle" => rx_pc # "idle" \/ (~m_init_deserializer /\ m_rx_phase # "IDLE")
    PROVE  ReceiverOK'
<1>1. m_len' > 0 => m_len' - ix' <= rx_size'
  BY DEF ReceiverOK
<1> QED
  BY <1>1, ZenonT(30) DEF ReceiverOK

LEMMA RxSize ==
    ASSUME IInv
    PROVE  rx_size \in Nat /\ rx_size <= m_max_size
BY SizesInRange, SizesAssumption DEF IInv

\* a step that only moves bytes, or does nothing to the stream, is none of Framing
LEMMA FramingStutters ==
    ASSUME stream' = stream, UNCHANGED framing_vars
    PROVE  UNCHANGED framing!vars
BY Zenon DEF framing_vars, framing!vars

-------------------------------------------------------------------------------
(* The sending end.                                                        *)

\* the calls of the streamer that move bytes, or begin to
LEMMA SenderMoves ==
    ASSUME DriverContract, TInv, open \/ flush \/ flush_step, UNCHANGED framing_vars
    PROVE  TInv' /\ UNCHANGED framing!vars
<1>1. IInv /\ SenderOK /\ ReceiverOK
  BY Zenon DEF TInv
<1>2. IInv'
  BY <1>1, OpenClose, FlushCallStep, FlushStraightStep, FlushWrapFirstStep, FlushWrapSecondStep, ZenonT(30)
     DEF flush_step
<1>3. UNCHANGED rx_vars
  BY Zenon DEF open, flush, flush_step, flush_straight, flush_wrap_first, flush_wrap_second, rx_vars
<1>4. rx_size' = rx_size /\ rx_pc' = rx_pc
  BY <1>3, Zenon DEF rx_vars, rx_size
<1>5. stream' = stream
  <2>1. CASE open \/ flush
    BY <2>1, StreamUnchanged, ZenonT(30) DEF open, flush, tx_ring, rx_vars
  <2>2. CASE flush_step
    BY <1>1, <2>2, FlushKeeps, ZenonT(30)
  <2> QED
    BY <2>1, <2>2, ZenonT(30)
<1>6. SenderOK'
  BY <1>1, SenderKept, ZenonT(30) DEF framing_vars
<1>7. ReceiverOK'
  <2>1. rx_size \in Nat /\ rx_size' \in Nat /\ rx_size' >= rx_size
    BY <1>1, <1>4, RxSize
  <2> QED
    BY <1>1, <1>4, <2>1, ReceiverKept, ZenonT(30) DEF framing_vars
<1> QED
  BY <1>2, <1>5, <1>6, <1>7, FramingStutters, ZenonT(30) DEF TInv

\* doLoop() is entered and left
LEMMA LoopMoves ==
    ASSUME TInv, UNCHANGED vars, UNCHANGED framing_vars
    PROVE  TInv' /\ UNCHANGED framing!vars
<1>1. IInv /\ SenderOK /\ ReceiverOK
  BY Zenon DEF TInv
<1>2. IInv'
  BY <1>1, StutterStep, ZenonT(30)
<1>3. rx_size' = rx_size /\ rx_pc' = rx_pc
  BY Zenon DEF vars, rx_size
<1>4. stream' = stream
  BY StreamUnchanged, ZenonT(30) DEF vars
<1>5. SenderOK'
  BY <1>1, SenderKept, ZenonT(30) DEF framing_vars
<1>6. ReceiverOK'
  <2>1. rx_size \in Nat /\ rx_size' \in Nat /\ rx_size' >= rx_size
    BY <1>1, <1>3, RxSize
  <2> QED
    BY <1>1, <1>3, <2>1, ReceiverKept, ZenonT(30) DEF framing_vars
<1> QED
  BY <1>2, <1>4, <1>5, <1>6, FramingStutters, ZenonT(30) DEF TInv

LEMMA TxInitLoopStep ==
    ASSUME TInv, tx_initLoop
    PROVE  TInv' /\ framing!tx_initLoop
<1>1. IInv /\ SenderOK /\ ReceiverOK /\ UNCHANGED vars /\ messages!tx_initLoop
  BY Zenon DEF TInv, tx_initLoop
<1>2. IInv' /\ stream' = stream
  BY <1>1, StutterStep, StreamUnchanged, ZenonT(30) DEF vars
<1>3. rx_size' = rx_size /\ rx_pc' = rx_pc
  BY <1>1, Zenon DEF vars, rx_size
<1>4. UNCHANGED <<build, tx_msg, m_tx_phase, m_i, m_rx_phase, m_v, m_len, buffer, ix,
                  m_init_deserializer>>
  BY <1>1, Zenon DEF messages!tx_initLoop, messages!rx_vars
<1>5. SenderOK'
  BY <1>1, <1>4, SenderKept, ZenonT(30)
<1>6. ReceiverOK'
  <2>1. rx_size \in Nat /\ rx_size' \in Nat /\ rx_size' >= rx_size
    BY <1>1, <1>3, RxSize
  <2> QED
    BY <1>1, <1>3, <1>4, <2>1, ReceiverKept, ZenonT(30)
<1>7. framing!tx_initLoop
  BY <1>1, <1>2, ZenonT(30) DEF messages!tx_initLoop, framing!tx_initLoop, messages!rx_vars, framing!rx_vars
<1> QED
  BY <1>2, <1>5, <1>6, <1>7, ZenonT(30) DEF TInv

LEMMA BeginStep ==
    ASSUME TInv, begin_message
    PROVE  TInv' /\ \E msg \in framing!Messages : framing!tx_init(msg)
<1>1. IInv /\ SenderOK /\ ReceiverOK /\ UNCHANGED vars
  BY Zenon DEF TInv, begin_message
<1>2. PICK msg \in messages!Messages : messages!tx_init(msg)
  BY Zenon DEF begin_message
<1>3. IInv' /\ stream' = stream
  BY <1>1, StutterStep, StreamUnchanged, ZenonT(30) DEF vars
<1>4. rx_size' = rx_size /\ rx_pc' = rx_pc
  BY <1>1, Zenon DEF vars, rx_size
<1>5. UNCHANGED <<build, m_rx_phase, m_v, m_len, buffer, ix, m_init_deserializer>>
  BY <1>2, Zenon DEF messages!tx_init, messages!rx_vars
<1>6. SenderOK'
  <2>1. tx_msg' = msg /\ m_tx_phase' = "ID" /\ m_i' = 0
    BY <1>2, ZenonT(30) DEF messages!tx_init
  <2>2. messages!Messages' = messages!Messages
    BY <1>5, SameField, ZenonT(30)
  <2>3. messages!field(tx_msg, m_tx_phase)' = messages!field(msg, "ID")
    BY <1>5, <2>1, ZenonT(30) DEF messages!field, messages!Binary, messages!TxOrder
  <2>4. build \in Builds
    BY <1>1, Zenon DEF SenderOK
  <2>5. Len(messages!field(msg, "ID")) > 0
    BY <2>4, FieldBytes, ZenonT(30)
  <2> QED
    BY <1>5, <2>1, <2>2, <2>3, <2>4, <2>5, ZenonT(30) DEF SenderOK
<1>7. ReceiverOK'
  <2>1. rx_size \in Nat /\ rx_size' \in Nat /\ rx_size' >= rx_size
    BY <1>1, <1>4, RxSize
  <2> QED
    BY <1>1, <1>4, <1>5, <2>1, ReceiverKept, ZenonT(30)
<1>8. msg \in framing!Messages
  BY Zenon DEF messages!Messages, framing!Messages, messages!Binary, framing!Binary
<1>9. framing!tx_init(msg)
  BY <1>2, <1>3, ZenonT(30) DEF messages!tx_init, framing!tx_init, messages!rx_vars, framing!rx_vars
<1> QED
  BY <1>3, <1>6, <1>7, <1>8, <1>9, ZenonT(30) DEF TInv

\* the two instances of Framing agree on what the sender writes
LEMMA SameSender ==
    /\ framing!unwritten = messages!unwritten
    /\ \A n : messages!sent(n) => framing!sent(n)
<1>1. \A msg, phase : framing!field(msg, phase) = messages!field(msg, phase)
  <2>1. \A n, width, order : framing!in_memory(n, width, order) = messages!in_memory(n, width, order)
    BY Zenon DEF framing!in_memory, messages!in_memory, framing!above, messages!above,
           framing!backwards, messages!backwards
  <2> QED
    BY <2>1, Zenon DEF framing!field, messages!field, framing!Binary, messages!Binary,
                framing!TxOrder, messages!TxOrder
<1>2. framing!unwritten = messages!unwritten
  BY <1>1, ZenonT(30) DEF framing!unwritten, messages!unwritten
<1>3. framing!next_phase(tx_msg, m_tx_phase) = messages!next_phase(tx_msg, m_tx_phase)
  BY Zenon DEF framing!next_phase, messages!next_phase, framing!Binary, messages!Binary
<1> QED
  BY <1>2, <1>3, ZenonT(30) DEF framing!sent, messages!sent, framing!rx_vars, messages!rx_vars

\* when send() has written a part of a field, or all of it
LEMMA SentKeepsSenderOK ==
    ASSUME SenderOK, NEW n \in 0..Len(messages!unwritten), messages!sent(n)
    PROVE  SenderOK'
<1> DEFINE f == messages!field(tx_msg, m_tx_phase)
           next == messages!next_phase(tx_msg, m_tx_phase)
<1>1. /\ m_tx_phase \in {"ID", "NAME", "SIZE", "ARGS_VALUE"} /\ tx_msg \in messages!Messages
      /\ m_i \in Nat /\ build \in Builds /\ m_tx_phase # "IDLE"
      /\ m_tx_phase = "SIZE" => build.binary
      /\ m_tx_phase = "ARGS_VALUE" /\ build.binary => tx_msg.value # << >>
  BY Zenon DEF SenderOK, messages!sent
<1>2. build' = build /\ tx_msg' = tx_msg
  BY Zenon DEF messages!sent, messages!rx_vars
<1>3. messages!Messages' = messages!Messages
  BY <1>2, SameField, ZenonT(30)
<1>4. f \in Seq(Byte) /\ m_i < Len(f) /\ Len(messages!unwritten) = Len(f) - m_i
  BY <1>1, FieldBytes, UnwrittenBytes, ZenonT(30) DEF SenderOK
<1>5. CASE n # Len(messages!unwritten)
  <2>1. m_tx_phase' = m_tx_phase /\ m_i' = m_i + n
    BY <1>5, ZenonT(30) DEF messages!sent
  <2>2. messages!field(tx_msg, m_tx_phase)' = f
    BY <1>2, <2>1, ZenonT(30) DEF messages!field, messages!Binary, messages!TxOrder
  <2> HIDE DEF f
  <2>3. m_i' \in Nat /\ m_i' < Len(f)
    BY <1>1, <1>4, <1>5, <2>1
  <2> QED
    BY <1>1, <1>2, <1>3, <2>1, <2>2, <2>3, ZenonT(30) DEF SenderOK
<1>6. CASE n = Len(messages!unwritten)
  <2>1. m_i' = 0 /\ m_tx_phase' = IF next = "END" THEN "IDLE" ELSE next
    BY <1>6, Zenon DEF messages!sent
  <2>2. /\ next \in {"NAME", "SIZE", "ARGS_VALUE", "END"}
        /\ next = "SIZE" => build.binary
        /\ next = "ARGS_VALUE" /\ build.binary => tx_msg.value # << >>
    BY <1>1, Zenon DEF messages!next_phase, messages!Binary
  <2> HIDE DEF next
  <2>3. CASE next = "END"
    BY <1>1, <1>2, <2>1, <2>3, ZenonT(30) DEF SenderOK
  <2>4. CASE next # "END"
    <3>1. Len(messages!field(tx_msg, next)) > 0
      BY <1>1, <2>2, <2>4, FieldBytes, ZenonT(30)
    <3>2. messages!field(tx_msg, m_tx_phase)' = messages!field(tx_msg, next)
      BY <1>2, <2>1, <2>4, Zenon DEF messages!field, messages!Binary, messages!TxOrder
    <3> QED
      BY <1>1, <1>2, <1>3, <2>1, <2>2, <2>4, <3>1, <3>2, ZenonT(30) DEF SenderOK
  <2> QED
    BY <2>3, <2>4, ZenonT(30)
<1> QED
  BY <1>5, <1>6, ZenonT(30)

LEMMA SendStep ==
    ASSUME TInv, send
    PROVE  TInv' /\ framing!send
<1>1. IInv /\ SenderOK /\ ReceiverOK
  BY Zenon DEF TInv
<1>2. ~m_init_serializer /\ m_tx_phase # "IDLE" /\ write(messages!unwritten)
  BY Zenon DEF send
<1>3. PICK src : src = messages!unwritten
  BY Zenon
<1>4. PICK n : n = accepted(Len(src))
  BY Zenon
<1>5. src \in Seq(Byte) \ {<< >>} /\ write(src) /\ messages!sent(n)
  BY <1>1, <1>2, <1>3, <1>4, UnwrittenBytes, ZenonT(30) DEF send
<1>6. IInv'
  BY <1>1, <1>5, WriteStep, ZenonT(30)
<1>7. n \in 0..Len(src) /\ n <= m_max_size - tx_size
  BY <1>1, <1>4, <1>5, WriteRing, ZenonT(30)
<1>8. stream' = stream \o SubSeq(src, 1, n)
  BY <1>1, <1>4, <1>5, WriteRefines, ZenonT(30)
<1>9. SenderOK'
  BY <1>1, <1>3, <1>5, <1>7, SentKeepsSenderOK, ZenonT(30)
<1>10. ReceiverOK'
  <2>1. rx_size' = rx_size /\ rx_pc' = rx_pc
    BY <1>5, Zenon DEF write, rx_vars, rx_size
  <2>2. rx_size \in Nat /\ rx_size' \in Nat /\ rx_size' >= rx_size
    BY <1>1, <2>1, RxSize
  <2>3. UNCHANGED <<m_rx_phase, m_v, m_len, buffer, ix, m_init_deserializer>>
    BY <1>5, ZenonT(30) DEF messages!sent, messages!rx_vars
  <2> QED
    BY <1>1, <2>1, <2>2, <2>3, ReceiverKept, ZenonT(30)
<1>11. n <= (2 * m_max_size + LinkCapacity) - Len(stream)
  <2>1. /\ Len(stream) = rx_size + Len(link) + tx_size
        /\ rx_size \in Nat /\ tx_size \in Nat /\ Len(link) \in Nat
    BY <1>1, StreamType, ZenonT(30)
  <2>2. rx_size <= m_max_size /\ Len(link) <= LinkCapacity
    BY <1>1, RxSize, ZenonT(30) DEF IInv, TypeOK
  <2>3. m_max_size \in Nat /\ LinkCapacity \in Nat
    BY SizesAssumption, Zenon
  <2> QED
    BY <1>7, <2>1, <2>2, <2>3
<1>12. framing!send
  <2>1. framing!unwritten = src /\ framing!sent(n)
    BY <1>3, <1>5, SameSender, ZenonT(30)
  <2>2. n \in {k \in 0..Len(framing!unwritten) :
                 k <= (2 * m_max_size + LinkCapacity) - Len(stream)}
    BY <1>7, <1>11, <2>1, ZenonT(30)
  <2>3. stream' = stream \o SubSeq(framing!unwritten, 1, n)
    BY <1>8, <2>1, ZenonT(30)
  <2> QED
    BY <1>2, <2>1, <2>2, <2>3, ZenonT(30) DEF framing!send
<1> QED
  BY <1>6, <1>9, <1>10, <1>12, ZenonT(30) DEF TInv

-------------------------------------------------------------------------------
(* The receiving end.                                                      *)

LEMMA RxInitLoopStep ==
    ASSUME TInv, rx_initLoop
    PROVE  TInv' /\ framing!rx_initLoop
<1>1. IInv /\ SenderOK /\ ReceiverOK /\ UNCHANGED vars /\ messages!rx_initLoop /\ rx_pc = "idle"
  BY Zenon DEF TInv, rx_initLoop
<1>2. IInv' /\ stream' = stream
  BY <1>1, StutterStep, StreamUnchanged, ZenonT(30) DEF vars
<1>3. rx_size' = rx_size /\ rx_pc' = "idle"
  BY <1>1, Zenon DEF vars, rx_size
<1>4. SenderOK'
  BY <1>1, SenderKept, ZenonT(30) DEF messages!rx_initLoop, messages!tx_vars
<1>5. ReceiverOK'
  BY <1>1, <1>3 DEF ReceiverOK, messages!rx_initLoop
<1>6. framing!rx_initLoop
  BY <1>1, <1>2, ZenonT(30) DEF messages!rx_initLoop, framing!rx_initLoop, messages!tx_vars, framing!tx_vars,
                    ReceiverOK
<1> QED
  BY <1>2, <1>4, <1>5, <1>6, Zenon DEF TInv

LEMMA RxInitStep ==
    ASSUME TInv, rx_init
    PROVE  TInv' /\ framing!rx_init
<1>1. IInv /\ SenderOK /\ ReceiverOK /\ UNCHANGED vars /\ messages!rx_init /\ rx_pc = "idle"
  BY Zenon DEF TInv, rx_init
<1>2. IInv' /\ stream' = stream
  BY <1>1, StutterStep, StreamUnchanged, Zenon DEF vars
<1>3. rx_size' = rx_size /\ rx_pc' = "idle"
  BY <1>1, Zenon DEF vars, rx_size
<1>4. SenderOK'
  BY <1>1, SenderKept, ZenonT(30) DEF messages!rx_init, messages!tx_vars
<1>5. ReceiverOK'
  <2>1. m_len = 0 /\ buffer = << >> /\ ix = 0
    BY <1>1 DEF ReceiverOK, messages!rx_init
  <2>2. m_len' = 0 /\ buffer' = << >> /\ ix' = 0 /\ m_v' = << >>
    BY <1>1, <2>1, ZenonT(30) DEF messages!rx_init
  <2>3. << >> \in Seq(Byte)
    OBVIOUS
  <2> QED
    BY <1>3, <2>2, <2>3 DEF ReceiverOK
<1>6. framing!rx_init
  BY <1>1, <1>2, ZenonT(30) DEF messages!rx_init, framing!rx_init, messages!tx_vars, framing!tx_vars
<1> QED
  BY <1>2, <1>4, <1>5, <1>6, Zenon DEF TInv

\* com_read() only adds bytes to those that receive() counts on
LEMMA InsideStep ==
    ASSUME TInv, rx_inside
    PROVE  TInv' /\ UNCHANGED framing!vars
<1>1. IInv /\ SenderOK /\ ReceiverOK
  BY Zenon DEF TInv
<1>2. ~m_init_deserializer /\ m_rx_phase # "IDLE" /\ com_read /\ UNCHANGED framing_vars
  BY Zenon DEF rx_inside
<1>3. IInv'
  BY <1>1, <1>2, ComReadSkipStep, ComReadFirstStep, ComReadSecondStep, ComReadGapStep, ZenonT(30) DEF com_read
<1>4. rx_size \in Nat /\ rx_size' \in Nat /\ rx_size' >= rx_size
  <2>1. rx_size \in Nat
    BY <1>1, RxSize, ZenonT(30)
  <2>2. CASE com_read_skip
    BY <2>1, <2>2 DEF com_read_skip, rx_ring, rx_size
  <2>3. CASE com_read_first
    <3>1. \E n \in 0..(m_max_size - m_rx_in) : rx_size' = rx_size + n
      BY <1>1, <2>3, ComReadFirstRing, ZenonT(30)
    <3> QED
      BY <3>1, <2>1
  <2>4. CASE com_read_second
    <3>1. \E n \in 0..m_rx_out : rx_size' = rx_size + n
      BY <1>1, <2>4, ComReadSecondRing, ZenonT(30)
    <3> QED
      BY <3>1, <2>1
  <2>5. CASE com_read_gap
    <3>1. \E n \in 0..(m_rx_out - m_rx_in) : rx_size' = rx_size + n
      BY <1>1, <2>5, ComReadGapRing, ZenonT(30)
    <3> QED
      BY <3>1, <2>1
  <2> QED
    BY <1>2, <2>2, <2>3, <2>4, <2>5, ZenonT(30) DEF com_read
<1>5. SenderOK'
  BY <1>1, <1>2, SenderKept, ZenonT(30) DEF framing_vars
<1>6. ReceiverOK'
  BY <1>1, <1>2, <1>4, ReceiverKept, ZenonT(30) DEF framing_vars
<1>7. stream' = stream
  BY <1>1, <1>2, ComReadKeeps, ZenonT(30)
<1> QED
  BY <1>2, <1>3, <1>5, <1>6, <1>7, FramingStutters, ZenonT(30) DEF TInv

\* rx_size() returns; what it has promised is in the ring
LEMMA PollStep ==
    ASSUME TInv, poll
    PROVE  TInv' /\ UNCHANGED framing!vars
<1>1. IInv /\ SenderOK /\ ReceiverOK
  BY Zenon DEF TInv
<1>2. /\ m_len = 0 /\ m_len' = rx_size /\ rx_return /\ rx_pc = "body" /\ rx_pc' = "idle"
      /\ UNCHANGED <<rx_ring, items, tx_vars, link>>
      /\ UNCHANGED <<build, tx_msg, m_tx_phase, m_i, m_init_serializer, rx_msg, m_rx_phase, m_s,
                     m_v, m_size, buffer, ix, m_init_deserializer, in_flight, delivered>>
  BY Zenon DEF poll, rx_return
<1>3. IInv'
  BY <1>1, <1>2, RxReturnStep, ZenonT(30)
<1>4. stream' = stream
  BY <1>2, StreamUnchanged, ZenonT(30) DEF rx_ring, tx_vars
<1>5. rx_size' = rx_size /\ rx_size \in Nat
  BY <1>1, <1>2, RxSize, ZenonT(30) DEF rx_ring, rx_size
<1>6. buffer = << >> /\ ix = 0
  BY <1>1, <1>2, ZenonT(30) DEF ReceiverOK
<1>7. SenderOK'
  BY <1>1, <1>2, SenderKept, ZenonT(30)
<1>8. ReceiverOK'
  <2>1. m_len' \in Nat /\ ix' = 0 /\ buffer' = << >> /\ m_v' = m_v /\ m_len' - ix' <= rx_size'
    BY <1>2, <1>5, <1>6
  <2>2. /\ ~m_init_deserializer' /\ m_rx_phase' # "IDLE"
        /\ buffer' \in Seq(Byte) /\ m_v' \in Seq(Byte)
    BY <1>1, <1>2, ZenonT(30) DEF ReceiverOK
  <2> QED
    BY <2>1, <2>2, ZenonT(30) DEF ReceiverOK
<1>9. UNCHANGED framing!vars
  BY <1>2, <1>4, <1>6, ZenonT(30) DEF framing!vars
<1> QED
  BY <1>3, <1>7, <1>8, <1>9, ZenonT(30) DEF TInv

\* try_read() finds all the bytes that rx_size() has promised
LEMMA PeekStep ==
    ASSUME TInv, peek
    PROVE  TInv' /\ framing!receive
<1>1. IInv /\ SenderOK /\ ReceiverOK
  BY Zenon DEF TInv
<1>2. /\ m_len > 0 /\ buffer = << >> /\ try_read(m_len) /\ buffer' = rx_fetch(available(m_len))
      /\ rx_pc = "body" /\ rx_pc' = "idle" /\ UNCHANGED <<rx_ring, tx_vars, link>>
      /\ UNCHANGED <<build, tx_msg, m_tx_phase, m_i, m_init_serializer, rx_msg, m_rx_phase, m_s,
                     m_v, m_size, m_len, ix, m_init_deserializer, in_flight, delivered>>
  BY Zenon DEF peek, try_read
<1>3. PICK n : n = m_len
  BY Zenon
<1>4. n \in Nat \ {0} /\ n <= rx_size /\ ix = 0 /\ rx_size \in Nat
  BY <1>1, <1>2, <1>3, RxSize DEF ReceiverOK
<1>5. available(n) = n
  <2>1. available(n) = Least(n, rx_size)
    BY <1>1, <1>4, AvailableIsSize, ZenonT(30) DEF IInv
  <2> QED
    BY <1>4, <2>1 DEF Least
<1>6. n \in 0..rx_size
  BY <1>4
<1>7. buffer' = rx_fetch(n)
  BY <1>2, <1>3, <1>5, ZenonT(30)
<1>8. buffer' = SubSeq(stream, 1, n)
  BY <1>1, <1>6, <1>7, FetchRefines, ZenonT(30)
<1>9. buffer' \in Seq(Byte) /\ Len(buffer') = n
  BY <1>1, <1>6, <1>7, RxFetch, ZenonT(30) DEF IInv
<1>10. buffer' # << >>
  BY <1>4, <1>9, ZenonT(30)
<1>11. n \in 1..Len(stream)
  <2>1. Len(stream) = rx_size + Len(link) + tx_size /\ Len(link) \in Nat /\ tx_size \in Nat
    BY <1>1, StreamType, ZenonT(30)
  <2> QED
    BY <1>4, <2>1
<1>12. IInv'
  BY <1>1, <1>2, <1>3, <1>4, ReadStep, ZenonT(30)
<1>13. stream' = stream
  BY <1>2, StreamUnchanged, ZenonT(30) DEF rx_ring, tx_vars
<1>14. SenderOK'
  BY <1>1, <1>2, SenderKept, ZenonT(30)
<1>15. ReceiverOK'
  <2>1. rx_size' = rx_size
    BY <1>2, Zenon DEF rx_ring, rx_size
  <2>2. m_len' = n /\ ix' = 0
    BY <1>2, <1>3, <1>4, ZenonT(30)
  <2>3. m_len' - ix' <= rx_size' /\ ix' < m_len' /\ m_len' # 0
    BY <1>4, <2>1, <2>2
  <2>4. m_v' \in Seq(Byte) /\ ~m_init_deserializer' /\ m_rx_phase' # "IDLE"
    BY <1>1, <1>2, ZenonT(30) DEF ReceiverOK
  <2> QED
    BY <1>2, <1>4, <1>9, <1>10, <2>2, <2>3, <2>4 DEF ReceiverOK
<1>16. ~m_init_deserializer /\ m_rx_phase # "IDLE"
  BY <1>1, <1>2, ZenonT(30) DEF ReceiverOK
<1>17. framing!receive
  BY <1>2, <1>3, <1>8, <1>10, <1>11, <1>13, <1>16, ZenonT(30) DEF framing!receive, framing!tx_vars
<1> QED
  BY <1>12, <1>14, <1>15, <1>17, Zenon DEF TInv

-------------------------------------------------------------------------------
(* The iterations of receive().                                            *)

\* inside receive() the two instances of Framing read the same
LEMMA SameReceiver ==
    ASSUME buffer # << >>
    PROVE  /\ framing!left = messages!left
           /\ \A n : framing!p(n) = messages!p(n)
           /\ framing!has_zero = messages!has_zero /\ framing!zero = messages!zero
           /\ framing!text = messages!text
           /\ \A w : /\ framing!enough(w) = messages!enough(w)
                     /\ framing!missing(w) = messages!missing(w)
                     /\ framing!collected(w) = messages!collected(w)
           /\ \A b, o : framing!number(b, o) = messages!number(b, o)
           /\ framing!Binary = messages!Binary /\ framing!RxOrder = messages!RxOrder
<1>1. framing!left = messages!left
  BY Zenon DEF framing!left, messages!left
<1>2. \A n : framing!p(n) = messages!p(n)
  BY Zenon DEF framing!p, messages!p
<1>3. \A w : /\ framing!enough(w) = messages!enough(w)
             /\ framing!missing(w) = messages!missing(w)
             /\ framing!collected(w) = messages!collected(w)
  BY <1>1, <1>2, ZenonT(30) DEF framing!enough, messages!enough, framing!missing, messages!missing,
                    framing!collected, messages!collected
<1>4. framing!has_zero = messages!has_zero /\ framing!zero = messages!zero
  <2>1. framing!p(framing!left) = messages!p(messages!left)
    BY <1>1, <1>2, ZenonT(30)
  <2> QED
    BY <1>1, <2>1, ZenonT(30) DEF framing!has_zero, messages!has_zero, framing!zero, messages!zero,
                      framing!zeros, messages!zeros
<1>5. framing!text = messages!text
  BY <1>2, <1>4, ZenonT(30) DEF framing!text, messages!text
<1>6. \A b, o : framing!number(b, o) = messages!number(b, o)
  BY Zenon DEF framing!number, messages!number, framing!backwards, messages!backwards
<1>7. framing!Binary = messages!Binary /\ framing!RxOrder = messages!RxOrder
  BY Zenon DEF framing!Binary, messages!Binary, framing!RxOrder, messages!RxOrder
<1> QED
  BY <1>1, <1>2, <1>3, <1>4, <1>5, <1>6, <1>7, ZenonT(30)

LEMMA SameUsed ==
    ASSUME buffer # << >>
    PROVE  /\ \A n : messages!used(n) => framing!used(n)
           /\ messages!complete => framing!complete
<1>1. framing!left = messages!left
  BY SameReceiver, Zenon
<1>2. \A n : messages!used(n) => framing!used(n)
  BY <1>1, ZenonT(30) DEF framing!used, messages!used
<1>3. messages!complete => framing!complete
  BY Zenon DEF framing!complete, messages!complete
<1> QED
  BY <1>2, <1>3, ZenonT(30)

LEMMA SameIteration ==
    ASSUME m_len \in Nat, buffer # << >>, NEW n, messages!iteration(n)
    PROVE  framing!iteration(n)
<1>1. UNCHANGED messages!tx_vars => UNCHANGED framing!tx_vars
  BY Zenon DEF messages!tx_vars, framing!tx_vars
<1>2. CASE messages!receive_id_binary(n)
  <2>1. framing!receive_id_binary(n)
    BY <1>1, <1>2, SameReceiver, SameUsed, ZenonT(30) DEF messages!receive_id_binary, framing!receive_id_binary
  <2> QED
    BY <2>1, ZenonT(30) DEF framing!iteration
<1>3. CASE messages!receive_id_text(n)
  <2>1. framing!receive_id_text(n)
    BY <1>1, <1>3, SameReceiver, SameUsed DEF messages!receive_id_text, framing!receive_id_text
  <2> QED
    BY <2>1, Zenon DEF framing!iteration
<1>4. CASE messages!receive_name(n)
  <2>1. framing!receive_name(n)
    BY <1>1, <1>4, SameReceiver, SameUsed DEF messages!receive_name, framing!receive_name
  <2> QED
    BY <2>1, Zenon DEF framing!iteration
<1>5. CASE messages!receive_size(n)
  <2>1. framing!receive_size(n)
    BY <1>1, <1>5, SameReceiver, SameUsed, ZenonT(30) DEF messages!receive_size, framing!receive_size
  <2> QED
    BY <2>1, ZenonT(30) DEF framing!iteration
<1>6. CASE messages!receive_value_binary(n)
  <2>1. framing!receive_value_binary(n)
    <3>1. (IF buffer = << >> THEN 0 ELSE m_len) = m_len
      BY Zenon
    <3>2. /\ framing!left = messages!left /\ framing!p(n) = messages!p(n)
          /\ framing!Binary = messages!Binary
          /\ (messages!used(n) => framing!used(n)) /\ (messages!complete => framing!complete)
      BY SameReceiver, SameUsed, ZenonT(30)
    <3> QED
      BY <1>1, <1>6, <3>1, <3>2, ZenonT(30)
         DEF messages!receive_value_binary, framing!receive_value_binary
  <2> QED
    BY <2>1, Zenon DEF framing!iteration
<1>7. CASE messages!receive_value_text(n)
  <2>1. framing!receive_value_text(n)
    BY <1>1, <1>7, SameReceiver, SameUsed
       DEF messages!receive_value_text, framing!receive_value_text
  <2> QED
    BY <2>1, Zenon DEF framing!iteration
<1> QED
  BY <1>2, <1>3, <1>4, <1>5, <1>6, <1>7, ZenonT(30) DEF messages!iteration

\* n bytes of those that rx_size() has promised are used, and receive() returns or
\* goes on behind them
Uses(n) ==
    /\ n \in 1 .. m_len - ix
    /\ m_v' \in Seq(Byte)
    /\ UNCHANGED <<build, tx_msg, m_tx_phase, m_i>>
    /\ \/ m_len' = 0 /\ buffer' = << >> /\ ix' = 0
       \/ /\ n < m_len - ix /\ ix' = ix + n
          /\ UNCHANGED <<m_len, buffer, m_init_deserializer>> /\ m_rx_phase' \notin {"ID", "IDLE"}

LEMMA Inside ==
    ASSUME ReceiverOK, buffer # << >>
    PROVE  /\ messages!left = m_len - ix /\ messages!left \in Nat \ {0}
           /\ \A k \in 0..messages!left : messages!p(k) \in Seq(Byte) /\ Len(messages!p(k)) = k
           /\ messages!has_zero => messages!zero \in 1..messages!left
<1>1. /\ messages!left = m_len - ix /\ messages!left \in Nat \ {0}
      /\ m_len \in Nat /\ ix \in Nat /\ buffer \in Seq(Byte) /\ Len(buffer) = m_len
  BY DEF messages!left, ReceiverOK
<1>2. ASSUME NEW k \in 0..messages!left
      PROVE  messages!p(k) \in Seq(Byte) /\ Len(messages!p(k)) = k
  <2>1. ix + 1 \in Int /\ ix + k \in Int /\ 1 <= ix + 1 /\ ix + 1 <= ix + k + 1 /\ ix + k <= Len(buffer)
    BY <1>1
  <2>2. /\ SubSeq(buffer, ix + 1, ix + k) \in Seq(Byte)
        /\ Len(SubSeq(buffer, ix + 1, ix + k)) = ix + k - (ix + 1) + 1
    BY <1>1, <2>1, Slice
  <2>3. ix + k - (ix + 1) + 1 = k
    BY <1>1
  <2> QED
    BY <2>2, <2>3, ZenonT(30) DEF messages!p
<1>3. ASSUME messages!has_zero
      PROVE  messages!zero \in 1..messages!left
  <2>1. messages!zeros \in SUBSET Nat /\ messages!zeros # {} /\ messages!zeros \subseteq 1..messages!left
    BY <1>1, <1>3 DEF messages!has_zero, messages!zeros
  <2>2. \E k \in messages!zeros : \A j \in messages!zeros : k <= j
    BY <2>1, LeastElement, Zenon
  <2>3. messages!zero \in messages!zeros
    BY <2>2, Zenon DEF messages!zero
  <2> QED
    BY <2>1, <2>3, Zenon
<1> QED
  BY <1>1, <1>2, <1>3, ZenonT(30)

LEMMA UsedUses ==
    ASSUME ReceiverOK, buffer # << >>, NEW n \in 1..messages!left, messages!used(n),
           n # messages!left => m_rx_phase' \notin {"ID", "IDLE"}
    PROVE  \/ m_len' = 0 /\ buffer' = << >> /\ ix' = 0
           \/ /\ n < m_len - ix /\ ix' = ix + n
              /\ UNCHANGED <<m_len, buffer, m_init_deserializer>>
              /\ m_rx_phase' \notin {"ID", "IDLE"}
<1>1. messages!left = m_len - ix /\ messages!left \in Nat
  BY Inside, ZenonT(30)
<1>2. CASE n = messages!left
  BY <1>2, ZenonT(30) DEF messages!used
<1>3. CASE n # messages!left
  <2>1. n < m_len - ix
    BY <1>1, <1>3
  <2> QED
    BY <1>3, <2>1, ZenonT(30) DEF messages!used
<1> QED
  BY <1>2, <1>3, ZenonT(30)

LEMMA CompleteUses ==
    ASSUME messages!complete
    PROVE  m_len' = 0 /\ buffer' = << >> /\ ix' = 0
BY Zenon DEF messages!complete

LEMMA BytesAdded ==
    ASSUME ReceiverOK, NEW s \in Seq(Byte)
    PROVE  m_v \o s \in Seq(Byte)
BY DEF ReceiverOK

\* the phases that collect the bytes of an integer
LEMMA IntegerUses ==
    ASSUME ReceiverOK, buffer # << >>, NEW width \in Nat
    PROVE  /\ messages!left + Len(m_v) \in Nat /\ messages!missing(width) \in Int
           /\ messages!enough(width) => messages!missing(width) <= messages!left
           /\ messages!enough(width) /\ messages!missing(width) > 0 =>
                 messages!collected(width) \in Seq(Byte)
           /\ m_v \o messages!p(messages!left) \in Seq(Byte)
<1>1. Len(m_v) \in Nat /\ messages!left \in Nat \ {0}
  BY Inside DEF ReceiverOK
<1>2. /\ messages!left + Len(m_v) \in Nat /\ messages!missing(width) \in Int
      /\ messages!enough(width) => messages!missing(width) <= messages!left
  BY <1>1 DEF messages!missing, messages!enough
<1>3. \A k \in 0..messages!left : m_v \o messages!p(k) \in Seq(Byte)
  BY Inside, BytesAdded, Zenon
<1>4. m_v \o messages!p(messages!left) \in Seq(Byte)
  BY <1>1, <1>3
<1>5. ASSUME messages!enough(width), messages!missing(width) > 0
      PROVE  messages!collected(width) \in Seq(Byte)
  <2>1. messages!missing(width) \in 0..messages!left
    BY <1>1, <1>2, <1>5
  <2> QED
    BY <1>3, <2>1, ZenonT(30) DEF messages!collected
<1> QED
  BY <1>2, <1>4, <1>5, ZenonT(30)

LEMMA IdBinaryUses ==
    ASSUME ReceiverOK, buffer # << >>, NEW n \in 1..m_len, messages!receive_id_binary(n)
    PROVE  Uses(n)
<1>1. messages!left = m_len - ix /\ messages!left \in Nat \ {0}
  BY Inside, ZenonT(30)
<1>2. UNCHANGED <<build, tx_msg, m_tx_phase, m_i>>
  BY Zenon DEF messages!receive_id_binary, messages!tx_vars
<1>3. IdBytes \in Nat
  BY Constants, ZenonT(30)
<1>4. CASE messages!enough(IdBytes)
  <2>1. n = messages!missing(IdBytes) /\ messages!used(n) /\ m_rx_phase' = "NAME" /\ m_v' = << >>
    BY <1>4, ZenonT(30) DEF messages!receive_id_binary
  <2>2. n \in 1..messages!left
    BY <1>1, <1>3, <1>4, <2>1, IntegerUses
  <2>3. m_v' \in Seq(Byte)
    BY <2>1
  <2> QED
    BY <1>1, <1>2, <2>1, <2>2, <2>3, UsedUses, ZenonT(30) DEF Uses
<1>5. CASE ~messages!enough(IdBytes)
  <2>1. n = messages!left /\ messages!used(n) /\ m_v' = m_v \o messages!p(messages!left)
    BY <1>5, Zenon DEF messages!receive_id_binary
  <2>2. n \in 1..messages!left
    BY <1>1, <2>1
  <2>3. m_v' \in Seq(Byte)
    BY <1>3, <2>1, IntegerUses, ZenonT(30)
  <2> QED
    BY <1>1, <1>2, <2>1, <2>2, <2>3, UsedUses, ZenonT(30) DEF Uses
<1> QED
  BY <1>4, <1>5, ZenonT(30)

\* without a terminator all m_len bytes are consumed: the id begins the buffer
LEMMA IdTextUses ==
    ASSUME ReceiverOK, buffer # << >>, NEW n \in 1..m_len, messages!receive_id_text(n)
    PROVE  Uses(n)
<1>1. messages!left = m_len - ix /\ messages!left \in Nat \ {0}
  BY Inside, Zenon
<1>2. UNCHANGED <<build, tx_msg, m_tx_phase, m_i>> /\ m_v' = m_v /\ m_rx_phase = "ID"
  BY Zenon DEF messages!receive_id_text, messages!tx_vars
<1>3. m_v' \in Seq(Byte)
  BY <1>2, Zenon DEF ReceiverOK
<1>4. CASE messages!has_zero
  <2>1. n = messages!zero /\ messages!used(n) /\ m_rx_phase' = "NAME"
    BY <1>4, Zenon DEF messages!receive_id_text
  <2>2. n \in 1..messages!left
    BY <1>4, <2>1, Inside, ZenonT(30)
  <2> QED
    BY <1>1, <1>2, <1>3, <2>1, <2>2, UsedUses, ZenonT(30) DEF Uses
<1>5. CASE ~messages!has_zero
  <2>1. n = m_len /\ messages!used(messages!left)
    BY <1>5, Zenon DEF messages!receive_id_text
  <2>2. ix = 0 /\ m_len \in Nat
    BY <1>2, Zenon DEF ReceiverOK
  <2>3. n = messages!left /\ n \in 1..messages!left
    BY <1>1, <2>1, <2>2
  <2>4. messages!used(n)
    BY <2>1, <2>3, ZenonT(30)
  <2> QED
    BY <1>1, <1>2, <1>3, <2>3, <2>4, UsedUses, ZenonT(30) DEF Uses
<1> QED
  BY <1>4, <1>5, ZenonT(30)

LEMMA NameUses ==
    ASSUME ReceiverOK, buffer # << >>, NEW n \in 1..m_len, messages!receive_name(n)
    PROVE  Uses(n)
<1>1. messages!left = m_len - ix /\ messages!left \in Nat \ {0}
  BY Inside, Zenon
<1>2. UNCHANGED <<build, tx_msg, m_tx_phase, m_i>> /\ m_v' = m_v
  BY Zenon DEF messages!receive_name, messages!tx_vars
<1>3. m_v' \in Seq(Byte)
  BY <1>2, Zenon DEF ReceiverOK
<1>4. CASE messages!has_zero
  <2>1. n = messages!zero /\ messages!used(n) /\ m_rx_phase' \in {"SIZE", "ARGS_VALUE"}
    BY <1>4, Zenon DEF messages!receive_name
  <2>2. n \in 1..messages!left
    BY <1>4, <2>1, Inside, ZenonT(30)
  <2> QED
    BY <1>1, <1>2, <1>3, <2>1, <2>2, UsedUses, ZenonT(30) DEF Uses
<1>5. CASE ~messages!has_zero
  <2>1. n = messages!left /\ messages!used(n)
    BY <1>5, Zenon DEF messages!receive_name
  <2>2. n \in 1..messages!left
    BY <1>1, <2>1
  <2> QED
    BY <1>1, <1>2, <1>3, <2>1, <2>2, UsedUses, ZenonT(30) DEF Uses
<1> QED
  BY <1>4, <1>5, Zenon

LEMMA SizeUses ==
    ASSUME ReceiverOK, buffer # << >>, NEW n \in 1..m_len, messages!receive_size(n)
    PROVE  Uses(n)
<1>1. messages!left = m_len - ix /\ messages!left \in Nat \ {0}
  BY Inside, Zenon
<1>2. UNCHANGED <<build, tx_msg, m_tx_phase, m_i>>
  BY Zenon DEF messages!receive_size, messages!tx_vars
<1>3. SizeBytes \in Nat
  BY Constants, Zenon
<1>4. CASE messages!enough(SizeBytes)
  <2>1. /\ n = messages!missing(SizeBytes) /\ m_v' = messages!collected(SizeBytes)
        /\ (m_rx_phase' = "ARGS_VALUE" /\ messages!used(n)) \/ messages!complete
    BY <1>4, Zenon DEF messages!receive_size
  <2>2. n \in 1..messages!left
    BY <1>1, <1>3, <1>4, <2>1, IntegerUses
  <2>3. m_v' \in Seq(Byte)
    BY <1>3, <1>4, <2>1, <2>2, IntegerUses
  <2>4. CASE m_rx_phase' = "ARGS_VALUE" /\ messages!used(n)
    BY <1>1, <1>2, <2>2, <2>3, <2>4, UsedUses, ZenonT(30) DEF Uses
  <2>5. CASE messages!complete
    BY <1>1, <1>2, <2>2, <2>3, <2>5, CompleteUses, ZenonT(30) DEF Uses
  <2> QED
    BY <2>1, <2>4, <2>5, ZenonT(30)
<1>5. CASE ~messages!enough(SizeBytes)
  <2>1. n = messages!left /\ messages!used(n) /\ m_v' = m_v \o messages!p(messages!left)
    BY <1>5, ZenonT(30) DEF messages!receive_size
  <2>2. n \in 1..messages!left
    BY <1>1, <2>1
  <2>3. m_v' \in Seq(Byte)
    BY <1>3, <2>1, IntegerUses, Zenon
  <2> QED
    BY <1>1, <1>2, <2>1, <2>2, <2>3, UsedUses, Zenon DEF Uses
<1> QED
  BY <1>4, <1>5, Zenon

LEMMA ValueUses ==
    ASSUME ReceiverOK, buffer # << >>, NEW n \in 1..m_len,
           messages!receive_value_binary(n) \/ messages!receive_value_text(n)
    PROVE  Uses(n)
<1>1. messages!left = m_len - ix /\ messages!left \in Nat \ {0}
  BY Inside, Zenon
<1>2. UNCHANGED <<build, tx_msg, m_tx_phase, m_i>> /\ m_v' = m_v
  BY Zenon DEF messages!receive_value_binary, messages!receive_value_text, messages!tx_vars
<1>3. m_v' \in Seq(Byte)
  BY <1>2, Zenon DEF ReceiverOK
<1>4. n \in 1..messages!left /\ (messages!complete \/ (n = messages!left /\ messages!used(n)))
  <2>1. CASE messages!receive_value_binary(n)
    <3> DEFINE wanted == m_size - Len(rx_msg.value)
    <3>1. /\ n = IF messages!left >= wanted THEN wanted ELSE messages!left
          /\ \/ messages!left >= wanted /\ messages!complete
             \/ messages!left < wanted /\ messages!used(n)
      BY <2>1, ZenonT(30) DEF messages!receive_value_binary
    <3> HIDE DEF wanted
    <3>2. n <= messages!left
      BY <1>1, <3>1
    <3>3. messages!left < wanted => n = messages!left
      BY <1>1, <3>1
    <3> QED
      BY <1>1, <3>1, <3>2, <3>3
  <2>2. CASE messages!receive_value_text(n)
    <3>1. \/ messages!has_zero /\ n = messages!zero /\ messages!complete
          \/ n = messages!left /\ messages!used(n)
      BY <2>2, Zenon DEF messages!receive_value_text
    <3>2. n \in 1..messages!left
      BY <1>1, <3>1, Inside
    <3> QED
      BY <3>1, <3>2, ZenonT(30)
  <2> QED
    BY <2>1, <2>2, ZenonT(30)
<1>5. CASE messages!complete
  BY <1>1, <1>2, <1>3, <1>4, <1>5, CompleteUses, ZenonT(30) DEF Uses
<1>6. CASE n = messages!left /\ messages!used(n)
  BY <1>1, <1>2, <1>3, <1>4, <1>6, UsedUses, ZenonT(30) DEF Uses
<1> QED
  BY <1>4, <1>5, <1>6, ZenonT(30)

\* consume_read() drops what the iteration has used
LEMMA IterationStep ==
    ASSUME TInv, step
    PROVE  TInv' /\ framing!receive_step
<1>1. IInv /\ SenderOK /\ ReceiverOK /\ buffer # << >>
  BY Zenon DEF TInv, step
<1>2. PICK n \in 1..m_len : messages!iteration(n) /\ consume_read(n)
  BY Zenon DEF step
<1>3. Uses(n)
  BY <1>1, <1>2, IdBinaryUses, IdTextUses, NameUses, SizeUses, ValueUses, ZenonT(30) DEF messages!iteration
<1>4. /\ m_len \in Nat \ {0} /\ ix \in Nat /\ ix < m_len /\ m_len - ix <= rx_size
      /\ buffer \in Seq(Byte) /\ Len(buffer) = m_len /\ rx_size \in Nat
  BY <1>1, RxSize DEF ReceiverOK
<1>5. n \in 1..rx_size
  BY <1>3, <1>4 DEF Uses
<1>6. available(n) = n
  <2>1. available(n) = Least(n, rx_size)
    BY <1>1, <1>5, AvailableIsSize DEF IInv
  <2> QED
    BY <1>4, <1>5, <2>1 DEF Least
<1>7. rx_drop(n) /\ rx_pc' = "idle" /\ UNCHANGED <<items, tx_vars, link>>
  BY <1>2, <1>6, ZenonT(30) DEF consume_read
<1>8. IInv'
  BY <1>1, <1>2, <1>5, ReadStep
<1>9. rx_size' = rx_size - n
  BY <1>1, <1>5, <1>7, RxDrop, ZenonT(30) DEF IInv
<1>10. stream' = SubSeq(stream, n + 1, Len(stream))
  BY <1>1, <1>5, <1>7, DropRefines, ZenonT(30)
<1>11. SenderOK'
  BY <1>1, <1>3, SenderKept, ZenonT(30) DEF Uses
<1>12. ReceiverOK'
  <2>1. m_v' \in Seq(Byte)
    BY <1>3, ZenonT(30) DEF Uses
  <2>2. CASE m_len' = 0 /\ buffer' = << >> /\ ix' = 0
    <3>1. << >> \in Seq(Byte)
      OBVIOUS
    <3> QED
      BY <1>7, <2>1, <2>2, <3>1 DEF ReceiverOK
  <2>3. CASE /\ n < m_len - ix /\ ix' = ix + n
             /\ UNCHANGED <<m_len, buffer, m_init_deserializer>>
             /\ m_rx_phase' \notin {"ID", "IDLE"}
    <3>1. ix' \in Nat /\ ix' < m_len' /\ m_len' - ix' <= rx_size'
      BY <1>4, <1>5, <1>9, <2>3
    <3>2. ~m_init_deserializer'
      BY <1>1, <1>4, <2>3 DEF ReceiverOK
    <3>3. m_len' = m_len /\ buffer' = buffer /\ m_rx_phase' \notin {"ID", "IDLE"}
      BY <2>3, Zenon
    <3> QED
      BY <1>1, <1>4, <1>7, <2>1, <3>1, <3>2, <3>3, ZenonT(30) DEF ReceiverOK
  <2> QED
    BY <1>3, <2>2, <2>3, ZenonT(30) DEF Uses
<1>13. framing!receive_step
  <2>1. framing!iteration(n)
    BY <1>1, <1>2, <1>4, SameIteration, ZenonT(30)
  <2>2. n \in 1..(IF buffer = << >> THEN 0 ELSE m_len)
    BY <1>1, <1>2, ZenonT(30)
  <2>3. framing!consume_read(n)
    BY <1>10, Zenon DEF framing!consume_read
  <2> QED
    BY <2>1, <2>2, <2>3, ZenonT(30) DEF framing!receive_step
<1> QED
  BY <1>8, <1>11, <1>12, <1>13, ZenonT(30) DEF TInv

-------------------------------------------------------------------------------

LEMMA TransferInitOK == TransferInit => TInv /\ framing!Init
<1> SUFFICES ASSUME TransferInit
             PROVE  TInv /\ framing!Init
  BY Zenon
<1>1. Init /\ messages!Init
  BY Zenon DEF TransferInit
<1>2. IInv
  BY <1>1, InitIInv, ZenonT(30)
<1>3. SenderOK
  BY <1>1, Zenon DEF SenderOK, messages!Init
<1>4. ReceiverOK
  <2>1. << >> \in Seq(Byte)
    OBVIOUS
  <2>2. rx_pc = "idle"
    BY <1>1, Zenon DEF Init
  <2> QED
    BY <1>1, <2>1, <2>2 DEF ReceiverOK, messages!Init
<1>5. framing!Init
  <2>1. framing!no_message = messages!no_message
    BY Zenon DEF framing!no_message, messages!no_message, framing!Binary, messages!Binary
  <2> QED
    BY <1>1, <2>1, ZenonT(30) DEF framing!Init, messages!Init
<1> QED
  BY <1>2, <1>3, <1>4, <1>5, ZenonT(30) DEF TInv

LEMMA TransferStep ==
    ASSUME DriverContract, TInv, [TransferNext]_transfer_vars
    PROVE  TInv' /\ [framing!Next]_(framing!vars)
<1>1. CASE UNCHANGED transfer_vars
  <2>1. UNCHANGED vars /\ UNCHANGED framing_vars
    BY <1>1, Zenon DEF transfer_vars
  <2> QED
    BY <2>1, LoopMoves, ZenonT(30)
<1>2. CASE opening \/ last_flush \/ tx_inside
  <2>1. (open \/ flush \/ flush_step) /\ UNCHANGED framing_vars
    BY <1>2, ZenonT(30) DEF opening, last_flush, tx_inside
  <2> QED
    BY <2>1, SenderMoves, ZenonT(30)
<1>3. CASE enter \/ stop
  <2>1. UNCHANGED vars /\ UNCHANGED framing_vars
    BY <1>3, Zenon DEF enter, stop
  <2> QED
    BY <2>1, LoopMoves, Zenon
<1>4. CASE tx_initLoop
  BY <1>4, TxInitLoopStep, ZenonT(30) DEF framing!Next
<1>5. CASE begin_message
  BY <1>5, BeginStep, ZenonT(30) DEF framing!Next
<1>6. CASE send
  BY <1>6, SendStep, ZenonT(30) DEF framing!Next
<1>7. CASE rx_initLoop
  BY <1>7, RxInitLoopStep, ZenonT(30) DEF framing!Next
<1>8. CASE rx_init
  BY <1>8, RxInitStep, ZenonT(30) DEF framing!Next
<1>9. CASE rx_inside
  BY <1>9, InsideStep, ZenonT(30)
<1>10. CASE poll
  BY <1>10, PollStep, ZenonT(30)
<1>11. CASE peek
  BY <1>11, PeekStep, ZenonT(30) DEF framing!Next
<1>12. CASE step
  BY <1>12, IterationStep, ZenonT(30) DEF framing!Next
<1> QED
  BY <1>1, <1>2, <1>3, <1>4, <1>5, <1>6, <1>7, <1>8, <1>9, <1>10, <1>11, <1>12, ZenonT(30)
     DEF TransferNext, sender, receiver

\* What rx_size() has promised to receive() is in the receive ring until it is
\* consumed, and send() is never called without bytes to write.
THEOREM TransferInvariant ==
    ASSUME DriverContract
    PROVE  TransferSpec => []TInv
<1>1. TransferInit => TInv
  BY TransferInitOK, Zenon
<1>2. TInv /\ [TransferNext]_transfer_vars => TInv'
  BY TransferStep, Zenon
<1> QED
  BY <1>1, <1>2, PTL DEF TransferSpec

\* The loops, the serializers, the rings and a driver that keeps its contract
\* together do what Framing says, for every size of the rings, the packets and the
\* medium and for all messages.
THEOREM TransferImplementsFraming ==
    ASSUME DriverContract
    PROVE  TransferSpec => ImplementsFraming
<1>1. TransferInit => framing!Init
  BY TransferInitOK, Zenon
<1>2. TInv /\ [TransferNext]_transfer_vars => [framing!Next]_(framing!vars)
  BY TransferStep, Zenon
<1> QED
  BY <1>1, <1>2, TransferInvariant, PTL DEF TransferSpec, ImplementsFraming, framing!Spec
===============================================================================
