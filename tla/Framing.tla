-------------------------------- MODULE Framing --------------------------------
(***************************************************************************)
(* One direction of the connection above the streamers: the Serializer     *)
(* that writes messages into the byte stream and the Deserializer that     *)
(* reads them out of it, in the binary and in the text protocol, as the    *)
(* loops of client and server drive them.  The stream is the one of        *)
(* ByteStream: a write accepts any prefix, rx_size() reports any number of *)
(* the bytes that are on their way.                                        *)
(*                                                                         *)
(* Binary frame: id, name and 0, size of the value, value.                 *)
(* Text frame:   id and 0, name and 0, value and 0.                        *)
(***************************************************************************)
EXTENDS Integers, Sequences

CONSTANTS
    Builds,              \* [binary |-> BINARY_BASED_PROTOCOL, tx_order |-> ..,
                         \* rx_order |-> byte order of the machines, "little" or "big"]
    BinaryMessages, TextMessages,
                         \* messages the sender may send; name and value are
                         \* byte sequences, so is the id in the text protocol
    Base,                \* values of a byte, 256
    IdBytes,             \* sizeof(uint16_t)
    SizeBytes,           \* sizeof(size_t)
    StreamCapacity       \* bytes the stream holds

VARIABLES
    build,               \* how both ends were compiled
    queue,               \* bytes in the stream, oldest first
    tx_msg, m_tx_phase, m_i,            \* Serializer
    m_init_serializer,
    rx_msg, m_rx_phase, m_s, m_v, m_size,   \* Deserializer
    m_len, buffer, ix,   \* of a call of receive(); 0, empty and 0 outside
    m_init_deserializer,
    in_flight,           \* messages begun by the sender and not yet delivered
    delivered            \* the latest message pushed on rx_msg_buffer

tx_vars == <<build, tx_msg, m_tx_phase, m_i, m_init_serializer>>
rx_vars == <<build, rx_msg, m_rx_phase, m_s, m_v, m_size, m_len, buffer, ix,
             m_init_deserializer, delivered>>
vars == <<build, queue, tx_msg, m_tx_phase, m_i, m_init_serializer, rx_msg, m_rx_phase,
          m_s, m_v, m_size, m_len, buffer, ix, m_init_deserializer, in_flight, delivered>>

Binary == build.binary
TxOrder == build.tx_order
RxOrder == build.rx_order
Messages == IF Binary THEN BinaryMessages ELSE TextMessages

\* n, and what is left of it above each of its lowest bytes
above(n, width) ==
    LET rest[i \in 0..width] == IF i = 0 THEN n ELSE rest[i - 1] \div Base
    IN  rest

backwards(seq) == [i \in 1..Len(seq) |-> seq[(Len(seq) - i) + 1]]

\* an integer as it lies in the memory of a machine, and back
in_memory(n, width, order) ==
    LET digits == [i \in 1..width |-> above(n, width)[i - 1] % Base]
    IN  IF order = "little" THEN digits ELSE backwards(digits)

number(bytes, order) ==
    LET digits == IF order = "little" THEN backwards(bytes) ELSE bytes
        upto[i \in 0..Len(bytes)] ==
            IF i = 0 THEN 0 ELSE upto[i - 1] * Base + digits[i]
    IN  upto[Len(bytes)]

Octet == 0 .. Base - 1
Character == 1 .. Base - 1

\* Names, and all fields of the text protocol, are strings that end with the
\* first 0 byte; the id and the size of a value fit into their widths.
WellFormed ==
    /\ Base \in Nat \ {0, 1} /\ IdBytes \in Nat \ {0} /\ SizeBytes \in Nat \ {0}
    /\ \A b \in Builds : b \in [binary : BOOLEAN, tx_order : {"little", "big"},
                                rx_order : {"little", "big"}]
    /\ \A m \in BinaryMessages :
          /\ m \in [id : Nat, name : Seq(Character), value : Seq(Octet)]
          /\ above(m.id, IdBytes)[IdBytes] = 0
          /\ above(Len(m.value), SizeBytes)[SizeBytes] = 0
    /\ \A m \in TextMessages :
          m \in [id : Seq(Character), name : Seq(Character), value : Seq(Character)]

ASSUME FramingAssumption == WellFormed

no_message == [id |-> IF Binary THEN 0 ELSE << >>, name |-> << >>, value |-> << >>]

Init ==
    /\ build \in Builds
    /\ queue = << >>
    /\ tx_msg = no_message /\ m_tx_phase = "IDLE" /\ m_i = 0 /\ m_init_serializer = FALSE
    /\ rx_msg = no_message /\ m_rx_phase = "IDLE" /\ m_s = << >> /\ m_v = << >>
    /\ m_size = 0 /\ m_len = 0 /\ buffer = << >> /\ ix = 0 /\ m_init_deserializer = FALSE
    /\ in_flight = << >> /\ delivered = no_message

-------------------------------------------------------------------------------
(* The Serializer.                                                         *)

\* the bytes m_p points to in each phase
field(msg, phase) ==
    CASE phase = "ID"         -> IF Binary THEN in_memory(msg.id, IdBytes, TxOrder)
                                 ELSE Append(msg.id, 0)
      [] phase = "NAME"       -> Append(msg.name, 0)
      [] phase = "SIZE"       -> in_memory(Len(msg.value), SizeBytes, TxOrder)
      [] phase = "ARGS_VALUE" -> IF Binary THEN msg.value ELSE Append(msg.value, 0)

next_phase(msg, phase) ==
    CASE phase = "ID"         -> "NAME"
      [] phase = "NAME"       -> IF Binary THEN "SIZE" ELSE "ARGS_VALUE"
      [] phase = "SIZE"       -> IF msg.value = << >> THEN "END" ELSE "ARGS_VALUE"
      [] phase = "ARGS_VALUE" -> "END"

\* initLoop() of the sending end, before its loop or again while nothing of the
\* message at the front of tx_msg_buffer has been written
tx_initLoop ==
    /\ ~m_init_serializer
    /\ m_tx_phase = "IDLE" \/ (m_tx_phase = "ID" /\ m_i = 0)
    /\ m_init_serializer' = TRUE
    /\ UNCHANGED <<queue, tx_msg, m_tx_phase, m_i, rx_vars, in_flight>>

\* init() with the message at the front of tx_msg_buffer: the next one, or the one
\* that initLoop() makes it begin again
tx_init(msg) ==
    /\ m_init_serializer
    /\ tx_msg' = msg /\ m_tx_phase' = "ID" /\ m_i' = 0
    /\ m_init_serializer' = FALSE
    /\ \/ m_tx_phase = "IDLE" /\ in_flight' = Append(in_flight, msg)
       \/ m_tx_phase # "IDLE" /\ msg = tx_msg /\ UNCHANGED in_flight
    /\ UNCHANGED <<queue, rx_vars>>

\* the bytes that send() passes to write()
unwritten ==
    LET bytes == field(tx_msg, m_tx_phase)
    IN  SubSeq(bytes, m_i + 1, Len(bytes))

\* write() has accepted count of them; at the end of the message the loop pops it
\* and sets the flag
sent(count) ==
    LET next == next_phase(tx_msg, m_tx_phase)
        all == count = Len(unwritten)
    IN  /\ ~m_init_serializer /\ m_tx_phase # "IDLE"
        /\ m_i' = IF all THEN 0 ELSE m_i + count
        /\ m_tx_phase' = IF ~all THEN m_tx_phase ELSE IF next = "END" THEN "IDLE" ELSE next
        /\ m_init_serializer' = (all /\ next = "END")
        /\ UNCHANGED <<tx_msg, rx_vars, in_flight>>

send ==
    /\ ~m_init_serializer /\ m_tx_phase # "IDLE"
    /\ \E count \in {n \in 0..Len(unwritten) : n <= StreamCapacity - Len(queue)} :
         /\ queue' = queue \o SubSeq(unwritten, 1, count)
         /\ sent(count)

-------------------------------------------------------------------------------
(* The Deserializer.  An iteration of the loop in receive() is a step.     *)

\* initLoop() of the receiving end, before its loop or again while nothing of a
\* message has been received
rx_initLoop ==
    /\ ~m_init_deserializer /\ m_len = 0
    /\ m_rx_phase = "IDLE" \/ (m_rx_phase = "ID" /\ m_s = << >> /\ m_v = << >>)
    /\ m_init_deserializer' = TRUE
    /\ UNCHANGED <<queue, tx_vars, rx_msg, m_rx_phase, m_s, m_v, m_size, m_len, buffer,
                   ix, in_flight, delivered>>

\* mutant of rx_init: the name of the last message is not cleared
rx_init_keeps_name ==
    /\ m_init_deserializer
    /\ m_v' = << >> /\ m_rx_phase' = "ID"
    /\ m_init_deserializer' = FALSE
    /\ UNCHANGED <<queue, tx_vars, rx_msg, m_s, m_size, m_len, buffer, ix, in_flight,
                   delivered>>

rx_init ==
    /\ m_init_deserializer
    /\ m_s' = << >> /\ m_v' = << >> /\ m_rx_phase' = "ID"
    /\ m_init_deserializer' = FALSE
    /\ UNCHANGED <<queue, tx_vars, rx_msg, m_size, m_len, buffer, ix, in_flight,
                   delivered>>

\* rx_size() and try_read()
receive ==
    /\ ~m_init_deserializer /\ m_rx_phase # "IDLE" /\ m_len = 0
    /\ m_len' \in 1..Len(queue)
    /\ buffer' = SubSeq(queue, 1, m_len')
    /\ UNCHANGED <<queue, tx_vars, rx_msg, m_rx_phase, m_s, m_v, m_size, ix,
                   m_init_deserializer, in_flight, delivered>>

\* the bytes p points to, and the first n of them
left == m_len - ix
p(n) == SubSeq(buffer, ix + 1, ix + n)

\* the loop goes on behind n bytes; receive() returns false at their end
used(n) ==
    /\ IF n = left THEN m_len' = 0 /\ buffer' = << >> /\ ix' = 0
                   ELSE ix' = ix + n /\ UNCHANGED <<m_len, buffer>>
    /\ UNCHANGED <<m_init_deserializer, in_flight, delivered>>

\* the loop ends and receive() returns true: the message is pushed
complete ==
    /\ m_len' = 0 /\ buffer' = << >> /\ ix' = 0
    /\ m_rx_phase' = "IDLE"
    /\ delivered' = rx_msg'
    /\ in_flight' = IF in_flight = << >> THEN << >> ELSE Tail(in_flight)
    /\ m_init_deserializer' = TRUE

\* a phase that ends with a number of width bytes
enough(width) == left + Len(m_v) >= width
missing(width) == width - Len(m_v)
collected(width) == m_v \o p(missing(width))

\* a phase that ends with a 0 byte
zeros == {i \in 1..left : p(left)[i] = 0}
has_zero == zeros # {}
zero == CHOOSE i \in zeros : \A j \in zeros : i <= j
text == m_s \o p(zero - 1)

(* An iteration in each phase, with the n it passes to consume_read().     *)

\* mutant of receive_id_binary: the bytes of the id are not cleared
receive_id_binary_keeps(n) ==
    /\ Binary /\ m_rx_phase = "ID" /\ m_len > 0
    /\ \/ /\ enough(IdBytes)
          /\ rx_msg' = [rx_msg EXCEPT !.id = number(collected(IdBytes), RxOrder)]
          /\ m_rx_phase' = "NAME"
          /\ n = missing(IdBytes) /\ used(n)
          /\ m_v' = collected(IdBytes)
       \/ /\ ~enough(IdBytes)
          /\ m_v' = m_v \o p(left)
          /\ n = left /\ used(n)
          /\ UNCHANGED <<rx_msg, m_rx_phase>>
    /\ UNCHANGED <<tx_vars, m_s, m_size>>

receive_id_binary(n) ==
    /\ Binary /\ m_rx_phase = "ID" /\ m_len > 0
    /\ \/ /\ enough(IdBytes)
          /\ rx_msg' = [rx_msg EXCEPT !.id = number(collected(IdBytes), RxOrder)]
          /\ m_rx_phase' = "NAME"
          /\ n = missing(IdBytes) /\ used(n)
          /\ m_v' = << >>
       \/ /\ ~enough(IdBytes)
          /\ m_v' = m_v \o p(left)
          /\ n = left /\ used(n)
          /\ UNCHANGED <<rx_msg, m_rx_phase>>
    /\ UNCHANGED <<tx_vars, m_s, m_size>>

\* without a terminator all m_len bytes are consumed, not the ones from ix on
receive_id_text(n) ==
    /\ ~Binary /\ m_rx_phase = "ID" /\ m_len > 0
    /\ \/ /\ has_zero
          /\ rx_msg' = [rx_msg EXCEPT !.id = text]
          /\ m_rx_phase' = "NAME"
          /\ n = zero /\ used(n)
          /\ m_s' = << >>
       \/ /\ ~has_zero
          /\ m_s' = m_s \o p(left)
          /\ n = m_len /\ used(left)
          /\ UNCHANGED <<rx_msg, m_rx_phase>>
    /\ UNCHANGED <<tx_vars, m_v, m_size>>

receive_name(n) ==
    /\ m_rx_phase = "NAME" /\ m_len > 0
    /\ \/ /\ has_zero
          /\ rx_msg' = [rx_msg EXCEPT !.name = text]
          /\ m_rx_phase' = IF Binary THEN "SIZE" ELSE "ARGS_VALUE"
          /\ n = zero /\ used(n)
          /\ m_s' = IF Binary THEN text ELSE << >>
       \/ /\ ~has_zero
          /\ m_s' = m_s \o p(left)
          /\ n = left /\ used(n)
          /\ UNCHANGED <<rx_msg, m_rx_phase>>
    /\ UNCHANGED <<tx_vars, m_v, m_size>>

\* mutant of receive_size: an empty value is waited for
receive_size_waits(n) ==
    /\ m_rx_phase = "SIZE" /\ m_len > 0
    /\ \/ /\ enough(SizeBytes)
          /\ m_v' = collected(SizeBytes)
          /\ m_size' = number(m_v', RxOrder)
          /\ n = missing(SizeBytes)
          /\ rx_msg' = [rx_msg EXCEPT !.value = << >>]
          /\ m_rx_phase' = "ARGS_VALUE" /\ used(n)
       \/ /\ ~enough(SizeBytes)
          /\ m_v' = m_v \o p(left)
          /\ n = left /\ used(n)
          /\ UNCHANGED <<rx_msg, m_rx_phase, m_size>>
    /\ UNCHANGED <<tx_vars, m_s>>

receive_size(n) ==
    /\ m_rx_phase = "SIZE" /\ m_len > 0
    /\ \/ /\ enough(SizeBytes)
          /\ m_v' = collected(SizeBytes)
          /\ m_size' = number(m_v', RxOrder)
          /\ n = missing(SizeBytes)
          /\ rx_msg' = [rx_msg EXCEPT !.value = << >>]
          /\ IF m_size' > 0
               THEN m_rx_phase' = "ARGS_VALUE" /\ used(n)
               ELSE complete
       \/ /\ ~enough(SizeBytes)
          /\ m_v' = m_v \o p(left)
          /\ n = left /\ used(n)
          /\ UNCHANGED <<rx_msg, m_rx_phase, m_size>>
    /\ UNCHANGED <<tx_vars, m_s>>

receive_value_binary(n) ==
    LET missing_value == m_size - Len(rx_msg.value)
    IN  /\ Binary /\ m_rx_phase = "ARGS_VALUE" /\ m_len > 0
        /\ n = IF left >= missing_value THEN missing_value ELSE left
        /\ rx_msg' = [rx_msg EXCEPT !.value = @ \o p(n)]
        /\ \/ left >= missing_value /\ complete
           \/ left < missing_value /\ used(n) /\ UNCHANGED m_rx_phase
        /\ UNCHANGED <<tx_vars, m_s, m_v, m_size>>

receive_value_text(n) ==
    /\ ~Binary /\ m_rx_phase = "ARGS_VALUE" /\ m_len > 0
    /\ \/ /\ has_zero
          /\ rx_msg' = [rx_msg EXCEPT !.value = text]
          /\ m_s' = << >>
          /\ n = zero
          /\ complete
       \/ /\ ~has_zero
          /\ m_s' = m_s \o p(left)
          /\ n = left /\ used(n)
          /\ UNCHANGED <<rx_msg, m_rx_phase>>
    /\ UNCHANGED <<tx_vars, m_v, m_size>>

iteration(n) ==
    \/ receive_id_binary(n) \/ receive_id_text(n) \/ receive_name(n) \/ receive_size(n)
    \/ receive_value_binary(n) \/ receive_value_text(n)

\* mutant of consume_read: one byte too many
consume_read_more(n) == queue' = SubSeq(queue, n + 2, Len(queue))

consume_read(n) == queue' = SubSeq(queue, n + 1, Len(queue))

receive_step == \E n \in 1..m_len : iteration(n) /\ consume_read(n)

Next == \/ tx_initLoop \/ send \/ \E msg \in Messages : tx_init(msg)
        \/ rx_initLoop \/ rx_init \/ receive \/ receive_step

Spec == Init /\ [][Next]_vars

-------------------------------------------------------------------------------
(* Properties.                                                             *)

\* the bytes of a message from a phase on, and all of them
frame_from(msg, phase) ==
    LET value == field(msg, "ARGS_VALUE")
        sized == IF Binary THEN field(msg, "SIZE") \o value ELSE value
    IN  CASE phase = "ID"         -> field(msg, "ID") \o field(msg, "NAME") \o sized
          [] phase = "NAME"       -> field(msg, "NAME") \o sized
          [] phase = "SIZE"       -> sized
          [] phase = "ARGS_VALUE" -> value
frame(msg) == frame_from(msg, "ID")

\* sequences one behind the other
joined(seqs) ==
    LET upto[i \in 0..Len(seqs)] == IF i = 0 THEN << >> ELSE upto[i - 1] \o seqs[i]
    IN  upto[Len(seqs)]
frames(msgs) == joined([i \in 1..Len(msgs) |-> frame(msgs[i])])

\* the bytes of the current message that receive() has taken from the stream
taken ==
    CASE m_rx_phase = "IDLE" -> << >>
      [] m_rx_phase = "ID"   -> IF Binary THEN m_v ELSE m_s
      [] m_rx_phase = "NAME" -> field(rx_msg, "ID") \o m_s
      [] m_rx_phase = "SIZE" -> field(rx_msg, "ID") \o field(rx_msg, "NAME") \o m_v
      [] m_rx_phase = "ARGS_VALUE" ->
            field(rx_msg, "ID") \o field(rx_msg, "NAME") \o
            IF Binary THEN in_memory(m_size, SizeBytes, RxOrder) \o rx_msg.value ELSE m_s

\* the bytes of the current message that send() has still to write
unsent ==
    IF m_tx_phase = "IDLE" THEN << >>
    ELSE LET bytes == frame_from(tx_msg, m_tx_phase)
         IN  SubSeq(bytes, m_i + 1, Len(bytes))

\* Sender and receiver stay in step: what receive() has taken of a message,
\* what the stream holds and what send() has still to write are together the
\* frames of the messages in flight, however the chunks fell.
StreamParses ==
    taken \o queue \o unsent = frames(in_flight)

\* The loop in receive() never runs past the bytes it was given, and the bytes of
\* buffer it has not used yet are the oldest of the stream: every iteration has
\* consumed what it has used, no more and no less.
ReceiveInBounds ==
    m_len > 0 => /\ ix < m_len /\ left <= Len(queue)
                 /\ p(left) = SubSeq(queue, 1, left)

\* A message that receive() hands to the loop is the oldest one in flight, with
\* the same id, name and value: nothing of the message before it is left over
\* in rx_msg, m_s or m_v.
ReceivedIsSent ==
    [][m_rx_phase # "IDLE" /\ m_rx_phase' = "IDLE" =>
          in_flight # << >> /\ delivered' = Head(in_flight)]_vars

\* "Transmitter is in charge of re-ordering bytes according to the receiver
\* endianess": the receiver takes the size of a value for what it is.
SizeAsSent ==
    Binary /\ m_rx_phase = "ARGS_VALUE" =>
        in_flight # << >> /\ m_size = Len(Head(in_flight).value)

\* initLoop() is called before the loops.  The loops call send() and receive()
\* again and again, right after an init() even when initLoop() comes again and
\* again; write() accepts bytes when there is room.
Fairness == /\ WF_vars(m_tx_phase = "IDLE" /\ tx_initLoop)
            /\ WF_vars(m_rx_phase = "IDLE" /\ rx_initLoop)
            /\ WF_vars(\E msg \in Messages : m_tx_phase # "IDLE" /\ tx_init(msg))
            /\ WF_vars(rx_init)
            /\ SF_vars(send) /\ SF_vars(receive) /\ WF_vars(receive_step)

FairSpec == Spec /\ Fairness

deliver == m_rx_phase # "IDLE" /\ m_rx_phase' = "IDLE"

\* Messages keep arriving as long as there are any in flight, even when a frame
\* is longer than the stream can hold.
MessagesArrive == []<>(in_flight = << >>) \/ []<><<deliver>>_vars
===============================================================================
