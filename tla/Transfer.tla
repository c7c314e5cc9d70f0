-------------------------------- MODULE Transfer --------------------------------
(***************************************************************************)
(* One direction of the connection as a whole: messages go through the     *)
(* Serializer, the rings and the driver of the Streamers and the           *)
(* Deserializer, driven by doLoop() of the sending and of the receiving    *)
(* end.  The definitions of Streamer and Framing are used as they are; the *)
(* stream that Framing takes for granted is the one the rings and the      *)
(* medium make up.                                                         *)
(*                                                                         *)
(* A call of send() makes one call of write(); a call of receive() calls   *)
(* rx_size(), then try_read(), then consume_read() in every iteration,     *)
(* each of which begins with com_read().                                   *)
(***************************************************************************)
EXTENDS Streamer

CONSTANTS Builds, BinaryMessages, TextMessages, Base, IdBytes, SizeBytes    \* of Framing

VARIABLES
    build, tx_msg, m_tx_phase, m_i, m_init_serializer, rx_msg, m_rx_phase, m_s, m_v, m_size,
    m_len, buffer, ix, m_init_deserializer, in_flight, delivered,           \* of Framing
    loop             \* where the sender is: in the "send" loop of doLoop(), before
                     \* the "flush" behind it, or "away": in the rest of its program

messages == INSTANCE Framing WITH queue <- stream, StreamCapacity <- 2 * m_max_size + LinkCapacity

\* the bytes of the rings are the bytes of the frames
ASSUME TransferAssumption == Byte = messages!Octet /\ messages!WellFormed

framing_vars == <<build, tx_msg, m_tx_phase, m_i, m_init_serializer, rx_msg, m_rx_phase, m_s,
                  m_v, m_size, m_len, buffer, ix, m_init_deserializer, in_flight, delivered>>
transfer_vars == <<vars, framing_vars, loop>>

TransferInit ==
    /\ m_tx_buffer = [c \in Cell |-> 0] /\ m_rx_buffer = [c \in Cell |-> 0]
    /\ Init
    /\ messages!Init
    /\ loop = "away"

-------------------------------------------------------------------------------
(* The sending end.                                                        *)

opening == open /\ UNCHANGED <<framing_vars, loop>>

\* doLoop() is entered; in one thread the other end is not inside receive()
enter ==
    /\ loop = "away" /\ tx_pc = "idle"
    /\ LoopBack => rx_pc = "idle" /\ m_len = 0
    /\ loop' = "send"
    /\ UNCHANGED <<vars, framing_vars>>

tx_initLoop ==
    /\ loop = "away" /\ tx_pc = "idle" /\ UNCHANGED <<vars, loop>>
    /\ messages!tx_initLoop

\* an iteration of the loop: init() when the flag says so
begin_message ==
    /\ loop = "send" /\ tx_pc = "idle" /\ UNCHANGED <<vars, loop>>
    /\ \E msg \in messages!Messages : messages!tx_init(msg)

\* and send(): what write() accepts is sent
send ==
    /\ loop = "send" /\ ~m_init_serializer /\ m_tx_phase # "IDLE"
    /\ write(messages!unwritten)
    /\ messages!sent(accepted(Len(messages!unwritten)))
    /\ UNCHANGED loop

\* tx_msg_buffer is empty or the time is over
stop ==
    /\ loop = "send" /\ tx_pc = "idle"
    /\ loop' = "flush"
    /\ UNCHANGED <<vars, framing_vars>>

\* mutant of last_flush: doLoop() does not call flush()
last_flush_missing ==
    /\ loop = "flush" /\ tx_pc = "idle"
    /\ loop' = "away"
    /\ UNCHANGED <<vars, framing_vars>>

\* m_streamer.flush()
last_flush ==
    /\ loop = "flush" /\ flush
    /\ loop' = "away"
    /\ UNCHANGED framing_vars

\* write() and flush() go on to their end
tx_inside == flush_step /\ UNCHANGED <<framing_vars, loop>>

-------------------------------------------------------------------------------
(* The receiving end.                                                      *)

\* in one thread it runs while the sender is outside doLoop()
rx_turn == LoopBack => loop = "away" /\ tx_pc = "idle"

rx_initLoop ==
    /\ rx_turn /\ rx_pc = "idle" /\ UNCHANGED <<vars, loop>>
    /\ messages!rx_initLoop

rx_init ==
    /\ rx_turn /\ rx_pc = "idle" /\ UNCHANGED <<vars, loop>>
    /\ messages!rx_init

\* one of the calls of receive() is in its com_read()
rx_inside ==
    /\ rx_turn /\ ~m_init_deserializer /\ m_rx_phase # "IDLE"
    /\ com_read
    /\ UNCHANGED <<framing_vars, loop>>

\* rx_size() returns; receive() returns false when it is 0
poll ==
    /\ rx_turn /\ m_len = 0
    /\ rx_return
    /\ m_len' = rx_size
    /\ UNCHANGED <<build, tx_msg, m_tx_phase, m_i, m_init_serializer, rx_msg, m_rx_phase, m_s,
                   m_v, m_size, buffer, ix, m_init_deserializer, in_flight, delivered, loop>>

\* mutant of peek: read() in the place of try_read()
peek_reads ==
    /\ rx_turn /\ m_len > 0 /\ buffer = << >>
    /\ read(m_len)
    /\ buffer' = items'
    /\ UNCHANGED <<build, tx_msg, m_tx_phase, m_i, m_init_serializer, rx_msg, m_rx_phase, m_s,
                   m_v, m_size, m_len, ix, m_init_deserializer, in_flight, delivered, loop>>

\* try_read(buffer, m_len)
peek ==
    /\ rx_turn /\ m_len > 0 /\ buffer = << >>
    /\ try_read(m_len)
    /\ buffer' = items'
    /\ UNCHANGED <<build, tx_msg, m_tx_phase, m_i, m_init_serializer, rx_msg, m_rx_phase, m_s,
                   m_v, m_size, m_len, ix, m_init_deserializer, in_flight, delivered, loop>>

\* an iteration, with its consume_read()
step ==
    /\ rx_turn /\ buffer # << >>
    /\ \E n \in 1..m_len : messages!iteration(n) /\ consume_read(n)
    /\ UNCHANGED loop

-------------------------------------------------------------------------------

sender == enter \/ tx_initLoop \/ begin_message \/ send \/ stop \/ last_flush \/ tx_inside
receiver == rx_initLoop \/ rx_init \/ rx_inside \/ poll \/ peek \/ step

TransferNext == opening \/ sender \/ receiver

\* initLoop() is called before the loops.  Calls run to their end, and the ends
\* enter and leave their loops again and again.  A time-out is long enough for one
\* pass: doLoop() gets to send() when it has begun a message, and to receive().
TransferFairness ==
    /\ WF_transfer_vars(opening)
    /\ SF_transfer_vars(m_tx_phase = "IDLE" /\ tx_initLoop)
    /\ SF_transfer_vars(m_rx_phase = "IDLE" /\ rx_initLoop)
    /\ SF_transfer_vars(enter) /\ SF_transfer_vars(stop)
    /\ SF_transfer_vars(begin_message /\ UNCHANGED in_flight) /\ SF_transfer_vars(send)
    /\ WF_transfer_vars(last_flush \/ tx_inside)
    /\ SF_transfer_vars(rx_init) /\ SF_transfer_vars(rx_inside \/ poll \/ peek \/ step)

TransferSpec == TransferInit /\ [][TransferNext]_transfer_vars
TransferFairSpec == TransferSpec /\ TransferFairness

-------------------------------------------------------------------------------
(* Properties.                                                             *)

\* a call of receive() begins for Framing when try_read() has filled buffer
framing == INSTANCE Framing WITH
               queue <- stream, StreamCapacity <- 2 * m_max_size + LinkCapacity,
               m_len <- IF buffer = << >> THEN 0 ELSE m_len

\* The loops, the serializers, the rings and the driver together do what Framing
\* says: every message is written to and parsed from one gapless stream, although
\* com_read() moves bytes between rx_size(), try_read() and consume_read().
ImplementsFraming == framing!Spec

\* A message that is begun arrives, although a frame is longer than the rings and
\* the medium hold, sender and receiver share a thread, and a time-out may end each
\* loop after one pass.
MessagesGetThrough == framing!MessagesArrive
===============================================================================
