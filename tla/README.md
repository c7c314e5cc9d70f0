# bmRPC in TLA+

bmRPC is a header-only RPC framework for small machines: a client calls functions
of a server by their prototype, asynchronously, over any driver that moves bytes.
This directory holds TLA+ models of its parts, TLC configurations that check them
on small instances, and TLAPS proofs about the byte transport, the protocol of
messages over it, the marshalling of arguments and results, and the calls of client
and server. Source names are kept wherever TLA+ allows them; paths are relative to
the repository.

## The system

From the bottom up:

| part | source | module |
|---|---|---|
| Data link driver (`Comm`; loop back: `SharedBuffer`, `ServerCom`, `ClientCom`) | `src/bmRPCDataLink.h` | `Streamer` (the medium `link`) |
| `Streamer`: a transmit ring and a receive ring over the driver | `src/bmRPCStreamer.h` | `Streamer`, abstract: `ByteStream` |
| streamer test | `src/bmRPCTest.cpp` 937-1011 | `StreamerTest` |
| `Serializer`, `Deserializer`, `Message`: messages to bytes and back | `src/bmRPCSerializer.h`, `src/bmRPCMessage.h` | `Framing` |
| messages over the rings, driven by the loops of both ends | `src/bmRPCClient.h`, `src/bmRPCServer.h` (`initLoop`, `doLoop`) | `Transfer` |
| types, `stream::write`, `stream::read`, argument marshalling, `ltrim`, `split` | `src/bmRPCAnyArg.h`, `src/bmRPCMarshaller.h`, `src/bmRPCUtilities.cpp` | `Marshalling` |
| `FunctionsRegistry` | `src/bmRPCRegistry.h` | `Registry` |
| `RpcServer`, `Skeleton` | `src/bmRPCServer.h`, `src/bmRPCStub.h` | `RpcServer` |
| `RpcClient`, `Stub`, `RpcHandle` | `src/bmRPCClient.h`, `src/bmRPCStub.h` | `RpcClient` |
| client, server and their applications together | | `Rpc` (over `Connection`) |

Client and server each run a loop (`doLoop()`): send what is queued until a
time-out, receive until a time-out, dispatch what was received. Nothing blocks:
`send()` and `receive()` make what progress the streamer allows and are called
again. The layers are separate modules, each on the abstraction of the one
below: `Framing` on a byte stream that accepts any prefix and delivers any
amount, which `Streamer` is shown to implement; the two put together in
`Transfer`, which is shown to implement `Framing`; `Rpc` and `Marshalling` on a
connection that delivers messages whole and in order, which `Framing` is shown
to provide.

## Modules

**ByteStream** states what a pair of streamers promises: a FIFO of bytes. Only
`read`, `consume_read` and `reset` remove bytes.

**Streamer** is one direction: transmit ring, medium, receive ring. A step is one
call of the driver, so sender and receiver interleave inside `flush()` and
`com_read()` (`tx_pc` and `rx_pc` say where they are, `used_size` and `count` are
locals of `flush()`). The constant `Driver` says how the driver answers a write:
`"shared"` takes what fits (as `SharedBuffer` does), `"whole"` takes all or
nothing, `"partial"` takes any part. `LoopBack` says both ends are in one thread,
so that one end's call ends before the other's begins. The mask `& (size - 1)` is
modelled as the remainder it is for a power of two.

**StreamerTest** is the streamer test of `bmRPCTest.cpp` on top of `Streamer`, the
random chunk sizes as a choice. `TestAssumption` is what makes the sizes of the test
(block 8192, pieces up to 10, ring 1024, medium 256) work: the write loop ends where
ring and medium are full, and a new random size drawn there stays within the block.

**Framing** is one direction of the protocol layer: `Serializer` and
`Deserializer` in both protocols. An iteration of the loop inside `receive()` is
a step; `buffer`, `m_len` and `ix` are those of the call under way. `initLoop()`
may come before the loop and again at any moment at which nothing of a message has
been written, or received. Integers of the header are laid out in the byte order
of the sender (`in_memory`, from the remainders of what `above` leaves of them) and
read in that of the receiver (`number`). The variable `build` is the compile-time
choice of protocol and byte orders; it never changes. `in_flight` and `delivered`
record what was sent and received; no guard reads them. `WellFormed` says which
messages there are: names, and all fields of the text protocol, have no 0 byte,
and the id and the size of a value fit into their widths.

**Transfer** composes `Streamer` and `Framing`, with the definitions of both as
they are: `write()` of the streamer takes what `send()` passes it, `rx_size()`,
`try_read()` and `consume_read()` are the calls `receive()` makes, each with its
`com_read()`. The stream of `Framing` is the contents of the two rings and the
medium, and their bytes are the bytes of the frames (`TransferAssumption`). `loop`
says where the sender is: in the send loop of `doLoop()`, before the
`flush()` behind it, or elsewhere in its program, where `initLoop()` may be called
and, in one thread, the other end has its turn.

**Marshalling** takes the arguments of a call to the function and its results back, in
either protocol (`build`, with the byte orders). A value is the sequence of its bytes;
a parameter is a base type and the way it is passed. The conversions are operators of
the build `b` and of what they convert, and the three actions apply them. In the text
protocol a message is a sequence of pieces, a character or a printed number; a number
keeps its digits as one piece, the bytes it prints, since `operator<<` and
`from_chars` agree on them, and loses those beyond the sixth of a floating-point value
(its last byte stands for them). `ltrim()`, which drops everything in front that
`isspace()` accepts (the constant `Spaces`), and `split()`, which divides at blanks
only, work on the pieces, and `read_text` gives every value a conversion may leave
when a token is not the digits it expects. `sent` and the other fields in the messages
beside `value` are what the message stands for, read by properties only; `carried`
says that the text protocol can carry the values at all.

**Registry** has the operators of the registry: a map from ids to addresses and
the list of objects. `get()` inserts a null pointer under an unknown id.

**Connection**, **RpcServer**, **RpcClient**, **Rpc**: messages are records of
name, id and value; arguments are known by the number of the call. `alive` is
membership of the registry's list. The application acts between two calls of
`doLoop()` and inside callbacks. Using a freed `Stub`, a null pointer or the end
of an invocation list leads to `c_pc = "fault"`, after which the client does
nothing: the code's behaviour is then undefined. A time-out may end a phase at any
moment. `misused` records whether the application has held two handles on one
Stub or disconnected a handle with calls pending; the constants `OneHandle` and
`Quiet` forbid it to. The first is no departure from the documentation, which offers
several instances of one RPC (`README.md:30` of the repository); it is what the code
does not support (`rpc_handles`).

Operators marked as mutants are wrong variants of the definition that follows
them. No specification uses them; substituted, each makes TLC report the property
it is listed with in `PROJECT.json`.

## Runs

| run | what it shows | bounds |
|---|---|---|
| `streamer` | two threads, a driver that takes all or nothing, `reset()` at either end between its calls: type and ring invariants, `WrapSafe`; the rings and the medium implement `ByteStream`, so a reset only drops bytes of its own ring; `flush`/`com_read` move bytes only; `write` appends what it reports; a full transmit ring gets room again | ring 2, packet 2, medium 2, writes up to 3, bytes numbered modulo 3, 2 resets |
| `streamer_test` | the streamer test over the loop back driver ends, memory blocks match, and at every moment what was received is the beginning of what was sent | block of 26, chunks to 4, ring 4 |
| `streamer_test_partial` | **violation**: with a driver that takes part of a packet, bytes overtake others at the wrap | same |
| `framing` | both protocols: the receiver stays in step, delivers what was sent, keeps going; frames longer than the stream; `initLoop()` again between messages | stream of 4 bytes, frames up to twice that, byte values 0..2 |
| `framing_endian` | **violation**: the size in the header is not re-ordered | same |
| `transfer` | serializers, rings and loop back driver in one thread, under the loops with their time-outs: they implement `Framing` although `com_read()` moves bytes between the calls of one `receive()`; messages get through | ring 2, packet 2, medium 2, frames of 4 to 7 bytes, one byte for id and size |
| `marshalling` | arguments and results survive in both protocols, in the repository's own build and between machines of different byte order, two calls of one Stub under way | all parameter types alone, pairs of different ones, strings with a blank, with a tab in front and behind, empty ones and the longest |
| `marshalling_const_pointer` | **violation**: `const string*` shifts the output addresses | two signatures |
| `rpc` | registries stay consistent whatever the application does; before every fault two handles have shared a Stub or one was disconnected with calls pending; without either pending calls and messages agree in order | 2 functions, 2 handles, 2 calls, ids modulo 2 |
| `rpc_answers` | callbacks get their own results; every call of a function that stays registered is answered | 1 function, 1 handle, 3 calls, ids modulo 2, buffer size 1 |
| `rpc_handles` | **violation**: a second handle dangles | 1 call |
| `rpc_register` | **violation**: an early request makes registration impossible | 1 call |

Why the bounds are enough. A ring of 2 with packets of 2 has packets that wrap and
that do not, first and second reads, full and empty rings, and writes longer than
the ring; `streamer_test` has a ring of 4, packets that are no divisor of it and a
medium smaller than a ring, and the proofs hold for all sizes. In `transfer` some
frames are longer than both rings and the medium together. The code never looks at a byte, and
bytes numbered modulo 3 tell a displaced byte from its neighbours. Frames are longer
than the stream, so that every field is cut at every place. Ids modulo 2 come
round while older calls with the same id are still pending. Blobs reach the
largest length a `SIZE_T` of two bytes tells (24, with 5 values of a byte). Symmetry is used in
`rpc` on functions, handles and addresses, which are interchangeable in `Init`, in
`Next` and in the invariants checked. States after a fault are not explored
further (`UpToFault`): the program has no defined behaviour there.

Fairness. A call that has begun runs to its end (weak fairness of its steps), as
the loops are plain code. Both loops are called again and again, so `flush()`,
`com_read()`, `send()` and `receive()` are; strong fairness of these stands for
loops that alternate, where the other end cannot always be the one to move. A
driver does not refuse for ever what fits into its medium (strong fairness of the
steps that move bytes into or out of `link`); the code cannot guarantee that, and
no flush would ever succeed otherwise. In `transfer` the ends
enter and leave their loops again and again, and a time-out (5 ms) is long enough
for one pass: a message that is begun gets to `send()`, and `receive()` is called;
`initLoop()` is assumed to be called once. For
`rpc_answers`, a phase of 5 ms has time for a message that is ready; without that
a loop could time out for ever. Reception consumes what it finds. Nothing is
assumed about the application.

## Proofs

The theorems hold for every value of the constants that satisfies the named
assumptions; TLC evaluates those assumptions in the runs. `DataLemmas` has the
facts about sequences, numbers and recursion on them that several proofs need.

| module | about | theorems |
|---|---|---|
| `StreamerProofs` | `Streamer` | `StreamerTypes`, `StreamerRingsConsistent`, `StreamerWrapSafe`, `StreamerImplementsByteStream`, `StreamerTransportConserves`, `StreamerWriteAppends` |
| `StreamerTestProofs` (over `StreamerProofs`) | `StreamerTest` | `StreamerTestInvariant`, `StreamerTestPrefix`, `StreamerTestPasses` |
| `FramingProofs` | `Framing` | `FramingReceiveInBounds`, `FramingStreamParses`, `FramingReceivedIsSent`, `FramingSizeAsSent` |
| `TransferProofs` | `Transfer` | `TransferImplementsFraming` |
| `MarshallingProofs` | `Marshalling` | `ServerGetsArgumentsHolds`, `CallerGetsResultsHolds` |
| `RpcProofs` (over `RpcLemmas`) | `Rpc` | `RpcTypes`, `RpcRegistriesAgree`, `RpcFaultOnlyByMisuse`, `RpcPendingInOrder`, `RpcCallbackGetsItsResult`, `DisciplineSuffices` |

Each rests on an inductive invariant, with a lemma for each action.

**Streamer.** The invariant is `TypeOK /\ RingsConsistent /\ (DriverContract =>
WrapSafe)`, and it is inductive whatever the driver answers. `TypeOK` alone is not:
that an index stays in the ring and that `used_size` does not underflow need the
full flag to mean that the indices meet, and `used_size` to be the size of the ring,
which is `RingsConsistent`. That nothing is displaced needs `WrapSafe`: when the
second part of a wrapped packet is written, either the first part has left
completely or the second write cannot write anything. Only there the contract of
the driver is used (it takes a packet whole or not at all, or it is `SharedBuffer`
with both ends in one thread), and `streamer_test_partial` shows what happens
without it; types, the consistency of the rings and `StreamerWriteAppends` do not
depend on it. For the refinement of `ByteStream`, lemmas describe the stream after
a step (`StreamAfter`) from the ring segments it moves. `reset()` is an action of
the specification. Assumptions: `SizesAssumption`, `ItemsAssumption`,
`DriverAssumption`, `ByteAssumption`.

**Streamer test.** The theorems are about the loop back driver with both ends in one
thread (`Looped`), as in the test. `TestInv` adds to the invariant of `Streamer` where
the bytes are and why the loops end where they do. `Conserved`: the bytes received,
followed by the stream, are the first `i_write` bytes of the block. `Pushed`: what a
`flush()` leaves in the transmit ring it leaves because the medium is full, or there are
bytes received for which the test calls `flush()` again. `Pulled`: `com_read()` leaves
the receive ring empty only when the medium is empty. So `rx_size() = 0` means that
nothing is left anywhere, which is `Empty` at the start of each round, and `Conserved` then
gives `MemoryBlocksMatch`. `Progress` has the arithmetic of the write loop: it ends with
the block or with ring and medium full, hence `i_write` is a multiple of their sizes
at the start of a round, and `TestAssumption` keeps the write inside the block.

**Framing.** `IInv` has the types and `Bounds`: of the bytes in `buffer`, those that
are not used yet are the ones the stream begins with. That `ix = 0` in the phase
`ID` is part of it, since the text protocol consumes all `m_len` bytes there and not
those from `ix` on; it holds because a message ends every call of `receive()`. This
much holds for any byte orders and gives `FramingReceiveInBounds`.

`JInv` adds `Parsed` and `InStep`. `InStep` says that what `receive()` has taken of
the field it is in, the stream, and what `send()` has still to write are together the
rest of the oldest message from that field on, and the messages behind it.
`StreamParses` is not inductive as it stands: that the fields read so far are, byte
for byte, the beginning of a frame does not say that they are the fields of that
message. `Parsed` says they are, and that what has been collected of a text has no 0
byte, so that the first 0 byte ends it for the receiver where it ended it for the
sender. The induction then needs that a text and an integer can be told from what
follows them (`TextCancel`, `ConcatCancel`) and that reading an integer undoes laying
it out. `JInv` is shown under `SameByteOrder`: no binary build joins machines of
different byte orders. `framing_endian` shows that this is needed. Assumption:
`FramingAssumption`, which is `WellFormed`.

**Transfer.** `TInv` is the invariant of `Streamer` with `SenderOK` and
`ReceiverOK`. `ReceiverOK` is what makes the composition work: of the bytes that
`rx_size()` has promised to a call of `receive()`, those it has not used yet are in
the receive ring, so `try_read()` and `consume_read()` find them all although
`com_read()` runs before each. `SenderOK` says that `send()` never calls `write()`
without bytes, on which the ring relies. Every step of the loops is then a step of
`Framing` or none, by the lemmas of `StreamerProofs` about what `write()`,
`try_read()`, `consume_read()`, `flush()` and `com_read()` do to the stream. The
theorem needs the contract of the driver. Assumptions: those of `Streamer` and
`TransferAssumption`.

**Marshalling.** The invariant is `Messages`: every request under way has the value
that `serialize_args()` makes of the arguments it stands for, every reply the value
that the lambda of `connect()` makes of its results, the values have the types of the
signature, and while a message is under way the caller has a variable for every
parameter. It holds although the buffers `in_args` and `out_args` are used again by
the next call, because a message takes a copy. The two properties then follow from
what reading does to a message of known contents, in five layers of lemmas. One value:
writing and reading swap the bytes of a number as often as the byte orders ask for
(`read_scalar` undoes `write_scalar` between any two machines and in a loop back), and
the length of a blob says where it ends. Values one after another: by induction on
their number, reading the first k leaves the index behind what writing the first k has
written (`BinaryRoundTrip`). Text: what `split()` finds in words with a delimiter
before each are the words, once `ltrim()` has taken the first delimiter away and
nothing else, which needs the first word not to begin with white space, and not to be
empty when others follow (`TextTokens`); and a word that the protocol carries is read
as the value printed (`TextRead`). The whole request and the whole reply:
`RequestRead`, `ReplyRead`, with the return value cut off in front. Variables: the
addresses collected by the call are the positions of the output values of the reply,
so each value goes where it belongs (`Stored`). This last step needs that no parameter
is a pointer to a const object (`NoConstPointer`), the hypothesis of
`CallerGetsResultsHolds`; `marshalling_const_pointer` shows what happens otherwise.
Both properties say what they say where `carries` holds, which is always in the binary
protocol. Assumption: `MarshallingAssumption` (the blank is white space and digits are
not, the values have the bytes of their types, a blob is shorter than `SIZE_T` can
count, a text has no NUL, which would end its frame, a function has parameters).

**Rpc.** `IInv` strengthens the invariants the runs check by four parts.
`Registered`: an address is in a list once, a Stub has one handle (the client never
counts a second one), and the server's pointers are those under which the map has
them. `HandlesOwn`: without misuse a handle points to a live Stub that no other
handle points to. `Flow`: `PendingInOrder`, and that an invocation that is neither
requested nor replied to was dropped because `get()` had put a null pointer into the
server's map, which no `insert()` replaces; without it a function that is registered
later could answer a call out of order. `Answering`: inside a callback the reply is
the oldest and answers the oldest invocation of its function, which the loop in
`doLoop()` therefore finds first, however often the ids have come round.
`DisciplineSuffices` concludes for an application that keeps to one handle per
function and disconnects it only when nothing is pending that the client never
faults. Assumptions: `ConnectionAssumption` (addresses are neither null nor the
marker for no pointer, sizes are not 0) and `ClientAssumption`.

Only model-checked:

- liveness (`TxRingDrains`, `TestCompletes`, `MessagesArrive`,
  `MessagesGetThrough`, `CallsAnswered`): fairness needs `ENABLED`, which is outside
  the prover's reach;
- that `Rpc` may take its connection from `Framing`, and that `FramingReceivedIsSent`
  holds of `Transfer`: the first is not stated, and the second follows from
  `TransferImplementsFraming` on paper only, since the prover does not use theorems
  through `INSTANCE`.

The prover has no induction over data with an operator as its parameter. Where a
proof needs one (the digits of an integer, frames one behind the other, the values
of a message, the characters of a text), the set of numbers for which the claim
holds is shown to be all of `Nat` (`InductiveSet` in `DataLemmas`, from the least
element of a set of numbers).

## Disagreements with the repository's documentation

1. `flush()` at the wrap ignores a short first write (`bmRPCStreamer.h:96`): run
   `streamer_test_partial`.
2. `connect()` of the client looks Stubs up under the bare name
   (`bmRPCClient.h:51`), so handles are not counted: `rpc_handles`.
3. `get()` of the registry inserts null pointers (`bmRPCRegistry.h:70`):
   `rpc_register`.
4. The size in a frame header is not re-ordered (`bmRPCSerializer.h:190`):
   `framing_endian`.
5. A pointer to a const object takes up an output address
   (`bmRPCMarshaller.h:758`): `marshalling_const_pointer`.

Three more that no run states:

- The text protocol does not carry every fundamental type and string that
  `README.md:26` and `:31` promise. A `bool` is printed as `0` or `1` and read as
  that character (`bmRPCMarshaller.h:58-65`), so `false` arrives as true; a string
  falls apart at a blank in `split()`; `ltrim()` drops white space in front of the
  first value (`bmRPCUtilities.cpp:37`) and an empty first string of several;
  floating-point values keep six digits; a NUL in a string ends the frame. The tests go
  around the blanks (`bmRPCTest.cpp:352-358`). Values without these are what `carries` in
  `Marshalling` admits, and they arrive (`ServerGetsArguments`, `CallerGetsResults`).
- `doLoop()` of both ends declares its time-outs as `TimeOut_t`, the CRTP base
  class (`bmRPCClient.h:135`), the use `bmRPCTest.cpp:1170-1174` warns of ("The stack
  gets corrupted otherwise").
- `README.md:118` and `:141` call `init_loop()`; the code has `initLoop()`.

`tx_msg_full()` compares with `>` (`bmRPCClient.h:187`), so the client's buffer
takes one message more than `MAX_CLIENT_MSG_BUFFER_SIZE`; `TypeOK` of `Rpc` states
the bound as it is.

## Not modelled

- The clock of `TimeOut`, and what its use through the base class overwrites; a
  phase may end at any moment.
- `EmptyCom`, whose calls do nothing; `bmRPCVersion.cpp`; `main.cpp` and the tests
  other than the streamer test, which are sequences of calls that `Rpc` and
  `Marshalling` allow in every order (the three handles of the f9 test are what
  `rpc_handles` is about).
- `rtrim`, `splitST` and `splitSV` of the utilities, which nothing calls.
- Signatures without parameters; `string_composer()` reads before looking whether
  there is a first name.
- `read`/`write` of size 0, which no caller uses; threads on `SharedBuffer`.
- `initLoop()` in the middle of a message: the documentation calls it before the
  loop, and no recovery from a broken frame exists in the code.
- Several clients or servers of one type in a process; they would share the static
  messages of `doLoop()`.
- A character 0 in a text, which ends its field.

## Plan

`Rpc` over `Transfer` in both directions, in place of `Connection`.
