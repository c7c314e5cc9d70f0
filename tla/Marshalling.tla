------------------------------ MODULE Marshalling ------------------------------
(***************************************************************************)
(* The arguments of a call: from the variables of the caller into the      *)
(* value of a request, into the parameters of the function, and back from  *)
(* the references it has assigned and its return value into the value of a *)
(* reply and the variables of the caller.                                  *)
(*                                                                         *)
(* A parameter is a base type and the way it is passed.  A value is the    *)
(* sequence of its bytes, most significant byte first when it is a number. *)
(* A message of the binary protocol is a sequence of bytes.  A message of  *)
(* the text protocol is a sequence of printed pieces, each a sequence of   *)
(* bytes: a character is one byte, and the digits of a number are one      *)
(* piece, the bytes of the number they print.                              *)
(* One Stub and the Skeleton of the same function, with the buffers they   *)
(* keep from call to call; the connection between them delivers messages   *)
(* whole and in order (Framing).                                           *)
(***************************************************************************)
EXTENDS Integers, Sequences, FiniteSetsExt

CONSTANTS
    Base,                    \* values of a byte, 256
    Blank, Zero, One,        \* the characters ' ', '0' and '1': 32, 48 and 49
    Spaces,                  \* the characters isspace() accepts: 9 to 13 and 32
    Signatures,              \* [params |-> sequence of parameters, ret |-> base type]
    Values(_),               \* values of a variable of a base type
    Builds,                  \* [binary, srv, cln, loop_back]: the switches of bmRPC.h
    MaxOutstanding           \* calls under way

VARIABLES
    build,                   \* how both ends were compiled
    sig,                     \* the signature of the function
    args,                    \* the variables of the caller, one for each parameter
    in_args,                 \* Stub::in_args, kept from call to call
    out_args,                \* Skeleton::out_args, kept from call to call
    requests, replies,       \* values of the messages under way, with what they stand for
    invoked,                 \* latest invocation: arguments sent and received
    returned                 \* latest reply: results sent and received

vars == <<build, sig, args, in_args, out_args, requests, replies, invoked, returned>>

-------------------------------------------------------------------------------
(* Types, and the switches of a build b.                                   *)

BINARY_BASED_PROTOCOL(b) == b.binary
LOOP_BACK_TEST(b) == b.loop_back     \* both ends in one process, on one machine
SRV_NATIVE(b) == b.srv
CLN_NATIVE(b) == b.cln

to_swap(b) == SRV_NATIVE(b) # CLN_NATIVE(b)

\* byte order of the machines: in a loop back there is only one
client_order(b) == CLN_NATIVE(b)
server_order(b) == IF LOOP_BACK_TEST(b) THEN CLN_NATIVE(b) ELSE SRV_NATIVE(b)

sizeof ==
    [bool |-> 1, char |-> 1, uchar |-> 1, short |-> 2, ushort |-> 2, int |-> 4, uint |-> 4,
     long |-> 8, ulong |-> 8, longlong |-> 8, ulonglong |-> 8, float |-> 4, double |-> 8]

blobs == {"string", "blob"}

\* printed character by character
characters == {"string", "char", "uchar"}

\* sizeof(SIZE_T), the type of the length of a blob
size_of_length == 2

\* the specialisations of ParamType, those of blobs in the binary protocol only
valid(b, p) ==
    \/ p.base \in DOMAIN sizeof /\ p.by = "value"
    \/ p.base \in {"int", "long", "longlong", "float", "double"} /\ p.by = "&"
    \/ /\ p.base = "string" \/ (p.base = "blob" /\ BINARY_BASED_PROTOCOL(b))
       /\ p.by \in {"&", "const &", "*", "const *"}

\* out_id is not WRONG: a reference or pointer to what is not const
is_out(p) == p.by \in {"&", "*"}

\* the specialisations of ReturnType
return_types == {"int", "long", "longlong", "float", "double", "void"}

\* positions, in order, of the parameters passed in one of the ways bys
positions(params, bys) ==
    LET upto[i \in 0..Len(params)] ==
            IF i = 0 THEN << >>
            ELSE IF params[i].by \in bys THEN Append(upto[i - 1], i)
            ELSE upto[i - 1]
    IN  upto[Len(params)]

\* codify_in_args() and codify_out_args()
in_args_format(params) == [i \in 1..Len(params) |-> i]
out_args_format(params) == positions(params, {"&", "*"})

Byte == 0 .. Base - 1

\* The blank is white space, the digits and NUL are not, and the last bit of '1' is
\* set.  A function has parameters: stringify() reads the name of the first.  A number
\* has the bytes of its type, and a length fits into size_of_length bytes.  What is
\* sent as text has no NUL in it, which would end the value of the message.
ASSUME MarshallingAssumption ==
    /\ Base \in Nat /\ {0, Zero, One} \cup Spaces \subseteq Byte
    /\ Blank \in Spaces /\ {0, Zero, One} \cap Spaces = {} /\ One % 2 = 1
    /\ Builds \subseteq [binary : BOOLEAN, srv : {"little", "big"}, cln : {"little", "big"},
                         loop_back : BOOLEAN]
    /\ \A s \in Signatures :
          /\ s.params \in Seq([base : DOMAIN sizeof \cup blobs,
                               by : {"value", "&", "const &", "*", "const *"}])
          /\ s.params # << >> /\ s.ret \in return_types
    /\ \A base \in DOMAIN sizeof : Values(base) \subseteq [1..sizeof[base] -> Byte]
    /\ Values("bool") \subseteq {<<0>>, <<1>>}
    /\ \A base \in blobs : \A v \in Values(base) : v \in Seq(Byte) /\ Len(v) < Base * Base
    /\ (\E b \in Builds : ~b.binary) =>
          \A base \in characters : \A v \in Values(base) : \A k \in 1..Len(v) : v[k] # 0

-------------------------------------------------------------------------------
(* stream::write and stream::read of the binary protocol.                  *)

backwards(seq) == [i \in 1..Len(seq) |-> seq[(Len(seq) - i) + 1]]

\* a number in memory, and the number a machine finds in memory
in_memory(v, order) == IF order = "big" THEN v ELSE backwards(v)

\* length of a blob as a number of size_of_length bytes, and back
length(n) == <<n \div Base, n % Base>>
number(bytes) == bytes[1] * Base + bytes[2]

write_scalar(b, v, order) ==
    IF to_swap(b) THEN backwards(in_memory(v, order)) ELSE in_memory(v, order)

\* SIZE_T wraps, and as many bytes as it says are written
write_blob(b, v, order) ==
    LET n == Len(v) % (Base * Base)
    IN  write_scalar(b, length(n), order) \o SubSeq(v, 1, n)

\* n bytes from data.begin() + ix; what lies behind the end is not data
bytes_at(data, ix, n) ==
    [k \in 1..n |-> IF ix + k \in 1..Len(data) THEN data[ix + k] ELSE 0]

\* mutant of read_scalar: the bytes of a loop back are not swapped again
read_scalar_no_swap(b, data, ix, n, order) == in_memory(bytes_at(data, ix, n), order)

read_scalar(b, data, ix, n, order) ==
    LET bytes == bytes_at(data, ix, n)
    IN  in_memory(IF LOOP_BACK_TEST(b) /\ to_swap(b) THEN backwards(bytes) ELSE bytes, order)

read_length(b, data, ix, order) == number(read_scalar(b, data, ix, size_of_length, order))

\* the value at ix and the index behind it
read(b, base, data, ix, order) ==
    IF base \in blobs
    THEN LET n == read_length(b, data, ix, order)
         IN  [v |-> bytes_at(data, ix + size_of_length, n), ix |-> ix + size_of_length + n]
    ELSE [v |-> read_scalar(b, data, ix, sizeof[base], order), ix |-> ix + sizeof[base]]

-------------------------------------------------------------------------------
(* stream::write and stream::read of the text protocol.                    *)

\* operator<<: a bool as a digit, a character as it is, and of a floating-point
\* number the first six digits: its last byte stands for the digits behind
print(base, v) ==
    CASE base = "string" -> [k \in 1..Len(v) |-> <<v[k]>>]
      [] base = "bool" -> <<IF v = <<0>> THEN <<Zero>> ELSE <<One>>>>
      [] base \in {"float", "double"} -> <<[v EXCEPT ![Len(v)] = 0]>>
      [] OTHER -> <<v>>

\* a delimiter before every value
write_text(base, v) == <<<<Blank>>>> \o print(base, v)

\* isspace(): the digits of a number are none
is_space(piece) == piece \in {<<c>> : c \in Spaces}

\* mutant of ltrim: the blanks stay
ltrim_none(s) == s

\* without the white space in front
ltrim(s) ==
    LET rest == {i \in 1..Len(s) : ~is_space(s[i])}
    IN  IF rest = {} THEN << >> ELSE SubSeq(s, Min(rest), Len(s))

\* the tokens between one blank and the next, empty ones as well
split(s) ==
    LET tokens[i \in 0..Len(s)] ==
            IF i = 0 THEN <<<< >>>>
            ELSE LET before == tokens[i - 1]
                 IN  IF s[i] = <<Blank>> THEN Append(before, << >>)
                     ELSE [before EXCEPT ![Len(before)] = Append(@, s[i])]
    IN  tokens[Len(s)]

\* sequences one after another
concat(seqs) ==
    LET upto[i \in 0..Len(seqs)] == IF i = 0 THEN << >> ELSE upto[i - 1] \o seqs[i]
    IN  upto[Len(seqs)]

\* c_str()[0] of the characters of a token: a terminating 0 ends every string
first_char(token) == Head(concat(token) \o <<0>>)

\* AnyArg::getAs(), of the byte AnyArg() has stored: a bool that is neither 0 nor 1
\* is compared with 0, or its last bit is taken
getAs(base, v) ==
    IF base = "bool" THEN {<<IF v = <<0>> THEN 0 ELSE 1>>, <<v[1] % 2>>} ELSE {v}

\* what a token is read as.  A bool is read as a character.  Of a token that is not the
\* digits of a number of the type, from_chars(), stof() and stod() read what they find
\* in front; when they find nothing, from_chars() leaves the variable as it was, and
\* stof() and stod() end the program
read_text(base, token) ==
    IF base = "string" THEN {concat(token)}
    ELSE IF base \in {"bool", "char", "uchar"} THEN getAs(base, <<first_char(token)>>)
    ELSE IF Len(token) = 1 /\ Len(token[1]) = sizeof[base] THEN {token[1]}
    ELSE Values(base)

-------------------------------------------------------------------------------
(* Values one after another, in either protocol.                           *)

\* the sequences with an element of every set of a sequence of sets
OneOfEach(sets) ==
    {f \in [1..Len(sets) -> UNION {sets[i] : i \in 1..Len(sets)}] :
        \A i \in 1..Len(sets) : f[i] \in sets[i]}

\* the values of the parameters at the positions of format, and the index behind
\* the last: of bytes, or of tokens.  A token behind the end is any value
read_all(b, params, format, data, order) ==
    LET done[k \in 0..Len(format)] ==
            IF k = 0 THEN [values |-> << >>, ix |-> 0]
            ELSE LET before == done[k - 1]
                     next == read(b, params[format[k]].base, data, before.ix, order)
                 IN  [values |-> Append(before.values, next.v), ix |-> next.ix]
        token(k) ==
            IF k \in 1..Len(data) THEN read_text(params[format[k]].base, data[k])
            ELSE Values(params[format[k]].base)
    IN  IF BINARY_BASED_PROTOCOL(b) THEN {done[Len(format)]}
        ELSE [values : OneOfEach([k \in 1..Len(format) |-> token(k)]), ix : {Len(format)}]

write(b, base, v, order) ==
    IF ~BINARY_BASED_PROTOCOL(b) THEN write_text(base, v)
    ELSE IF base \in blobs THEN write_blob(b, v, order)
    ELSE write_scalar(b, v, order)

\* the values of the parameters at the positions of format, one after another
write_all(b, params, format, values, order) ==
    concat([k \in 1..Len(format) |->
              write(b, params[format[k]].base, values[format[k]], order)])

\* the text of a message has no blank in front
message_value(b, s) == IF BINARY_BASED_PROTOCOL(b) THEN s ELSE ltrim(s)

-------------------------------------------------------------------------------
(* The client calls.                                                       *)

Init ==
    /\ build \in Builds
    /\ sig \in {s \in Signatures : \A i \in 1..Len(s.params) : valid(build, s.params[i])}
    /\ args = << >> /\ in_args = << >> /\ out_args = << >>
    /\ requests = << >> /\ replies = << >>
    /\ invoked = [sent |-> << >>, got |-> << >>, ix |-> 0, size |-> 0, carried |-> TRUE]
    /\ returned = [sent |-> << >>, got |-> << >>, carried |-> TRUE]

\* the assignments of values to the variables of the caller
Assignments(params) == OneOfEach([i \in 1..Len(params) |-> Values(params[i].base)])

\* characters with white space in front
spaced(type, v) == type \in characters /\ v # << >> /\ v[1] \in Spaces

\* what the protocol can carry: in text no value with a blank in it, no false, no
\* digits behind the sixth, and as the first value no characters with white space in
\* front, and no empty string when others follow
carries_value(type, v) ==
    CASE type \in characters -> \A k \in 1..Len(v) : v[k] # Blank
      [] type = "bool" -> v # <<0>>
      [] type \in {"float", "double"} -> v[Len(v)] = 0
      [] OTHER -> TRUE

carries(b, types, values) ==
    \/ BINARY_BASED_PROTOCOL(b)
    \/ /\ \A i \in 1..Len(values) : carries_value(types[i], values[i])
       /\ Len(values) > 1 => values[1] # << >>
       /\ Len(values) > 0 => ~spaced(types[1], values[1])

\* the values of the variables, and the base types, at the positions of format
pick(seq, format) == [k \in 1..Len(format) |-> seq[format[k]]]
bases(params) == [i \in 1..Len(params) |-> params[i].base]

serialize_args(b, params, values) ==
    message_value(b, write_all(b, params, in_args_format(params), values, client_order(b)))

\* mutant of out_args_addresses: of references to what is const as well
out_args_addresses_const(params) ==
    positions(params, {"&", "const &", "*", "const *"})

\* positions of the variables a reply is to assign.  is_const_v of a
\* reference looks at what is referred to, of a pointer at the pointer
out_args_addresses(params) == positions(params, {"&", "*", "const *"})

\* asyncRPC(), with variables the caller has assigned before
asyncRPC ==
    /\ Len(requests) + Len(replies) < MaxOutstanding
    /\ \E a \in Assignments(sig.params) :
         /\ args' = a
         /\ in_args' = serialize_args(build, sig.params, a)
         /\ requests' = Append(requests, [value |-> in_args', sent |-> a])
    /\ UNCHANGED <<build, sig, out_args, replies, invoked, returned>>

-------------------------------------------------------------------------------
(* The server executes.                                                    *)

unmarshall_args_in(b, data) == IF BINARY_BASED_PROTOCOL(b) THEN data ELSE split(data)

deserialize_in_args(b, params, data) ==
    read_all(b, params, in_args_format(params), data, server_order(b))

serialize_out_args(b, params, values) ==
    write_all(b, params, out_args_format(params), values, server_order(b))

serialize_r(b, ret, r) == IF ret = "void" THEN << >> ELSE write(b, ret, r, server_order(b))

\* what the function may leave in its parameters and may return
Effects(params, values) ==
    OneOfEach([i \in 1..Len(params) |->
                 IF is_out(params[i]) THEN Values(params[i].base) ELSE {values[i]}])

Returns(ret) == IF ret = "void" THEN {<< >>} ELSE Values(ret)

\* the return value, then the output values
reply_value(b, s, r, left) ==
    message_value(b, serialize_r(b, s.ret, r) \o serialize_out_args(b, s.params, left))

\* unmarshall(), dispatch() of the lambda of connect(), and marshall()
dispatch ==
    /\ requests # << >>
    /\ LET msg == Head(requests)
           data == unmarshall_args_in(build, msg.value)
       IN  \E vec \in deserialize_in_args(build, sig.params, data) :
             /\ invoked' = [sent |-> msg.sent, got |-> vec.values,
                            ix |-> vec.ix, size |-> Len(data),
                            carried |-> carries(build, bases(sig.params), msg.sent)]
             /\ \E left \in Effects(sig.params, vec.values), r \in Returns(sig.ret) :
                  /\ out_args' = reply_value(build, sig, r, left)
                  /\ replies' = Append(replies, [value |-> out_args', r |-> r, left |-> left])
    /\ requests' = Tail(requests)
    /\ UNCHANGED <<build, sig, args, in_args, returned>>

-------------------------------------------------------------------------------
(* The client takes the reply.                                             *)

\* bytes, or tokens, of the return value
r_size(b, ret) ==
    IF ret = "void" THEN 0
    ELSE IF BINARY_BASED_PROTOCOL(b) THEN sizeof[ret]
    ELSE 1

\* the return value and the output values of a reply
unmarshall_out_args(b, ret, value) ==
    LET data == IF BINARY_BASED_PROTOCOL(b) THEN value ELSE split(value)
        n == r_size(b, ret)
    IN  [r_arg |-> SubSeq(data, 1, n), out_args |-> SubSeq(data, n + 1, Len(data))]

deserialize_r(b, ret, r_arg) ==
    IF ret = "void" THEN {<< >>}
    ELSE IF BINARY_BASED_PROTOCOL(b) THEN {read_scalar(b, r_arg, 0, sizeof[ret], client_order(b))}
    ELSE read_text(ret, r_arg[1])

\* the variables once a value is stored at the address of every position of format
store(format, values, addresses, variables) ==
    [i \in 1..Len(variables) |->
        IF \E k \in 1..Len(format) : addresses[k] = i
        THEN values[CHOOSE k \in 1..Len(format) : addresses[k] = i]
        ELSE variables[i]]

deserialize_out_args(b, params, data, addresses, variables) ==
    LET format == out_args_format(params)
    IN  {store(format, done.values, addresses, variables) :
            done \in read_all(b, params, format, data, client_order(b))}

\* what the reply should have carried: the return value and the output values
results(s, msg) ==
    LET format == out_args_format(s.params)
    IN  [types |-> (IF s.ret = "void" THEN << >> ELSE <<s.ret>>) \o pick(bases(s.params), format),
         values |-> (IF s.ret = "void" THEN << >> ELSE <<msg.r>>) \o pick(msg.left, format)]

\* unmarshall_and_dispatch(); the variables are those of the latest call
unmarshall_and_dispatch ==
    /\ replies # << >>
    /\ LET msg == Head(replies)
           data == unmarshall_out_args(build, sig.ret, msg.value)
       IN  \E r \in deserialize_r(build, sig.ret, data.r_arg) :
             /\ args' \in deserialize_out_args(build, sig.params, data.out_args,
                                               out_args_addresses(sig.params), args)
             /\ returned' =
                  [sent |-> [r |-> msg.r,
                             args |-> [i \in 1..Len(args) |->
                                         IF is_out(sig.params[i]) THEN msg.left[i] ELSE args[i]]],
                   got |-> [r |-> r, args |-> args'],
                   carried |-> carries(build, results(sig, msg).types, results(sig, msg).values)]
    /\ replies' = Tail(replies)
    /\ UNCHANGED <<build, sig, in_args, out_args, requests, invoked>>

Next == asyncRPC \/ dispatch \/ unmarshall_and_dispatch

Spec == Init /\ [][Next]_vars

-------------------------------------------------------------------------------
(* Properties.                                                             *)

\* A function is invoked with the values its caller passed, where the protocol can
\* carry them: what serialize_args() writes on one machine deserialize_in_args()
\* reads on the other, parameter by parameter, and it reads the value of the
\* request to its end and no further.  A call whose values the text protocol
\* cannot carry leaves nothing behind that harms a later one.
ServerGetsArguments ==
    invoked.carried =>
        /\ invoked.got = invoked.sent
        /\ invoked.ix = invoked.size

\* A caller gets the return value and, in the variables it passed by reference,
\* what the function left in them, where the protocol can carry these; its other
\* variables are as they were.
CallerGetsResults == returned.carried => returned.got = returned.sent

===============================================================================
