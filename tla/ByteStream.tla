------------------------------ MODULE ByteStream ------------------------------
(***************************************************************************)
(* What the Streamer class promises to its users: one direction of the     *)
(* connection is a lossless first-in first-out stream of bytes.  A write   *)
(* appends a prefix of what it is given, a read or a peek returns the      *)
(* oldest bytes, and only read, consume and reset remove bytes.            *)
(***************************************************************************)
EXTENDS Naturals, Sequences

CONSTANT Items          \* the byte sequences a caller may pass to write()

VARIABLES queue,        \* bytes written and not yet read, oldest first
          last          \* bytes returned by the latest call on the read side

vars == <<queue, last>>

Init == /\ queue = << >>
        /\ last = << >>

Write(items) == \E n \in 0..Len(items) :
    /\ queue' = queue \o SubSeq(items, 1, n)
    /\ UNCHANGED last

Peek(n) == /\ last' = SubSeq(queue, 1, n)
           /\ UNCHANGED queue

Read(n) == /\ last' = SubSeq(queue, 1, n)
           /\ queue' = SubSeq(queue, n + 1, Len(queue))

Consume(n) == /\ queue' = SubSeq(queue, n + 1, Len(queue))
              /\ UNCHANGED last

\* reset() of the transmitting side forgets bytes that have not left it
Forget(n) == /\ queue' = SubSeq(queue, 1, Len(queue) - n)
             /\ UNCHANGED last

Next == \/ \E items \in Items : Write(items)
        \/ \E n \in 0..Len(queue) : Peek(n) \/ Read(n) \/ Consume(n) \/ Forget(n)

Spec == Init /\ [][Next]_vars
===============================================================================
