----------------------------- MODULE FramingProofs -----------------------------
(***************************************************************************)
(* Proofs about Framing, for every set of messages, every width of the     *)
(* integers, every capacity of the stream and every way the bytes are cut  *)
(* into chunks.  First what its operators compute, for every input:        *)
(* integers in memory and back, fields, frames, sequences of frames; then  *)
(* the inductive invariants, the steps, and the theorems.                  *)
(***************************************************************************)
EXTENDS Framing, DataLemmas

\* the solver the steps without one of their own go to
USE SMTT(30)

-------------------------------------------------------------------------------
(* Sequences one behind the other.                                         *)

\* h[i] is the concatenation of the first i sequences
Joined(h, seqs, n) ==
    h[0] = << >> /\ \A i \in 1..n : h[i] = h[i - 1] \o seqs[i]

LEMMA JoinedExists ==
    ASSUME NEW S, NEW seqs \in Seq(Seq(S))
    PROVE  \E h \in [0..Len(seqs) -> Seq(S)] : Joined(h, seqs, Len(seqs))
<1> DEFINE W == Seq(S)
           len == Len(seqs)
           e == << >>
           add == [i \in Nat |-> [v \in W |-> IF i \in 1..len THEN v \o seqs[i] ELSE v]]
<1>1. len \in Nat /\ e \in W /\ \A i \in 1..len : seqs[i] \in W
  OBVIOUS
<1>2. \A i \in 1..len : \A v \in W : v \o seqs[i] \in W
  BY <1>1
<1> HIDE DEF W, len, e
<1>3. add \in [Nat -> [W -> W]]
  BY <1>2, Zenon
<1>4. PICK g \in [0..len -> W] : Stepwise(g, e, add, len)
  <2> HIDE DEF add
  <2> QED
    BY <1>1, <1>3, RecursionExists, Zenon
<1>5. ASSUME NEW i \in 1..len
      PROVE  g[i] = g[i - 1] \o seqs[i]
  <2>1. i \in Nat /\ i - 1 \in 0..len
    BY <1>1
  <2>2. g[i - 1] \in W
    BY <2>1, Zenon
  <2>3. add[i][g[i - 1]] = g[i - 1] \o seqs[i]
    BY <2>1, <2>2, Zenon
  <2> HIDE DEF add
  <2> QED
    BY <2>3, <1>4, Zenon DEF Stepwise
<1>6. Joined(g, seqs, len)
  BY <1>4, <1>5, Zenon DEF Joined, Stepwise, e
<1> QED
  BY <1>6, Zenon DEF len, W

Agree(a, b, n) == \A i \in 0..n : a[i] = b[i]

LEMMA JoinedUnique ==
    ASSUME NEW ss, NEW n \in Nat, NEW a, NEW b,
           Joined(a, ss, n), Joined(b, ss, n)
    PROVE  Agree(a, b, n)
<1> DEFINE T == {i \in Nat : i \in 0..n => a[i] = b[i]}
<1>1. 0 \in T
  BY Zenon DEF Joined
<1>2. ASSUME NEW i \in T
      PROVE  i + 1 \in T
  <2> SUFFICES ASSUME i + 1 \in 0..n
               PROVE  a[i + 1] = b[i + 1]
    OBVIOUS
  <2>1. i \in Nat /\ i \in 0..n /\ i + 1 \in 1..n /\ (i + 1) - 1 = i
    OBVIOUS
  <2>2. a[i] = b[i]
    BY <2>1, Zenon
  <2>3. /\ a[i + 1] = a[(i + 1) - 1] \o ss[i + 1]
        /\ b[i + 1] = b[(i + 1) - 1] \o ss[i + 1]
    BY <2>1, Zenon DEF Joined
  <2> QED
    BY <2>1, <2>2, <2>3, Zenon
<1> HIDE DEF T
<1>3. T = Nat
  <2>1. T \in SUBSET Nat
    BY Zenon DEF T
  <2> QED
    BY <2>1, <1>1, <1>2, InductiveSet, Zenon
<1>4. \A i \in 0..n : i \in T
  BY <1>3
<1> QED
  BY <1>4, Zenon DEF T, Agree

LEMMA JoinedDef ==
    ASSUME NEW S, NEW seqs \in Seq(Seq(S))
    PROVE  \E h \in [0..Len(seqs) -> Seq(S)] :
              Joined(h, seqs, Len(seqs)) /\ joined(seqs) = h[Len(seqs)]
<1> DEFINE len == Len(seqs)
           Def(g) == g = [i \in 0..len |-> IF i = 0 THEN << >> ELSE g[i - 1] \o seqs[i]]
           f == CHOOSE g : Def(g)
<1>1. PICK h \in [0..len -> Seq(S)] : Joined(h, seqs, len)
  BY JoinedExists, Zenon
<1>2. joined(seqs) = f[len]
  BY Zenon DEF joined
<1>3. len \in Nat /\ len \in 0..len /\ 0 \in 0..len
  OBVIOUS
<1> HIDE DEF len
<1>4. \A i \in 1..len : i \in 0..len /\ i # 0
  BY <1>3
<1>5. \A i \in 0..len : i = 0 \/ i \in 1..len
  BY <1>3
<1>6. Def(h)
  <2>1. \A i \in 0..len : h[i] = IF i = 0 THEN << >> ELSE h[i - 1] \o seqs[i]
    BY <1>1, <1>4, <1>5, Zenon DEF Joined
  <2> QED
    BY <2>1, Zenon
<1>7. Def(f)
  <2> HIDE DEF Def
  <2> QED
    BY <1>6, Zenon
<1> HIDE DEF f
<1>8. Joined(f, seqs, len)
  <2>1. \A i \in 0..len : f[i] = IF i = 0 THEN << >> ELSE f[i - 1] \o seqs[i]
    BY <1>7, Zenon
  <2> HIDE DEF Def
  <2> QED
    BY <2>1, <1>3, <1>4, Zenon DEF Joined
<1>9. f[len] = h[len]
  <2>1. Agree(f, h, len)
    BY <1>1, <1>3, <1>8, JoinedUnique, Zenon
  <2> QED
    BY <2>1, <1>3, Zenon DEF Agree
<1> QED
  BY <1>1, <1>2, <1>9, Zenon DEF len

LEMMA JoinedType ==
    ASSUME NEW S, NEW seqs \in Seq(Seq(S))
    PROVE  joined(seqs) \in Seq(S)
<1>1. PICK h \in [0..Len(seqs) -> Seq(S)] : joined(seqs) = h[Len(seqs)]
  BY JoinedDef, Zenon
<1>2. Len(seqs) \in 0..Len(seqs)
  OBVIOUS
<1> QED
  BY <1>1, <1>2, Zenon

LEMMA JoinedEmpty == joined(<< >>) = << >>
<1>1. << >> \in Seq(Seq({})) /\ Len(<< >>) = 0
  OBVIOUS
<1> DEFINE e == << >>
<1> HIDE DEF e
<1>2. PICK h \in [0..Len(e) -> Seq({})] : Joined(h, e, Len(e)) /\ joined(e) = h[Len(e)]
  BY <1>1, JoinedDef, Zenon DEF e
<1> QED
  BY <1>1, <1>2, Zenon DEF Joined, e

LEMMA JoinedAppend ==
    ASSUME NEW S, NEW seqs \in Seq(Seq(S)), NEW x \in Seq(S)
    PROVE  joined(Append(seqs, x)) = joined(seqs) \o x
<1> DEFINE more == Append(seqs, x)
           len == Len(seqs)
<1>1. /\ more \in Seq(Seq(S)) /\ Len(more) = len + 1 /\ len \in Nat /\ more[len + 1] = x
      /\ \A i \in 1..len : more[i] = seqs[i]
  OBVIOUS
<1> HIDE DEF more
<1>2. PICK g \in [0..Len(more) -> Seq(S)] :
        Joined(g, more, Len(more)) /\ joined(more) = g[Len(more)]
  BY <1>1, JoinedDef, Zenon
<1>3. PICK h \in [0..len -> Seq(S)] : Joined(h, seqs, len) /\ joined(seqs) = h[len]
  BY JoinedDef, Zenon
<1> HIDE DEF len
<1>4. Joined(g, seqs, len)
  <2>1. g[0] = << >>
    BY <1>2, Zenon DEF Joined
  <2>2. ASSUME NEW i \in 1..len
        PROVE  g[i] = g[i - 1] \o seqs[i]
    <3>1. i \in 1..Len(more) /\ more[i] = seqs[i]
      BY <1>1
    <3> QED
      BY <3>1, <1>2, Zenon DEF Joined
  <2> QED
    BY <2>1, <2>2, Zenon DEF Joined
<1>5. g[len] = h[len]
  <2>1. len \in Nat /\ len \in 0..len /\ Joined(h, seqs, len)
    BY <1>1, <1>3
  <2>2. len \in Nat /\ Joined(g, seqs, len) /\ Joined(h, seqs, len)
    BY <2>1, <1>4, Zenon
  <2>3. Agree(g, h, len)
    BY <2>2, JoinedUnique, Zenon
  <2> QED
    BY <2>1, <2>3, Zenon DEF Agree
<1>6. g[len + 1] = g[len] \o x
  <2>1. len + 1 \in 1..Len(more) /\ (len + 1) - 1 = len
    <3>1. len \in Nat /\ Len(more) = len + 1
      BY <1>1, Zenon
    <3> QED
      BY <3>1
  <2>2. g[len + 1] = g[(len + 1) - 1] \o more[len + 1]
    BY <2>1, <1>2, Zenon DEF Joined
  <2> QED
    BY <2>1, <2>2, <1>1, Zenon
<1> QED
  BY <1>1, <1>2, <1>3, <1>5, <1>6, Zenon DEF more

LEMMA LastOff ==
    ASSUME NEW S, NEW s \in Seq(S), Len(s) # 0
    PROVE  \E t \in Seq(S), x \in S : s = Append(t, x) /\ Len(s) = Len(t) + 1
<1> DEFINE t == SubSeq(s, 1, Len(s) - 1)
           x == s[Len(s)]
<1>0. Len(s) \in Nat /\ Len(s) \in 1..Len(s)
  OBVIOUS
<1>1. t \in Seq(S) /\ x \in S /\ Len(s) = Len(t) + 1
  <2>1. 1 <= 1 /\ 1 <= (Len(s) - 1) + 1 /\ Len(s) - 1 <= Len(s) /\ Len(s) - 1 \in Int
        /\ (Len(s) - 1) - 1 + 1 = Len(s) - 1
    BY <1>0
  <2>2. t \in Seq(S) /\ Len(t) = Len(s) - 1
    BY <2>1, Slice
  <2>3. x \in S
    BY <1>0
  <2> QED
    BY <2>2, <2>3, <1>0
<1>2. \A k \in 1..Len(t) : t[k] = s[k]
  BY <1>0, <1>1, Slice
<1> HIDE DEF t
<1>3. \A k \in 1..Len(s) : Append(t, x)[k] = s[k]
  BY <1>1, <1>2
<1>4. Append(t, x) \in Seq(S) /\ Len(Append(t, x)) = Len(s)
  BY <1>1
<1>5. s = Append(t, x)
  BY <1>3, <1>4, SameElements, Zenon
<1> QED
  BY <1>1, <1>5, Zenon

LEMMA JoinedHead ==
    ASSUME NEW S, NEW seqs \in Seq(Seq(S)), seqs # << >>
    PROVE  joined(seqs) = Head(seqs) \o joined(Tail(seqs))
<1> DEFINE Splits(s) == joined(s) = Head(s) \o joined(Tail(s))
           T == {n \in Nat : \A s \in Seq(Seq(S)) : Len(s) = n + 1 => Splits(s)}
<1>1. ASSUME NEW s \in Seq(Seq(S)), Len(s) # 0
      PROVE  \E t \in Seq(Seq(S)), x \in Seq(S) : s = Append(t, x) /\ Len(s) = Len(t) + 1
  BY <1>1, LastOff, Zenon
<1>2. 0 \in T
  <2> SUFFICES ASSUME NEW s \in Seq(Seq(S)), Len(s) = 1
               PROVE  Splits(s)
    OBVIOUS
  <2>0. Len(s) # 0
    OBVIOUS
  <2>1. PICK t \in Seq(Seq(S)), x \in Seq(S) : s = Append(t, x) /\ Len(s) = Len(t) + 1
    BY <2>0, <1>1, Zenon
  <2>2. t = << >>
    BY <2>1
  <2>3. joined(s) = joined(t) \o x
    BY <2>1, JoinedAppend, Zenon
  <2>4. Head(s) = x /\ Tail(s) = << >>
    BY <2>1, <2>2
  <2>5. << >> \o x = x /\ x \o << >> = x
    BY ConcatEmpty, Zenon
  <2> QED
    BY <2>2, <2>3, <2>4, <2>5, JoinedEmpty, Zenon
<1>3. ASSUME NEW n \in T
      PROVE  n + 1 \in T
  <2> SUFFICES ASSUME NEW s \in Seq(Seq(S)), Len(s) = n + 2
               PROVE  Splits(s)
    OBVIOUS
  <2>0. Len(s) # 0
    OBVIOUS
  <2>1. PICK t \in Seq(Seq(S)), x \in Seq(S) : s = Append(t, x) /\ Len(s) = Len(t) + 1
    BY <2>0, <1>1, Zenon
  <2>2. n \in Nat /\ Len(t) = n + 1 /\ t # << >>
    BY <2>1
  <2>3. Splits(t)
    BY <2>2, Zenon
  <2>4. /\ Head(s) = Head(t) /\ Tail(s) = Append(Tail(t), x)
        /\ Head(t) \in Seq(S) /\ Tail(t) \in Seq(Seq(S))
    BY <2>1, <2>2
  <2>5. /\ joined(s) = joined(t) \o x
        /\ joined(Tail(s)) = joined(Tail(t)) \o x
    BY <2>1, <2>4, JoinedAppend, Zenon
  <2>6. joined(Tail(t)) \in Seq(S)
    BY <2>4, JoinedType, Zenon
  <2>7. (Head(t) \o joined(Tail(t))) \o x = Head(t) \o (joined(Tail(t)) \o x)
    <3> DEFINE a == Head(t)
               b == joined(Tail(t))
    <3>1. a \in Seq(S) /\ b \in Seq(S)
      BY <2>4, <2>6, ZenonT(30)
    <3> HIDE DEF a, b
    <3>2. (a \o b) \o x = a \o (b \o x)
      <4>1. Associates(a, b, x)
        BY ONLY <3>1, x \in Seq(S), Associative, Zenon
      <4> QED
        BY ONLY <3>1, x \in Seq(S), <4>1 DEF Associates
    <3> QED
      BY <3>2, Zenon DEF a, b
  <2> QED
    BY <2>3, <2>4, <2>5, <2>7, Zenon
<1> HIDE DEF T
<1>4. T = Nat
  <2>1. T \in SUBSET Nat
    BY Zenon DEF T
  <2> QED
    BY <2>1, <1>2, <1>3, InductiveSet, Zenon
<1>5. Len(seqs) - 1 \in T /\ Len(seqs) = (Len(seqs) - 1) + 1
  BY <1>4
<1> QED
  BY <1>5, Zenon DEF T
-------------------------------------------------------------------------------
(* Integers in memory: what the sender writes with in_memory() the receiver *)
(* reads back with number() when both machines have the same byte order.   *)

LEMMA Widths == Base \in Nat /\ Base > 1 /\ IdBytes \in Nat /\ IdBytes > 0
                /\ SizeBytes \in Nat /\ SizeBytes > 0
  BY FramingAssumption DEF WellFormed

\* what is left of n after i of its bytes
LEMMA AboveDef ==
    ASSUME NEW n \in Nat, NEW width \in Nat
    PROVE  /\ above(n, width) \in [0..width -> Nat] /\ above(n, width)[0] = n
           /\ \A i \in 1..width : above(n, width)[i] = above(n, width)[i - 1] \div Base
<1>1. above(n, width) = quotients(n, Base, width)
  BY Zenon DEF above, quotients
<1>2. Base \in Nat \ {0}
  BY Widths
<1>3. /\ quotients(n, Base, width) \in [0..width -> Nat] /\ quotients(n, Base, width)[0] = n
      /\ \A i \in 1..width :
            quotients(n, Base, width)[i] = quotients(n, Base, width)[i - 1] \div Base
  BY <1>2, QuotientsDef, ZenonT(30)
<1> QED
  BY <1>1, <1>3, Zenon

\* the bytes from the most significant one on, and the values they add up to
MostSignificantFirst(bytes, order) == IF order = "little" THEN backwards(bytes) ELSE bytes
AddsUp(u, digits, len) ==
    u[0] = 0 /\ \A i \in 1..len : u[i] = u[i - 1] * Base + digits[i]

LEMMA InMemory ==
    ASSUME NEW n \in Nat, NEW width \in Nat, NEW order \in {"little", "big"}
    PROVE  LET bytes == in_memory(n, width, order)
           IN  /\ bytes \in Seq(Octet) /\ Len(bytes) = width
               /\ \A i \in 1..width : MostSignificantFirst(bytes, order)[i]
                                       = above(n, width)[width - i] % Base
<1> DEFINE a == above(n, width)
           d == [i \in 1..width |-> a[i - 1] % Base]
<1>1. a \in [0..width -> Nat]
  BY AboveDef, Zenon
<1> HIDE DEF a
<1>2. \A i \in 1..width : i - 1 \in 0..width /\ a[i - 1] \in Nat /\ a[i - 1] % Base \in Octet
  BY <1>1, Widths DEF Octet
<1>3. d \in Seq(Octet) /\ Len(d) = width /\ \A i \in 1..width : d[i] = a[i - 1] % Base
  BY <1>2
<1>4. in_memory(n, width, order) = IF order = "little" THEN d ELSE backwards(d)
  BY Zenon DEF in_memory, a
<1> HIDE DEF d
<1> DEFINE r == backwards(d)
<1>5. r \in Seq(Octet) /\ Len(r) = width /\ \A i \in 1..width : r[i] = a[width - i] % Base
  <2>1. \A i \in 1..width : (width - i) + 1 \in 1..width /\ d[(width - i) + 1] \in Octet
                            /\ ((width - i) + 1) - 1 = width - i
    BY <1>3
  <2>2. r = [i \in 1..width |-> d[(width - i) + 1]]
    BY <1>3, Zenon DEF backwards
  <2> QED
    BY <2>1, <2>2, <1>3
<1> HIDE DEF r
<1>6. CASE order = "little"
  BY <1>3, <1>4, <1>5, <1>6, Zenon DEF a, r, MostSignificantFirst
<1>7. CASE order = "big"
  BY <1>4, <1>5, <1>7, Zenon DEF a, r, MostSignificantFirst
<1> QED
  BY <1>6, <1>7, Zenon

LEMMA InMemoryType ==
    ASSUME NEW n \in Nat, NEW width \in Nat, NEW order \in {"little", "big"}
    PROVE  in_memory(n, width, order) \in Seq(Octet) /\ Len(in_memory(n, width, order)) = width
  BY InMemory

\* number() evaluates the bytes from the most significant one on
LEMMA NumberDef ==
    ASSUME NEW bytes \in Seq(Octet), NEW order
    PROVE  \E u \in [0..Len(bytes) -> Nat] :
              /\ AddsUp(u, MostSignificantFirst(bytes, order), Len(bytes))
              /\ number(bytes, order) = u[Len(bytes)]
<1> DEFINE digits == MostSignificantFirst(bytes, order)
           len == Len(bytes)
           add == [i \in Nat |-> [x \in Nat |-> IF i \in 1..len THEN x * Base + digits[i] ELSE x]]
           Def(f) == f = [i \in 0..len |-> IF i = 0 THEN 0 ELSE f[i - 1] * Base + digits[i]]
<1>1. len \in Nat /\ \A i \in 1..len : digits[i] \in Nat
  <2>1. \A i \in 1..len : bytes[i] \in Nat /\ (len - i) + 1 \in 1..len
    BY Widths DEF Octet
  <2>2. \A i \in 1..len : backwards(bytes)[i] \in Nat
    BY <2>1, Zenon DEF backwards
  <2> QED
    BY <2>1, <2>2 DEF MostSignificantFirst
<1> HIDE DEF digits, len
<1>2. add \in [Nat -> [Nat -> Nat]]
  BY <1>1, Widths
<1>3. PICK h \in [0..len -> Nat] : Stepwise(h, 0, add, len)
  <2> HIDE DEF add
  <2>1. 0 \in Nat
    BY Zenon
  <2> QED
    BY <2>1, <1>1, <1>2, RecursionExists, Zenon
<1>4. h[0] = 0 /\ \A i \in 1..len : h[i] = h[i - 1] * Base + digits[i]
  <2>1. \A i \in 1..len : \A x \in Nat : add[i][x] = x * Base + digits[i]
    BY <1>1
  <2>2. \A i \in 1..len : h[i - 1] \in Nat
    BY <1>1
  <2> HIDE DEF add
  <2> QED
    BY <2>1, <2>2, <1>3, Zenon DEF Stepwise
<1>5. Def(h)
  BY <1>1, <1>4
<1> DEFINE upto == CHOOSE f : Def(f)
<1>6. Def(upto)
  <2> HIDE DEF Def
  <2> QED
    BY <1>5, Zenon
<1>7. number(bytes, order) = upto[len]
  BY Zenon DEF number, len, digits, MostSignificantFirst
<1> HIDE DEF upto
<1>8. upto[0] = 0 /\ \A i \in 1..len : upto[i] = upto[i - 1] * Base + digits[i]
  BY <1>1, <1>6
<1>9. \A k \in 0..len : upto[k] = h[k]
  <2> DEFINE T == {k \in Nat : k \in 0..len => upto[k] = h[k]}
  <2>1. 0 \in T
    BY <1>4, <1>8, Zenon
  <2>2. ASSUME NEW k \in T PROVE k + 1 \in T
    <3> SUFFICES ASSUME k + 1 \in 0..len PROVE upto[k + 1] = h[k + 1]
      OBVIOUS
    <3>1. k \in Nat /\ k \in 0..len /\ k + 1 \in 1..len /\ (k + 1) - 1 = k
      BY <1>1
    <3>2. upto[k] = h[k]
      BY <3>1, Zenon
    <3> QED
      BY <3>1, <3>2, <1>4, <1>8, ZenonT(30)
  <2> HIDE DEF T
  <2>3. T = Nat
    <3>1. T \in SUBSET Nat
      BY Zenon DEF T
    <3> QED
      BY <3>1, <2>1, <2>2, InductiveSet, Zenon
  <2>4. \A k \in 0..len : k \in T
    BY <2>3, <1>1
  <2> QED
    BY <2>4, Zenon DEF T
<1>10. number(bytes, order) = h[len]
  BY <1>1, <1>7, <1>9
<1> QED
  BY <1>4, <1>10, Zenon DEF len, digits, AddsUp

\* the round trip of an integer that fits into its width
LEMMA NumberInMemory ==
    ASSUME NEW n \in Nat, NEW width \in Nat, NEW order \in {"little", "big"},
           above(n, width)[width] = 0
    PROVE  number(in_memory(n, width, order), order) = n
<1> DEFINE a == above(n, width)
           mem == in_memory(n, width, order)
           ds == MostSignificantFirst(mem, order)
<1>1. a \in [0..width -> Nat] /\ a[0] = n /\ a[width] = 0
  BY AboveDef, Zenon
<1>2. \A i \in 1..width : a[i] = a[i - 1] \div Base
  BY AboveDef
<1>3. mem \in Seq(Octet) /\ Len(mem) = width
  BY InMemory, ZenonT(30)
<1>4. \A i \in 1..width : ds[i] = a[width - i] % Base
  BY InMemory, Zenon
<1>5. PICK u \in [0..Len(mem) -> Nat] :
          AddsUp(u, ds, Len(mem)) /\ number(mem, order) = u[Len(mem)]
  BY <1>3, NumberDef, Zenon
<1> HIDE DEF a, mem, ds
<1> DEFINE T == {k \in Nat : k \in 0..width => u[k] = a[width - k]}
<1>6. 0 \in T
  BY <1>1, <1>5 DEF AddsUp
<1>7. ASSUME NEW k \in T PROVE k + 1 \in T
  <2> SUFFICES ASSUME k + 1 \in 0..width PROVE u[k + 1] = a[width - (k + 1)]
    OBVIOUS
  <2> DEFINE j == width - (k + 1)
             x == a[j]
  <2>1. k \in Nat /\ k \in 0..width /\ k + 1 \in 1..width /\ (k + 1) - 1 = k
    OBVIOUS
  <2>2. j \in 0..width /\ width - k \in 1..width /\ (width - k) - 1 = j /\ x \in Nat
    BY <2>1, <1>1
  <2>3. u[k] = a[width - k]
    BY <2>1, Zenon
  <2>4. a[width - k] = x \div Base /\ ds[k + 1] = x % Base
    BY <2>1, <2>2, <1>2, <1>4, ZenonT(30)
  <2>5. u[k + 1] = u[k] * Base + ds[k + 1]
    BY <2>1, <1>3, <1>5 DEF AddsUp
  <2> HIDE DEF x
  <2>6. u[k + 1] = (x \div Base) * Base + (x % Base)
    BY <2>3, <2>4, <2>5, Zenon
  <2>7. (x \div Base) * Base + (x % Base) = x
    BY <2>2, Widths
  <2> QED
    BY <2>6, <2>7, Zenon DEF x
<1> HIDE DEF T
<1>8. T = Nat
  <2>1. T \in SUBSET Nat
    BY Zenon DEF T
  <2> QED
    BY <2>1, <1>6, <1>7, InductiveSet, Zenon
<1>9. width \in T
  BY <1>8, Zenon
<1>10. u[width] = a[0]
  BY <1>9 DEF T
<1> QED
  BY <1>1, <1>3, <1>5, <1>10, Zenon DEF mem

LEMMA NumberType ==
    ASSUME NEW bytes \in Seq(Octet), NEW order
    PROVE  number(bytes, order) \in Nat
<1>1. Len(bytes) \in Nat /\ Len(bytes) \in 0..Len(bytes)
  OBVIOUS
<1>2. \E u \in [0..Len(bytes) -> Nat] : number(bytes, order) = u[Len(bytes)]
  BY NumberDef, Zenon
<1> QED
  BY <1>1, <1>2, Zenon

-------------------------------------------------------------------------------
(* Fields and frames.                                                      *)

Phases == {"IDLE", "ID", "NAME", "SIZE", "ARGS_VALUE"}

\* what rx_msg may hold, and the messages are
Received == [id : IF Binary THEN Nat ELSE Seq(Octet), name : Seq(Octet), value : Seq(Octet)]

LEMMA Characters ==
    ASSUME NEW s \in Seq(Character)
    PROVE  s \in Seq(Octet) /\ \A k \in 1..Len(s) : s[k] # 0
<1>1. \A k \in 1..Len(s) : s[k] \in Character
  OBVIOUS
<1>2. \A c \in Character : c \in Octet /\ c # 0
  BY Widths DEF Character, Octet
<1>3. s = [k \in 1..Len(s) |-> s[k]] /\ Len(s) \in Nat
  OBVIOUS
<1>4. [k \in 1..Len(s) |-> s[k]] \in Seq(Octet)
  BY <1>1, <1>2, <1>3
<1> QED
  BY <1>1, <1>2, <1>3, <1>4, Zenon

\* a message has fields of bytes; the ones that end with a 0 byte hold no other one
LEMMA MessageTypes ==
    ASSUME build \in Builds, NEW msg \in Messages
    PROVE  /\ Binary \in BOOLEAN /\ TxOrder \in {"little", "big"} /\ RxOrder \in {"little", "big"}
           /\ msg \in Received
           /\ Binary => /\ above(msg.id, IdBytes)[IdBytes] = 0
                        /\ above(Len(msg.value), SizeBytes)[SizeBytes] = 0
           /\ ~Binary => /\ \A k \in 1..Len(msg.id) : msg.id[k] # 0
                         /\ \A k \in 1..Len(msg.value) : msg.value[k] # 0
           /\ \A k \in 1..Len(msg.name) : msg.name[k] # 0
<1>1. build \in [binary : BOOLEAN, tx_order : {"little", "big"}, rx_order : {"little", "big"}]
  BY FramingAssumption, Zenon DEF WellFormed
<1>2. CASE Binary
  <2>1. /\ msg \in [id : Nat, name : Seq(Character), value : Seq(Octet)]
        /\ above(msg.id, IdBytes)[IdBytes] = 0
        /\ above(Len(msg.value), SizeBytes)[SizeBytes] = 0
    BY <1>2, FramingAssumption, Zenon DEF WellFormed, Messages
  <2>2. msg.name \in Seq(Octet) /\ \A k \in 1..Len(msg.name) : msg.name[k] # 0
    BY <2>1, Characters, Zenon
  <2>3. msg \in [id : Nat, name : Seq(Octet), value : Seq(Octet)]
    BY <2>1, <2>2, Zenon
  <2> QED
    BY <1>1, <1>2, <2>1, <2>2, <2>3, Zenon DEF Binary, TxOrder, RxOrder, Received
<1>3. CASE ~Binary
  <2>1. msg \in [id : Seq(Character), name : Seq(Character), value : Seq(Character)]
    BY <1>3, FramingAssumption, Zenon DEF WellFormed, Messages
  <2>2. /\ msg.id \in Seq(Octet) /\ \A k \in 1..Len(msg.id) : msg.id[k] # 0
        /\ msg.name \in Seq(Octet) /\ \A k \in 1..Len(msg.name) : msg.name[k] # 0
        /\ msg.value \in Seq(Octet) /\ \A k \in 1..Len(msg.value) : msg.value[k] # 0
    BY <2>1, Characters, Zenon
  <2>3. msg \in [id : Seq(Octet), name : Seq(Octet), value : Seq(Octet)]
    BY <2>1, <2>2, Zenon
  <2> QED
    BY <1>1, <1>3, <2>2, <2>3, Zenon DEF Binary, TxOrder, RxOrder, Received
<1> QED
  BY <1>2, <1>3, Zenon

LEMMA FieldType ==
    ASSUME build \in Builds, NEW msg \in Messages, NEW phase \in Phases \ {"IDLE"}
    PROVE  /\ field(msg, phase) \in Seq(Octet)
           /\ phase = "ID" /\ Binary => Len(field(msg, phase)) = IdBytes
           /\ phase = "SIZE" => Len(field(msg, phase)) = SizeBytes
<1>1. /\ TxOrder \in {"little", "big"} /\ msg.name \in Seq(Octet) /\ msg.value \in Seq(Octet)
      /\ (Binary => msg.id \in Nat) /\ (~Binary => msg.id \in Seq(Octet))
  BY MessageTypes, Zenon DEF Received
<1>2. 0 \in Octet
  BY Widths DEF Octet
<1>3. CASE phase = "ID" /\ Binary
  <2>1. field(msg, phase) = in_memory(msg.id, IdBytes, TxOrder)
    BY <1>3, Zenon DEF field
  <2>2. msg.id \in Nat /\ IdBytes \in Nat /\ TxOrder \in {"little", "big"}
    BY <1>1, <1>3, Widths, Zenon
  <2>3. /\ in_memory(msg.id, IdBytes, TxOrder) \in Seq(Octet)
        /\ Len(in_memory(msg.id, IdBytes, TxOrder)) = IdBytes
    BY <2>2, InMemoryType
  <2> QED
    BY <2>1, <2>3, <1>3, Zenon
<1>4. CASE phase = "ID" /\ ~Binary
  <2>1. field(msg, phase) = Append(msg.id, 0)
    BY <1>4, Zenon DEF field
  <2> QED
    BY <2>1, <1>1, <1>2, <1>4
<1>5. CASE phase = "NAME"
  <2>1. field(msg, phase) = Append(msg.name, 0)
    BY <1>5, Zenon DEF field
  <2> QED
    BY <2>1, <1>1, <1>2, <1>5
<1>6. CASE phase = "SIZE"
  <2>1. field(msg, phase) = in_memory(Len(msg.value), SizeBytes, TxOrder)
    BY <1>6, Zenon DEF field
  <2>2. Len(msg.value) \in Nat /\ SizeBytes \in Nat /\ TxOrder \in {"little", "big"}
    BY <1>1, Widths
  <2>3. /\ in_memory(Len(msg.value), SizeBytes, TxOrder) \in Seq(Octet)
        /\ Len(in_memory(Len(msg.value), SizeBytes, TxOrder)) = SizeBytes
    BY <2>2, InMemoryType
  <2> QED
    BY <2>1, <2>3, <1>6, Zenon
<1>7. CASE phase = "ARGS_VALUE"
  <2>1. field(msg, phase) = IF Binary THEN msg.value ELSE Append(msg.value, 0)
    BY <1>7, Zenon DEF field
  <2> QED
    BY <2>1, <1>1, <1>2, <1>7
<1> QED
  BY <1>3, <1>4, <1>5, <1>6, <1>7, ZenonT(30) DEF Phases

\* a frame goes on with the field of the next phase
following(msg, phase) ==
    IF next_phase(msg, phase) = "END" THEN << >> ELSE frame_from(msg, next_phase(msg, phase))

LEMMA FrameNext ==
    ASSUME build \in Builds, NEW msg \in Messages, NEW phase \in Phases \ {"IDLE"},
           phase = "SIZE" => Binary
    PROVE  /\ frame_from(msg, phase) \in Seq(Octet) /\ following(msg, phase) \in Seq(Octet)
           /\ frame_from(msg, phase) = field(msg, phase) \o following(msg, phase)
<1> DEFINE id == field(msg, "ID")
           name == field(msg, "NAME")
           size == field(msg, "SIZE")
           value == field(msg, "ARGS_VALUE")
           sized == IF Binary THEN size \o value ELSE value
<1>1. id \in Seq(Octet) /\ name \in Seq(Octet) /\ size \in Seq(Octet) /\ value \in Seq(Octet)
  BY FieldType, Zenon DEF Phases
<1>2. /\ frame_from(msg, "ID") = (id \o name) \o sized
      /\ frame_from(msg, "NAME") = name \o sized
      /\ frame_from(msg, "SIZE") = sized
      /\ frame_from(msg, "ARGS_VALUE") = value
  BY Zenon DEF frame_from
<1>3. /\ next_phase(msg, "ID") = "NAME"
      /\ next_phase(msg, "NAME") = IF Binary THEN "SIZE" ELSE "ARGS_VALUE"
      /\ next_phase(msg, "SIZE") = IF msg.value = << >> THEN "END" ELSE "ARGS_VALUE"
      /\ next_phase(msg, "ARGS_VALUE") = "END"
  BY Zenon DEF next_phase
<1>4. Binary => value = msg.value
  BY Zenon DEF field
<1>5. Binary \in BOOLEAN
  BY MessageTypes, Zenon
<1> HIDE DEF id, name, size, value
<1>6. sized \in Seq(Octet) /\ << >> \in Seq(Octet)
  BY <1>1
<1>7. CASE phase = "ID"
  <2>1. following(msg, phase) = name \o sized
    BY <1>2, <1>3, <1>7, Zenon DEF following
  <2> HIDE DEF sized
  <2>2. (id \o name) \o sized = id \o (name \o sized)
    <3>1. Associates(id, name, sized)
      BY <1>1, <1>6, Associative, Zenon
    <3> QED
      BY <1>1, <1>6, <3>1, Zenon DEF Associates
  <2>3. name \o sized \in Seq(Octet) /\ (id \o name) \o sized \in Seq(Octet)
    BY <1>1, <1>6
  <2> QED
    BY <2>1, <2>2, <2>3, <1>2, <1>7, Zenon DEF id
<1>8. CASE phase = "NAME"
  <2>1. following(msg, phase) = sized
    BY <1>2, <1>3, <1>5, <1>8, Zenon DEF following
  <2> HIDE DEF sized
  <2>2. name \o sized \in Seq(Octet)
    BY <1>1, <1>6
  <2> QED
    BY <2>1, <2>2, <1>2, <1>6, <1>8, Zenon DEF name
<1>9. CASE phase = "SIZE"
  <2>1. following(msg, phase) = value
    BY <1>2, <1>3, <1>4, <1>9, Zenon DEF following
  <2> QED
    BY <2>1, <1>1, <1>2, <1>6, <1>9, Zenon DEF size
<1>10. CASE phase = "ARGS_VALUE"
  <2>1. following(msg, phase) = << >>
    BY <1>3, <1>10, Zenon DEF following
  <2>2. value \o << >> = value
    BY <1>1, ConcatEmpty, Zenon
  <2> QED
    BY <2>1, <2>2, <1>1, <1>2, <1>6, <1>10, Zenon DEF value
<1> QED
  BY <1>7, <1>8, <1>9, <1>10, Zenon DEF Phases

\* the frames of messages, one behind the other
frame_seq(msgs) == [i \in 1..Len(msgs) |-> frame(msgs[i])]

LEMMA FramesType ==
    ASSUME build \in Builds, NEW msgs \in Seq(Messages)
    PROVE  /\ frame_seq(msgs) \in Seq(Seq(Octet)) /\ Len(frame_seq(msgs)) = Len(msgs)
           /\ \A i \in 1..Len(msgs) : frame_seq(msgs)[i] = frame(msgs[i])
           /\ frames(msgs) \in Seq(Octet)
<1> DEFINE B == Seq(Octet)
           fs == frame_seq(msgs)
<1>1. Len(msgs) \in Nat /\ \A i \in 1..Len(msgs) : msgs[i] \in Messages
  OBVIOUS
<1>2. \A msg \in Messages : frame(msg) \in B
  BY FrameNext, Zenon DEF frame, Phases
<1> HIDE DEF B
<1>3. fs \in Seq(B) /\ Len(fs) = Len(msgs) /\ \A i \in 1..Len(msgs) : fs[i] = frame(msgs[i])
  BY <1>1, <1>2 DEF frame_seq
<1>4. frames(msgs) \in Seq(Octet)
  BY <1>3, JoinedType, Zenon DEF frames, frame_seq, B
<1> QED
  BY <1>3, <1>4, Zenon DEF B

LEMMA FramesEmpty == frames(<< >>) = << >>
<1>1. [i \in 1..Len(<< >>) |-> frame(<< >>[i])] = << >>
  OBVIOUS
<1> QED
  BY <1>1, JoinedEmpty, Zenon DEF frames

LEMMA FramesAppend ==
    ASSUME build \in Builds, NEW msgs \in Seq(Messages), NEW msg \in Messages
    PROVE  frames(Append(msgs, msg)) = frames(msgs) \o frame(msg)
<1> DEFINE B == Seq(Octet)
           more == Append(msgs, msg)
           fs == frame_seq(msgs)
           gs == frame_seq(more)
           fm == frame(msg)
<1>1. more \in Seq(Messages) /\ Len(more) = Len(msgs) + 1 /\ Len(msgs) \in Nat
      /\ more[Len(msgs) + 1] = msg /\ \A i \in 1..Len(msgs) : more[i] = msgs[i]
  OBVIOUS
<1> HIDE DEF more
<1>2. fs \in Seq(B) /\ Len(fs) = Len(msgs) /\ \A i \in 1..Len(msgs) : fs[i] = frame(msgs[i])
  BY FramesType, Zenon
<1>3. gs \in Seq(B) /\ Len(gs) = Len(more) /\ \A i \in 1..Len(more) : gs[i] = frame(more[i])
  BY <1>1, FramesType, Zenon
<1>4. fm \in B
  BY FrameNext, Zenon DEF frame, Phases
<1> HIDE DEF B, fs, gs, fm
<1>5. gs = Append(fs, fm)
  <2> DEFINE hs == Append(fs, fm)
  <2>1. /\ hs \in Seq(B) /\ Len(hs) = Len(msgs) + 1 /\ hs[Len(msgs) + 1] = fm
        /\ \A i \in 1..Len(msgs) : hs[i] = fs[i]
    BY <1>1, <1>2, <1>4
  <2> HIDE DEF hs
  <2>2. ASSUME NEW i \in 1..Len(gs) PROVE gs[i] = hs[i]
    <3>1. CASE i = Len(msgs) + 1
      <4>1. gs[i] = frame(more[i]) /\ more[i] = msg
        BY <1>1, <1>3, <3>1, Zenon
      <4> QED
        BY <4>1, <3>1, <2>1, Zenon DEF fm
    <3>2. CASE i # Len(msgs) + 1
      <4>1. i \in 1..Len(msgs)
        BY <1>1, <1>3, <3>2
      <4>2. gs[i] = frame(more[i]) /\ more[i] = msgs[i] /\ hs[i] = fs[i] /\ fs[i] = frame(msgs[i])
        BY <1>1, <1>2, <1>3, <2>1, <4>1, Zenon
      <4> QED
        BY <4>2, Zenon
    <3> QED
      BY <3>1, <3>2, Zenon
  <2>3. gs = hs
    BY <1>1, <1>3, <2>1, <2>2, SameElements, ZenonT(30)
  <2> QED
    BY <2>3, Zenon DEF hs
<1>6. joined(Append(fs, fm)) = joined(fs) \o fm
  BY <1>2, <1>4, JoinedAppend, Zenon DEF B
<1> QED
  BY <1>5, <1>6, Zenon DEF frames, frame_seq, fs, gs, fm, more

\* from the oldest message on
LEMMA FramesHead ==
    ASSUME build \in Builds, NEW msgs \in Seq(Messages), msgs # << >>
    PROVE  frames(msgs) = frame(Head(msgs)) \o frames(Tail(msgs))
<1> DEFINE B == Seq(Octet)
           rest == Tail(msgs)
           fs == frame_seq(msgs)
           gs == frame_seq(rest)
<1>1. rest \in Seq(Messages) /\ Len(msgs) \in Nat /\ Len(msgs) > 0 /\ Len(rest) = Len(msgs) - 1
      /\ Head(msgs) = msgs[1] /\ \A i \in 1..Len(msgs) - 1 : rest[i] = msgs[i + 1]
  OBVIOUS
<1> HIDE DEF rest
<1>2. fs \in Seq(B) /\ Len(fs) = Len(msgs) /\ \A i \in 1..Len(msgs) : fs[i] = frame(msgs[i])
  BY FramesType, Zenon
<1>3. gs \in Seq(B) /\ Len(gs) = Len(rest) /\ \A i \in 1..Len(rest) : gs[i] = frame(rest[i])
  BY <1>1, FramesType, Zenon
<1> HIDE DEF B, fs, gs
<1>4. fs # << >> /\ Head(fs) = frame(Head(msgs))
  <2>1. Head(fs) = fs[1] /\ fs # << >> /\ 1 \in 1..Len(msgs)
    BY <1>1, <1>2
  <2> QED
    BY <2>1, <1>1, <1>2, Zenon
<1>5. Tail(fs) = gs
  <2> DEFINE hs == Tail(fs)
  <2>1. hs \in Seq(B) /\ Len(hs) = Len(msgs) - 1 /\ \A i \in 1..Len(msgs) - 1 : hs[i] = fs[i + 1]
    BY <1>1, <1>2, <1>4
  <2> HIDE DEF hs
  <2>2. ASSUME NEW i \in 1..Len(hs) PROVE hs[i] = gs[i]
    <3>1. i \in 1..Len(rest) /\ i \in 1..Len(msgs) - 1 /\ i + 1 \in 1..Len(msgs)
      BY <1>1, <2>1
    <3>2. hs[i] = fs[i + 1] /\ fs[i + 1] = frame(msgs[i + 1]) /\ rest[i] = msgs[i + 1]
          /\ gs[i] = frame(rest[i])
      BY <3>1, <2>1, <1>1, <1>2, <1>3, Zenon
    <3> QED
      BY <3>2, Zenon
  <2>3. hs = gs
    BY <1>1, <1>3, <2>1, <2>2, SameElements, ZenonT(30)
  <2> QED
    BY <2>3, Zenon DEF hs
<1>6. joined(fs) = Head(fs) \o joined(Tail(fs))
  BY <1>2, <1>4, JoinedHead, Zenon DEF B
<1> QED
  BY <1>4, <1>5, <1>6, Zenon DEF frames, frame_seq, fs, gs, rest

\* nothing of this changes while the program runs
LEMMA SameFrames ==
    ASSUME build' = build
    PROVE  /\ \A msg, phase : /\ field(msg, phase)' = field(msg, phase)
                              /\ frame_from(msg, phase)' = frame_from(msg, phase)
           /\ \A msgs : frames(msgs)' = frames(msgs)
  BY DEF frames, frame_seq, frame, frame_from, field, Binary, TxOrder

-------------------------------------------------------------------------------
(* The inductive invariant.                                                *)

\* init() comes before the first byte of a message
TxTypes ==
    /\ build \in Builds
    /\ m_tx_phase \in Phases /\ (m_tx_phase = "SIZE" => Binary)
    /\ m_tx_phase # "IDLE" =>
          tx_msg \in Messages /\ m_i \in 0..Len(field(tx_msg, m_tx_phase))
    /\ m_init_serializer => m_tx_phase = "IDLE" \/ (m_tx_phase = "ID" /\ m_i = 0)

RxTypes ==
    /\ m_rx_phase \in Phases /\ (m_rx_phase = "SIZE" => Binary)
    /\ rx_msg \in Received
    /\ m_s \in Seq(Octet) /\ m_v \in Seq(Octet) /\ m_size \in Nat
    /\ m_init_deserializer =>
          m_rx_phase = "IDLE" \/ (m_rx_phase = "ID" /\ m_s = << >> /\ m_v = << >>)

StreamTypes == queue \in Seq(Octet) /\ in_flight \in Seq(Messages)

\* the rest of buffer is what the stream begins with
Bounds ==
    /\ m_len \in Nat /\ ix \in Nat /\ buffer \in Seq(Octet) /\ Len(buffer) = m_len
    /\ m_len = 0 => ix = 0
    /\ m_len > 0 => /\ m_rx_phase # "IDLE" /\ ~m_init_deserializer
                    /\ m_rx_phase = "ID" => ix = 0
                    /\ ix < m_len /\ left <= Len(queue)
                    /\ \A k \in 1..left : buffer[ix + k] = queue[k]

\* what receive() has taken of the field it is in
part ==
    CASE m_rx_phase = "IDLE"       -> << >>
      [] m_rx_phase = "ID"         -> IF Binary THEN m_v ELSE m_s
      [] m_rx_phase = "NAME"       -> m_s
      [] m_rx_phase = "SIZE"       -> m_v
      [] m_rx_phase = "ARGS_VALUE" -> IF Binary THEN rx_msg.value ELSE m_s

\* what it has to take, from that field of the oldest message on
due ==
    IF in_flight = << >> THEN << >>
    ELSE frame_from(Head(in_flight), IF m_rx_phase = "IDLE" THEN "ID" ELSE m_rx_phase)
         \o frames(Tail(in_flight))

\* the fields before it are the ones of the oldest message
Parsed ==
    /\ m_rx_phase \in {"NAME", "SIZE", "ARGS_VALUE"} =>
          in_flight # << >> /\ rx_msg.id = Head(in_flight).id
    /\ m_rx_phase \in {"SIZE", "ARGS_VALUE"} => rx_msg.name = Head(in_flight).name
    /\ m_rx_phase = "ARGS_VALUE" /\ Binary => m_size = Len(Head(in_flight).value)
    /\ \A k \in 1..Len(m_s) : m_s[k] # 0
    /\ Binary /\ m_rx_phase = "ID" => m_s = << >>
    /\ Binary /\ m_rx_phase = "NAME" => m_v = << >>

InStep == part \o (queue \o unsent) = due

IInv == TxTypes /\ RxTypes /\ StreamTypes /\ Bounds
JInv == IInv /\ Parsed /\ InStep

-------------------------------------------------------------------------------
(* receive() stays within the bytes it was given.                          *)

\* the next n bytes of the buffer are the first n of the stream
LEMMA Taking ==
    ASSUME StreamTypes, Bounds, m_len > 0, NEW n \in 0..left
    PROVE  /\ p(n) \in Seq(Octet) /\ Len(p(n)) = n
           /\ \A k \in 1..n : p(n)[k] = queue[k]
           /\ p(n) = SubSeq(queue, 1, n)
           /\ n \in 0..Len(queue) /\ SubSeq(queue, n + 1, Len(queue)) \in Seq(Octet)
           /\ queue = p(n) \o SubSeq(queue, n + 1, Len(queue))
<1>1. /\ m_len \in Nat /\ ix \in Nat /\ buffer \in Seq(Octet) /\ Len(buffer) = m_len
      /\ ix < m_len /\ left \in Nat /\ left <= Len(queue) /\ queue \in Seq(Octet)
      /\ n \in Nat /\ n <= left /\ ix + n <= m_len
  BY DEF Bounds, StreamTypes, left
<1>2. \A k \in 1..left : buffer[ix + k] = queue[k]
  BY Zenon DEF Bounds
<1> DEFINE a == SubSeq(buffer, ix + 1, ix + n)
           b == SubSeq(queue, 1, n)
<1>3. /\ a \in Seq(Octet) /\ Len(a) = (ix + n) - (ix + 1) + 1
      /\ \A k \in 1..(ix + n) - (ix + 1) + 1 : a[k] = buffer[(ix + 1) + k - 1]
  <2>1. /\ ix + 1 \in Int /\ ix + n \in Int /\ 1 <= ix + 1
        /\ ix + 1 <= (ix + n) + 1 /\ ix + n <= Len(buffer)
    BY <1>1
  <2> QED
    BY <1>1, <2>1, Slice, ZenonT(30)
<1>4. Len(a) = n /\ \A k \in 1..n : a[k] = queue[k]
  <2>1. ASSUME NEW k \in 1..n
        PROVE  a[k] = buffer[ix + k]
    <3>1. k \in 1..(ix + n) - (ix + 1) + 1 /\ (ix + 1) + k - 1 = ix + k
      BY <1>1
    <3> QED
      BY <3>1, <1>3, Zenon
  <2>2. \A k \in 1..n : k \in 1..left
    BY <1>1
  <2> HIDE DEF a
  <2> QED
    BY <2>1, <2>2, <1>1, <1>2, <1>3
<1>5. b \in Seq(Octet) /\ Len(b) = n /\ \A k \in 1..n : b[k] = queue[k]
  <2>1. 1 \in Int /\ n \in Int /\ 1 <= n + 1 /\ n <= Len(queue)
    BY <1>1
  <2>2. /\ b \in Seq(Octet) /\ Len(b) = n - 1 + 1
        /\ \A k \in 1..n - 1 + 1 : b[k] = queue[1 + k - 1]
    BY <1>1, <2>1, Slice
  <2> HIDE DEF b
  <2> QED
    BY <2>2, <1>1
<1>6. n \in 0..Len(queue)
  BY <1>1
<1>7. queue = b \o SubSeq(queue, n + 1, Len(queue))
  BY <1>1, <1>6, Cut, Zenon
<1>8. SubSeq(queue, n + 1, Len(queue)) \in Seq(Octet)
  BY <1>1, <1>6
<1> HIDE DEF a, b
<1>9. a = b
  BY <1>3, <1>4, <1>5, SameElements, Zenon
<1> QED
  BY <1>3, <1>4, <1>6, <1>7, <1>8, <1>9, Zenon DEF a, b, p

\* the bytes of a text up to its first 0
LEMMA FirstZero ==
    ASSUME StreamTypes, Bounds, m_len > 0, has_zero
    PROVE  /\ zero \in 1..left /\ zero - 1 \in 0..left
           /\ \A k \in 1..zero - 1 : p(zero - 1)[k] # 0
           /\ p(zero) = Append(p(zero - 1), 0)
<1>1. left \in Nat
  BY DEF Bounds, left
<1>2. p(left) \in Seq(Octet) /\ Len(p(left)) = left /\ \A k \in 1..left : p(left)[k] = queue[k]
  BY <1>1, Taking
<1>3. zeros \in SUBSET Nat /\ zeros # {}
  BY <1>1 DEF has_zero, zeros
<1>4. \E k \in zeros : \A j \in zeros : k <= j
  BY <1>3, LeastElement, Zenon
<1>5. zero \in zeros /\ \A k \in zeros : zero <= k
  BY <1>4, Zenon DEF zero
<1>6. zero \in 1..left /\ p(left)[zero] = 0
  BY <1>5, Zenon DEF zeros
<1>7. zero \in 1..left /\ zero - 1 \in 0..left /\ zero \in 0..left
  BY <1>1, <1>6
<1>8. p(left)[zero] = 0 /\ \A k \in 1..zero - 1 : p(left)[k] # 0
  BY <1>1, <1>5, <1>6, <1>7 DEF zeros
<1>9. queue[zero] = 0 /\ \A k \in 1..zero - 1 : queue[k] # 0
  BY <1>1, <1>2, <1>7, <1>8
<1>10. /\ p(zero - 1) \in Seq(Octet) /\ Len(p(zero - 1)) = zero - 1
       /\ \A k \in 1..zero - 1 : p(zero - 1)[k] = queue[k]
  BY <1>7, Taking, Zenon
<1>11. p(zero) \in Seq(Octet) /\ Len(p(zero)) = zero /\ \A k \in 1..zero : p(zero)[k] = queue[k]
  BY <1>7, Taking, Zenon
<1>12. p(zero) = Append(p(zero - 1), 0)
  <2> DEFINE a == p(zero)
             b == p(zero - 1)
             z == zero
  <2> HIDE DEF a, b, z
  <2>1. a \in Seq(Octet) /\ Len(a) = z /\ \A k \in 1..z : a[k] = queue[k]
    BY <1>11, Zenon DEF a, z
  <2>2. b \in Seq(Octet) /\ Len(b) = z - 1 /\ \A k \in 1..z - 1 : b[k] = queue[k]
    BY <1>10, Zenon DEF b, z
  <2>3. z \in Nat \ {0} /\ queue[z] = 0 /\ 0 \in Octet
    BY <1>1, <1>7, <1>9, Widths DEF z, Octet
  <2>4. /\ Append(b, 0) \in Seq(Octet) /\ Len(Append(b, 0)) = z
        /\ \A k \in 1..z : Append(b, 0)[k] = a[k]
    BY <2>1, <2>2, <2>3
  <2>5. a = Append(b, 0)
    BY <2>1, <2>4, SameElements, Zenon
  <2> QED
    BY <2>5, Zenon DEF a, b, z
<1> QED
  BY <1>7, <1>9, <1>10, <1>12, Zenon

LEMMA NoZero ==
    ASSUME StreamTypes, Bounds, m_len > 0, ~has_zero
    PROVE  \A k \in 1..left : p(left)[k] # 0
  BY Zenon DEF has_zero, zeros

LEMMA SameBuild ==
    ASSUME build' = build
    PROVE  /\ Binary' = Binary /\ TxOrder' = TxOrder /\ RxOrder' = RxOrder
           /\ Messages' = Messages /\ Received' = Received
  BY Zenon DEF Binary, TxOrder, RxOrder, Messages, Received

LEMMA ReceivedFields ==
    ASSUME rx_msg \in Received
    PROVE  /\ rx_msg.value \in Seq(Octet)
           /\ \A s \in Seq(Octet) : /\ [rx_msg EXCEPT !.name = s] \in Received
                                    /\ [rx_msg EXCEPT !.value = s] \in Received
                                    /\ ~Binary => [rx_msg EXCEPT !.id = s] \in Received
           /\ Binary => \A n \in Nat : [rx_msg EXCEPT !.id = n] \in Received
  BY Zenon DEF Received

LEMMA SenderUnchanged ==
    ASSUME TxTypes, UNCHANGED tx_vars
    PROVE  TxTypes' /\ build' = build
  BY Zenon DEF TxTypes, tx_vars, Binary, Messages, field, TxOrder

\* the loop goes on, or ends, behind the n bytes that consume_read() takes off the
\* stream
LEMMA GoesOn ==
    ASSUME StreamTypes, Bounds, m_len > 0, build' = build, NEW n \in 1..left, used(n),
           consume_read(n), m_rx_phase' # "IDLE", m_rx_phase' = "ID" => n = left
    PROVE  StreamTypes' /\ Bounds'
<1>1. /\ m_len \in Nat /\ ix \in Nat /\ buffer \in Seq(Octet) /\ Len(buffer) = m_len
      /\ ix < m_len /\ left \in Nat /\ left <= Len(queue) /\ queue \in Seq(Octet)
      /\ n \in 1..left /\ left = m_len - ix /\ ~m_init_deserializer
  BY DEF Bounds, StreamTypes, left
<1>2. /\ queue' = SubSeq(queue, n + 1, Len(queue)) /\ queue' \in Seq(Octet)
      /\ Len(queue') = Len(queue) - n /\ \A k \in 1..Len(queue) - n : queue'[k] = queue[n + k]
  <2>1. n + 1 \in Int /\ Len(queue) \in Int /\ 1 <= n + 1 /\ n + 1 <= Len(queue) + 1
    BY <1>1
  <2> DEFINE q == SubSeq(queue, n + 1, Len(queue))
  <2>2. /\ q \in Seq(Octet) /\ Len(q) = Len(queue) - (n + 1) + 1
        /\ \A k \in 1..Len(queue) - (n + 1) + 1 : q[k] = queue[(n + 1) + k - 1]
    BY <1>1, <2>1, Slice
  <2>3. queue' = q
    BY Zenon DEF consume_read
  <2> HIDE DEF q
  <2>4. \A k \in Nat : (n + 1) + k - 1 = n + k /\ Len(queue) - (n + 1) + 1 = Len(queue) - n
    BY <1>1
  <2> QED
    BY <2>2, <2>3, <2>4, <1>1 DEF q
<1>3. StreamTypes'
  BY <1>2, SameBuild, Zenon DEF StreamTypes, used
<1>4. CASE n = left
  <2>1. m_len' = 0 /\ ix' = 0 /\ buffer' = << >>
    BY <1>4, Zenon DEF used
  <2> QED
    BY <1>3, <2>1 DEF Bounds
<1>5. CASE n # left
  <2>1. m_len' = m_len /\ ix' = ix + n /\ buffer' = buffer /\ ~m_init_deserializer'
    BY <1>1, <1>5, ZenonT(30) DEF used
  <2>2. left' = left - n /\ ix' < m_len' /\ left' <= Len(queue')
    BY <1>1, <1>2, <1>5, <2>1 DEF left
  <2>3. ASSUME NEW k \in 1..left'
        PROVE  buffer'[ix' + k] = queue'[k]
    <3>1. n + k \in 1..left /\ k \in 1..Len(queue) - n /\ ix' + k = ix + (n + k)
      BY <1>1, <2>1, <2>2
    <3>2. buffer[ix + (n + k)] = queue[n + k]
      BY <3>1, Zenon DEF Bounds
    <3> QED
      BY <3>1, <3>2, <2>1, <1>2, ZenonT(30)
  <2> QED
    BY <1>1, <1>3, <1>5, <2>1, <2>2, <2>3 DEF Bounds
<1> QED
  BY <1>4, <1>5, Zenon

LEMMA Ends ==
    ASSUME StreamTypes, Bounds, m_len > 0, build' = build, NEW n \in 1..left, complete,
           consume_read(n)
    PROVE  StreamTypes' /\ Bounds'
<1>1. n \in 0..left
  BY DEF left, Bounds
<1>2. queue' \in Seq(Octet)
  BY <1>1, Taking, Zenon DEF consume_read
<1>3. in_flight' \in Seq(Messages)
  BY DEF complete, StreamTypes
<1> QED
  BY <1>2, <1>3, SameBuild DEF complete, StreamTypes, Bounds

\* a number is complete with bytes of the buffer
LEMMA Collects ==
    ASSUME RxTypes, StreamTypes, Bounds, m_len > 0, NEW width \in Nat, enough(width),
           missing(width) >= 1
    PROVE  /\ missing(width) \in 1..left /\ missing(width) \in 0..left
           /\ collected(width) \in Seq(Octet) /\ Len(collected(width)) = width
<1>1. m_v \in Seq(Octet) /\ Len(m_v) \in Nat /\ left \in Nat
  BY DEF RxTypes, Bounds, left
<1>2. missing(width) \in 1..left /\ missing(width) \in 0..left
  BY <1>1 DEF missing, enough
<1>3. p(missing(width)) \in Seq(Octet) /\ Len(p(missing(width))) = missing(width)
  BY <1>2, Taking, Zenon
<1> QED
  BY <1>1, <1>2, <1>3 DEF collected, missing

\* all bytes of the buffer, and a text that ends within it
LEMMA TakesAll ==
    ASSUME RxTypes, StreamTypes, Bounds, m_len > 0
    PROVE  /\ left \in 1..left /\ left \in 0..left /\ left \in 1..m_len
           /\ m_v \o p(left) \in Seq(Octet) /\ m_s \o p(left) \in Seq(Octet)
           /\ Len(m_v \o p(left)) = Len(m_v) + left /\ Len(m_s \o p(left)) = Len(m_s) + left
<1>1. m_s \in Seq(Octet) /\ m_v \in Seq(Octet) /\ left \in 1..left /\ left \in 0..left
      /\ left \in 1..m_len
  BY DEF RxTypes, Bounds, left
<1>2. p(left) \in Seq(Octet) /\ Len(p(left)) = left
  BY <1>1, Taking, Zenon
<1> QED
  BY <1>1, <1>2

LEMMA TextType ==
    ASSUME RxTypes, StreamTypes, Bounds, m_len > 0, has_zero
    PROVE  zero \in 1..left /\ text \in Seq(Octet)
<1>1. zero \in 1..left /\ zero - 1 \in 0..left
  BY FirstZero, Zenon
<1>2. p(zero - 1) \in Seq(Octet)
  BY <1>1, Taking, Zenon
<1> QED
  BY <1>1, <1>2 DEF text, RxTypes

(* Each iteration of the loop in receive() preserves the invariant.        *)

LEMMA IdBinaryInv ==
    ASSUME IInv, NEW n \in 1..m_len, receive_id_binary(n), consume_read(n)
    PROVE  IInv'
<1>1. /\ TxTypes /\ RxTypes /\ StreamTypes /\ Bounds /\ m_len > 0 /\ Binary
      /\ m_rx_phase = "ID" /\ UNCHANGED tx_vars
  BY Zenon DEF IInv, receive_id_binary
<1>2. TxTypes' /\ build' = build
  BY <1>1, SenderUnchanged, Zenon
<1>3. Binary' = Binary /\ Received' = Received
  BY <1>2, SameBuild, ZenonT(30)
<1>4. CASE enough(IdBytes)
  <2>1. /\ rx_msg' = [rx_msg EXCEPT !.id = number(collected(IdBytes), RxOrder)]
        /\ m_rx_phase' = "NAME" /\ n = missing(IdBytes) /\ used(n) /\ m_v' = << >>
        /\ m_s' = m_s /\ m_size' = m_size
    BY <1>4, Zenon DEF receive_id_binary
  <2>2. n \in 1..left /\ collected(IdBytes) \in Seq(Octet)
    BY <1>1, <1>4, <2>1, Widths, Collects
  <2>3. number(collected(IdBytes), RxOrder) \in Nat
    BY <2>2, NumberType, Zenon
  <2>4. StreamTypes' /\ Bounds'
    BY <1>1, <1>2, <2>1, <2>2, GoesOn, ZenonT(30)
  <2>5. rx_msg' \in Received
    BY <1>1, <2>1, <2>3, ReceivedFields, ZenonT(30) DEF RxTypes
  <2>6. RxTypes'
    BY <1>1, <1>3, <2>1, <2>5 DEF RxTypes, Phases, Bounds, used
  <2> QED
    BY <1>2, <2>4, <2>6, ZenonT(30) DEF IInv
<1>5. CASE ~enough(IdBytes)
  <2>1. /\ m_v' = m_v \o p(left) /\ n = left /\ used(n) /\ rx_msg' = rx_msg
        /\ m_rx_phase' = m_rx_phase /\ m_s' = m_s /\ m_size' = m_size
    BY <1>5, Zenon DEF receive_id_binary
  <2>2. n \in 1..left /\ m_v' \in Seq(Octet)
    BY <1>1, <2>1, TakesAll, Zenon
  <2>3. StreamTypes' /\ Bounds'
    BY <1>1, <1>2, <2>1, <2>2, GoesOn, ZenonT(30)
  <2>4. RxTypes'
    BY <1>1, <1>3, <2>1, <2>2, ZenonT(30) DEF RxTypes, Bounds, used
  <2> QED
    BY <1>2, <2>3, <2>4, Zenon DEF IInv
<1> QED
  BY <1>4, <1>5, Zenon

LEMMA IdTextInv ==
    ASSUME IInv, NEW n \in 1..m_len, receive_id_text(n), consume_read(n)
    PROVE  IInv'
<1>1. /\ TxTypes /\ RxTypes /\ StreamTypes /\ Bounds /\ m_len > 0 /\ ~Binary
      /\ m_rx_phase = "ID" /\ UNCHANGED tx_vars
  BY Zenon DEF IInv, receive_id_text
<1>2. TxTypes' /\ build' = build
  BY <1>1, SenderUnchanged, ZenonT(30)
<1>3. Binary' = Binary /\ Received' = Received
  BY <1>2, SameBuild, Zenon
<1>4. CASE has_zero
  <2>1. /\ rx_msg' = [rx_msg EXCEPT !.id = text] /\ m_rx_phase' = "NAME" /\ n = zero
        /\ used(n) /\ m_s' = << >> /\ m_v' = m_v /\ m_size' = m_size
    BY <1>4, Zenon DEF receive_id_text
  <2>2. n \in 1..left /\ text \in Seq(Octet)
    BY <1>1, <1>4, <2>1, TextType, ZenonT(30)
  <2>3. StreamTypes' /\ Bounds'
    BY <1>1, <1>2, <2>1, <2>2, GoesOn, ZenonT(30)
  <2>4. rx_msg' \in Received
    BY <1>1, <2>1, <2>2, ReceivedFields, Zenon DEF RxTypes
  <2>5. RxTypes'
    BY <1>1, <1>3, <2>1, <2>4 DEF RxTypes, Phases, Bounds, used
  <2> QED
    BY <1>2, <2>3, <2>5, Zenon DEF IInv
<1>5. CASE ~has_zero
  <2>1. /\ m_s' = m_s \o p(left) /\ n = m_len /\ used(left) /\ rx_msg' = rx_msg
        /\ m_rx_phase' = m_rx_phase /\ m_v' = m_v /\ m_size' = m_size
    BY <1>5, Zenon DEF receive_id_text
  <2>2. n = left
    BY <1>1, <2>1 DEF Bounds, left
  <2>3. n \in 1..left /\ m_s' \in Seq(Octet)
    BY <1>1, <2>1, <2>2, TakesAll, ZenonT(30)
  <2>4. used(n)
    BY <2>1, <2>2, ZenonT(30)
  <2>5. StreamTypes' /\ Bounds'
    BY <1>1, <1>2, <2>1, <2>2, <2>3, <2>4, GoesOn, ZenonT(30)
  <2>6. RxTypes'
    BY <1>1, <1>3, <2>1, <2>3, ZenonT(30) DEF RxTypes, Bounds, used
  <2> QED
    BY <1>2, <2>5, <2>6, Zenon DEF IInv
<1> QED
  BY <1>4, <1>5, Zenon

LEMMA NameInv ==
    ASSUME IInv, NEW n \in 1..m_len, receive_name(n), consume_read(n)
    PROVE  IInv'
<1>1. /\ TxTypes /\ RxTypes /\ StreamTypes /\ Bounds /\ m_len > 0
      /\ m_rx_phase = "NAME" /\ UNCHANGED tx_vars
  BY Zenon DEF IInv, receive_name
<1>2. TxTypes' /\ build' = build
  BY <1>1, SenderUnchanged, ZenonT(30)
<1>3. Binary' = Binary /\ Received' = Received
  BY <1>2, SameBuild, Zenon
<1>4. CASE has_zero
  <2>1. /\ rx_msg' = [rx_msg EXCEPT !.name = text] /\ n = zero /\ used(n)
        /\ m_rx_phase' = IF Binary THEN "SIZE" ELSE "ARGS_VALUE"
        /\ m_s' = (IF Binary THEN text ELSE << >>) /\ m_v' = m_v /\ m_size' = m_size
    BY <1>4, Zenon DEF receive_name
  <2>2. n \in 1..left /\ text \in Seq(Octet)
    BY <1>1, <1>4, <2>1, TextType, ZenonT(30)
  <2>3. StreamTypes' /\ Bounds'
    BY <1>1, <1>2, <2>1, <2>2, GoesOn, ZenonT(30)
  <2>4. rx_msg' \in Received
    BY <1>1, <2>1, <2>2, ReceivedFields, Zenon DEF RxTypes
  <2>5. m_s' \in Seq(Octet)
    BY <2>1, <2>2
  <2>6. RxTypes'
    BY <1>1, <1>3, <2>1, <2>4, <2>5, ZenonT(30) DEF RxTypes, Phases, Bounds, used
  <2> QED
    BY <1>2, <2>3, <2>6, Zenon DEF IInv
<1>5. CASE ~has_zero
  <2>1. /\ m_s' = m_s \o p(left) /\ n = left /\ used(n) /\ rx_msg' = rx_msg
        /\ m_rx_phase' = m_rx_phase /\ m_v' = m_v /\ m_size' = m_size
    BY <1>5, Zenon DEF receive_name
  <2>2. n \in 1..left /\ m_s' \in Seq(Octet)
    BY <1>1, <2>1, TakesAll, Zenon
  <2>3. StreamTypes' /\ Bounds'
    BY <1>1, <1>2, <2>1, <2>2, GoesOn, ZenonT(30)
  <2>4. RxTypes'
    BY <1>1, <1>3, <2>1, <2>2, ZenonT(30) DEF RxTypes, Bounds, used
  <2> QED
    BY <1>2, <2>3, <2>4, Zenon DEF IInv
<1> QED
  BY <1>4, <1>5, Zenon

LEMMA SizeInv ==
    ASSUME IInv, NEW n \in 1..m_len, receive_size(n), consume_read(n)
    PROVE  IInv'
<1>1. /\ TxTypes /\ RxTypes /\ StreamTypes /\ Bounds /\ m_len > 0
      /\ m_rx_phase = "SIZE" /\ UNCHANGED tx_vars
  BY Zenon DEF IInv, receive_size
<1>2. TxTypes' /\ build' = build
  BY <1>1, SenderUnchanged, Zenon
<1>3. Binary' = Binary /\ Received' = Received
  BY <1>2, SameBuild, Zenon
<1>4. CASE enough(SizeBytes)
  <2>1. /\ m_v' = collected(SizeBytes) /\ m_size' = number(m_v', RxOrder)
        /\ n = missing(SizeBytes) /\ rx_msg' = [rx_msg EXCEPT !.value = << >>] /\ m_s' = m_s
        /\ IF m_size' > 0 THEN m_rx_phase' = "ARGS_VALUE" /\ used(n) ELSE complete
    BY <1>4, Zenon DEF receive_size
  <2>2. n \in 1..left /\ m_v' \in Seq(Octet)
    BY <1>1, <1>4, <2>1, Widths, Collects
  <2>3. m_size' \in Nat
    BY <2>1, <2>2, NumberType, Zenon
  <2>4. rx_msg' \in Received
    <3>1. << >> \in Seq(Octet)
      OBVIOUS
    <3> QED
      BY <3>1, <1>1, <2>1, ReceivedFields, Zenon DEF RxTypes
  <2>5. CASE m_size' > 0
    <3>1. StreamTypes' /\ Bounds'
      BY <1>1, <1>2, <2>1, <2>2, <2>5, GoesOn, ZenonT(30)
    <3>2. RxTypes'
      BY <1>1, <1>3, <2>1, <2>2, <2>3, <2>4, <2>5, ZenonT(30) DEF RxTypes, Phases, Bounds, used
    <3> QED
      BY <1>2, <3>1, <3>2, Zenon DEF IInv
  <2>6. CASE ~(m_size' > 0)
    <3>1. StreamTypes' /\ Bounds'
      BY <1>1, <1>2, <2>1, <2>2, <2>6, Ends, ZenonT(30)
    <3>2. RxTypes'
      BY <1>1, <1>3, <2>1, <2>2, <2>3, <2>4, <2>6, ZenonT(30) DEF RxTypes, Phases, complete
    <3> QED
      BY <1>2, <3>1, <3>2, Zenon DEF IInv
  <2> QED
    BY <2>5, <2>6, Zenon
<1>5. CASE ~enough(SizeBytes)
  <2>1. /\ m_v' = m_v \o p(left) /\ n = left /\ used(n) /\ rx_msg' = rx_msg
        /\ m_rx_phase' = m_rx_phase /\ m_s' = m_s /\ m_size' = m_size
    BY <1>5, Zenon DEF receive_size
  <2>2. n \in 1..left /\ m_v' \in Seq(Octet)
    BY <1>1, <2>1, TakesAll, Zenon
  <2>3. StreamTypes' /\ Bounds'
    BY <1>1, <1>2, <2>1, <2>2, GoesOn, ZenonT(30)
  <2>4. RxTypes'
    BY <1>1, <1>3, <2>1, <2>2, ZenonT(30) DEF RxTypes, Bounds, used
  <2> QED
    BY <1>2, <2>3, <2>4, Zenon DEF IInv
<1> QED
  BY <1>4, <1>5, Zenon

LEMMA ValueBinaryInv ==
    ASSUME IInv, NEW n \in 1..m_len, receive_value_binary(n), consume_read(n)
    PROVE  IInv' /\ n \in 1..left
<1>1. /\ TxTypes /\ RxTypes /\ StreamTypes /\ Bounds /\ m_len > 0
      /\ Binary /\ m_rx_phase = "ARGS_VALUE" /\ UNCHANGED tx_vars
  BY Zenon DEF IInv, receive_value_binary
<1>2. TxTypes' /\ build' = build
  BY <1>1, SenderUnchanged, ZenonT(30)
<1>3. Binary' = Binary /\ Received' = Received
  BY <1>2, SameBuild, Zenon
<1> DEFINE missing_value == m_size - Len(rx_msg.value)
<1>4. /\ n = IF left >= missing_value THEN missing_value ELSE left
      /\ rx_msg' = [rx_msg EXCEPT !.value = rx_msg.value \o p(n)]
      /\ \/ left >= missing_value /\ complete
         \/ left < missing_value /\ used(n) /\ m_rx_phase' = m_rx_phase
      /\ m_s' = m_s /\ m_v' = m_v /\ m_size' = m_size
  BY Zenon DEF receive_value_binary
<1>5. left \in Nat /\ missing_value \in Int
  BY <1>1, ReceivedFields DEF Bounds, left, RxTypes
<1> HIDE DEF missing_value
<1>6. n \in 1..left /\ n \in 0..left
  BY <1>4, <1>5
<1>7. rx_msg' \in Received
  <2>1. p(n) \in Seq(Octet) /\ rx_msg.value \in Seq(Octet)
    BY <1>1, <1>6, Taking, ReceivedFields, ZenonT(30) DEF RxTypes
  <2>2. rx_msg.value \o p(n) \in Seq(Octet)
    BY <2>1
  <2> QED
    BY <1>1, <1>4, <2>2, ReceivedFields, Zenon DEF RxTypes
<1>8. CASE left >= missing_value /\ complete
  <2>1. StreamTypes' /\ Bounds'
    BY <1>1, <1>2, <1>6, <1>8, Ends, ZenonT(30)
  <2>2. RxTypes'
    BY <1>1, <1>3, <1>4, <1>7, <1>8, ZenonT(30) DEF RxTypes, Phases, complete
  <2> QED
    BY <1>2, <1>6, <2>1, <2>2, ZenonT(30) DEF IInv
<1>9. CASE left < missing_value /\ used(n) /\ m_rx_phase' = m_rx_phase
  <2>1. StreamTypes' /\ Bounds'
    BY <1>1, <1>2, <1>6, <1>9, GoesOn, ZenonT(30)
  <2>2. RxTypes'
    BY <1>1, <1>3, <1>4, <1>7, <1>9, ZenonT(30) DEF RxTypes, Phases, Bounds, used
  <2> QED
    BY <1>2, <1>6, <2>1, <2>2, Zenon DEF IInv
<1> QED
  BY <1>4, <1>8, <1>9, Zenon

LEMMA ValueTextInv ==
    ASSUME IInv, NEW n \in 1..m_len, receive_value_text(n), consume_read(n)
    PROVE  IInv'
<1>1. /\ TxTypes /\ RxTypes /\ StreamTypes /\ Bounds /\ m_len > 0
      /\ ~Binary /\ m_rx_phase = "ARGS_VALUE" /\ UNCHANGED tx_vars
  BY Zenon DEF IInv, receive_value_text
<1>2. TxTypes' /\ build' = build
  BY <1>1, SenderUnchanged, ZenonT(30)
<1>3. Binary' = Binary /\ Received' = Received
  BY <1>2, SameBuild, Zenon
<1>4. CASE has_zero
  <2>1. /\ rx_msg' = [rx_msg EXCEPT !.value = text] /\ n = zero /\ complete
        /\ m_s' = << >> /\ m_v' = m_v /\ m_size' = m_size
    BY <1>4, Zenon DEF receive_value_text
  <2>2. n \in 1..left /\ text \in Seq(Octet)
    BY <1>1, <1>4, <2>1, TextType, ZenonT(30)
  <2>3. StreamTypes' /\ Bounds'
    BY <1>1, <1>2, <2>1, <2>2, Ends, ZenonT(30)
  <2>4. rx_msg' \in Received
    BY <1>1, <2>1, <2>2, ReceivedFields, Zenon DEF RxTypes
  <2>5. RxTypes'
    BY <1>1, <1>3, <2>1, <2>4 DEF RxTypes, Phases, complete
  <2> QED
    BY <1>2, <2>3, <2>5, Zenon DEF IInv
<1>5. CASE ~has_zero
  <2>1. /\ m_s' = m_s \o p(left) /\ n = left /\ used(n) /\ rx_msg' = rx_msg
        /\ m_rx_phase' = m_rx_phase /\ m_v' = m_v /\ m_size' = m_size
    BY <1>5, Zenon DEF receive_value_text
  <2>2. n \in 1..left /\ m_s' \in Seq(Octet)
    BY <1>1, <2>1, TakesAll, Zenon
  <2>3. StreamTypes' /\ Bounds'
    BY <1>1, <1>2, <2>1, <2>2, GoesOn, ZenonT(30)
  <2>4. RxTypes'
    BY <1>1, <1>3, <2>1, <2>2, ZenonT(30) DEF RxTypes, Bounds, used
  <2> QED
    BY <1>2, <2>3, <2>4, Zenon DEF IInv
<1> QED
  BY <1>4, <1>5, Zenon

-------------------------------------------------------------------------------
(* The initial state and the other steps.                                  *)

LEMMA InitInv == Init => IInv
<1> SUFFICES ASSUME Init PROVE IInv
  BY Zenon
<1>1. build \in Builds /\ rx_msg \in Received
  <2> DEFINE none == IF Binary THEN 0 ELSE << >>
             Ids == IF Binary THEN Nat ELSE Seq(Octet)
  <2>1. << >> \in Seq(Octet) /\ none \in Ids
    <3>1. CASE Binary
      BY <3>1
    <3>2. CASE ~Binary
      BY <3>2
    <3> QED
      BY <3>1, <3>2, Zenon
  <2> HIDE DEF none, Ids
  <2>2. [id |-> none, name |-> << >>, value |-> << >>]
           \in [id : Ids, name : Seq(Octet), value : Seq(Octet)]
    BY <2>1, Zenon
  <2> QED
    BY <2>2, Zenon DEF Init, no_message, Received, none, Ids
<1>2. << >> \in Seq(Octet) /\ << >> \in Seq(Messages)
  OBVIOUS
<1>3. TxTypes /\ RxTypes
  BY <1>1, <1>2, Zenon DEF Init, TxTypes, RxTypes, Phases
<1>4. StreamTypes /\ Bounds
  BY <1>2 DEF Init, StreamTypes, Bounds
<1> QED
  BY <1>3, <1>4, Zenon DEF IInv

\* what send() has not written yet of the field it is in
LEMMA Unwritten ==
    ASSUME TxTypes, m_tx_phase # "IDLE"
    PROVE  /\ m_i \in Nat /\ m_i \in 0..Len(field(tx_msg, m_tx_phase))
           /\ field(tx_msg, m_tx_phase) \in Seq(Octet)
           /\ unwritten \in Seq(Octet) /\ Len(unwritten) = Len(field(tx_msg, m_tx_phase)) - m_i
<1> DEFINE f == field(tx_msg, m_tx_phase)
<1>1. f \in Seq(Octet) /\ m_i \in 0..Len(f) /\ m_i \in Nat
  BY FieldType DEF TxTypes
<1>2. unwritten = SubSeq(f, m_i + 1, Len(f))
  BY Zenon DEF unwritten
<1> HIDE DEF f
<1>3. m_i + 1 \in Int /\ Len(f) \in Int /\ 1 <= m_i + 1 /\ m_i + 1 <= Len(f) + 1
  BY <1>1
<1>4. unwritten \in Seq(Octet) /\ Len(unwritten) = Len(f) - (m_i + 1) + 1
  BY <1>1, <1>2, <1>3, Slice
<1>5. Len(f) - (m_i + 1) + 1 = Len(f) - m_i
  BY <1>1
<1> QED
  BY <1>1, <1>4, <1>5, ZenonT(30) DEF f

LEMMA NextPhase ==
    ASSUME NEW msg, NEW phase \in Phases \ {"IDLE"}
    PROVE  /\ next_phase(msg, phase) \in {"NAME", "SIZE", "ARGS_VALUE", "END"}
           /\ next_phase(msg, phase) = "SIZE" => Binary
  BY Zenon DEF next_phase, Phases

LEMMA SendInv == IInv /\ send => IInv'
<1> SUFFICES ASSUME IInv, send PROVE IInv'
  BY Zenon
<1>1. TxTypes /\ RxTypes /\ StreamTypes /\ Bounds /\ ~m_init_serializer /\ m_tx_phase # "IDLE"
  BY Zenon DEF IInv, send
<1>2. PICK count \in 0..Len(unwritten) :
         queue' = queue \o SubSeq(unwritten, 1, count) /\ sent(count)
  BY Zenon DEF send
<1> DEFINE next == next_phase(tx_msg, m_tx_phase)
           all == count = Len(unwritten)
<1>3. /\ m_i' = IF all THEN 0 ELSE m_i + count
      /\ m_tx_phase' = IF ~all THEN m_tx_phase ELSE IF next = "END" THEN "IDLE" ELSE next
      /\ m_init_serializer' = (all /\ next = "END")
      /\ tx_msg' = tx_msg /\ UNCHANGED <<rx_vars, in_flight>>
  BY <1>2, Zenon DEF sent
<1>4. build' = build /\ tx_msg \in Messages /\ tx_msg' \in Messages' /\ build \in Builds
  BY <1>1, <1>3, SameBuild, Zenon DEF rx_vars, TxTypes
<1>5. /\ m_i \in Nat /\ field(tx_msg, m_tx_phase) \in Seq(Octet) /\ unwritten \in Seq(Octet)
      /\ Len(unwritten) = Len(field(tx_msg, m_tx_phase)) - m_i
  BY <1>1, Unwritten, Zenon
<1>6. TxTypes'
  <2>1. next \in {"NAME", "SIZE", "ARGS_VALUE", "END"} /\ (next = "SIZE" => Binary)
    BY <1>1, NextPhase, Zenon DEF TxTypes
  <2>2. m_tx_phase' \in Phases /\ (m_tx_phase' = "SIZE" => Binary')
    BY <1>1, <1>3, <1>4, <2>1, SameBuild, ZenonT(30) DEF TxTypes, Phases
  <2>3. (m_tx_phase' # "IDLE" => m_i' \in 0..Len(field(tx_msg, m_tx_phase)'))
    <3> SUFFICES ASSUME m_tx_phase' # "IDLE" PROVE m_i' \in 0..Len(field(tx_msg, m_tx_phase)')
      BY Zenon
    <3>1. field(tx_msg, m_tx_phase)' = field(tx_msg, m_tx_phase')
      BY <1>3, <1>4, Zenon DEF field, Binary, TxOrder
    <3>2. field(tx_msg, m_tx_phase') \in Seq(Octet)
      BY <1>4, <2>2, FieldType, Zenon
    <3>3. CASE all
      BY <3>1, <3>2, <3>3, <1>3
    <3>4. CASE ~all
      BY <3>1, <3>4, <1>3, <1>5
    <3> QED
      BY <3>3, <3>4, Zenon
  <2>4. m_init_serializer' => m_tx_phase' = "IDLE"
    BY <1>3, Zenon
  <2> QED
    BY <1>4, <2>2, <2>3, <2>4, ZenonT(30) DEF TxTypes
<1>7. RxTypes'
  <2>1. Binary' = Binary /\ Received' = Received
    BY <1>4, SameBuild, Zenon
  <2> QED
    BY <1>1, <1>3, <2>1, ZenonT(30) DEF RxTypes, rx_vars
<1> DEFINE more == SubSeq(unwritten, 1, count)
<1>8. more \in Seq(Octet)
  BY <1>5
<1> HIDE DEF more
<1>9. queue' \in Seq(Octet) /\ Len(queue') >= Len(queue) /\ \A k \in 1..Len(queue) : queue'[k] = queue[k]
  BY <1>1, <1>2, <1>8 DEF StreamTypes, more
<1>10. StreamTypes'
  BY <1>1, <1>3, <1>4, <1>9, SameBuild, ZenonT(30) DEF StreamTypes
<1>11. Bounds'
  <2>1. /\ m_len' = m_len /\ ix' = ix /\ buffer' = buffer /\ m_rx_phase' = m_rx_phase
        /\ m_init_deserializer' = m_init_deserializer /\ left' = left
    BY <1>3, Zenon DEF rx_vars, left
  <2>2. left \in Int /\ Len(queue) \in Nat /\ Len(queue') \in Nat
    BY <1>1, <1>9 DEF Bounds, left, StreamTypes
  <2>3. m_len > 0 => left <= Len(queue') /\ \A k \in 1..left : buffer[ix + k] = queue'[k]
    BY <1>1, <1>9, <2>2 DEF Bounds
  <2> QED
    BY <1>1, <2>1, <2>3, Zenon DEF Bounds
<1> QED
  BY <1>6, <1>7, <1>10, <1>11, Zenon DEF IInv

LEMMA TxInitInv == IInv /\ (tx_initLoop \/ \E msg \in Messages : tx_init(msg)) => IInv'
<1> SUFFICES ASSUME IInv, tx_initLoop \/ \E msg \in Messages : tx_init(msg) PROVE IInv'
  BY Zenon
<1>1. TxTypes /\ RxTypes /\ StreamTypes /\ Bounds
  BY Zenon DEF IInv
<1>2. queue' = queue /\ UNCHANGED rx_vars /\ build' = build
  BY Zenon DEF tx_initLoop, tx_init, rx_vars
<1>3. Binary' = Binary /\ Received' = Received /\ Messages' = Messages
  BY <1>2, SameBuild, Zenon
<1>4. RxTypes'
  BY <1>1, <1>2, <1>3, Zenon DEF RxTypes, rx_vars
<1>5. Bounds'
  BY <1>1, <1>2, Zenon DEF Bounds, rx_vars, left
<1>6. CASE tx_initLoop
  <2>1. /\ tx_msg' = tx_msg /\ m_tx_phase' = m_tx_phase /\ m_i' = m_i /\ in_flight' = in_flight
        /\ m_tx_phase = "IDLE" \/ (m_tx_phase = "ID" /\ m_i = 0)
    BY <1>6, Zenon DEF tx_initLoop
  <2>2. field(tx_msg, m_tx_phase)' = field(tx_msg, m_tx_phase)
    BY <1>2, <2>1, Zenon DEF field, Binary, TxOrder
  <2>3. TxTypes'
    BY <1>1, <1>2, <1>3, <2>1, <2>2, ZenonT(30) DEF TxTypes
  <2>4. StreamTypes'
    BY <1>1, <1>2, <1>3, <2>1, ZenonT(30) DEF StreamTypes
  <2> QED
    BY <1>4, <1>5, <2>3, <2>4, ZenonT(30) DEF IInv
<1>7. CASE \E msg \in Messages : tx_init(msg)
  <2>1. PICK msg \in Messages : tx_init(msg)
    BY <1>7, Zenon
  <2>2. /\ tx_msg' = msg /\ m_tx_phase' = "ID" /\ m_i' = 0 /\ ~m_init_serializer'
        /\ in_flight' = Append(in_flight, msg) \/ in_flight' = in_flight
    BY <2>1, Zenon DEF tx_init
  <2>3. field(tx_msg, m_tx_phase)' = field(msg, "ID")
    BY <1>2, <2>2, Zenon DEF field, Binary, TxOrder
  <2>4. field(msg, "ID") \in Seq(Octet)
    BY <1>1, FieldType, Zenon DEF TxTypes, Phases
  <2>5. TxTypes'
    BY <1>1, <1>2, <1>3, <2>2, <2>3, <2>4 DEF TxTypes, Phases
  <2>6. StreamTypes'
    BY <1>1, <1>2, <1>3, <2>2 DEF StreamTypes
  <2> QED
    BY <1>4, <1>5, <2>5, <2>6, ZenonT(30) DEF IInv
<1> QED
  BY <1>6, <1>7, Zenon

LEMMA RxInitInv == IInv /\ (rx_initLoop \/ rx_init \/ receive) => IInv'
<1> SUFFICES ASSUME IInv, rx_initLoop \/ rx_init \/ receive PROVE IInv'
  BY Zenon
<1>1. TxTypes /\ RxTypes /\ StreamTypes /\ Bounds
  BY Zenon DEF IInv
<1>2. queue' = queue /\ UNCHANGED tx_vars /\ in_flight' = in_flight /\ rx_msg' = rx_msg
      /\ m_size' = m_size /\ ix' = ix
  BY Zenon DEF rx_initLoop, rx_init, receive
<1>3. TxTypes' /\ build' = build
  BY <1>1, <1>2, SenderUnchanged, Zenon
<1>4. Binary' = Binary /\ Received' = Received /\ Messages' = Messages
  BY <1>3, SameBuild, Zenon
<1>5. StreamTypes'
  BY <1>1, <1>2, <1>4, ZenonT(30) DEF StreamTypes
<1>6. CASE rx_initLoop \/ rx_init
  <2>1. m_len = 0 /\ m_len' = m_len /\ buffer' = buffer
    BY <1>1, <1>6 DEF rx_initLoop, rx_init, Bounds
  <2>2. Bounds'
    BY <1>1, <1>2, <2>1 DEF Bounds
  <2>3. CASE rx_initLoop
    <3>1. RxTypes'
      BY <1>1, <1>2, <1>4, <2>3, ZenonT(30) DEF RxTypes, rx_initLoop
    <3> QED
      BY <1>3, <1>5, <2>2, <3>1, ZenonT(30) DEF IInv
  <2>4. CASE rx_init
    <3>1. << >> \in Seq(Octet)
      OBVIOUS
    <3>2. m_s' = << >> /\ m_v' = << >> /\ m_rx_phase' = "ID" /\ ~m_init_deserializer'
      BY <2>4, Zenon DEF rx_init
    <3>3. RxTypes'
      BY <1>1, <1>2, <1>4, <3>1, <3>2, ZenonT(30) DEF RxTypes, Phases
    <3> QED
      BY <1>3, <1>5, <2>2, <3>3, Zenon DEF IInv
  <2> QED
    BY <1>6, <2>3, <2>4, Zenon
<1>7. CASE receive
  <2>1. /\ m_len = 0 /\ ix = 0 /\ ~m_init_deserializer
        /\ m_init_deserializer' = m_init_deserializer /\ m_rx_phase # "IDLE"
        /\ m_rx_phase' = m_rx_phase /\ m_s' = m_s /\ m_v' = m_v
    BY <1>1, <1>7, Zenon DEF receive, Bounds
  <2>2. PICK l \in 1..Len(queue) : m_len' = l /\ buffer' = SubSeq(queue, 1, l)
    BY <1>7, Zenon DEF receive
  <2>3. RxTypes'
    BY <1>1, <1>2, <1>4, <2>1, Zenon DEF RxTypes
  <2>4. buffer' \in Seq(Octet) /\ Len(buffer') = l /\ \A k \in 1..l : buffer'[k] = queue[k]
    BY <1>1, <2>2 DEF StreamTypes
  <2>5. l \in Nat /\ l > 0 /\ l <= Len(queue)
    BY <1>1 DEF StreamTypes
  <2>6. left' = l /\ \A k \in 1..l : 0 + k = k
    BY <1>2, <2>1, <2>2, <2>5 DEF left
  <2>7. Bounds'
    BY <1>2, <2>1, <2>2, <2>4, <2>5, <2>6, ZenonT(30) DEF Bounds
  <2> QED
    BY <1>3, <1>5, <2>3, <2>7, ZenonT(30) DEF IInv
<1> QED
  BY <1>6, <1>7, Zenon

LEMMA ReceiveStepInv == IInv /\ receive_step => IInv'
<1> SUFFICES ASSUME IInv, receive_step PROVE IInv'
  BY Zenon
<1>1. PICK n \in 1..m_len : iteration(n) /\ consume_read(n)
  BY Zenon DEF receive_step
<1> QED
  BY <1>1, IdBinaryInv, IdTextInv, NameInv, SizeInv, ValueBinaryInv, ValueTextInv, ZenonT(30) DEF iteration

LEMMA NextInv == IInv /\ [Next]_vars => IInv'
<1> SUFFICES ASSUME IInv, [Next]_vars PROVE IInv'
  BY Zenon
<1>1. CASE UNCHANGED vars
  <2>1. UNCHANGED <<tx_vars, rx_vars, queue, in_flight>> /\ build' = build
    BY <1>1, Zenon DEF vars, tx_vars, rx_vars
  <2>2. TxTypes'
    BY <2>1, SenderUnchanged, Zenon DEF IInv
  <2>3. Binary' = Binary /\ Received' = Received /\ Messages' = Messages
    BY <2>1, SameBuild, Zenon
  <2>4. RxTypes' /\ StreamTypes'
    BY <2>1, <2>3, Zenon DEF IInv, RxTypes, StreamTypes, rx_vars
  <2>5. Bounds'
    BY <2>1, Zenon DEF IInv, Bounds, rx_vars, left
  <2> QED
    BY <2>2, <2>4, <2>5, Zenon DEF IInv
<1> QED
  BY <1>1, SendInv, TxInitInv, RxInitInv, ReceiveStepInv, ZenonT(30) DEF Next

\* The fields of Serializer and Deserializer stay typed, m_i within the field it
\* counts in and ix within the buffer, whatever the chunks and the byte orders.
THEOREM FramingInvariant == Spec => []IInv
  BY InitInv, NextInv, PTL DEF Spec

LEMMA InBounds == IInv => ReceiveInBounds
<1> SUFFICES ASSUME IInv, m_len > 0
             PROVE  /\ ix < m_len /\ left <= Len(queue)
                    /\ p(left) = SubSeq(queue, 1, left)
  BY Zenon DEF ReceiveInBounds
<1>1. StreamTypes /\ Bounds /\ left \in 0..left
  BY DEF IInv, Bounds, left
<1> QED
  BY <1>1, Taking, Zenon DEF Bounds

\* receive() never reads past the bytes it was given, and has consumed from the
\* stream exactly the bytes it has used.
THEOREM FramingReceiveInBounds == Spec => []ReceiveInBounds
  BY FramingInvariant, InBounds, PTL

-------------------------------------------------------------------------------
(* The receiver stays in step with the sender.                             *)

\* what is on its way to receive()
ahead == queue \o unsent

\* what is due when the field it is in ends
after == following(Head(in_flight), m_rx_phase) \o frames(Tail(in_flight))

LEMMA Unsent ==
    ASSUME TxTypes
    PROVE  /\ unsent \in Seq(Octet)
           /\ m_tx_phase # "IDLE" =>
                 /\ following(tx_msg, m_tx_phase) \in Seq(Octet)
                 /\ unsent = unwritten \o following(tx_msg, m_tx_phase)
<1>1. CASE m_tx_phase = "IDLE"
  <2>1. unsent = << >>
    BY <1>1, Zenon DEF unsent
  <2> QED
    BY <1>1, <2>1
<1>2. CASE m_tx_phase # "IDLE"
  <2> DEFINE f0 == field(tx_msg, m_tx_phase)
             g0 == following(tx_msg, m_tx_phase)
  <2>1. /\ build \in Builds /\ tx_msg \in Messages /\ m_tx_phase \in Phases \ {"IDLE"}
        /\ m_tx_phase = "SIZE" => Binary
    BY <1>2, Zenon DEF TxTypes
  <2>2. f0 \in Seq(Octet) /\ m_i \in 0..Len(f0) /\ unwritten \in Seq(Octet)
    BY <1>2, Unwritten, Zenon
  <2>3. frame_from(tx_msg, m_tx_phase) = f0 \o g0 /\ g0 \in Seq(Octet)
    BY <2>1, FrameNext, Zenon
  <2>4. unwritten = SubSeq(f0, m_i + 1, Len(f0))
    BY Zenon DEF unwritten
  <2>5. unsent = SubSeq(f0 \o g0, m_i + 1, Len(f0 \o g0))
    BY <1>2, <2>3, Zenon DEF unsent
  <2> HIDE DEF f0, g0
  <2>6. unsent = unwritten \o g0
    BY <2>2, <2>3, <2>4, <2>5, DropConcat, Zenon
  <2>7. unwritten \o g0 \in Seq(Octet)
    BY <2>2, <2>3
  <2> QED
    BY <2>3, <2>6, <2>7, Zenon DEF g0
<1> QED
  BY <1>1, <1>2, Zenon

LEMMA AheadMoves ==
    ASSUME TxTypes, StreamTypes, Bounds, m_len > 0, NEW n \in 1..left, consume_read(n),
           UNCHANGED tx_vars
    PROVE  /\ p(n) \in Seq(Octet) /\ Len(p(n)) = n /\ ahead' \in Seq(Octet)
           /\ ahead \in Seq(Octet) /\ ahead = p(n) \o ahead'
<1>1. n \in 0..left
  BY DEF Bounds, left
<1>2. /\ p(n) \in Seq(Octet) /\ Len(p(n)) = n /\ queue' \in Seq(Octet)
      /\ queue = p(n) \o queue'
  BY <1>1, Taking, Zenon DEF consume_read
<1>3. unsent \in Seq(Octet) /\ unsent' = unsent
  <2>1. build' = build /\ tx_msg' = tx_msg /\ m_tx_phase' = m_tx_phase /\ m_i' = m_i
    BY Zenon DEF tx_vars
  <2>2. frame_from(tx_msg, m_tx_phase)' = frame_from(tx_msg, m_tx_phase)
    BY <2>1, Zenon DEF frame_from, field, Binary, TxOrder
  <2> QED
    BY <2>1, <2>2, Unsent, Zenon DEF unsent
<1> DEFINE a0 == p(n)
           b0 == queue'
           c0 == unsent
<1>4. (a0 \o b0) \o c0 = a0 \o (b0 \o c0) /\ b0 \o c0 \in Seq(Octet)
      /\ (a0 \o b0) \o c0 \in Seq(Octet)
  <2>1. a0 \in Seq(Octet) /\ b0 \in Seq(Octet) /\ c0 \in Seq(Octet)
    BY <1>2, <1>3, Zenon
  <2> HIDE DEF a0, b0, c0
  <2>2. Associates(a0, b0, c0)
    BY <2>1, Associative, Zenon
  <2> QED
    BY <2>1, <2>2 DEF Associates
<1>5. ahead = (a0 \o b0) \o c0 /\ ahead' = b0 \o c0
  BY <1>2, <1>3, Zenon DEF ahead
<1> QED
  BY <1>2, <1>4, <1>5, Zenon

LEMMA PartType ==
    ASSUME RxTypes
    PROVE  part \in Seq(Octet)
  BY ReceivedFields DEF RxTypes, part, Phases

\* what receive() takes next is the rest of a field of the oldest message
LEMMA NextBytes ==
    ASSUME IInv, InStep, m_len > 0, NEW n \in 1..left, consume_read(n), UNCHANGED tx_vars
    PROVE  /\ in_flight # << >> /\ Head(in_flight) \in Messages
           /\ Tail(in_flight) \in Seq(Messages)
           /\ part \in Seq(Octet) /\ p(n) \in Seq(Octet) /\ Len(p(n)) = n
           /\ ahead' \in Seq(Octet) /\ after \in Seq(Octet)
           /\ field(Head(in_flight), m_rx_phase) \in Seq(Octet)
           /\ (part \o p(n)) \o ahead' = due
           /\ due = field(Head(in_flight), m_rx_phase) \o after
<1>1. TxTypes /\ RxTypes /\ StreamTypes /\ Bounds /\ build \in Builds
  BY Zenon DEF IInv, TxTypes
<1>2. /\ p(n) \in Seq(Octet) /\ Len(p(n)) = n /\ ahead' \in Seq(Octet)
      /\ ahead \in Seq(Octet) /\ ahead = p(n) \o ahead' /\ part \in Seq(Octet)
  BY <1>1, AheadMoves, PartType, ZenonT(30)
<1>3. n \in Nat /\ n > 0
  BY <1>1 DEF Bounds, left
<1> DEFINE a0 == part
           b0 == p(n)
           c0 == ahead'
<1>4. (a0 \o b0) \o c0 = a0 \o (b0 \o c0) /\ a0 \o (b0 \o c0) # << >>
  <2>1. a0 \in Seq(Octet) /\ b0 \in Seq(Octet) /\ c0 \in Seq(Octet) /\ Len(b0) > 0
    BY <1>2, <1>3, Zenon
  <2> HIDE DEF a0, b0, c0
  <2>2. (a0 \o b0) \o c0 = a0 \o (b0 \o c0)
    <3>1. a0 \in Seq(Octet) /\ b0 \in Seq(Octet) /\ c0 \in Seq(Octet)
      BY <2>1, Zenon
    <3>2. Associates(a0, b0, c0)
      BY <3>1, Associative, Zenon
    <3> QED
      BY <3>1, <3>2, Zenon DEF Associates
  <2>3. Len(a0 \o (b0 \o c0)) > 0
    BY <2>1
  <2> QED
    BY <2>2, <2>3
<1>5. (part \o p(n)) \o ahead' = due /\ due # << >>
  BY <1>2, <1>4, Zenon DEF InStep, ahead
<1>6. in_flight # << >>
  BY <1>5, Zenon DEF due
<1>7. Head(in_flight) \in Messages /\ Tail(in_flight) \in Seq(Messages)
  BY <1>1, <1>6 DEF StreamTypes
<1>8. m_rx_phase \in Phases \ {"IDLE"} /\ (m_rx_phase = "SIZE" => Binary)
  BY <1>1, Zenon DEF RxTypes, Bounds
<1> DEFINE f0 == field(Head(in_flight), m_rx_phase)
           g0 == following(Head(in_flight), m_rx_phase)
           h0 == frames(Tail(in_flight))
<1>9. f0 \in Seq(Octet) /\ g0 \in Seq(Octet) /\ h0 \in Seq(Octet)
      /\ frame_from(Head(in_flight), m_rx_phase) = f0 \o g0
  BY <1>1, <1>7, <1>8, FieldType, FrameNext, FramesType, Zenon
<1>10. due = (f0 \o g0) \o h0
  BY <1>6, <1>8, <1>9, Zenon DEF due
<1>11. (f0 \o g0) \o h0 = f0 \o (g0 \o h0) /\ g0 \o h0 \in Seq(Octet)
  <2> HIDE DEF f0, g0, h0
  <2>1. Associates(f0, g0, h0)
    BY <1>9, Associative, Zenon
  <2> QED
    BY <1>9, <2>1 DEF Associates
<1>12. after = g0 \o h0
  BY Zenon DEF after
<1> QED
  BY <1>2, <1>5, <1>6, <1>7, <1>9, <1>10, <1>11, <1>12, Zenon

(* The three ways a step of receive() ends.                                *)

\* within the field
LEMMA FieldGoesOn ==
    ASSUME build' = build, m_rx_phase' = m_rx_phase, in_flight' = in_flight,
           NEW n, (part \o p(n)) \o ahead' = due, part' = part \o p(n)
    PROVE  InStep'
<1>1. due' = due
  BY SameFrames, Zenon DEF due
<1> QED
  BY <1>1, Zenon DEF InStep, ahead

\* at the end of a field, before another one
LEMMA FieldEnds ==
    ASSUME build' = build, in_flight # << >>, in_flight' = in_flight, part' = << >>,
           ahead' \in Seq(Octet), ahead' = after,
           m_rx_phase' = next_phase(Head(in_flight), m_rx_phase),
           m_rx_phase' \in {"NAME", "SIZE", "ARGS_VALUE"}
    PROVE  InStep'
<1> DEFINE next == next_phase(Head(in_flight), m_rx_phase)
<1>1. due' = frame_from(Head(in_flight), next) \o frames(Tail(in_flight))
  BY SameFrames, Zenon DEF due
<1>2. after = frame_from(Head(in_flight), next) \o frames(Tail(in_flight))
  BY Zenon DEF after, following
<1>3. << >> \o ahead' = ahead'
  BY ConcatEmpty, Zenon
<1> QED
  BY <1>1, <1>2, <1>3, Zenon DEF InStep, ahead

\* at the end of the message
LEMMA MessageEnds ==
    ASSUME build' = build, build \in Builds, in_flight # << >>,
           Tail(in_flight) \in Seq(Messages), complete, ahead' \in Seq(Octet), ahead' = after,
           next_phase(Head(in_flight), m_rx_phase) = "END"
    PROVE  InStep'
<1> DEFINE rest == Tail(in_flight)
<1>1. m_rx_phase' = "IDLE" /\ in_flight' = rest
  BY Zenon DEF complete
<1>2. part' = << >>
  BY <1>1, Zenon DEF part
<1>3. due' = IF rest = << >> THEN << >> ELSE frame_from(Head(rest), "ID") \o frames(Tail(rest))
  BY <1>1, SameFrames, Zenon DEF due
<1> HIDE DEF rest
<1>4. due' = frames(rest)
  <2>1. CASE rest = << >>
    BY <2>1, <1>3, FramesEmpty, Zenon
  <2>2. CASE rest # << >>
    <3>1. rest \in Seq(Messages)
      BY Zenon DEF rest
    <3> QED
      BY <3>1, <2>2, <1>3, FramesHead, Zenon DEF frame
  <2> QED
    BY <2>1, <2>2, Zenon
<1>5. after = frames(rest)
  <2>1. frames(rest) \in Seq(Octet)
    BY FramesType, Zenon DEF rest
  <2>2. << >> \o frames(rest) = frames(rest)
    BY <2>1, ConcatEmpty, Zenon
  <2> QED
    BY <2>2, Zenon DEF after, following, rest
<1>6. << >> \o ahead' = ahead'
  BY ConcatEmpty, Zenon
<1> QED
  BY <1>2, <1>4, <1>5, <1>6, Zenon DEF InStep, ahead

(* A field of a fixed width, and one that ends with a 0 byte.              *)

LEMMA NumberEnds ==
    ASSUME IInv, InStep, m_len > 0, NEW width \in Nat, enough(width), missing(width) >= 1,
           consume_read(missing(width)), UNCHANGED tx_vars, part = m_v,
           Head(in_flight) \in Messages => Len(field(Head(in_flight), m_rx_phase)) = width
    PROVE  collected(width) = field(Head(in_flight), m_rx_phase) /\ ahead' = after
<1> DEFINE n == missing(width)
           f0 == field(Head(in_flight), m_rx_phase)
<1>1. RxTypes /\ StreamTypes /\ Bounds
  BY Zenon DEF IInv
<1>2. n \in 1..left /\ collected(width) \in Seq(Octet) /\ Len(collected(width)) = width
  BY <1>1, Collects, Zenon
<1>3. /\ Head(in_flight) \in Messages /\ ahead' \in Seq(Octet) /\ after \in Seq(Octet)
      /\ f0 \in Seq(Octet) /\ (part \o p(n)) \o ahead' = f0 \o after
  BY <1>2, NextBytes, Zenon
<1>4. collected(width) = part \o p(n) /\ Len(f0) = width
  BY <1>3, Zenon DEF collected
<1> DEFINE c0 == collected(width)
           x0 == ahead'
           y0 == after
<1>5. /\ c0 \in Seq(Octet) /\ x0 \in Seq(Octet) /\ y0 \in Seq(Octet) /\ f0 \in Seq(Octet)
      /\ c0 \o x0 = f0 \o y0 /\ Len(c0) = Len(f0)
  BY <1>2, <1>3, <1>4, Zenon
<1> HIDE DEF c0, x0, y0, f0
<1>6. c0 = f0 /\ x0 = y0
  BY <1>5, ConcatCancel, Zenon
<1> QED
  BY <1>6, Zenon DEF c0, x0, y0, f0

LEMMA TextEnds ==
    ASSUME IInv, Parsed, InStep, m_len > 0, has_zero, consume_read(zero), UNCHANGED tx_vars,
           part = m_s, NEW chars, field(Head(in_flight), m_rx_phase) = Append(chars, 0),
           Head(in_flight) \in Messages =>
              chars \in Seq(Octet) /\ \A k \in 1..Len(chars) : chars[k] # 0
    PROVE  /\ text = chars /\ ahead' = after /\ \A k \in 1..Len(text) : text[k] # 0
<1>1. TxTypes /\ RxTypes /\ StreamTypes /\ Bounds
  BY Zenon DEF IInv
<1>2. /\ zero \in 1..left /\ zero - 1 \in 0..left /\ p(zero) = Append(p(zero - 1), 0)
      /\ \A k \in 1..zero - 1 : p(zero - 1)[k] # 0
  BY <1>1, FirstZero, Zenon
<1>3. p(zero - 1) \in Seq(Octet) /\ Len(p(zero - 1)) = zero - 1
  BY <1>1, <1>2, Taking, Zenon
<1>4. /\ Head(in_flight) \in Messages /\ ahead' \in Seq(Octet) /\ after \in Seq(Octet)
      /\ (part \o p(zero)) \o ahead' = Append(chars, 0) \o after
  BY <1>2, NextBytes, Zenon
<1>5. 0 \in Octet
  BY Widths DEF Octet
<1> DEFINE q0 == p(zero - 1)
           t0 == text
           x0 == ahead'
           y0 == after
<1>6. t0 = m_s \o q0 /\ m_s \in Seq(Octet) /\ q0 \in Seq(Octet)
  BY <1>1, <1>3, Zenon DEF text, RxTypes
<1>7. \A k \in 1..Len(m_s) : m_s[k] # 0
  BY Zenon DEF Parsed
<1>8. \A k \in 1..Len(q0) : q0[k] # 0
  BY <1>2, <1>3, Zenon
<1>9. x0 \in Seq(Octet) /\ y0 \in Seq(Octet)
  BY <1>4, Zenon
<1>10. (m_s \o Append(q0, 0)) \o x0 = Append(chars, 0) \o y0
  BY <1>2, <1>4, Zenon
<1>11. chars \in Seq(Octet) /\ \A k \in 1..Len(chars) : chars[k] # 0
  BY <1>4, Zenon
<1> HIDE DEF q0, t0, x0, y0
<1>12. t0 \in Seq(Octet) /\ \A k \in 1..Len(t0) : t0[k] # 0
  <2>1. Len(t0) = Len(m_s) + Len(q0) /\ Len(m_s) \in Nat /\ Len(q0) \in Nat
    BY <1>6
  <2>2. ASSUME NEW k \in 1..Len(t0) PROVE t0[k] # 0
    <3>1. CASE k <= Len(m_s)
      <4>1. t0[k] = m_s[k] /\ k \in 1..Len(m_s)
        BY <3>1, <2>1, <1>6
      <4> QED
        BY <4>1, <1>7, Zenon
    <3>2. CASE ~(k <= Len(m_s))
      <4>1. t0[k] = q0[k - Len(m_s)] /\ k - Len(m_s) \in 1..Len(q0)
        BY <3>2, <2>1, <1>6
      <4> QED
        BY <4>1, <1>8, Zenon
    <3> QED
      BY <3>1, <3>2, Zenon
  <2> QED
    BY <2>2, <1>6
<1>13. m_s \o Append(q0, 0) = Append(t0, 0)
  <2>1. Append(q0, 0) = q0 \o <<0>> /\ Append(t0, 0) = t0 \o <<0>> /\ <<0>> \in Seq(Octet)
    BY <1>5, <1>6, <1>12
  <2>2. (m_s \o q0) \o <<0>> = m_s \o (q0 \o <<0>>)
    <3> DEFINE z0 == <<0>>
    <3>1. m_s \in Seq(Octet) /\ q0 \in Seq(Octet) /\ z0 \in Seq(Octet)
      BY <2>1, <1>6, Zenon
    <3> HIDE DEF z0
    <3>2. (m_s \o q0) \o z0 = m_s \o (q0 \o z0)
      <4>1. Associates(m_s, q0, z0)
        BY <3>1, Associative, Zenon
      <4> QED
        BY <3>1, <4>1, ZenonT(30) DEF Associates
    <3> QED
      BY <3>2, Zenon DEF z0
  <2> QED
    BY <2>1, <2>2, <1>6, Zenon
<1>14. Append(t0, 0) \o x0 = Append(chars, 0) \o y0
  BY <1>10, <1>13, Zenon
<1>15. t0 = chars /\ x0 = y0
  BY <1>5, <1>9, <1>11, <1>12, <1>14, TextCancel, ZenonT(30)
<1> QED
  BY <1>12, <1>15, Zenon DEF t0, x0, y0

\* a text that does not end yet has no 0 byte
LEMMA TextGoesOn ==
    ASSUME RxTypes, StreamTypes, Bounds, m_len > 0, ~has_zero,
           \A k \in 1..Len(m_s) : m_s[k] # 0
    PROVE  \A k \in 1..Len(m_s \o p(left)) : (m_s \o p(left))[k] # 0
<1> DEFINE q0 == p(left)
           t0 == m_s \o q0
<1>1. m_s \in Seq(Octet) /\ q0 \in Seq(Octet) /\ \A k \in 1..Len(q0) : q0[k] # 0
  <2>1. left \in 0..left
    BY TakesAll, Zenon
  <2> QED
    BY <2>1, Taking, NoZero, Zenon DEF RxTypes
<1> HIDE DEF q0
<1>2. Len(t0) = Len(m_s) + Len(q0) /\ Len(m_s) \in Nat /\ Len(q0) \in Nat
  BY <1>1
<1>3. ASSUME NEW k \in 1..Len(t0) PROVE t0[k] # 0
  <2>1. CASE k <= Len(m_s)
    <3>1. t0[k] = m_s[k] /\ k \in 1..Len(m_s)
      BY <2>1, <1>1, <1>2
    <3> QED
      BY <3>1, Zenon
  <2>2. CASE ~(k <= Len(m_s))
    <3>1. t0[k] = q0[k - Len(m_s)] /\ k - Len(m_s) \in 1..Len(q0)
      BY <2>2, <1>1, <1>2
    <3> QED
      BY <3>1, <1>1, Zenon
  <2> QED
    BY <2>1, <2>2, Zenon
<1> QED
  BY <1>3, Zenon DEF q0

(* Each iteration of the loop in receive() keeps it in step.               *)

\* both ends lay out integers the same way, which nothing in the code ensures
SameByteOrder == \A b \in Builds : b.binary => b.tx_order = b.rx_order

\* a message is handed over as it was sent
Delivers == m_rx_phase' = "IDLE" => in_flight # << >> /\ delivered' = Head(in_flight)

LEMMA Begins ==
    ASSUME JInv, m_len > 0, UNCHANGED tx_vars
    PROVE  /\ IInv /\ Parsed /\ InStep /\ build \in Builds /\ build' = build
           /\ Binary' = Binary /\ Received' = Received /\ RxTypes /\ StreamTypes /\ Bounds
           /\ m_rx_phase \in Phases \ {"IDLE"} /\ rx_msg \in Received
<1>1. IInv /\ Parsed /\ InStep
  BY Zenon DEF JInv
<1>2. TxTypes /\ RxTypes /\ StreamTypes /\ Bounds
  BY <1>1, Zenon DEF IInv
<1>3. build \in Builds /\ build' = build
  BY <1>2, Zenon DEF TxTypes, tx_vars
<1> QED
  BY <1>1, <1>2, <1>3, SameBuild, Zenon DEF RxTypes, Bounds

LEMMA IdBinaryParses ==
    ASSUME SameByteOrder, JInv, NEW n \in 1..m_len, receive_id_binary(n), consume_read(n)
    PROVE  Parsed' /\ InStep' /\ Delivers
<1>1. m_len > 0 /\ Binary /\ m_rx_phase = "ID" /\ UNCHANGED tx_vars
  BY Zenon DEF receive_id_binary
<1>2. /\ IInv /\ Parsed /\ InStep /\ build \in Builds /\ build' = build /\ Binary' = Binary
      /\ RxTypes /\ StreamTypes /\ Bounds /\ rx_msg \in Received
  BY <1>1, Begins, Zenon
<1>3. part = m_v /\ m_s = << >>
  BY <1>1, <1>2, Zenon DEF part, Parsed
<1>4. CASE enough(IdBytes)
  <2>1. /\ rx_msg' = [rx_msg EXCEPT !.id = number(collected(IdBytes), RxOrder)]
        /\ m_rx_phase' = "NAME" /\ n = missing(IdBytes) /\ used(n) /\ m_v' = << >>
        /\ m_s' = m_s
    BY <1>4, Zenon DEF receive_id_binary
  <2>2. n \in 1..left /\ IdBytes \in Nat /\ missing(IdBytes) >= 1
    BY <1>1, <1>2, <1>4, <2>1, Widths, Collects
  <2>3. in_flight # << >> /\ Head(in_flight) \in Messages /\ ahead' \in Seq(Octet)
        /\ in_flight' = in_flight
    BY <1>1, <1>2, <2>1, <2>2, NextBytes, ZenonT(30) DEF used
  <2>4. Len(field(Head(in_flight), m_rx_phase)) = IdBytes
    BY <1>1, <1>2, <2>3, FieldType, ZenonT(30) DEF Phases
  <2>5. collected(IdBytes) = field(Head(in_flight), m_rx_phase) /\ ahead' = after
    BY <1>1, <1>2, <1>3, <1>4, <2>1, <2>2, <2>4, NumberEnds, ZenonT(30)
  <2>6. rx_msg'.id = Head(in_flight).id
    <3>1. /\ Head(in_flight).id \in Nat /\ TxOrder \in {"little", "big"}
          /\ above(Head(in_flight).id, IdBytes)[IdBytes] = 0
      BY <1>1, <1>2, <2>3, MessageTypes, Zenon DEF Received
    <3>2. TxOrder = RxOrder
      BY <1>1, <1>2, Zenon DEF SameByteOrder, Binary, TxOrder, RxOrder
    <3>3. collected(IdBytes) = in_memory(Head(in_flight).id, IdBytes, RxOrder)
      BY <1>1, <2>5, <3>2, Zenon DEF field
    <3>4. number(collected(IdBytes), RxOrder) = Head(in_flight).id
      BY <2>2, <3>1, <3>2, <3>3, NumberInMemory
    <3> QED
      BY <1>2, <2>1, <3>4, Zenon DEF Received
  <2>7. InStep'
    <3>1. part' = << >>
      BY <1>3, <2>1, Zenon DEF part
    <3>2. m_rx_phase' = next_phase(Head(in_flight), m_rx_phase)
      BY <1>1, <2>1, Zenon DEF next_phase
    <3> QED
      BY <1>2, <2>1, <2>3, <2>5, <3>1, <3>2, FieldEnds, Zenon
  <2>8. Parsed'
    BY <1>2, <1>3, <2>1, <2>3, <2>6, ZenonT(30) DEF Parsed
  <2> QED
    BY <2>1, <2>7, <2>8, ZenonT(30) DEF Delivers
<1>5. CASE ~enough(IdBytes)
  <2>1. /\ m_v' = m_v \o p(left) /\ n = left /\ used(n) /\ rx_msg' = rx_msg
        /\ m_rx_phase' = m_rx_phase /\ m_s' = m_s
    BY <1>5, Zenon DEF receive_id_binary
  <2>2. n \in 1..left
    BY <1>1, <1>2, <2>1, TakesAll, ZenonT(30)
  <2>3. in_flight' = in_flight /\ (part \o p(n)) \o ahead' = due
    BY <1>1, <1>2, <2>1, <2>2, NextBytes, ZenonT(30) DEF used
  <2>4. part' = part \o p(n)
    BY <1>1, <1>2, <1>3, <2>1, ZenonT(30) DEF part
  <2>5. InStep'
    BY <1>2, <2>1, <2>3, <2>4, FieldGoesOn, Zenon
  <2>6. Parsed'
    BY <1>1, <1>3, <2>1 DEF Parsed
  <2> QED
    BY <1>1, <2>1, <2>5, <2>6, ZenonT(30) DEF Delivers
<1> QED
  BY <1>4, <1>5, Zenon

LEMMA IdTextParses ==
    ASSUME JInv, NEW n \in 1..m_len, receive_id_text(n), consume_read(n)
    PROVE  Parsed' /\ InStep' /\ Delivers
<1>1. m_len > 0 /\ ~Binary /\ m_rx_phase = "ID" /\ UNCHANGED tx_vars
  BY Zenon DEF receive_id_text
<1>2. /\ IInv /\ Parsed /\ InStep /\ build \in Builds /\ build' = build /\ Binary' = Binary
      /\ RxTypes /\ StreamTypes /\ Bounds /\ rx_msg \in Received
  BY <1>1, Begins, Zenon
<1>3. part = m_s
  BY <1>1, <1>2, Zenon DEF part
<1>4. CASE has_zero
  <2>1. /\ rx_msg' = [rx_msg EXCEPT !.id = text] /\ m_rx_phase' = "NAME" /\ n = zero
        /\ used(n) /\ m_s' = << >>
    BY <1>4, Zenon DEF receive_id_text
  <2>2. n \in 1..left
    BY <1>1, <1>2, <1>4, <2>1, TextType, ZenonT(30)
  <2>3. in_flight # << >> /\ Head(in_flight) \in Messages /\ ahead' \in Seq(Octet)
        /\ in_flight' = in_flight
    BY <1>1, <1>2, <2>1, <2>2, NextBytes, ZenonT(30) DEF used
  <2> DEFINE id == Head(in_flight).id
  <2>4. id \in Seq(Octet) /\ \A k \in 1..Len(id) : id[k] # 0
    BY <1>1, <1>2, <2>3, MessageTypes, ZenonT(30) DEF Received
  <2>5. field(Head(in_flight), m_rx_phase) = Append(id, 0)
    BY <1>1, Zenon DEF field
  <2> HIDE DEF id
  <2>6. text = id /\ ahead' = after
    BY <1>1, <1>2, <1>3, <1>4, <2>1, <2>4, <2>5, TextEnds, ZenonT(30)
  <2>7. InStep'
    <3>1. part' = << >>
      BY <2>1, Zenon DEF part
    <3>2. m_rx_phase' = next_phase(Head(in_flight), m_rx_phase)
      BY <1>1, <2>1, Zenon DEF next_phase
    <3> QED
      BY <1>2, <2>1, <2>3, <2>6, <3>1, <3>2, FieldEnds, ZenonT(30)
  <2>8. rx_msg'.id = Head(in_flight).id
    BY <1>2, <2>1, <2>6, ZenonT(30) DEF id, Received
  <2>9. Parsed'
    BY <1>1, <1>2, <2>1, <2>3, <2>8 DEF Parsed
  <2> QED
    BY <2>1, <2>7, <2>9, ZenonT(30) DEF Delivers
<1>5. CASE ~has_zero
  <2>1. /\ m_s' = m_s \o p(left) /\ n = m_len /\ used(left) /\ rx_msg' = rx_msg
        /\ m_rx_phase' = m_rx_phase
    BY <1>5, Zenon DEF receive_id_text
  <2>2. n = left /\ n \in 1..left
    BY <1>1, <1>2, <2>1, TakesAll DEF Bounds, left
  <2>3. in_flight' = in_flight /\ (part \o p(n)) \o ahead' = due
    BY <1>1, <1>2, <2>1, <2>2, NextBytes, ZenonT(30) DEF used
  <2>4. part' = part \o p(n)
    BY <1>1, <1>2, <1>3, <2>1, <2>2, ZenonT(30) DEF part
  <2>5. InStep'
    BY <1>2, <2>1, <2>3, <2>4, FieldGoesOn, ZenonT(30)
  <2>6. \A k \in 1..Len(m_s') : m_s'[k] # 0
    BY <1>1, <1>2, <1>5, <2>1, TextGoesOn, ZenonT(30) DEF Parsed
  <2>7. Parsed'
    BY <1>1, <1>2, <2>1, <2>6, ZenonT(30) DEF Parsed
  <2> QED
    BY <1>1, <2>1, <2>5, <2>7, Zenon DEF Delivers
<1> QED
  BY <1>4, <1>5, Zenon

LEMMA NameParses ==
    ASSUME JInv, NEW n \in 1..m_len, receive_name(n), consume_read(n)
    PROVE  Parsed' /\ InStep' /\ Delivers
<1>1. m_len > 0 /\ m_rx_phase = "NAME" /\ UNCHANGED tx_vars /\ m_v' = m_v
  BY Zenon DEF receive_name
<1>2. /\ IInv /\ Parsed /\ InStep /\ build \in Builds /\ build' = build /\ Binary' = Binary
      /\ RxTypes /\ StreamTypes /\ Bounds /\ rx_msg \in Received
  BY <1>1, Begins, Zenon
<1>3. part = m_s /\ rx_msg.id = Head(in_flight).id /\ (Binary => m_v = << >>)
  BY <1>1, <1>2, Zenon DEF part, Parsed
<1>4. CASE has_zero
  <2>1. /\ rx_msg' = [rx_msg EXCEPT !.name = text] /\ n = zero /\ used(n)
        /\ m_rx_phase' = (IF Binary THEN "SIZE" ELSE "ARGS_VALUE")
        /\ m_s' = (IF Binary THEN text ELSE << >>)
    BY <1>4, Zenon DEF receive_name
  <2>2. n \in 1..left
    BY <1>1, <1>2, <1>4, <2>1, TextType, ZenonT(30)
  <2>3. in_flight # << >> /\ Head(in_flight) \in Messages /\ ahead' \in Seq(Octet)
        /\ in_flight' = in_flight
    BY <1>1, <1>2, <2>1, <2>2, NextBytes, ZenonT(30) DEF used
  <2> DEFINE name == Head(in_flight).name
  <2>4. name \in Seq(Octet) /\ (\A k \in 1..Len(name) : name[k] # 0) /\ Binary \in BOOLEAN
    BY <1>1, <1>2, <2>3, MessageTypes, ZenonT(30) DEF Received
  <2>5. field(Head(in_flight), m_rx_phase) = Append(name, 0)
    BY <1>1, Zenon DEF field
  <2> HIDE DEF name
  <2>6. text = name /\ ahead' = after /\ \A k \in 1..Len(text) : text[k] # 0
    BY <1>1, <1>2, <1>3, <1>4, <2>1, <2>4, <2>5, TextEnds, ZenonT(30)
  <2>7. InStep'
    <3>1. part' = << >>
      BY <1>1, <1>2, <1>3, <2>1, Zenon DEF part
    <3>2. m_rx_phase' = next_phase(Head(in_flight), m_rx_phase)
      BY <1>1, <2>1, Zenon DEF next_phase
    <3>3. m_rx_phase' \in {"NAME", "SIZE", "ARGS_VALUE"}
      BY <2>1, Zenon
    <3> QED
      BY <1>2, <2>3, <2>6, <3>1, <3>2, <3>3, FieldEnds, ZenonT(30)
  <2>8. rx_msg'.id = Head(in_flight).id /\ rx_msg'.name = Head(in_flight).name
    BY <1>2, <1>3, <2>1, <2>6, Zenon DEF name, Received
  <2>9. \A k \in 1..Len(m_s') : m_s'[k] # 0
    BY <2>1, <2>6
  <2>10. m_rx_phase' = "ARGS_VALUE" => ~Binary
    BY <2>1, Zenon
  <2>11. Parsed'
    BY <1>2, <2>1, <2>3, <2>8, <2>9, <2>10, ZenonT(30) DEF Parsed
  <2> QED
    BY <2>1, <2>7, <2>11, Zenon DEF Delivers
<1>5. CASE ~has_zero
  <2>1. /\ m_s' = m_s \o p(left) /\ n = left /\ used(n) /\ rx_msg' = rx_msg
        /\ m_rx_phase' = m_rx_phase
    BY <1>5, Zenon DEF receive_name
  <2>2. n \in 1..left
    BY <1>1, <1>2, <2>1, TakesAll, ZenonT(30)
  <2>3. in_flight' = in_flight /\ (part \o p(n)) \o ahead' = due
    BY <1>1, <1>2, <2>1, <2>2, NextBytes, ZenonT(30) DEF used
  <2>4. part' = part \o p(n)
    BY <1>1, <1>3, <2>1, Zenon DEF part
  <2>5. InStep'
    BY <1>2, <2>1, <2>3, <2>4, FieldGoesOn, Zenon
  <2>6. \A k \in 1..Len(m_s') : m_s'[k] # 0
    BY <1>1, <1>2, <1>5, <2>1, TextGoesOn, ZenonT(30) DEF Parsed
  <2>7. Parsed'
    BY <1>1, <1>2, <2>1, <2>3, <2>6, ZenonT(30) DEF Parsed
  <2> QED
    BY <1>1, <2>1, <2>5, <2>7, ZenonT(30) DEF Delivers
<1> QED
  BY <1>4, <1>5, Zenon

\* the message that is complete has the fields of the oldest one
LEMMA Completes ==
    ASSUME IInv, Parsed, IInv', build' = build, complete, in_flight # << >>, m_s' = m_s \/ m_s' = << >>,
           Head(in_flight) \in Messages, rx_msg'.id = Head(in_flight).id,
           rx_msg'.name = Head(in_flight).name, rx_msg'.value = Head(in_flight).value
    PROVE  Parsed' /\ Delivers
<1>1. rx_msg' \in Received
  BY SameBuild, Zenon DEF IInv, RxTypes
<1>2. Head(in_flight) \in Received
  BY MessageTypes, Zenon DEF IInv, TxTypes
<1>3. rx_msg' = Head(in_flight)
  BY <1>1, <1>2 DEF Received
<1>4. m_rx_phase' = "IDLE" /\ delivered' = rx_msg'
  BY Zenon DEF complete
<1>5. \A k \in 1..Len(m_s') : m_s'[k] # 0
  BY DEF Parsed
<1> QED
  BY <1>3, <1>4, <1>5, Zenon DEF Parsed, Delivers

LEMMA SizeParses ==
    ASSUME SameByteOrder, JInv, NEW n \in 1..m_len, receive_size(n), consume_read(n)
    PROVE  Parsed' /\ InStep' /\ Delivers
<1>1. m_len > 0 /\ m_rx_phase = "SIZE" /\ UNCHANGED tx_vars /\ m_s' = m_s
  BY Zenon DEF receive_size
<1>2. /\ IInv /\ Parsed /\ InStep /\ build \in Builds /\ build' = build /\ Binary' = Binary
      /\ RxTypes /\ StreamTypes /\ Bounds /\ rx_msg \in Received
  BY <1>1, Begins, Zenon
<1>3. /\ part = m_v /\ Binary
      /\ rx_msg.id = Head(in_flight).id /\ rx_msg.name = Head(in_flight).name
  BY <1>1, <1>2, Zenon DEF part, Parsed, RxTypes
<1>4. CASE enough(SizeBytes)
  <2>1. /\ m_size' = number(collected(SizeBytes), RxOrder)
        /\ n = missing(SizeBytes) /\ rx_msg' = [rx_msg EXCEPT !.value = << >>]
        /\ IF m_size' > 0 THEN m_rx_phase' = "ARGS_VALUE" /\ used(n) ELSE complete
    BY <1>4, Zenon DEF receive_size
  <2>2. n \in 1..left /\ SizeBytes \in Nat /\ missing(SizeBytes) >= 1
    BY <1>1, <1>2, <1>4, <2>1, Widths, Collects
  <2>3. in_flight # << >> /\ Head(in_flight) \in Messages /\ ahead' \in Seq(Octet)
        /\ Tail(in_flight) \in Seq(Messages)
    BY <1>1, <1>2, <2>1, <2>2, NextBytes, Zenon
  <2>4. Len(field(Head(in_flight), m_rx_phase)) = SizeBytes
    BY <1>1, <1>2, <2>3, FieldType, Zenon DEF Phases
  <2>5. collected(SizeBytes) = field(Head(in_flight), m_rx_phase) /\ ahead' = after
    BY <1>1, <1>2, <1>3, <1>4, <2>1, <2>2, <2>4, NumberEnds, ZenonT(30)
  <2> DEFINE value == Head(in_flight).value
  <2>6. value \in Seq(Octet) /\ Len(value) \in Nat
    BY <1>2, <2>3, MessageTypes DEF Received
  <2>7. m_size' = Len(value)
    <3>1. TxOrder \in {"little", "big"} /\ above(Len(value), SizeBytes)[SizeBytes] = 0
      BY <1>2, <1>3, <2>3, MessageTypes, Zenon
    <3>2. TxOrder = RxOrder
      BY <1>2, <1>3, Zenon DEF SameByteOrder, Binary, TxOrder, RxOrder
    <3>3. collected(SizeBytes) = in_memory(Len(value), SizeBytes, RxOrder)
      BY <1>1, <2>5, <3>2, Zenon DEF field
    <3>4. number(collected(SizeBytes), RxOrder) = Len(value)
      <4> HIDE DEF value
      <4> QED
        BY <2>2, <2>6, <3>1, <3>2, <3>3, NumberInMemory, ZenonT(30)
    <3> QED
      BY <2>1, <3>4, Zenon
  <2>8. /\ rx_msg'.id = Head(in_flight).id /\ rx_msg'.name = Head(in_flight).name
        /\ rx_msg'.value = << >>
    BY <1>2, <1>3, <2>1, Zenon DEF Received
  <2>9. CASE Len(value) > 0
    <3>1. m_rx_phase' = "ARGS_VALUE" /\ in_flight' = in_flight
      BY <2>1, <2>7, <2>9, ZenonT(30) DEF used
    <3>2. part' = << >>
      BY <1>2, <1>3, <2>8, <3>1, ZenonT(30) DEF part
    <3>3. m_rx_phase' = next_phase(Head(in_flight), m_rx_phase)
      <4>1. value # << >>
        BY <2>6, <2>9
      <4> QED
        BY <4>1, <1>1, <3>1, ZenonT(30) DEF next_phase
    <3>4. InStep'
      BY <1>2, <2>3, <2>5, <3>1, <3>2, <3>3, FieldEnds, ZenonT(30)
    <3>5. Parsed'
      BY <1>1, <1>2, <2>3, <2>7, <2>8, <3>1, ZenonT(30) DEF Parsed
    <3> QED
      BY <3>1, <3>4, <3>5, ZenonT(30) DEF Delivers
  <2>10. CASE ~(Len(value) > 0)
    <3>1. complete /\ value = << >>
      BY <2>1, <2>6, <2>7, <2>10
    <3>2. next_phase(Head(in_flight), m_rx_phase) = "END"
      BY <1>1, <3>1, Zenon DEF next_phase
    <3>3. InStep'
      BY <1>2, <2>3, <2>5, <3>1, <3>2, MessageEnds, Zenon
    <3>4. IInv'
      BY <1>2, SizeInv, Zenon
    <3> QED
      BY <1>1, <1>2, <2>3, <2>8, <3>1, <3>3, <3>4, Completes, ZenonT(30)
  <2> QED
    BY <2>9, <2>10, Zenon
<1>5. CASE ~enough(SizeBytes)
  <2>1. /\ m_v' = m_v \o p(left) /\ n = left /\ used(n) /\ rx_msg' = rx_msg
        /\ m_rx_phase' = m_rx_phase /\ m_size' = m_size
    BY <1>5, Zenon DEF receive_size
  <2>2. n \in 1..left
    BY <1>1, <1>2, <2>1, TakesAll, Zenon
  <2>3. in_flight' = in_flight /\ (part \o p(n)) \o ahead' = due
    BY <1>1, <1>2, <2>1, <2>2, NextBytes, ZenonT(30) DEF used
  <2>4. part' = part \o p(n)
    BY <1>1, <1>3, <2>1, ZenonT(30) DEF part
  <2>5. InStep'
    BY <1>2, <2>1, <2>3, <2>4, FieldGoesOn, Zenon
  <2>6. Parsed'
    BY <1>1, <1>2, <2>1, <2>3, Zenon DEF Parsed
  <2> QED
    BY <1>1, <2>1, <2>5, <2>6, Zenon DEF Delivers
<1> QED
  BY <1>4, <1>5, Zenon

LEMMA ValueBinaryParses ==
    ASSUME JInv, NEW n \in 1..m_len, receive_value_binary(n), consume_read(n)
    PROVE  Parsed' /\ InStep' /\ Delivers
<1>1. m_len > 0 /\ Binary /\ m_rx_phase = "ARGS_VALUE" /\ UNCHANGED tx_vars
  BY Zenon DEF receive_value_binary
<1>2. /\ IInv /\ Parsed /\ InStep /\ build \in Builds /\ build' = build /\ Binary' = Binary
      /\ RxTypes /\ StreamTypes /\ Bounds /\ rx_msg \in Received
  BY <1>1, Begins, Zenon
<1>3. /\ part = rx_msg.value /\ m_size = Len(Head(in_flight).value)
      /\ rx_msg.id = Head(in_flight).id /\ rx_msg.name = Head(in_flight).name
  BY <1>1, <1>2, Zenon DEF part, Parsed
<1>4. IInv' /\ n \in 1..left
  BY <1>2, ValueBinaryInv, Zenon
<1> DEFINE missing_value == m_size - Len(rx_msg.value)
<1>5. /\ n = IF left >= missing_value THEN missing_value ELSE left
      /\ rx_msg' = [rx_msg EXCEPT !.value = rx_msg.value \o p(n)]
      /\ \/ left >= missing_value /\ complete
         \/ left < missing_value /\ used(n) /\ m_rx_phase' = m_rx_phase
      /\ m_s' = m_s /\ m_v' = m_v /\ m_size' = m_size
  BY Zenon DEF receive_value_binary
<1> HIDE DEF missing_value
<1>6. /\ in_flight # << >> /\ Head(in_flight) \in Messages /\ Tail(in_flight) \in Seq(Messages)
      /\ part \in Seq(Octet) /\ p(n) \in Seq(Octet) /\ Len(p(n)) = n
      /\ ahead' \in Seq(Octet) /\ after \in Seq(Octet)
      /\ field(Head(in_flight), m_rx_phase) \in Seq(Octet)
      /\ (part \o p(n)) \o ahead' = due
      /\ due = field(Head(in_flight), m_rx_phase) \o after
  BY <1>1, <1>2, <1>4, NextBytes, Zenon
<1>7. /\ rx_msg'.id = Head(in_flight).id /\ rx_msg'.name = Head(in_flight).name
      /\ rx_msg'.value = part \o p(n)
  BY <1>2, <1>3, <1>5, Zenon DEF Received
<1>8. CASE left >= missing_value /\ complete
  <2> DEFINE f0 == field(Head(in_flight), m_rx_phase)
             c0 == part \o p(n)
             x0 == ahead'
             y0 == after
  <2>1. f0 = Head(in_flight).value
    BY <1>1, Zenon DEF field
  <2>2. n = m_size - Len(part)
    BY <1>3, <1>5, <1>8, Zenon DEF missing_value
  <2>3. Len(c0) = Len(f0)
    <3>1. Len(c0) = Len(part) + n /\ Len(part) \in Nat
      <4>1. part \in Seq(Octet) /\ p(n) \in Seq(Octet) /\ Len(p(n)) = n
        BY <1>6, Zenon
      <4>2. Len(part \o p(n)) = Len(part) + Len(p(n))
        BY <4>1
      <4> QED
        BY <4>1, <4>2
    <3>2. Len(f0) \in Nat /\ Len(f0) = m_size
      BY <1>3, <1>6, <2>1
    <3> QED
      BY <3>1, <3>2, <2>2
  <2>4. /\ c0 \in Seq(Octet) /\ x0 \in Seq(Octet) /\ y0 \in Seq(Octet) /\ f0 \in Seq(Octet)
        /\ c0 \o x0 = f0 \o y0
    BY <1>6
  <2>5. c0 = f0 /\ x0 = y0
    <3> HIDE DEF c0, x0, y0, f0
    <3> QED
      BY <2>3, <2>4, ConcatCancel, Zenon
  <2>6. ahead' = after /\ rx_msg'.value = Head(in_flight).value
    BY <1>7, <2>1, <2>5, Zenon
  <2>7. next_phase(Head(in_flight), m_rx_phase) = "END"
    BY <1>1, Zenon DEF next_phase
  <2>8. InStep'
    BY <1>2, <1>6, <1>8, <2>6, <2>7, MessageEnds, ZenonT(30)
  <2> QED
    BY <1>2, <1>4, <1>5, <1>6, <1>7, <1>8, <2>6, <2>8, Completes, ZenonT(30)
<1>9. CASE left < missing_value /\ used(n) /\ m_rx_phase' = m_rx_phase
  <2>1. in_flight' = in_flight
    BY <1>9, Zenon DEF used
  <2>2. part' = part \o p(n)
    BY <1>1, <1>2, <1>7, <1>9, ZenonT(30) DEF part
  <2>3. InStep'
    BY <1>2, <1>6, <1>9, <2>1, <2>2, FieldGoesOn, ZenonT(30)
  <2>4. Parsed'
    BY <1>1, <1>2, <1>5, <1>7, <1>9, <2>1, ZenonT(30) DEF Parsed
  <2> QED
    BY <1>1, <1>9, <2>3, <2>4, ZenonT(30) DEF Delivers
<1> QED
  BY <1>5, <1>8, <1>9, Zenon

LEMMA ValueTextParses ==
    ASSUME JInv, NEW n \in 1..m_len, receive_value_text(n), consume_read(n)
    PROVE  Parsed' /\ InStep' /\ Delivers
<1>1. m_len > 0 /\ ~Binary /\ m_rx_phase = "ARGS_VALUE" /\ UNCHANGED tx_vars
  BY Zenon DEF receive_value_text
<1>2. /\ IInv /\ Parsed /\ InStep /\ build \in Builds /\ build' = build /\ Binary' = Binary
      /\ RxTypes /\ StreamTypes /\ Bounds /\ rx_msg \in Received
  BY <1>1, Begins, Zenon
<1>3. /\ part = m_s
      /\ rx_msg.id = Head(in_flight).id /\ rx_msg.name = Head(in_flight).name
  BY <1>1, <1>2, ZenonT(30) DEF part, Parsed
<1>4. CASE has_zero
  <2>1. /\ rx_msg' = [rx_msg EXCEPT !.value = text] /\ m_s' = << >> /\ n = zero /\ complete
    BY <1>4, Zenon DEF receive_value_text
  <2>2. n \in 1..left
    BY <1>1, <1>2, <1>4, <2>1, TextType, ZenonT(30)
  <2>3. in_flight # << >> /\ Head(in_flight) \in Messages /\ ahead' \in Seq(Octet)
        /\ Tail(in_flight) \in Seq(Messages)
    BY <1>1, <1>2, <2>2, NextBytes, Zenon
  <2> DEFINE value == Head(in_flight).value
  <2>4. value \in Seq(Octet) /\ \A k \in 1..Len(value) : value[k] # 0
    BY <1>1, <1>2, <2>3, MessageTypes, ZenonT(30) DEF Received
  <2>5. field(Head(in_flight), m_rx_phase) = Append(value, 0)
    BY <1>1, Zenon DEF field
  <2> HIDE DEF value
  <2>6. text = value /\ ahead' = after
    BY <1>1, <1>2, <1>3, <1>4, <2>1, <2>4, <2>5, TextEnds, ZenonT(30)
  <2>7. /\ rx_msg'.id = Head(in_flight).id /\ rx_msg'.name = Head(in_flight).name
        /\ rx_msg'.value = Head(in_flight).value
    BY <1>2, <1>3, <2>1, <2>6, ZenonT(30) DEF value, Received
  <2>8. next_phase(Head(in_flight), m_rx_phase) = "END"
    BY <1>1, Zenon DEF next_phase
  <2>9. InStep'
    BY <1>2, <2>1, <2>3, <2>6, <2>8, MessageEnds, ZenonT(30)
  <2>10. IInv'
    BY <1>2, ValueTextInv, Zenon
  <2> QED
    BY <1>2, <2>1, <2>3, <2>7, <2>9, <2>10, Completes, ZenonT(30)
<1>5. CASE ~has_zero
  <2>1. /\ m_s' = m_s \o p(left) /\ n = left /\ used(n) /\ rx_msg' = rx_msg
        /\ m_rx_phase' = m_rx_phase
    BY <1>5, Zenon DEF receive_value_text
  <2>2. n \in 1..left
    BY <1>1, <1>2, <2>1, TakesAll, Zenon
  <2>3. in_flight' = in_flight /\ (part \o p(n)) \o ahead' = due
    BY <1>1, <1>2, <2>1, <2>2, NextBytes, ZenonT(30) DEF used
  <2>4. part' = part \o p(n)
    BY <1>1, <1>2, <1>3, <2>1, ZenonT(30) DEF part
  <2>5. InStep'
    BY <1>2, <2>1, <2>3, <2>4, FieldGoesOn, Zenon
  <2>6. \A k \in 1..Len(m_s') : m_s'[k] # 0
    BY <1>1, <1>2, <1>5, <2>1, TextGoesOn, ZenonT(30) DEF Parsed
  <2>7. Parsed'
    BY <1>1, <1>2, <2>1, <2>3, <2>6, ZenonT(30) DEF Parsed
  <2> QED
    BY <1>1, <2>1, <2>5, <2>7, Zenon DEF Delivers
<1> QED
  BY <1>4, <1>5, Zenon

LEMMA ReceiveStepParses ==
    ASSUME SameByteOrder, JInv, receive_step
    PROVE  Parsed' /\ InStep' /\ Delivers
<1>1. PICK n \in 1..m_len : iteration(n) /\ consume_read(n)
  BY Zenon DEF receive_step
<1> QED
  BY <1>1, IdBinaryParses, IdTextParses, NameParses, SizeParses, ValueBinaryParses,
     ValueTextParses, Zenon DEF iteration

(* So do the steps of the sender and the calls of init().                  *)

LEMMA ReceiverUnchanged ==
    ASSUME Parsed, UNCHANGED <<rx_vars, in_flight>>
    PROVE  Parsed' /\ part' = part /\ due' = due
<1>1. /\ build' = build /\ rx_msg' = rx_msg /\ m_rx_phase' = m_rx_phase /\ m_s' = m_s
      /\ m_v' = m_v /\ m_size' = m_size /\ in_flight' = in_flight
  BY Zenon DEF rx_vars
<1>2. Binary' = Binary
  BY <1>1, SameBuild, Zenon
<1>3. due' = due
  BY <1>1, SameFrames, Zenon DEF due
<1> QED
  BY <1>1, <1>2, <1>3, ZenonT(30) DEF Parsed, part

\* all of a sequence
LEMMA Whole ==
    ASSUME NEW S, NEW seq \in Seq(S)
    PROVE  SubSeq(seq, 1, Len(seq)) = seq
<1>1. /\ SubSeq(seq, 1, Len(seq)) \in Seq(S) /\ Len(SubSeq(seq, 1, Len(seq))) = Len(seq) - 1 + 1
      /\ \A k \in 1..Len(seq) - 1 + 1 : SubSeq(seq, 1, Len(seq))[k] = seq[1 + k - 1]
  <2>1. 1 \in Int /\ Len(seq) \in Int /\ 1 <= Len(seq) + 1 /\ Len(seq) <= Len(seq)
    OBVIOUS
  <2> QED
    BY <2>1, Slice
<1> DEFINE whole == SubSeq(seq, 1, Len(seq))
<1> HIDE DEF whole
<1>2. whole \in Seq(S) /\ Len(whole) = Len(seq) /\ \A k \in 1..Len(seq) : whole[k] = seq[k]
  BY <1>1 DEF whole
<1>3. whole = seq
  BY <1>2, SameElements, Zenon
<1> QED
  BY <1>3, Zenon DEF whole

\* what write() accepts moves from unsent to the stream
LEMMA SendMoves ==
    ASSUME TxTypes, m_tx_phase # "IDLE", build' = build, NEW count \in 0..Len(unwritten),
           sent(count)
    PROVE  /\ SubSeq(unwritten, 1, count) \in Seq(Octet) /\ unsent \in Seq(Octet)
           /\ unsent' \in Seq(Octet) /\ unsent = SubSeq(unwritten, 1, count) \o unsent'
<1> DEFINE u0 == unwritten
           g0 == following(tx_msg, m_tx_phase)
           next == next_phase(tx_msg, m_tx_phase)
<1>1. /\ unsent \in Seq(Octet) /\ g0 \in Seq(Octet) /\ unsent = u0 \o g0
  BY Unsent, Zenon
<1>2. /\ m_i \in Nat /\ m_i \in 0..Len(field(tx_msg, m_tx_phase))
      /\ field(tx_msg, m_tx_phase) \in Seq(Octet)
      /\ u0 \in Seq(Octet) /\ Len(u0) = Len(field(tx_msg, m_tx_phase)) - m_i
  BY Unwritten, Zenon
<1>3. count \in Nat /\ count \in 0..Len(u0)
  BY <1>2
<1>4. CASE count = Len(unwritten)
  <2>1. SubSeq(u0, 1, count) = u0
    BY <1>2, <1>4, Whole, ZenonT(30)
  <2>2. /\ tx_msg' = tx_msg /\ m_i' = 0
        /\ m_tx_phase' = IF next = "END" THEN "IDLE" ELSE next
    BY <1>4, Zenon DEF sent
  <2>3. unsent' = g0
    <3>1. CASE next = "END"
      BY <2>2, <3>1, Zenon DEF unsent, following
    <3>2. CASE next # "END"
      <4>1. next # "IDLE"
        BY NextPhase, Zenon DEF TxTypes
      <4>2. frame_from(tx_msg, m_tx_phase)' = g0
        BY <2>2, <3>2, SameFrames, Zenon DEF following
      <4>3. unsent' = SubSeq(g0, 0 + 1, Len(g0))
        BY <2>2, <3>2, <4>1, <4>2, Zenon DEF unsent
      <4> HIDE DEF g0
      <4> QED
        BY <1>1, <4>3, Whole
    <3> QED
      BY <3>1, <3>2, ZenonT(30)
  <2> QED
    BY <1>1, <1>2, <2>1, <2>3, Zenon
<1>5. CASE count # Len(unwritten)
  <2>1. tx_msg' = tx_msg /\ m_i' = m_i + count /\ m_tx_phase' = m_tx_phase
    BY <1>5, Zenon DEF sent
  <2> DEFINE f0 == field(tx_msg, m_tx_phase)
             b0 == frame_from(tx_msg, m_tx_phase)
             d0 == SubSeq(u0, 1, count)
             e0 == SubSeq(f0, m_i + count + 1, Len(f0))
  <2>2. u0 = SubSeq(f0, m_i + 1, Len(f0))
    BY Zenon DEF unwritten
  <2>3. b0 = f0 \o g0
    BY FrameNext, Zenon DEF TxTypes
  <2>4. unsent' = SubSeq(b0, m_i + count + 1, Len(b0))
    <3>1. frame_from(tx_msg, m_tx_phase)' = b0
      BY <2>1, SameFrames, ZenonT(30)
    <3> HIDE DEF b0
    <3> QED
      BY <2>1, <3>1, Zenon DEF unsent
  <2>5. f0 \in Seq(Octet) /\ m_i \in 0..Len(f0) /\ count \in 0..Len(f0) - m_i
        /\ m_i + count \in 0..Len(f0)
    BY <1>2, <1>3
  <2> HIDE DEF f0, g0, u0, b0
  <2>6. u0 = d0 \o e0
    BY <2>2, <2>5, DropTwice, Zenon
  <2>7. unsent' = e0 \o g0
    <3> DEFINE j0 == m_i + count
    <3>1. j0 \in 0..Len(f0)
      BY <2>5, Zenon
    <3> HIDE DEF j0
    <3>2. SubSeq(f0 \o g0, j0 + 1, Len(f0 \o g0)) = SubSeq(f0, j0 + 1, Len(f0)) \o g0
      BY <1>1, <2>5, <3>1, DropConcat, Zenon
    <3> QED
      BY <2>3, <2>4, <3>2, Zenon DEF j0
  <2>8. d0 \in Seq(Octet)
    BY <1>2, <1>3
  <2>9. e0 \in Seq(Octet)
    BY <1>2, <1>3, <2>5
  <2> HIDE DEF d0, e0
  <2>10. (d0 \o e0) \o g0 = d0 \o (e0 \o g0) /\ e0 \o g0 \in Seq(Octet)
    <3>1. d0 \in Seq(Octet) /\ e0 \in Seq(Octet) /\ g0 \in Seq(Octet)
      BY <1>1, <2>8, <2>9, ZenonT(30)
    <3>2. Associates(d0, e0, g0)
      BY <3>1, Associative, Zenon
    <3> QED
      BY <3>1, <3>2 DEF Associates
  <2> QED
    BY <1>1, <2>6, <2>7, <2>8, <2>10, Zenon DEF d0, u0
<1> QED
  BY <1>4, <1>5, Zenon

LEMMA SendParses ==
    ASSUME JInv, send
    PROVE  Parsed' /\ InStep'
<1>1. IInv /\ Parsed /\ InStep /\ TxTypes /\ StreamTypes /\ m_tx_phase # "IDLE"
  BY Zenon DEF JInv, IInv, send
<1>2. PICK count \in 0..Len(unwritten) :
         queue' = queue \o SubSeq(unwritten, 1, count) /\ sent(count)
  BY Zenon DEF send
<1>3. UNCHANGED <<rx_vars, in_flight>> /\ build' = build
  BY <1>2, Zenon DEF sent, rx_vars
<1>4. Parsed' /\ part' = part /\ due' = due
  BY <1>1, <1>3, ReceiverUnchanged, ZenonT(30)
<1> DEFINE d0 == SubSeq(unwritten, 1, count)
           x0 == unsent'
<1>5. d0 \in Seq(Octet) /\ x0 \in Seq(Octet) /\ unsent = d0 \o x0
  BY <1>1, <1>2, <1>3, SendMoves, ZenonT(30)
<1>6. queue \in Seq(Octet) /\ queue' = queue \o d0
  BY <1>1, <1>2, ZenonT(30) DEF StreamTypes
<1> HIDE DEF d0, x0
<1>7. (queue \o d0) \o x0 = queue \o (d0 \o x0)
  <2>1. queue \in Seq(Octet) /\ d0 \in Seq(Octet) /\ x0 \in Seq(Octet)
    BY <1>5, <1>6, ZenonT(30)
  <2>2. Associates(queue, d0, x0)
    BY <2>1, Associative, Zenon
  <2> QED
    BY <2>1, <2>2, ZenonT(30) DEF Associates
<1>8. queue' \o unsent' = queue \o unsent
  BY <1>5, <1>6, <1>7, ZenonT(30) DEF x0
<1> QED
  BY <1>1, <1>4, <1>8, ZenonT(30) DEF InStep

LEMMA TxInitParses ==
    ASSUME JInv, NEW msg \in Messages, tx_init(msg)
    PROVE  Parsed' /\ InStep'
<1>1. IInv /\ Parsed /\ InStep /\ TxTypes /\ RxTypes /\ StreamTypes /\ build \in Builds
  BY Zenon DEF JInv, IInv, TxTypes
<1>2. /\ m_init_serializer /\ tx_msg' = msg /\ m_tx_phase' = "ID" /\ m_i' = 0
      /\ queue' = queue /\ UNCHANGED rx_vars /\ build' = build
  BY Zenon DEF tx_init, rx_vars
<1> DEFINE fm == frame(msg)
<1>3. fm \in Seq(Octet)
  BY <1>1, FrameNext, Zenon DEF frame, Phases
<1>4. unsent' = fm
  <2>1. frame_from(tx_msg, m_tx_phase)' = fm
    BY <1>2, SameFrames, Zenon DEF frame
  <2>2. unsent' = SubSeq(fm, 0 + 1, Len(fm))
    BY <1>2, <2>1, Zenon DEF unsent
  <2> HIDE DEF fm
  <2> QED
    BY <1>3, <2>2, Whole
<1>5. CASE m_tx_phase # "IDLE"
  <2>1. m_tx_phase = "ID" /\ m_i = 0 /\ tx_msg = msg /\ in_flight' = in_flight
    BY <1>1, <1>2, <1>5, ZenonT(30) DEF TxTypes, tx_init
  <2>2. unsent = SubSeq(fm, 0 + 1, Len(fm))
    BY <2>1, Zenon DEF unsent, frame
  <2>3. unsent = fm
    <3> HIDE DEF fm
    <3> QED
      BY <1>3, <2>2, Whole
  <2>4. Parsed' /\ part' = part /\ due' = due
    BY <1>1, <1>2, <2>1, ReceiverUnchanged, Zenon
  <2> QED
    BY <1>1, <1>2, <1>4, <2>3, <2>4, Zenon DEF InStep
<1>6. CASE m_tx_phase = "IDLE"
  <2>1. in_flight' = Append(in_flight, msg) /\ unsent = << >> /\ in_flight \in Seq(Messages)
    BY <1>1, <1>6, Zenon DEF tx_init, unsent, StreamTypes
  <2>2. /\ rx_msg' = rx_msg /\ m_rx_phase' = m_rx_phase /\ m_s' = m_s /\ m_v' = m_v
        /\ m_size' = m_size /\ Binary' = Binary
    BY <1>2, SameBuild, ZenonT(30) DEF rx_vars
  <2>3. part' = part /\ part \in Seq(Octet) /\ queue \in Seq(Octet)
    BY <1>1, <2>2, PartType, Zenon DEF part, StreamTypes
  <2>4. part \o queue = due
    <3>1. queue \o << >> = queue
      BY <2>3, ConcatEmpty, ZenonT(30)
    <3> QED
      BY <1>1, <2>1, <3>1, ZenonT(30) DEF InStep
  <2>5. (part \o queue) \o fm = part \o (queue \o fm)
    <3>1. part \in Seq(Octet) /\ queue \in Seq(Octet) /\ fm \in Seq(Octet)
      BY <1>3, <2>3, Zenon
    <3> HIDE DEF fm
    <3>2. Associates(part, queue, fm)
      BY <3>1, Associative, Zenon
    <3> QED
      BY <3>1, <3>2, Zenon DEF Associates
  <2>6. CASE in_flight = << >>
    <3>1. part = << >> /\ queue = << >>
      <4>1. part \o queue = << >>
        BY <2>4, <2>6, Zenon DEF due
      <4> QED
        BY <4>1, <2>3
    <3>2. m_rx_phase \in {"IDLE", "ID"}
      BY <1>1, <2>6, Zenon DEF Parsed, RxTypes, Phases
    <3>3. Head(in_flight') = msg /\ Tail(in_flight') = << >> /\ in_flight' # << >>
      BY <2>1, <2>6
    <3>4. due' = fm \o frames(<< >>)
      BY <1>2, <2>2, <3>2, <3>3, SameFrames, Zenon DEF due, frame
    <3>5. frames(<< >>) = << >>
      BY FramesEmpty, Zenon
    <3>6. due' = fm
      <4>1. fm \o << >> = fm
        BY <1>3, ConcatEmpty, ZenonT(30)
      <4> QED
        BY <4>1, <3>4, <3>5, Zenon
    <3>7. << >> \o (<< >> \o fm) = fm
      BY <1>3, ConcatEmpty, ZenonT(30)
    <3>8. InStep'
      BY <1>2, <1>4, <2>3, <3>1, <3>6, <3>7, ZenonT(30) DEF InStep
    <3>9. Parsed'
      BY <1>1, <2>2, <3>2, ZenonT(30) DEF Parsed
    <3> QED
      BY <3>8, <3>9, Zenon
  <2>7. CASE in_flight # << >>
    <3> DEFINE rest == Tail(in_flight)
               first == Head(in_flight)
               from == IF m_rx_phase = "IDLE" THEN "ID" ELSE m_rx_phase
    <3>1. /\ Head(in_flight') = first /\ Tail(in_flight') = Append(rest, msg)
          /\ in_flight' # << >> /\ rest \in Seq(Messages) /\ first \in Messages
      BY <2>1, <2>7
    <3>2. due = frame_from(first, from) \o frames(rest)
      BY <2>7, Zenon DEF due
    <3>3. due' = frame_from(first, from) \o frames(Append(rest, msg))
      BY <1>2, <2>2, <3>1, SameFrames, ZenonT(30) DEF due
    <3> HIDE DEF rest, first
    <3>4. frames(Append(rest, msg)) = frames(rest) \o fm
      BY <1>1, <3>1, FramesAppend, ZenonT(30)
    <3> DEFINE h0 == frame_from(first, from)
               r0 == frames(rest)
    <3>5. h0 \in Seq(Octet) /\ r0 \in Seq(Octet)
      <4>1. from \in Phases \ {"IDLE"} /\ (from = "SIZE" => Binary)
        BY <1>1, Zenon DEF RxTypes, Phases
      <4> QED
        BY <4>1, <1>1, <3>1, FrameNext, FramesType, ZenonT(30)
    <3>6. (h0 \o r0) \o fm = h0 \o (r0 \o fm)
      <4> HIDE DEF h0, r0, fm
      <4>1. Associates(h0, r0, fm)
        BY <1>3, <3>5, Associative, ZenonT(30)
      <4> QED
        BY <1>3, <3>5, <4>1, Zenon DEF Associates
    <3>7. due' = due \o fm
      BY <3>2, <3>3, <3>4, <3>6, ZenonT(30)
    <3>8. InStep'
      BY <1>2, <1>4, <2>3, <2>4, <2>5, <3>7, ZenonT(30) DEF InStep
    <3>9. Parsed'
      BY <1>1, <2>2, <3>1, Zenon DEF Parsed, first
    <3> QED
      BY <3>8, <3>9, Zenon
  <2> QED
    BY <2>6, <2>7, Zenon
<1> QED
  BY <1>5, <1>6, ZenonT(30)

LEMMA RxInitParses ==
    ASSUME JInv, rx_init
    PROVE  Parsed' /\ InStep'
<1>1. IInv /\ Parsed /\ InStep /\ RxTypes
  BY Zenon DEF JInv, IInv
<1>2. /\ m_rx_phase' = "ID" /\ m_s' = << >> /\ m_v' = << >> /\ queue' = queue
      /\ in_flight' = in_flight /\ UNCHANGED tx_vars /\ build' = build
  BY Zenon DEF rx_init, tx_vars
<1>3. m_rx_phase = "IDLE" \/ (m_rx_phase = "ID" /\ m_s = << >> /\ m_v = << >>)
  BY <1>1, Zenon DEF RxTypes, rx_init
<1>4. part = << >> /\ part' = << >>
  BY <1>2, <1>3, Zenon DEF part
<1>5. due' = due
  BY <1>2, <1>3, SameFrames, Zenon DEF due
<1>6. unsent' = unsent
  <2>1. tx_msg' = tx_msg /\ m_tx_phase' = m_tx_phase /\ m_i' = m_i
    BY <1>2, Zenon DEF tx_vars
  <2> QED
    BY <1>2, <2>1, SameFrames, Zenon DEF unsent
<1>7. InStep'
  BY <1>1, <1>2, <1>4, <1>5, <1>6, ZenonT(30) DEF InStep
<1>8. Parsed'
  BY <1>2 DEF Parsed
<1> QED
  BY <1>7, <1>8, Zenon

\* the other steps take nothing from the stream and put nothing into it
LEMMA OtherParses ==
    ASSUME JInv, tx_initLoop \/ rx_initLoop \/ receive \/ UNCHANGED vars
    PROVE  Parsed' /\ InStep'
<1>1. Parsed /\ InStep
  BY Zenon DEF JInv
<1>2. /\ build' = build /\ queue' = queue /\ tx_msg' = tx_msg /\ m_tx_phase' = m_tx_phase
      /\ m_i' = m_i /\ rx_msg' = rx_msg /\ m_rx_phase' = m_rx_phase /\ m_s' = m_s
      /\ m_v' = m_v /\ m_size' = m_size /\ in_flight' = in_flight
  BY Zenon DEF tx_initLoop, rx_initLoop, receive, vars, tx_vars, rx_vars
<1>3. Binary' = Binary
  BY <1>2, SameBuild, Zenon
<1>4. unsent' = unsent /\ due' = due
  BY <1>2, SameFrames, Zenon DEF unsent, due
<1>5. Parsed' /\ part' = part
  BY <1>1, <1>2, <1>3, Zenon DEF Parsed, part
<1> QED
  BY <1>1, <1>2, <1>4, <1>5, Zenon DEF InStep

LEMMA InitParses == Init => JInv
<1> SUFFICES ASSUME Init PROVE JInv
  BY Zenon
<1>1. IInv
  BY InitInv, Zenon
<1>2. /\ m_rx_phase = "IDLE" /\ m_tx_phase = "IDLE" /\ queue = << >> /\ in_flight = << >>
      /\ m_s = << >>
  BY Zenon DEF Init
<1>3. part = << >> /\ unsent = << >> /\ due = << >>
  BY <1>2, Zenon DEF part, unsent, due
<1>4. << >> \o (<< >> \o << >>) = << >>
  OBVIOUS
<1>5. InStep
  BY <1>2, <1>3, <1>4, Zenon DEF InStep
<1>6. Parsed
  BY <1>2 DEF Parsed
<1> QED
  BY <1>1, <1>5, <1>6, Zenon DEF JInv

LEMMA NextParses == SameByteOrder /\ JInv /\ [Next]_vars => JInv'
<1> SUFFICES ASSUME SameByteOrder, JInv, [Next]_vars PROVE JInv'
  BY Zenon
<1>1. IInv'
  BY NextInv, Zenon DEF JInv
<1>2. Parsed' /\ InStep'
  <2>1. CASE tx_initLoop \/ rx_initLoop \/ receive \/ UNCHANGED vars
    BY <2>1, OtherParses, Zenon
  <2>2. CASE send
    BY <2>2, SendParses, Zenon
  <2>3. CASE \E msg \in Messages : tx_init(msg)
    BY <2>3, TxInitParses, Zenon
  <2>4. CASE rx_init
    BY <2>4, RxInitParses, Zenon
  <2>5. CASE receive_step
    BY <2>5, ReceiveStepParses, Zenon
  <2> QED
    BY <2>1, <2>2, <2>3, <2>4, <2>5, Zenon DEF Next
<1> QED
  BY <1>1, <1>2, Zenon DEF JInv

\* When both ends lay out integers the same way, receive() is always within the
\* field of the oldest message that the bytes behind it continue, whatever
\* chunks write() accepted and rx_size() reported.
THEOREM FramingParses ==
    ASSUME SameByteOrder
    PROVE  Spec => []JInv
<1>1. JInv /\ [Next]_vars => JInv'
  BY NextParses, Zenon
<1> QED
  BY <1>1, InitParses, PTL DEF Spec

(* What the stream holds, and what receive() hands over.                   *)

\* the fields before the one receive() is in
before ==
    CASE m_rx_phase \in {"IDLE", "ID"} -> << >>
      [] m_rx_phase = "NAME" -> field(Head(in_flight), "ID")
      [] m_rx_phase = "SIZE" -> field(Head(in_flight), "ID") \o field(Head(in_flight), "NAME")
      [] m_rx_phase = "ARGS_VALUE" ->
            IF Binary THEN (field(Head(in_flight), "ID") \o field(Head(in_flight), "NAME"))
                           \o field(Head(in_flight), "SIZE")
            ELSE field(Head(in_flight), "ID") \o field(Head(in_flight), "NAME")

\* the message that receive() is in, and its fields
LEMMA BeforeType ==
    ASSUME JInv
    PROVE  /\ before \in Seq(Octet)
           /\ m_rx_phase \in {"IDLE", "ID"} => before = << >>
           /\ m_rx_phase \notin {"IDLE", "ID"} =>
                 frame(Head(in_flight)) = before \o frame_from(Head(in_flight), m_rx_phase)
<1>1. Parsed /\ RxTypes /\ StreamTypes /\ build \in Builds
  BY Zenon DEF JInv, IInv, TxTypes
<1>2. m_rx_phase \in Phases /\ (m_rx_phase = "SIZE" => Binary)
  BY <1>1, Zenon DEF RxTypes
<1>3. CASE m_rx_phase \in {"IDLE", "ID"}
  <2>1. before = << >>
    BY <1>3, Zenon DEF before
  <2> QED
    BY <1>3, <2>1
<1>4. CASE m_rx_phase \notin {"IDLE", "ID"}
  <2> DEFINE msg == Head(in_flight)
             i0 == field(msg, "ID")
             n0 == field(msg, "NAME")
             s0 == field(msg, "SIZE")
             v0 == field(msg, "ARGS_VALUE")
  <2>1. msg \in Messages
    BY <1>1, <1>2, <1>4 DEF Parsed, StreamTypes, Phases
  <2>2. i0 \in Seq(Octet) /\ n0 \in Seq(Octet) /\ s0 \in Seq(Octet) /\ v0 \in Seq(Octet)
    BY <1>1, <2>1, FieldType, Zenon DEF Phases
  <2>3. /\ frame(msg) = (i0 \o n0) \o (IF Binary THEN s0 \o v0 ELSE v0)
        /\ frame_from(msg, "NAME") = n0 \o (IF Binary THEN s0 \o v0 ELSE v0)
        /\ frame_from(msg, "SIZE") = IF Binary THEN s0 \o v0 ELSE v0
        /\ frame_from(msg, "ARGS_VALUE") = v0
    BY Zenon DEF frame, frame_from
  <2>4. /\ m_rx_phase = "NAME" => before = i0
        /\ m_rx_phase = "SIZE" => before = i0 \o n0
        /\ m_rx_phase = "ARGS_VALUE" =>
              before = IF Binary THEN (i0 \o n0) \o s0 ELSE i0 \o n0
    BY Zenon DEF before
  <2> HIDE DEF msg, i0, n0, s0, v0
  <2> DEFINE z0 == IF Binary THEN s0 \o v0 ELSE v0
  <2>5. z0 \in Seq(Octet) /\ i0 \o n0 \in Seq(Octet) /\ (i0 \o n0) \o s0 \in Seq(Octet)
    BY <2>2
  <2>6. (i0 \o n0) \o z0 = i0 \o (n0 \o z0)
    <3>1. i0 \in Seq(Octet) /\ n0 \in Seq(Octet) /\ z0 \in Seq(Octet)
      BY <2>2, <2>5, Zenon
    <3> HIDE DEF z0
    <3>2. Associates(i0, n0, z0)
      BY <3>1, Associative, Zenon
    <3> QED
      BY <3>1, <3>2, Zenon DEF Associates
  <2>7. ((i0 \o n0) \o s0) \o v0 = (i0 \o n0) \o (s0 \o v0)
    <3> DEFINE p0 == i0 \o n0
    <3>1. p0 \in Seq(Octet) /\ s0 \in Seq(Octet) /\ v0 \in Seq(Octet)
      BY <2>2, <2>5, ZenonT(30)
    <3> HIDE DEF p0
    <3>2. (p0 \o s0) \o v0 = p0 \o (s0 \o v0)
      <4>1. Associates(p0, s0, v0)
        BY <3>1, Associative, Zenon
      <4> QED
        BY <3>1, <4>1, ZenonT(30) DEF Associates
    <3> QED
      BY <3>2, Zenon DEF p0
  <2>8. CASE m_rx_phase = "NAME"
    BY <2>2, <2>3, <2>4, <2>6, <2>8, ZenonT(30) DEF msg
  <2>9. CASE m_rx_phase = "SIZE"
    BY <2>3, <2>4, <2>5, <2>9, Zenon DEF msg
  <2>10. CASE m_rx_phase = "ARGS_VALUE"
    BY <2>3, <2>4, <2>5, <2>7, <2>10, ZenonT(30) DEF msg
  <2> QED
    BY <1>2, <1>4, <2>8, <2>9, <2>10, ZenonT(30) DEF Phases
<1> QED
  BY <1>3, <1>4, ZenonT(30)

LEMMA TakenIs ==
    ASSUME SameByteOrder, JInv
    PROVE  taken = before \o part
<1>1. IInv /\ Parsed /\ RxTypes /\ StreamTypes /\ build \in Builds
  BY Zenon DEF JInv, IInv, TxTypes
<1>2. m_rx_phase \in Phases /\ (m_rx_phase = "SIZE" => Binary)
  BY <1>1, Zenon DEF RxTypes
<1>3. part \in Seq(Octet)
  BY <1>1, PartType, Zenon
<1>4. CASE m_rx_phase \in {"IDLE", "ID"}
  <2>1. taken = part /\ before = << >>
    BY <1>4, Zenon DEF taken, part, before
  <2> QED
    BY <1>3, <2>1, ConcatEmpty, Zenon
<1>5. CASE m_rx_phase \notin {"IDLE", "ID"}
  <2> DEFINE msg == Head(in_flight)
             i0 == field(msg, "ID")
             n0 == field(msg, "NAME")
             s0 == field(msg, "SIZE")
  <2>1. m_rx_phase \in {"NAME", "SIZE", "ARGS_VALUE"}
    BY <1>2, <1>5, Zenon DEF Phases
  <2>2. field(rx_msg, "ID") = i0
    BY <1>1, <2>1, Zenon DEF Parsed, field
  <2>3. m_rx_phase # "NAME" => field(rx_msg, "NAME") = n0
    BY <1>1, <2>1, Zenon DEF Parsed, field
  <2>4. CASE m_rx_phase = "NAME"
    BY <2>2, <2>4, Zenon DEF taken, before, part
  <2>5. CASE m_rx_phase = "SIZE"
    BY <2>2, <2>3, <2>5, Zenon DEF taken, before, part
  <2>6. CASE m_rx_phase = "ARGS_VALUE" /\ ~Binary
    BY <2>2, <2>3, <2>6, Zenon DEF taken, before, part
  <2>7. CASE m_rx_phase = "ARGS_VALUE" /\ Binary
    <3>1. in_memory(m_size, SizeBytes, RxOrder) = s0
      <4>1. TxOrder = RxOrder
        BY <1>1, <2>7, Zenon DEF SameByteOrder, Binary, TxOrder, RxOrder
      <4>2. m_size = Len(msg.value)
        BY <1>1, <2>7, Zenon DEF Parsed
      <4> QED
        BY <4>1, <4>2, Zenon DEF field
    <3>2. taken = (i0 \o n0) \o (s0 \o part)
      BY <2>2, <2>3, <2>7, <3>1, ZenonT(30) DEF taken, part
    <3>3. before = (i0 \o n0) \o s0
      BY <2>7, Zenon DEF before
    <3>4. msg \in Messages
      BY <1>1, <2>1 DEF Parsed, StreamTypes
    <3>5. i0 \in Seq(Octet) /\ n0 \in Seq(Octet) /\ s0 \in Seq(Octet)
      BY <1>1, <3>4, FieldType, ZenonT(30) DEF Phases
    <3> HIDE DEF i0, n0, s0
    <3> DEFINE p0 == i0 \o n0
    <3>6. p0 \in Seq(Octet) /\ s0 \in Seq(Octet)
      BY <3>5
    <3> HIDE DEF p0
    <3>7. (p0 \o s0) \o part = p0 \o (s0 \o part)
      <4>1. Associates(p0, s0, part)
        BY <1>3, <3>6, Associative, Zenon
      <4> QED
        BY <1>3, <3>6, <4>1, Zenon DEF Associates
    <3> QED
      BY <3>2, <3>3, <3>7, Zenon DEF p0
  <2> QED
    BY <2>1, <2>4, <2>5, <2>6, <2>7, ZenonT(30)
<1> QED
  BY <1>4, <1>5, Zenon

LEMMA DueIs ==
    ASSUME JInv
    PROVE  due \in Seq(Octet) /\ frames(in_flight) = before \o due
<1>1. Parsed /\ RxTypes /\ in_flight \in Seq(Messages) /\ build \in Builds
  BY Zenon DEF JInv, IInv, TxTypes, StreamTypes
<1>2. m_rx_phase \in Phases /\ (m_rx_phase = "SIZE" => Binary)
  BY <1>1, Zenon DEF RxTypes
<1>3. CASE in_flight = << >>
  <2>1. m_rx_phase \in {"IDLE", "ID"}
    BY <1>1, <1>2, <1>3, ZenonT(30) DEF Parsed, Phases
  <2>2. before = << >> /\ due = << >>
    BY <1>3, <2>1, Zenon DEF before, due
  <2>3. << >> \o << >> = << >> /\ << >> \in Seq(Octet)
    OBVIOUS
  <2> QED
    BY <1>3, <2>2, <2>3, FramesEmpty, Zenon
<1>4. CASE in_flight # << >>
  <2> DEFINE msg == Head(in_flight)
             rest == frames(Tail(in_flight))
             from == IF m_rx_phase = "IDLE" THEN "ID" ELSE m_rx_phase
             ff == frame_from(msg, from)
  <2>1. msg \in Messages /\ Tail(in_flight) \in Seq(Messages)
    BY <1>1, <1>4
  <2>2. from \in Phases \ {"IDLE"} /\ (from = "SIZE" => Binary)
    BY <1>2, Zenon DEF Phases
  <2>3. ff \in Seq(Octet) /\ rest \in Seq(Octet) /\ before \in Seq(Octet)
    BY <1>1, <2>1, <2>2, FrameNext, FramesType, BeforeType, ZenonT(30)
  <2>4. frames(in_flight) = frame(msg) \o rest
    BY <1>1, <1>4, FramesHead, Zenon
  <2>5. due = ff \o rest
    BY <1>4, Zenon DEF due
  <2>6. frame(msg) = before \o ff
    <3>1. CASE m_rx_phase \in {"IDLE", "ID"}
      <4>1. before = << >> /\ ff = frame(msg)
        BY <3>1, BeforeType, Zenon DEF frame
      <4> HIDE DEF ff
      <4> QED
        BY <4>1, <2>3, ConcatEmpty, Zenon
    <3>2. CASE m_rx_phase \notin {"IDLE", "ID"}
      BY <3>2, BeforeType, Zenon
    <3> QED
      BY <3>1, <3>2, Zenon
  <2> HIDE DEF msg, rest, ff
  <2>7. (before \o ff) \o rest = before \o (ff \o rest) /\ ff \o rest \in Seq(Octet)
    <3>1. Associates(before, ff, rest)
      BY <2>3, Associative, Zenon
    <3> QED
      BY <2>3, <3>1 DEF Associates
  <2> QED
    BY <2>4, <2>5, <2>6, <2>7, Zenon
<1> QED
  BY <1>3, <1>4, ZenonT(30)

LEMMA InStepParses ==
    ASSUME SameByteOrder, JInv
    PROVE  StreamParses
<1>1. taken = before \o part /\ frames(in_flight) = before \o due
  BY TakenIs, DueIs, Zenon
<1>2. part \o (queue \o unsent) = due
  BY Zenon DEF JInv, InStep
<1> DEFINE a0 == before
           b0 == part
           c0 == queue
           d0 == unsent
           cd == c0 \o d0
           ab == a0 \o b0
<1>3. a0 \in Seq(Octet) /\ b0 \in Seq(Octet) /\ c0 \in Seq(Octet) /\ d0 \in Seq(Octet)
  BY BeforeType, PartType, Unsent, ZenonT(30) DEF JInv, IInv, StreamTypes
<1> HIDE DEF a0, b0, c0, d0
<1>4. cd \in Seq(Octet) /\ ab \in Seq(Octet)
  BY <1>3
<1>5. (ab \o c0) \o d0 = ab \o (c0 \o d0)
  <2> HIDE DEF ab
  <2>1. Associates(ab, c0, d0)
    BY <1>3, <1>4, Associative, Zenon
  <2> QED
    BY <1>3, <1>4, <2>1, ZenonT(30) DEF Associates
<1>6. (a0 \o b0) \o cd = a0 \o (b0 \o cd)
  <2>1. a0 \in Seq(Octet) /\ b0 \in Seq(Octet) /\ cd \in Seq(Octet)
    BY <1>3, <1>4, ZenonT(30)
  <2> HIDE DEF cd
  <2>2. Associates(a0, b0, cd)
    BY <2>1, Associative, Zenon
  <2> QED
    BY <2>1, <2>2, Zenon DEF Associates
<1>7. (taken \o queue) \o unsent = frames(in_flight)
  BY <1>1, <1>2, <1>5, <1>6, ZenonT(30) DEF a0, b0, c0, d0
<1> QED
  BY <1>7, Zenon DEF StreamParses

\* What receive() has taken of a message, what the stream holds and what send()
\* has still to write are together the frames of the messages in flight.
THEOREM FramingStreamParses ==
    ASSUME SameByteOrder
    PROVE  Spec => []StreamParses
<1>1. JInv => StreamParses
  BY InStepParses, ZenonT(30)
<1> QED
  BY <1>1, FramingParses, PTL

\* The size that receive() reads is the one of the value that follows, when no
\* binary build joins machines of different byte orders.
THEOREM FramingSizeAsSent ==
    ASSUME SameByteOrder
    PROVE  Spec => []SizeAsSent
<1>1. JInv => SizeAsSent
  BY Zenon DEF JInv, Parsed, SizeAsSent
<1> QED
  BY <1>1, FramingParses, PTL

\* Messages are handed to the loop as they were sent, the oldest first.
THEOREM FramingReceivedIsSent ==
    ASSUME SameByteOrder
    PROVE  Spec => ReceivedIsSent
<1> DEFINE Handed == m_rx_phase # "IDLE" /\ m_rx_phase' = "IDLE" =>
                        in_flight # << >> /\ delivered' = Head(in_flight)
<1>1. JInv /\ [Next]_vars => [Handed]_vars
  <2> SUFFICES ASSUME JInv, Next, m_rx_phase # "IDLE", m_rx_phase' = "IDLE"
               PROVE  in_flight # << >> /\ delivered' = Head(in_flight)
    BY Zenon
  <2>1. receive_step
    BY Zenon DEF Next, tx_initLoop, send, sent, tx_init, rx_initLoop, rx_init, receive, rx_vars
  <2> QED
    BY <2>1, ReceiveStepParses, ZenonT(30) DEF Delivers
<1> QED
  BY <1>1, FramingParses, PTL DEF Spec, ReceivedIsSent
===============================================================================
