--------------------------- MODULE MarshallingProofs ---------------------------
(***************************************************************************)
(* What one end writes the other end reads, whatever the signature, the    *)
(* build and the values the protocol can carry.                            *)
(***************************************************************************)
EXTENDS Marshalling, DataLemmas

\* the solver the steps without one of their own go to
USE SMTT(30)

(* Recursive functions of an index.                                        *)

\* f and h agree at 0, and at an index when they agree at the one before
Agree(f, h, w) == f[0] = h[0] /\ \A i \in 1..w : f[i - 1] = h[i - 1] => f[i] = h[i]

SameUpto(f, h, w) == \A i \in 0..w : f[i] = h[i]

\* functions that agree at 0, and at an index when they agree at the one before
LEMMA SameFromZero ==
    ASSUME NEW w \in Nat, NEW f, NEW h, Agree(f, h, w)
    PROVE  SameUpto(f, h, w)
<1> DEFINE T == {k \in Nat : k \in 0..w => f[k] = h[k]}
<1>1. 0 \in T
  BY Zenon DEF Agree
<1>2. ASSUME NEW k \in T PROVE k + 1 \in T
  <2> SUFFICES ASSUME k + 1 \in 0..w PROVE f[k + 1] = h[k + 1]
    OBVIOUS
  <2>1. k \in 0..w /\ k + 1 \in 1..w /\ (k + 1) - 1 = k
    OBVIOUS
  <2> QED
    BY <2>1, Zenon DEF Agree
<1> HIDE DEF T
<1>3. T = Nat
  <2>1. T \in SUBSET Nat
    BY Zenon DEF T
  <2> QED
    BY <2>1, <1>1, <1>2, InductiveSet, Zenon
<1> QED
  BY <1>3 DEF T, SameUpto

\* f has v0 at 0, and step takes it from a value in V to the next
Follows(f, V, v0, step, w) ==
    /\ f = [i \in 0..w |-> f[i]] /\ f[0] = v0
    /\ \A i \in 1..w : f[i - 1] \in V => f[i] = step[i][f[i - 1]]

\* a function that follows a step from values of a set has its values in the set
LEMMA FollowsStep ==
    ASSUME NEW V, NEW v0 \in V, NEW step \in [Nat -> [V -> V]], NEW w \in Nat,
           NEW f, Follows(f, V, v0, step, w)
    PROVE  f \in [0..w -> V] /\ Stepwise(f, v0, step, w)
<1>1. PICK h \in [0..w -> V] : Stepwise(h, v0, step, w)
  BY RecursionExists, Zenon
<1>2. f[0] = h[0]
  BY <1>1, Zenon DEF Stepwise, Follows
<1>3. ASSUME NEW i \in 1..w, f[i - 1] = h[i - 1] PROVE f[i] = h[i]
  <2>1. i - 1 \in 0..w
    OBVIOUS
  <2>2. h[i - 1] \in V /\ h[i] = step[i][h[i - 1]]
    BY <2>1, <1>1, Zenon DEF Stepwise
  <2>3. f[i - 1] \in V
    BY <2>2, <1>3, Zenon
  <2>4. f[i] = step[i][f[i - 1]]
    BY <2>3, Zenon DEF Follows
  <2> QED
    BY <2>2, <2>4, <1>3, Zenon
<1>4. SameUpto(f, h, w)
  <2>1. Agree(f, h, w)
    BY <1>2, <1>3, Zenon DEF Agree
  <2> QED
    BY <2>1, SameFromZero, Zenon
<1>5. f = h
  BY <1>1, <1>4, Zenon DEF Follows, SameUpto
<1> QED
  BY <1>1, <1>5, Zenon

-------------------------------------------------------------------------------
(* The positions of parameters.                                            *)

LEMMA PositionsDef ==
    ASSUME NEW params, NEW bys, Len(params) \in Nat
    PROVE  \E f \in [0..Len(params) -> Seq(Nat)] :
              /\ f[0] = << >>
              /\ \A i \in 1..Len(params) :
                    f[i] = IF params[i].by \in bys THEN Append(f[i - 1], i) ELSE f[i - 1]
              /\ positions(params, bys) = f[Len(params)]
<1> DEFINE w == Len(params)
           V == Seq(Nat)
           step == [i \in Nat |-> [x \in V |-> IF params[i].by \in bys THEN Append(x, i) ELSE x]]
           Def(f) == f = [i \in 0..w |-> IF i = 0 THEN << >>
                                         ELSE IF params[i].by \in bys THEN Append(f[i - 1], i)
                                         ELSE f[i - 1]]
           upto == CHOOSE f : Def(f)
<1>1. << >> \in V
  OBVIOUS
<1>2. step \in [Nat -> [V -> V]]
  OBVIOUS
<1>3. \A i \in Nat : \A x \in V : step[i][x] = IF params[i].by \in bys THEN Append(x, i) ELSE x
  BY Zenon
<1>4. w \in Nat
  BY Zenon
<1> HIDE DEF step, w, V
<1>5. PICK h \in [0..w -> V] : Stepwise(h, << >>, step, w)
  BY <1>1, <1>2, <1>4, RecursionExists, Zenon
<1>6. Def(h)
  <2>1. \A i \in 1..w : i \in Nat /\ i # 0 /\ i - 1 \in 0..w /\ h[i - 1] \in V
    BY <1>4, <1>5
  <2>2. h[0] = << >> /\ \A i \in 1..w : h[i] = step[i][h[i - 1]]
    BY <1>5, Zenon DEF Stepwise
  <2>3. \A i \in 1..w : h[i] = IF params[i].by \in bys THEN Append(h[i - 1], i) ELSE h[i - 1]
    BY <2>1, <2>2, <1>3, Zenon
  <2>4. \A i \in 0..w : i = 0 \/ i \in 1..w
    BY <1>4
  <2> QED
    BY <2>2, <2>3, <2>4, <1>5, Zenon
<1>7. Def(upto)
  <2> HIDE DEF Def
  <2> QED
    BY <1>6, Zenon
<1>8. positions(params, bys) = upto[w]
  BY Zenon DEF positions, w
<1> HIDE DEF upto
<1>9. upto = [i \in 0..w |-> upto[i]] /\ upto[0] = << >>
  BY <1>4, <1>7
<1>10. ASSUME NEW i \in 1..w
       PROVE  upto[i] = IF params[i].by \in bys THEN Append(upto[i - 1], i) ELSE upto[i - 1]
  <2>1. i \in 0..w /\ i # 0
    BY <1>4
  <2> QED
    BY <2>1, <1>7, Zenon
<1>11. \A i \in 1..w : i \in Nat /\ (upto[i - 1] \in V => upto[i] = step[i][upto[i - 1]])
  BY <1>3, <1>4, <1>10
<1>12. upto \in [0..w -> V]
  <2>1. Follows(upto, V, << >>, step, w)
    BY <1>9, <1>11, Zenon DEF Follows
  <2> QED
    BY <2>1, <1>1, <1>2, <1>4, FollowsStep, Zenon
<1> QED
  BY <1>8, <1>9, <1>10, <1>12, Zenon DEF w, V

\* x lists, once each, the numbers up to i of parameters passed in one of the ways bys
Lists(x, params, bys, i) ==
    /\ x \in Seq(1..i)
    /\ \A k \in 1..Len(x) : params[x[k]].by \in bys
    /\ \A j \in 1..i : params[j].by \in bys => \E k \in 1..Len(x) : x[k] = j
    /\ \A j, k \in 1..Len(x) : x[j] = x[k] => j = k

LEMMA ListsNext ==
    ASSUME NEW x, NEW params, NEW bys, NEW i \in Nat, Lists(x, params, bys, i)
    PROVE  Lists(IF params[i + 1].by \in bys THEN Append(x, i + 1) ELSE x, params, bys, i + 1)
<1>1. x \in Seq(1..i + 1) /\ Len(x) \in Nat /\ \A k \in 1..Len(x) : x[k] \in 1..i
  <2>1. x \in Seq(1..i)
    BY Zenon DEF Lists
  <2>2. Len(x) \in Nat /\ \A k \in 1..Len(x) : x[k] \in 1..i
    BY <2>1
  <2>3. \A j \in 1..i : j \in 1..i + 1
    OBVIOUS
  <2>4. x = [k \in 1..Len(x) |-> x[k]]
    BY <2>1
  <2> QED
    BY <2>2, <2>3, <2>4
<1>2. CASE ~(params[i + 1].by \in bys)
  <2>1. \A j \in 1..i + 1 : params[j].by \in bys => j \in 1..i
    BY <1>2
  <2> QED
    BY <2>1, <1>1, <1>2, Zenon DEF Lists
<1>3. CASE params[i + 1].by \in bys
  <2> DEFINE y == Append(x, i + 1)
  <2>1. /\ y \in Seq(1..i + 1) /\ Len(y) = Len(x) + 1 /\ y[Len(x) + 1] = i + 1
        /\ \A k \in 1..Len(x) : y[k] = x[k]
    <3>1. i + 1 \in 1..i + 1
      OBVIOUS
    <3> QED
      BY <3>1, <1>1
  <2> HIDE DEF y
  <2>2. \A k \in 1..Len(y) : k \in 1..Len(x) \/ k = Len(x) + 1
    BY <2>1, <1>1
  <2>3. \A k \in 1..Len(y) : params[y[k]].by \in bys
    BY <2>1, <2>2, <1>3, Zenon DEF Lists
  <2>4. \A j \in 1..i + 1 : params[j].by \in bys => \E k \in 1..Len(y) : y[k] = j
    <3>1. \A j \in 1..i + 1 : j \in 1..i \/ j = i + 1
      OBVIOUS
    <3>2. \A k \in 1..Len(x) : k \in 1..Len(y)
      BY <2>1, <1>1
    <3>3. Len(x) + 1 \in 1..Len(y)
      BY <2>1, <1>1
    <3> QED
      BY <3>1, <3>2, <3>3, <2>1, Zenon DEF Lists
  <2>5. \A j, k \in 1..Len(y) : y[j] = y[k] => j = k
    <3>1. ASSUME NEW k \in 1..Len(x) PROVE y[k] # i + 1
      <4>1. x[k] \in 1..i /\ y[k] = x[k]
        BY <2>1, <1>1, Zenon
      <4> QED
        BY <4>1
    <3>2. ASSUME NEW j \in 1..Len(y), NEW k \in 1..Len(y), y[j] = y[k] PROVE j = k
      <4>1. CASE j \in 1..Len(x) /\ k \in 1..Len(x)
        BY <4>1, <3>2, <2>1, ZenonT(30) DEF Lists
      <4>2. CASE j = Len(x) + 1 \/ k = Len(x) + 1
        BY <4>2, <3>1, <3>2, <2>1, <2>2, ZenonT(30)
      <4> QED
        BY <4>1, <4>2, <2>2, Zenon
    <3> QED
      BY <3>2, Zenon
  <2>6. Lists(y, params, bys, i + 1)
    BY <2>1, <2>3, <2>4, <2>5, Zenon DEF Lists
  <2> QED
    BY <2>6, <1>3, Zenon DEF y
<1> QED
  BY <1>2, <1>3, Zenon

\* codify_out_args(): every position once
LEMMA PositionsList ==
    ASSUME NEW params, NEW bys, Len(params) \in Nat
    PROVE  Lists(positions(params, bys), params, bys, Len(params))
<1>1. PICK f \in [0..Len(params) -> Seq(Nat)] :
         /\ f[0] = << >>
         /\ \A i \in 1..Len(params) :
               f[i] = IF params[i].by \in bys THEN Append(f[i - 1], i) ELSE f[i - 1]
         /\ positions(params, bys) = f[Len(params)]
  BY PositionsDef, ZenonT(30)
<1> DEFINE T == {i \in Nat : i <= Len(params) => Lists(f[i], params, bys, i)}
<1>2. 0 \in T
  <2>1. << >> \in Seq(1..0) /\ Len(<< >>) = 0 /\ \A k \in 1..0 : FALSE
    OBVIOUS
  <2>2. Lists(<< >>, params, bys, 0)
    BY <2>1, Zenon DEF Lists
  <2> QED
    BY <2>2, <1>1, Zenon
<1>3. ASSUME NEW i \in T PROVE i + 1 \in T
  <2> SUFFICES ASSUME i + 1 <= Len(params) PROVE Lists(f[i + 1], params, bys, i + 1)
    OBVIOUS
  <2>1. i \in Nat /\ i <= Len(params) /\ i + 1 \in 1..Len(params) /\ (i + 1) - 1 = i
    OBVIOUS
  <2>2. Lists(f[i], params, bys, i)
    BY <2>1, Zenon
  <2>3. f[i + 1] = IF params[i + 1].by \in bys THEN Append(f[i], i + 1) ELSE f[i]
    BY <2>1, <1>1, Zenon
  <2> QED
    BY <2>1, <2>2, <2>3, ListsNext
<1> HIDE DEF T
<1>4. T = Nat
  <2>1. T \in SUBSET Nat
    BY Zenon DEF T
  <2> QED
    BY <2>1, <1>2, <1>3, InductiveSet, Zenon
<1>5. Lists(f[Len(params)], params, bys, Len(params))
  BY <1>4 DEF T
<1> QED
  BY <1>1, <1>5, Zenon

\* ways that tell the same parameters apart give the same positions
LEMMA SamePositions ==
    ASSUME NEW params, NEW bys1, NEW bys2, Len(params) \in Nat,
           \A i \in 1..Len(params) : params[i].by \in bys1 <=> params[i].by \in bys2
    PROVE  positions(params, bys1) = positions(params, bys2)
<1>1. PICK f \in [0..Len(params) -> Seq(Nat)] :
         /\ f[0] = << >>
         /\ \A i \in 1..Len(params) :
               f[i] = IF params[i].by \in bys1 THEN Append(f[i - 1], i) ELSE f[i - 1]
         /\ positions(params, bys1) = f[Len(params)]
  BY PositionsDef, Zenon
<1>2. PICK g \in [0..Len(params) -> Seq(Nat)] :
         /\ g[0] = << >>
         /\ \A i \in 1..Len(params) :
               g[i] = IF params[i].by \in bys2 THEN Append(g[i - 1], i) ELSE g[i - 1]
         /\ positions(params, bys2) = g[Len(params)]
  BY PositionsDef, Zenon
<1>3. Agree(f, g, Len(params))
  <2>1. ASSUME NEW i \in 1..Len(params), f[i - 1] = g[i - 1] PROVE f[i] = g[i]
    BY <2>1, <1>1, <1>2
  <2> QED
    BY <2>1, <1>1, <1>2, Zenon DEF Agree
<1>4. \A i \in 0..Len(params) : f[i] = g[i]
  <2> DEFINE w == Len(params)
  <2>1. w \in Nat /\ Agree(f, g, w)
    BY <1>3, Zenon
  <2> HIDE DEF w
  <2>2. SameUpto(f, g, w)
    BY <2>1, SameFromZero, Zenon
  <2> QED
    BY <2>2, Zenon DEF w, SameUpto
<1> QED
  BY <1>1, <1>2, <1>4

-------------------------------------------------------------------------------
(* A scalar of the binary protocol.                                        *)

\* one end writes, the other reads
Ends(b, w, r) ==
    \/ w = client_order(b) /\ r = server_order(b)
    \/ w = server_order(b) /\ r = client_order(b)

\* s is in data behind ix
At(data, ix, s) == ix + Len(s) <= Len(data) /\ \A k \in 1..Len(s) : data[ix + k] = s[k]

LEMMA Bytes ==
    /\ Base \in Nat /\ Base >= 2 /\ 0 \in Byte /\ Blank \in Byte /\ Zero \in Byte /\ One \in Byte
    /\ Byte = 0 .. Base - 1 /\ One # 0 /\ One % 2 = 1 /\ Blank # Zero /\ Blank # One
<1>1. /\ Base \in Nat /\ 0 \in Byte /\ Zero \in Byte /\ One \in Byte /\ Blank \in Byte
      /\ Blank # Zero /\ Blank # One /\ One % 2 = 1
  BY MarshallingAssumption, ZenonT(30)
<1>2. One # 0
  BY <1>1
<1> QED
  BY <1>1, <1>2 DEF Byte

LEMMA Backwards ==
    ASSUME NEW S, NEW v \in Seq(S)
    PROVE  /\ backwards(v) \in Seq(S) /\ Len(backwards(v)) = Len(v)
           /\ backwards(backwards(v)) = v
<1> DEFINE u == backwards(v)
           t == backwards(u)
<1>1. Len(v) \in Nat /\ \A i \in 1..Len(v) : (Len(v) - i) + 1 \in 1..Len(v) /\ v[i] \in S
  OBVIOUS
<1>2. u \in Seq(S) /\ Len(u) = Len(v) /\ \A i \in 1..Len(v) : u[i] = v[(Len(v) - i) + 1]
  BY <1>1 DEF backwards
<1> HIDE DEF u
<1>3. t \in Seq(S) /\ Len(t) = Len(v) /\ \A i \in 1..Len(v) : t[i] = u[(Len(v) - i) + 1]
  <2>1. \A i \in 1..Len(v) : u[(Len(v) - i) + 1] \in S
    BY <1>1, <1>2, Zenon
  <2> QED
    BY <2>1, <1>1, <1>2 DEF backwards
<1> HIDE DEF t
<1>4. ASSUME NEW i \in 1..Len(v) PROVE t[i] = v[i]
  <2> DEFINE j == (Len(v) - i) + 1
  <2>1. j \in 1..Len(v) /\ (Len(v) - j) + 1 = i
    BY <1>1
  <2>2. t[i] = u[j]
    BY <1>3, Zenon
  <2> HIDE DEF j
  <2>3. u[j] = v[(Len(v) - j) + 1]
    BY <2>1, <1>2, Zenon
  <2> QED
    BY <2>1, <2>2, <2>3, ZenonT(30)
<1>5. t = v
  BY <1>1, <1>3, <1>4, SameElements, Zenon
<1> QED
  BY <1>2, <1>5, ZenonT(30) DEF u, t

LEMMA InMemory ==
    ASSUME NEW S, NEW v \in Seq(S), NEW order
    PROVE  /\ in_memory(v, order) \in Seq(S) /\ Len(in_memory(v, order)) = Len(v)
           /\ in_memory(in_memory(v, order), order) = v
<1>1. CASE order = "big"
  BY <1>1, Zenon DEF in_memory
<1>2. CASE order # "big"
  <2>1. \A x : in_memory(x, order) = backwards(x)
    BY <1>2, Zenon DEF in_memory
  <2> QED
    BY <2>1, Backwards, ZenonT(30)
<1> QED
  BY <1>1, <1>2, Zenon

LEMMA BuildSwitches ==
    ASSUME NEW b \in Builds
    PROVE  /\ b.binary \in BOOLEAN /\ b.loop_back \in BOOLEAN
           /\ b.srv \in {"little", "big"} /\ b.cln \in {"little", "big"}
<1>1. b \in [binary : BOOLEAN, srv : {"little", "big"}, cln : {"little", "big"},
             loop_back : BOOLEAN]
  BY MarshallingAssumption, Zenon
<1> QED
  BY <1>1, Zenon

\* the bytes of a number in memory in the other order
LEMMA OtherOrder ==
    ASSUME NEW S, NEW v \in Seq(S), NEW o1 \in {"little", "big"}, NEW o2 \in {"little", "big"},
           o1 # o2
    PROVE  backwards(in_memory(v, o1)) = in_memory(v, o2)
<1>1. CASE o1 = "big"
  BY <1>1, Zenon DEF in_memory
<1>2. CASE o1 = "little"
  <2>1. o2 = "big" /\ in_memory(v, o1) = backwards(v) /\ in_memory(v, o2) = v
    BY <1>2, Zenon DEF in_memory
  <2> QED
    BY <2>1, Backwards, Zenon
<1> QED
  BY <1>1, <1>2, Zenon

\* sta_byteswap() and dyn_byteswap(): the other end finds the number in its memory
LEMMA ScalarBytes ==
    ASSUME NEW S, NEW v \in Seq(S), NEW b \in Builds, NEW w, NEW r, Ends(b, w, r)
    PROVE  LET bytes == write_scalar(b, v, w)
           IN  /\ bytes \in Seq(S) /\ Len(bytes) = Len(v)
               /\ in_memory(IF b.loop_back /\ to_swap(b) THEN backwards(bytes) ELSE bytes, r) = v
<1> DEFINE m == in_memory(v, w)
<1>1. m \in Seq(S) /\ Len(m) = Len(v) /\ in_memory(m, w) = v
  BY InMemory, Zenon
<1>2. /\ b.loop_back \in BOOLEAN /\ b.srv \in {"little", "big"} /\ b.cln \in {"little", "big"}
      /\ (b.loop_back => w = b.cln /\ r = b.cln)
      /\ (~b.loop_back => (w = b.cln /\ r = b.srv) \/ (w = b.srv /\ r = b.cln))
  <2>1. b.loop_back => w = b.cln /\ r = b.cln
    BY Zenon DEF Ends, client_order, server_order, LOOP_BACK_TEST, CLN_NATIVE
  <2>2. ~b.loop_back => (w = b.cln /\ r = b.srv) \/ (w = b.srv /\ r = b.cln)
    BY Zenon DEF Ends, client_order, server_order, LOOP_BACK_TEST, SRV_NATIVE, CLN_NATIVE
  <2> QED
    BY <2>1, <2>2, BuildSwitches, ZenonT(30)
<1>3. CASE b.srv = b.cln
  <2>1. ~to_swap(b) /\ w = r
    BY <1>2, <1>3, ZenonT(30) DEF to_swap, SRV_NATIVE, CLN_NATIVE
  <2> QED
    BY <2>1, <1>1, Zenon DEF write_scalar
<1>4. CASE b.srv # b.cln
  <2>1. to_swap(b)
    BY <1>4, Zenon DEF to_swap, SRV_NATIVE, CLN_NATIVE
  <2>2. write_scalar(b, v, w) = backwards(m)
    BY <2>1, Zenon DEF write_scalar
  <2> HIDE DEF m
  <2>3. backwards(m) \in Seq(S) /\ Len(backwards(m)) = Len(v) /\ backwards(backwards(m)) = m
    BY <1>1, Backwards, Zenon
  <2>4. CASE b.loop_back
    BY <2>1, <2>2, <2>3, <2>4, <1>1, <1>2, ZenonT(30)
  <2>5. CASE ~b.loop_back
    <3>1. backwards(m) = in_memory(v, r)
      BY <2>5, <1>2, <1>4, OtherOrder, ZenonT(30) DEF m
    <3>2. in_memory(backwards(m), r) = v
      BY <3>1, InMemory, ZenonT(30)
    <3> QED
      BY <2>2, <2>3, <2>5, <3>2, Zenon
  <2> QED
    BY <2>4, <2>5, <1>2, ZenonT(30)
<1> QED
  BY <1>3, <1>4, Zenon

LEMMA BytesAt ==
    ASSUME NEW S, NEW data, NEW s \in Seq(S), NEW ix \in Nat, Len(data) \in Nat, At(data, ix, s)
    PROVE  bytes_at(data, ix, Len(s)) = s
<1>1. Len(s) \in Nat /\ s = [k \in 1..Len(s) |-> s[k]]
  OBVIOUS
<1>2. \A k \in 1..Len(s) : ix + k \in 1..Len(data) /\ data[ix + k] = s[k]
  BY <1>1 DEF At
<1> QED
  BY <1>1, <1>2, Zenon DEF bytes_at

LEMMA ReadScalar ==
    ASSUME NEW v \in Seq(Byte), NEW b \in Builds, NEW w, NEW r, Ends(b, w, r),
           NEW data, NEW ix \in Nat, Len(data) \in Nat, At(data, ix, write_scalar(b, v, w))
    PROVE  read_scalar(b, data, ix, Len(v), r) = v
<1> DEFINE bytes == write_scalar(b, v, w)
<1>1. /\ bytes \in Seq(Byte) /\ Len(bytes) = Len(v)
      /\ in_memory(IF b.loop_back /\ to_swap(b) THEN backwards(bytes) ELSE bytes, r) = v
  BY ScalarBytes
<1>2. At(data, ix, bytes)
  BY Zenon
<1> HIDE DEF bytes
<1>3. bytes_at(data, ix, Len(v)) = bytes
  BY <1>1, <1>2, BytesAt, Zenon
<1> QED
  BY <1>1, <1>3, Zenon DEF read_scalar, LOOP_BACK_TEST

-------------------------------------------------------------------------------
(* A value of the binary protocol.                                         *)

Bases == DOMAIN sizeof \cup blobs

\* SIZE_T tells every length below the square of Base
LEMMA LengthNumber ==
    ASSUME NEW n \in Nat, n < Base * Base
    PROVE  length(n) \in Seq(Byte) /\ Len(length(n)) = 2 /\ number(length(n)) = n
<1> DEFINE q == n \div Base
           m == n % Base
<1>1. Base \in Nat /\ Base >= 2 /\ Byte = 0 .. Base - 1
  BY Bytes, Zenon
<1>2. q \in Nat /\ m \in 0 .. Base - 1 /\ n = Base * q + m
  BY <1>1
<1> HIDE DEF q, m
<1>3. q < Base
  <2> SUFFICES ASSUME q >= Base PROVE FALSE
    BY <1>1, <1>2
  <2>1. PICK d \in Nat : q = Base + d
    <3>1. q - Base \in Nat /\ q = Base + (q - Base)
      BY <1>1, <1>2
    <3> QED
      BY <3>1, Zenon
  <2>2. Base * q = Base * Base + Base * d /\ Base * d \in Nat /\ Base * Base \in Nat
    BY <2>1, <1>1
  <2> QED
    BY <2>2, <1>1, <1>2
<1>4. q \in Byte /\ m \in Byte
  BY <1>1, <1>2, <1>3
<1>5. length(n) = <<q, m>>
  BY Zenon DEF length, q, m
<1>6. number(<<q, m>>) = q * Base + m
  BY Zenon DEF number
<1>7. q * Base + m = n
  BY <1>1, <1>2
<1> QED
  BY <1>4, <1>5, <1>6, <1>7

LEMMA Sizes ==
    /\ \A base \in DOMAIN sizeof :
          /\ base \notin blobs /\ sizeof[base] \in Nat \ {0}
          /\ base \notin {"bool", "char", "uchar"} => sizeof[base] # 1
    /\ sizeof["bool"] = 1 /\ sizeof["char"] = 1 /\ sizeof["uchar"] = 1
    /\ return_types \ {"void"} \subseteq DOMAIN sizeof
    /\ \A base \in return_types : base \notin {"bool", "char", "uchar", "string"}
<1>1. DOMAIN sizeof = {"bool", "char", "uchar", "short", "ushort", "int", "uint", "long", "ulong",
                       "longlong", "ulonglong", "float", "double"}
  BY Zenon DEF sizeof
<1> QED
  BY <1>1 DEF sizeof, blobs, return_types

LEMMA ValueBytes ==
    ASSUME NEW base \in Bases, NEW v \in Values(base)
    PROVE  /\ v \in Seq(Byte) /\ Len(v) \in Nat
           /\ base \in blobs => Len(v) < Base * Base
           /\ base \notin blobs => base \in DOMAIN sizeof /\ Len(v) = sizeof[base]
<1>1. CASE base \in blobs
  <2>1. v \in Seq(Byte) /\ Len(v) < Base * Base
    BY <1>1, MarshallingAssumption, Zenon
  <2> QED
    BY <2>1, <1>1
<1>2. CASE base \notin blobs
  <2>1. base \in DOMAIN sizeof /\ v \in [1..sizeof[base] -> Byte]
    BY <1>2, MarshallingAssumption, Zenon DEF Bases
  <2>2. sizeof[base] \in Nat
    BY <2>1, Sizes, Zenon
  <2> QED
    BY <2>1, <2>2, <1>2
<1> QED
  BY <1>1, <1>2, Zenon

\* stream::write and stream::read of one value
LEMMA ReadWrite ==
    ASSUME NEW b \in Builds, b.binary, NEW w, NEW r, Ends(b, w, r),
           NEW base \in Bases, NEW v \in Values(base)
    PROVE  /\ write(b, base, v, w) \in Seq(Byte)
           /\ \A data : \A ix \in Nat :
                 Len(data) \in Nat /\ At(data, ix, write(b, base, v, w))
                 => read(b, base, data, ix, r) = [v |-> v, ix |-> ix + Len(write(b, base, v, w))]
<1>1. /\ v \in Seq(Byte) /\ Len(v) \in Nat /\ (base \in blobs => Len(v) < Base * Base)
      /\ (base \notin blobs => base \in DOMAIN sizeof /\ Len(v) = sizeof[base])
  BY ValueBytes, Zenon
<1>2. CASE base \notin blobs
  <2>1. write(b, base, v, w) = write_scalar(b, v, w)
    BY <1>2, Zenon DEF write, BINARY_BASED_PROTOCOL
  <2>2. write_scalar(b, v, w) \in Seq(Byte) /\ Len(write_scalar(b, v, w)) = Len(v)
    BY <1>1, ScalarBytes, Zenon
  <2>3. ASSUME NEW data, NEW ix \in Nat, Len(data) \in Nat, At(data, ix, write_scalar(b, v, w))
        PROVE  read(b, base, data, ix, r) = [v |-> v, ix |-> ix + Len(v)]
    <3>1. read_scalar(b, data, ix, Len(v), r) = v
      BY <2>3, <1>1, ReadScalar
    <3> QED
      BY <3>1, <1>1, <1>2, Zenon DEF read
  <2> QED
    BY <2>1, <2>2, <2>3, Zenon
<1>3. CASE base \in blobs
  <2> DEFINE n == Len(v)
             l == write_scalar(b, length(n), w)
  <2>0. Base * Base \in Nat /\ n \in Nat /\ n < Base * Base
    BY <1>1, <1>3, Bytes
  <2>1. n % (Base * Base) = n
    <3> DEFINE m == Base * Base
    <3>1. m \in Nat /\ n < m /\ n \in Nat
      BY <2>0, Zenon
    <3> HIDE DEF m
    <3>2. n % m = n
      BY <3>1
    <3> QED
      BY <3>2, Zenon DEF m
  <2>2. SubSeq(v, 1, n) = v
    BY <1>1
  <2>3. write(b, base, v, w) = l \o v
    BY <2>1, <2>2, <1>3, Zenon DEF write, write_blob, BINARY_BASED_PROTOCOL
  <2>4. length(n) \in Seq(Byte) /\ Len(length(n)) = 2 /\ number(length(n)) = n
    BY <2>0, LengthNumber, Zenon
  <2>5. l \in Seq(Byte) /\ Len(l) = 2
    BY <2>4, ScalarBytes, ZenonT(30)
  <2>6. ASSUME NEW data, NEW ix \in Nat, Len(data) \in Nat, At(data, ix, l)
        PROVE  read_length(b, data, ix, r) = n
    <3>1. read_scalar(b, data, ix, 2, r) = length(n)
      <4> DEFINE u == length(n)
      <4>0. u \in Seq(Byte)
        BY <2>4, Zenon
      <4>1. Len(u) = 2
        BY <2>4, Zenon
      <4>2. At(data, ix, write_scalar(b, u, w)) /\ Len(data) \in Nat
        BY <2>6, Zenon
      <4> HIDE DEF u
      <4>3. read_scalar(b, data, ix, Len(u), r) = u
        BY <4>0, <4>2, ReadScalar, ZenonT(30)
      <4> QED
        BY <4>1, <4>3, Zenon DEF u
    <3> QED
      BY <3>1, <2>4, Zenon DEF read_length, size_of_length
  <2> HIDE DEF l
  <2>7. /\ l \o v \in Seq(Byte) /\ Len(l \o v) = 2 + n
        /\ \A k \in 1..2 + n : (l \o v)[k] = IF k <= 2 THEN l[k] ELSE v[k - 2]
    <3>1. /\ l \o v \in Seq(Byte) /\ Len(l \o v) = Len(l) + Len(v)
          /\ \A k \in 1..Len(l) + Len(v) : (l \o v)[k] = IF k <= Len(l) THEN l[k] ELSE v[k - Len(l)]
      <4>1. l \in Seq(Byte) /\ v \in Seq(Byte)
        BY <2>5, <1>1, Zenon
      <4> QED
        BY <4>1, ConcatElements, Zenon
    <3> QED
      BY <3>1, <2>5, Zenon
  <2>8. ASSUME NEW data, NEW ix \in Nat, Len(data) \in Nat, At(data, ix, l \o v)
        PROVE  read(b, base, data, ix, r) = [v |-> v, ix |-> ix + (2 + n)]
    <3>0. ix + (2 + n) <= Len(data) /\ \A k \in 1..2 + n : data[ix + k] = (l \o v)[k]
      BY <2>7, <2>8, Zenon DEF At
    <3>1. At(data, ix, l)
      <4>1. ASSUME NEW k \in 1..2 PROVE data[ix + k] = l[k]
        <5>1. k \in 1..2 + n /\ k <= 2
          BY <2>0
        <5> QED
          BY <5>1, <3>0, <2>7
      <4> QED
        BY <4>1, <3>0, <2>0, <2>5 DEF At
    <3>2. At(data, ix + 2, v)
      <4>1. ASSUME NEW k \in 1..n PROVE data[(ix + 2) + k] = v[k]
        <5>1. 2 + k \in 1..2 + n /\ ~(2 + k <= 2) /\ (2 + k) - 2 = k /\ (ix + 2) + k = ix + (2 + k)
          BY <2>0
        <5> QED
          BY <5>1, <3>0, <2>7, Zenon
      <4> QED
        BY <4>1, <3>0, <2>0 DEF At
    <3>3. bytes_at(data, ix + 2, n) = v
      BY <3>2, <2>8, <1>1, BytesAt
    <3>4. read_length(b, data, ix, r) = n
      BY <3>1, <2>6, <2>8, Zenon
    <3>5. (ix + 2) + n = ix + (2 + n)
      BY <2>0
    <3> QED
      BY <3>3, <3>4, <3>5, <1>3, ZenonT(30) DEF read, size_of_length
  <2> QED
    BY <2>3, <2>7, <2>8, Zenon
<1> QED
  BY <1>2, <1>3, Zenon

-------------------------------------------------------------------------------
(* Sequences one after another.                                            *)

\* joined[k] is the first k of the items one after another
Joins(joined, items, S) ==
    /\ joined \in [0..Len(items) -> Seq(S)] /\ joined[0] = << >>
    /\ \A k \in 1..Len(items) : joined[k] = joined[k - 1] \o items[k]

LEMMA ConcatDef ==
    ASSUME NEW S, NEW items \in Seq(Seq(S))
    PROVE  \E f : Joins(f, items, S) /\ concat(items) = f[Len(items)]
<1> DEFINE w == Len(items)
           V == Seq(S)
           step == [i \in Nat |-> [x \in V |-> IF i \in 1..w THEN x \o items[i] ELSE x]]
           Def(f) == f = [i \in 0..w |-> IF i = 0 THEN << >> ELSE f[i - 1] \o items[i]]
           upto == CHOOSE f : Def(f)
<1>1. << >> \in V
  OBVIOUS
<1>2. w \in Nat /\ \A i \in 1..w : items[i] \in V
  OBVIOUS
<1>3. \A i \in 1..w : \A x \in V : x \o items[i] \in V
  OBVIOUS
<1> HIDE DEF w, V
<1>4. step \in [Nat -> [V -> V]]
  BY <1>3, Zenon
<1>5. ASSUME NEW i \in 1..w
      PROVE  i \in Nat /\ \A x \in V : step[i][x] = x \o items[i]
  <2>1. i \in Nat
    BY <1>2
  <2> QED
    BY <2>1, Zenon
<1> HIDE DEF step
<1>6. PICK h \in [0..w -> V] : Stepwise(h, << >>, step, w)
  BY <1>1, <1>2, <1>4, RecursionExists, Zenon
<1>7. Def(h)
  <2>1. \A i \in 1..w : i # 0 /\ i - 1 \in 0..w /\ h[i - 1] \in V
    BY <1>2, <1>6
  <2>2. h[0] = << >> /\ \A i \in 1..w : h[i] = step[i][h[i - 1]]
    BY <1>6, Zenon DEF Stepwise
  <2>3. \A i \in 1..w : h[i] = h[i - 1] \o items[i]
    BY <2>1, <2>2, <1>5, Zenon
  <2>4. \A i \in 0..w : i = 0 \/ i \in 1..w
    BY <1>2
  <2> QED
    BY <2>2, <2>3, <2>4, <1>6, Zenon
<1>8. Def(upto)
  <2> HIDE DEF Def
  <2> QED
    BY <1>7, Zenon
<1>9. concat(items) = upto[w]
  BY Zenon DEF concat, w
<1> HIDE DEF upto
<1>10. upto = [i \in 0..w |-> upto[i]] /\ upto[0] = << >>
  BY <1>2, <1>8
<1>11. ASSUME NEW i \in 1..w
       PROVE  upto[i] = upto[i - 1] \o items[i]
  <2>1. i \in 0..w /\ i # 0
    BY <1>2
  <2> QED
    BY <2>1, <1>8, Zenon
<1>12. upto \in [0..w -> V]
  <2>1. \A i \in 1..w : upto[i - 1] \in V => upto[i] = step[i][upto[i - 1]]
    BY <1>5, <1>11, Zenon
  <2>2. Follows(upto, V, << >>, step, w)
    BY <2>1, <1>10, Zenon DEF Follows
  <2> QED
    BY <2>2, <1>1, <1>2, <1>4, FollowsStep, Zenon
<1>13. Joins(upto, items, S)
  BY <1>10, <1>11, <1>12, ZenonT(30) DEF w, V, Joins
<1> QED
  BY <1>9, <1>13, Zenon DEF w

\* y begins with x
Begins(x, y) == Len(x) <= Len(y) /\ \A j \in 1..Len(x) : y[j] = x[j]

LEMMA BeginsConcat ==
    ASSUME NEW S, NEW x \in Seq(S), NEW y \in Seq(S), NEW z \in Seq(S), Begins(x, y)
    PROVE  Begins(x, y \o z)
<1>1. /\ Len(y \o z) = Len(y) + Len(z)
      /\ \A k \in 1..Len(y) + Len(z) : (y \o z)[k] = IF k <= Len(y) THEN y[k] ELSE z[k - Len(y)]
  BY ConcatElements, Zenon
<1>2. Len(x) \in Nat /\ Len(y) \in Nat /\ Len(z) \in Nat
  OBVIOUS
<1>3. Len(x) <= Len(y) /\ \A j \in 1..Len(x) : y[j] = x[j]
  BY Zenon DEF Begins
<1>4. \A j \in 1..Len(x) : j \in 1..Len(y) + Len(z) /\ j <= Len(y)
  BY <1>2, <1>3
<1> QED
  BY <1>1, <1>2, <1>3, <1>4 DEF Begins

\* every item is in the whole, behind the items before it
LEMMA ItemAt ==
    ASSUME NEW S, NEW items \in Seq(Seq(S)), NEW f, Joins(f, items, S), NEW k \in 1..Len(items)
    PROVE  /\ Len(f[k]) = Len(f[k - 1]) + Len(items[k])
           /\ At(f[Len(items)], Len(f[k - 1]), items[k])
<1> DEFINE n == Len(items)
           T == {m \in Nat : k + m <= n => Begins(f[k], f[k + m])}
<1>1. n \in Nat /\ k \in 1..n /\ k - 1 \in 0..n /\ k \in 0..n /\ items[k] \in Seq(S)
  OBVIOUS
<1>2. f[k] \in Seq(S) /\ f[k - 1] \in Seq(S) /\ f[n] \in Seq(S) /\ f[k] = f[k - 1] \o items[k]
  <2>1. f \in [0..n -> Seq(S)]
    BY Zenon DEF Joins
  <2>2. f[k] = f[k - 1] \o items[k]
    BY Zenon DEF Joins
  <2> HIDE DEF n
  <2>3. n \in 0..n
    BY <1>1
  <2> QED
    BY <2>1, <2>2, <2>3, <1>1, Zenon
<1>3. T = Nat
  <2>1. 0 \in T
    <3>1. k + 0 = k
      BY <1>1
    <3>2. Len(f[k]) <= Len(f[k])
      BY <1>2
    <3>3. Begins(f[k], f[k])
      BY <3>2, Zenon DEF Begins
    <3> QED
      BY <3>1, <3>3, Zenon
  <2>2. ASSUME NEW m \in T PROVE m + 1 \in T
    <3> SUFFICES ASSUME k + (m + 1) <= n PROVE Begins(f[k], f[k + (m + 1)])
      OBVIOUS
    <3>1. m \in Nat /\ k + m <= n
      BY <1>1
    <3>2. Begins(f[k], f[k + m])
      BY <3>1, Zenon
    <3> DEFINE j == k + (m + 1)
    <3>3. j \in 1..n /\ j - 1 = k + m /\ k + m \in 0..n
      BY <3>1, <1>1
    <3> HIDE DEF j
    <3>4. f[j] = f[k + m] \o items[j] /\ items[j] \in Seq(S) /\ f[k + m] \in Seq(S)
      <4>1. f \in [0..n -> Seq(S)] /\ f[j] = f[j - 1] \o items[j]
        BY <3>3, Zenon DEF Joins
      <4>2. items[j] \in Seq(S)
        BY <3>3
      <4> HIDE DEF n
      <4> QED
        BY <4>1, <4>2, <3>3, Zenon
    <3>5. Begins(f[k], f[k + m] \o items[j])
      BY <3>2, <3>4, <1>2, BeginsConcat, Zenon
    <3> QED
      BY <3>4, <3>5, Zenon DEF j
  <2> HIDE DEF T
  <2>3. T \in SUBSET Nat
    BY Zenon DEF T
  <2> QED
    BY <2>1, <2>2, <2>3, InductiveSet, Zenon
<1> HIDE DEF T, n
<1>4. Begins(f[k], f[n])
  <2>1. n - k \in Nat /\ k + (n - k) = n
    BY <1>1
  <2>2. n - k \in T
    BY <2>1, <1>3, Zenon
  <2> QED
    BY <2>1, <2>2, <1>1 DEF T
<1> DEFINE a == f[k - 1]
           c == items[k]
           d == f[n]
<1>5. a \in Seq(S) /\ c \in Seq(S) /\ d \in Seq(S)
  BY <1>1, <1>2, Zenon
<1>6. Begins(a \o c, d)
  BY <1>2, <1>4, Zenon
<1>7. f[k] = a \o c
  BY <1>2, Zenon
<1> HIDE DEF a, c, d
<1>8. /\ Len(a \o c) = Len(a) + Len(c)
      /\ \A j \in 1..Len(a) + Len(c) : (a \o c)[j] = IF j <= Len(a) THEN a[j] ELSE c[j - Len(a)]
  BY <1>5, ConcatElements, Zenon
<1>9. Len(a) \in Nat /\ Len(c) \in Nat
  BY <1>5
<1>10. ASSUME NEW j \in 1..Len(c) PROVE d[Len(a) + j] = c[j]
  <2>1. /\ Len(a) + j \in 1..Len(a) + Len(c) /\ ~(Len(a) + j <= Len(a))
        /\ (Len(a) + j) - Len(a) = j
    BY <1>9
  <2> QED
    BY <2>1, <1>6, <1>8, Zenon DEF Begins
<1>11. At(d, Len(a), c)
  BY <1>6, <1>8, <1>10, ZenonT(30) DEF At, Begins
<1> QED
  BY <1>7, <1>8, <1>11, ZenonT(30) DEF a, c, d, n

-------------------------------------------------------------------------------
(* All values, in the binary protocol.                                     *)

\* the values at the positions of format are of their parameters' types
Typed(params, format, values) ==
    /\ format \in Seq(Nat)
    /\ \A k \in 1..Len(format) :
          /\ params[format[k]].base \in Bases
          /\ values[format[k]] \in Values(params[format[k]].base)

Items(b, params, format, values, order) ==
    [k \in 1..Len(format) |-> write(b, params[format[k]].base, values[format[k]], order)]

LEMMA BinaryItems ==
    ASSUME NEW b \in Builds, b.binary, NEW w, NEW r, Ends(b, w, r),
           NEW params, NEW format, NEW values, Typed(params, format, values)
    PROVE  LET items == Items(b, params, format, values, w)
           IN  /\ items \in Seq(Seq(Byte)) /\ Len(items) = Len(format) /\ Len(format) \in Nat
               /\ \A k \in 1..Len(format) :
                     items[k] = write(b, params[format[k]].base, values[format[k]], w)
<1>1. Len(format) \in Nat
  BY DEF Typed
<1>2. ASSUME NEW k \in 1..Len(format)
      PROVE  write(b, params[format[k]].base, values[format[k]], w) \in Seq(Byte)
  BY ReadWrite, Zenon DEF Typed
<1> QED
  BY <1>1, <1>2 DEF Items

\* the first k values, and the bytes of their items
Done(values, format, f, k) ==
    [values |-> [j \in 1..k |-> values[format[j]]], ix |-> Len(f[k])]

\* read_all() reads one more value
ReadStep(b, base, data, x, r) ==
    LET next == read(b, base, data, x.ix, r)
    IN  [values |-> Append(x.values, next.v), ix |-> next.ix]

\* data is what w has written, and f what it had written after each value
Written(b, w, r, params, format, values, f, data) ==
    /\ b \in Builds /\ b.binary /\ Ends(b, w, r) /\ Typed(params, format, values)
    /\ Joins(f, Items(b, params, format, values, w), Byte) /\ data = f[Len(format)]

LEMMA ReadNext ==
    ASSUME NEW b, NEW w, NEW r, NEW params, NEW format, NEW values, NEW f, NEW data,
           Written(b, w, r, params, format, values, f, data), NEW k \in 1..Len(format)
    PROVE  ReadStep(b, params[format[k]].base, data, Done(values, format, f, k - 1), r) =
              Done(values, format, f, k)
<1> DEFINE base == params[format[k]].base
           v == values[format[k]]
           ix == Len(f[k - 1])
           before == [j \in 1..k - 1 |-> values[format[j]]]
           items == Items(b, params, format, values, w)
<1>0. /\ b \in Builds /\ b.binary /\ Ends(b, w, r) /\ Typed(params, format, values)
      /\ Joins(f, items, Byte) /\ data = f[Len(format)]
  BY Zenon DEF Written
<1>1. /\ items \in Seq(Seq(Byte)) /\ Len(items) = Len(format) /\ Len(format) \in Nat
      /\ items[k] = write(b, base, v, w) /\ k \in 1..Len(items)
  BY <1>0, BinaryItems
<1> HIDE DEF items
<1>2. Len(f[k]) = ix + Len(items[k]) /\ At(data, ix, items[k])
  BY <1>0, <1>1, ItemAt, Zenon
<1>3. data \in Seq(Byte) /\ f[k - 1] \in Seq(Byte)
  <2>1. f \in [0..Len(items) -> Seq(Byte)] /\ Len(items) \in 0..Len(items) /\ k - 1 \in 0..Len(items)
    BY <1>0, <1>1 DEF Joins
  <2> QED
    BY <2>1, <1>0, <1>1, Zenon
<1>4. Len(data) \in Nat /\ ix \in Nat
  BY <1>3
<1>5. base \in Bases /\ v \in Values(base)
  BY <1>0, Zenon DEF Typed
<1> HIDE DEF base, v, ix
<1>6. read(b, base, data, ix, r) = [v |-> v, ix |-> ix + Len(items[k])]
  BY <1>0, <1>1, <1>2, <1>4, <1>5, ReadWrite
<1>7. Append(before, v) = [j \in 1..k |-> values[format[j]]]
  <2>1. k \in Nat /\ k - 1 \in Nat /\ Len(before) = k - 1
    BY <1>1
  <2>2. Append(before, v) = [j \in 1..(k - 1) + 1 |-> IF j = (k - 1) + 1 THEN v ELSE before[j]]
    BY <2>1
  <2>3. (k - 1) + 1 = k /\ \A j \in 1..k : j = k \/ j \in 1..k - 1
    BY <2>1
  <2>4. \A j \in 1..k : (IF j = k THEN v ELSE before[j]) = values[format[j]]
    BY <2>3, Zenon DEF v
  <2> QED
    BY <2>2, <2>3, <2>4, ZenonT(30)
<1> DEFINE x == Done(values, format, f, k - 1)
<1>8. x.values = before /\ x.ix = ix
  BY Zenon DEF Done, ix
<1>9. Done(values, format, f, k) =
         [values |-> [j \in 1..k |-> values[format[j]]], ix |-> ix + Len(items[k])]
  BY <1>2, Zenon DEF Done
<1> HIDE DEF before, x
<1>10. ReadStep(b, base, data, x, r) = [values |-> Append(before, v), ix |-> ix + Len(items[k])]
  <2> DEFINE nx == read(b, base, data, x.ix, r)
  <2>1. nx = [v |-> v, ix |-> ix + Len(items[k])]
    BY <1>6, <1>8, ZenonT(30)
  <2>2. ReadStep(b, base, data, x, r) = [values |-> Append(x.values, nx.v), ix |-> nx.ix]
    BY Zenon DEF ReadStep
  <2> HIDE DEF nx
  <2>3. nx.v = v /\ nx.ix = ix + Len(items[k])
    BY <2>1, Zenon
  <2> QED
    BY <2>2, <2>3, <1>8, ZenonT(30)
<1> QED
  BY <1>7, <1>9, <1>10, Zenon DEF base, x

\* what write_all() has written read_all() reads, to the last byte
LEMMA BinaryRoundTrip ==
    ASSUME NEW b \in Builds, b.binary, NEW w, NEW r, Ends(b, w, r),
           NEW params, NEW format, NEW values, Typed(params, format, values)
    PROVE  LET data == write_all(b, params, format, values, w)
           IN  /\ data \in Seq(Byte)
               /\ read_all(b, params, format, data, r) =
                     {[values |-> pick(values, format), ix |-> Len(data)]}
<1> DEFINE items == Items(b, params, format, values, w)
           data == write_all(b, params, format, values, w)
           n == Len(format)
<1>1. items \in Seq(Seq(Byte)) /\ Len(items) = n /\ n \in Nat
  BY BinaryItems
<1>2. data = concat(items)
  BY Zenon DEF write_all, Items
<1> HIDE DEF items, data
<1>3. PICK f : Joins(f, items, Byte) /\ data = f[Len(items)]
  BY <1>1, <1>2, ConcatDef, Zenon
<1>4. data \in Seq(Byte)
  <2>1. f \in [0..Len(items) -> Seq(Byte)] /\ Len(items) \in 0..Len(items)
    BY <1>1, <1>3 DEF Joins
  <2> QED
    BY <2>1, <1>3, Zenon
<1> DEFINE Step(x, k) == ReadStep(b, params[format[k]].base, data, x, r)
           Def(g) == g = [k \in 0..n |-> IF k = 0 THEN [values |-> << >>, ix |-> 0]
                                         ELSE Step(g[k - 1], k)]
           done == CHOOSE g : Def(g)
           h == [k \in 0..n |-> Done(values, format, f, k)]
<1>5. ASSUME NEW k \in 1..n PROVE Step(h[k - 1], k) = h[k]
  <2>1. k - 1 \in 0..n /\ k \in 0..n
    BY <1>1
  <2>2. h[k - 1] = Done(values, format, f, k - 1) /\ h[k] = Done(values, format, f, k)
    BY <2>1, Zenon
  <2> HIDE DEF h
  <2>3. Step(Done(values, format, f, k - 1), k) = Done(values, format, f, k)
    <3>1. Written(b, w, r, params, format, values, f, data)
      BY <1>1, <1>3, Zenon DEF items, Written
    <3> QED
      BY <3>1, ReadNext
  <2> HIDE DEF Step
  <2> QED
    BY <2>2, <2>3, Zenon
<1>6. h[0] = [values |-> << >>, ix |-> 0] /\ 0 \in 0..n
  <2>1. f[0] = << >>
    BY <1>3, Zenon DEF Joins
  <2>2. [j \in 1..0 |-> values[format[j]]] = << >>
    OBVIOUS
  <2> QED
    BY <2>1, <2>2, <1>1 DEF Done
<1>7. \A k \in 0..n : k = 0 \/ (k # 0 /\ k \in 1..n)
  BY <1>1
<1>8. h = [k \in 0..n |-> h[k]]
  BY Zenon
<1> HIDE DEF h, Step
<1>9. Def(h)
  BY <1>5, <1>6, <1>7, <1>8, ZenonT(30)
<1>10. Def(done)
  <2> HIDE DEF Def
  <2> QED
    BY <1>9, Zenon
<1>11. read_all(b, params, format, data, r) = {done[n]}
  BY Zenon DEF read_all, BINARY_BASED_PROTOCOL, Step, ReadStep
<1> HIDE DEF done
<1>12. done[0] = h[0] /\ \A k \in 1..n : done[k] = Step(done[k - 1], k)
  <2>1. ASSUME NEW k \in 1..n PROVE done[k] = Step(done[k - 1], k)
    <3>1. k \in 0..n /\ k # 0
      BY <1>1
    <3> QED
      BY <3>1, <1>10, Zenon
  <2>2. done[0] = h[0]
    BY <1>6, <1>10, ZenonT(30)
  <2> QED
    BY <2>1, <2>2, ZenonT(30)
<1>13. Agree(done, h, n)
  BY <1>5, <1>12, ZenonT(30) DEF Agree
<1>14. done[n] = h[n] /\ h[n] = Done(values, format, f, n)
  <2>1. SameUpto(done, h, n)
    <3> HIDE DEF n
    <3> QED
      BY <1>1, <1>13, SameFromZero, Zenon
  <2>2. n \in 0..n
    BY <1>1
  <2> QED
    BY <2>1, <2>2, ZenonT(30) DEF SameUpto, h
<1>15. Done(values, format, f, n) = [values |-> pick(values, format), ix |-> Len(data)]
  BY <1>1, <1>3, ZenonT(30) DEF Done, pick
<1> QED
  BY <1>4, <1>11, <1>14, <1>15, ZenonT(30) DEF data

-------------------------------------------------------------------------------
(* The tokens of a text.                                                   *)

\* one or more tokens of pieces of P
Tokens(P) == {t \in Seq(Seq(P)) : Len(t) > 0}

\* split() sees one more piece
SplitStep(t, p) ==
    IF p = <<Blank>> THEN Append(t, << >>) ELSE [t EXCEPT ![Len(t)] = Append(@, p)]

Splits(f, s, P) ==
    /\ f \in [0..Len(s) -> Tokens(P)] /\ f[0] = <<<< >>>>
    /\ \A i \in 1..Len(s) : f[i] = SplitStep(f[i - 1], s[i])

LEMMA SplitStepType ==
    ASSUME NEW P, NEW t \in Tokens(P), NEW p \in P
    PROVE  SplitStep(t, p) \in Tokens(P)
<1>1. t \in Seq(Seq(P)) /\ Len(t) \in Nat /\ Len(t) > 0
  BY DEF Tokens
<1>2. CASE p = <<Blank>>
  <2>1. << >> \in Seq(P)
    OBVIOUS
  <2>2. Append(t, << >>) \in Seq(Seq(P)) /\ Len(Append(t, << >>)) = Len(t) + 1
    BY <2>1, <1>1
  <2> QED
    BY <2>2, <1>1, <1>2 DEF SplitStep, Tokens
<1>3. CASE p # <<Blank>>
  <2>1. t[Len(t)] \in Seq(P) /\ Append(t[Len(t)], p) \in Seq(P)
    BY <1>1
  <2>2. SplitStep(t, p) = [t EXCEPT ![Len(t)] = Append(t[Len(t)], p)]
    BY <1>3, Zenon DEF SplitStep
  <2>3. ASSUME NEW a \in Seq(P)
        PROVE  [t EXCEPT ![Len(t)] = a] \in Seq(Seq(P)) /\ Len([t EXCEPT ![Len(t)] = a]) = Len(t)
    BY <1>1
  <2> QED
    BY <2>1, <2>2, <2>3, <1>1, ZenonT(30) DEF Tokens
<1> QED
  BY <1>2, <1>3, ZenonT(30)

LEMMA SplitDef ==
    ASSUME NEW P, NEW s \in Seq(P)
    PROVE  \E f : Splits(f, s, P) /\ split(s) = f[Len(s)]
<1> DEFINE w == Len(s)
           V == Tokens(P)
           v0 == <<<< >>>>
           step == [i \in Nat |-> [x \in V |-> IF i \in 1..w THEN SplitStep(x, s[i]) ELSE x]]
           Def(f) == f = [i \in 0..w |-> IF i = 0 THEN v0 ELSE SplitStep(f[i - 1], s[i])]
           upto == CHOOSE f : Def(f)
<1>1. v0 \in V
  <2>1. << >> \in Seq(P)
    OBVIOUS
  <2> QED
    BY <2>1 DEF Tokens
<1>2. w \in Nat /\ \A i \in 1..w : s[i] \in P
  OBVIOUS
<1>3. \A i \in 1..w : \A x \in V : SplitStep(x, s[i]) \in V
  BY <1>2, SplitStepType, Zenon
<1>4. split(s) = upto[w]
  BY Zenon DEF split, SplitStep
<1> HIDE DEF w, V, v0
<1>5. step \in [Nat -> [V -> V]]
  BY <1>3, Zenon
<1>6. ASSUME NEW i \in 1..w
      PROVE  i \in Nat /\ \A x \in V : step[i][x] = SplitStep(x, s[i])
  <2>1. i \in Nat
    BY <1>2
  <2> QED
    BY <2>1, Zenon
<1> HIDE DEF step
<1>7. PICK h \in [0..w -> V] : Stepwise(h, v0, step, w)
  BY <1>1, <1>2, <1>5, RecursionExists, Zenon
<1>8. Def(h)
  <2>1. \A i \in 1..w : i # 0 /\ i - 1 \in 0..w /\ h[i - 1] \in V
    BY <1>2, <1>7
  <2>2. h[0] = v0 /\ \A i \in 1..w : h[i] = step[i][h[i - 1]]
    BY <1>7, Zenon DEF Stepwise
  <2>3. \A i \in 1..w : h[i] = SplitStep(h[i - 1], s[i])
    BY <2>1, <2>2, <1>6, Zenon
  <2>4. \A i \in 0..w : i = 0 \/ i \in 1..w
    BY <1>2
  <2> QED
    BY <2>1, <2>2, <2>3, <2>4, <1>7, ZenonT(30)
<1>9. Def(upto)
  <2> HIDE DEF Def
  <2> QED
    BY <1>8, Zenon
<1> HIDE DEF upto
<1>10. upto = [i \in 0..w |-> upto[i]] /\ upto[0] = v0
  BY <1>2, <1>9
<1>11. ASSUME NEW i \in 1..w
       PROVE  upto[i] = SplitStep(upto[i - 1], s[i])
  <2>1. i \in 0..w /\ i # 0
    BY <1>2
  <2> QED
    BY <2>1, <1>9, Zenon
<1>12. upto \in [0..w -> V]
  <2>1. \A i \in 1..w : upto[i - 1] \in V => upto[i] = step[i][upto[i - 1]]
    BY <1>6, <1>11, ZenonT(30)
  <2>2. Follows(upto, V, v0, step, w)
    BY <2>1, <1>10, Zenon DEF Follows
  <2> QED
    BY <2>2, <1>1, <1>2, <1>5, FollowsStep, Zenon
<1>13. Splits(upto, s, P)
  BY <1>10, <1>11, <1>12, ZenonT(30) DEF w, V, v0, Splits
<1> QED
  BY <1>4, <1>13, Zenon DEF w

LEMMA SplitEmpty == split(<< >>) = Append(<< >>, << >>)
<1>1. << >> \in Seq({}) /\ Len(<< >>) = 0
  OBVIOUS
<1>2. PICK f : Splits(f, << >>, {}) /\ split(<< >>) = f[Len(<< >>)]
  BY <1>1, SplitDef, Zenon
<1>3. split(<< >>) = <<<< >>>>
  BY <1>1, <1>2, Zenon DEF Splits
<1> QED
  BY <1>3

LEMMA SplitAppend ==
    ASSUME NEW P, NEW s \in Seq(P), NEW p \in P
    PROVE  split(s) \in Tokens(P) /\ split(Append(s, p)) = SplitStep(split(s), p)
<1> DEFINE n == Len(s)
           t == Append(s, p)
<1>1. /\ n \in Nat /\ t \in Seq(P) /\ Len(t) = n + 1 /\ t[n + 1] = p
      /\ \A i \in 1..n : t[i] = s[i]
  OBVIOUS
<1> HIDE DEF t
<1>2. PICK f : Splits(f, s, P) /\ split(s) = f[n]
  BY SplitDef, Zenon
<1>3. PICK g : Splits(g, t, P) /\ split(t) = g[Len(t)]
  BY <1>1, SplitDef, Zenon
<1>4. /\ f \in [0..n -> Tokens(P)] /\ f[0] = <<<< >>>>
      /\ \A i \in 1..n : f[i] = SplitStep(f[i - 1], s[i])
  BY <1>2, Zenon DEF Splits
<1> HIDE DEF n
<1>5. g[0] = <<<< >>>> /\ \A i \in 1..n + 1 : g[i] = SplitStep(g[i - 1], t[i])
  BY <1>1, <1>3, Zenon DEF Splits
<1>6. Agree(g, f, n)
  <2>1. ASSUME NEW i \in 1..n, g[i - 1] = f[i - 1] PROVE g[i] = f[i]
    <3>1. i \in 1..n + 1
      BY <1>1
    <3> QED
      BY <3>1, <2>1, <1>1, <1>4, <1>5, ZenonT(30)
  <2> QED
    BY <2>1, <1>4, <1>5, ZenonT(30) DEF Agree
<1>7. SameUpto(g, f, n)
  BY <1>1, <1>6, SameFromZero, Zenon
<1>8. g[n] = f[n] /\ n \in 0..n
  BY <1>1, <1>7 DEF SameUpto
<1>9. g[n + 1] = SplitStep(g[n], p)
  <2>1. n + 1 \in 1..n + 1 /\ (n + 1) - 1 = n
    BY <1>1
  <2> QED
    BY <2>1, <1>1, <1>5, ZenonT(30)
<1>10. split(s) \in Tokens(P)
  BY <1>2, <1>4, <1>8, Zenon
<1> QED
  BY <1>1, <1>2, <1>3, <1>8, <1>9, <1>10, ZenonT(30) DEF t

\* a piece that is no blank becomes part of the last token
LEMMA SplitPiece ==
    ASSUME NEW P, NEW front \in Seq(Seq(P)), NEW x \in Seq(P), NEW p \in P, p # <<Blank>>
    PROVE  SplitStep(Append(front, x), p) = Append(front, Append(x, p))
<1> DEFINE t == Append(front, x)
           n == Len(front)
           y == Append(x, p)
           u == Append(front, y)
<1>1. n \in Nat /\ y \in Seq(P)
  OBVIOUS
<1>2. /\ t \in Seq(Seq(P)) /\ Len(t) = n + 1 /\ t[n + 1] = x /\ \A i \in 1..n : t[i] = front[i]
  OBVIOUS
<1>3. SplitStep(t, p) = [t EXCEPT ![n + 1] = y]
  <2> HIDE DEF t
  <2> QED
    BY <1>2, Zenon DEF SplitStep
<1> HIDE DEF y
<1>4. /\ u \in Seq(Seq(P)) /\ Len(u) = n + 1 /\ u[n + 1] = y /\ \A i \in 1..n : u[i] = front[i]
  BY <1>1
<1> HIDE DEF t, u, n
<1>5. /\ [t EXCEPT ![n + 1] = y] \in Seq(Seq(P)) /\ Len([t EXCEPT ![n + 1] = y]) = n + 1
      /\ \A i \in 1..n + 1 : [t EXCEPT ![n + 1] = y][i] = IF i = n + 1 THEN y ELSE t[i]
  BY <1>1, <1>2
<1>6. \A i \in 1..n + 1 : i = n + 1 \/ (i # n + 1 /\ i \in 1..n)
  BY <1>1
<1>7. [t EXCEPT ![n + 1] = y] = u
  <2> DEFINE z == [t EXCEPT ![n + 1] = y]
  <2>1. z \in Seq(Seq(P)) /\ Len(z) = n + 1 /\ \A i \in 1..n + 1 : z[i] = u[i]
    BY <1>2, <1>4, <1>5, <1>6, Zenon
  <2> HIDE DEF z
  <2>2. z = u
    BY <2>1, <1>4, SameElements, Zenon
  <2> QED
    BY <2>2, Zenon DEF z
<1> QED
  BY <1>3, <1>7, Zenon DEF t, u, n, y

LEMMA ConcatAppend ==
    ASSUME NEW P, NEW s \in Seq(P), NEW x \in Seq(P), NEW p \in P
    PROVE  s \o Append(x, p) = Append(s \o x, p) /\ s \o x \in Seq(P)
<1> DEFINE u == s \o Append(x, p)
           v == Append(s \o x, p)
<1>1. Append(x, p) \in Seq(P) /\ s \o x \in Seq(P)
  OBVIOUS
<1>2. u \in Seq(P) /\ v \in Seq(P) /\ Len(u) = Len(v)
  BY <1>1
<1>3. ASSUME NEW i \in 1..Len(u) PROVE u[i] = v[i]
  BY <1>1
<1>4. u = v
  <2> HIDE DEF u, v
  <2> QED
    BY <1>2, <1>3, SameElements, Zenon
<1> QED
  BY <1>1, <1>4, Zenon

\* behind a blank, pieces that are no blanks are one token
LEMMA SplitWord ==
    ASSUME NEW P, NEW s \in Seq(P), NEW front \in Seq(Seq(P)), split(s) = Append(front, << >>),
           NEW t \in Seq(P), \A i \in 1..Len(t) : t[i] # <<Blank>>
    PROVE  split(s \o t) = Append(front, t)
<1> DEFINE T == {m \in Nat : m <= Len(t) =>
                               split(s \o SubSeq(t, 1, m)) = Append(front, SubSeq(t, 1, m))}
<1>1. Len(t) \in Nat
  OBVIOUS
<1>2. 0 \in T
  <2>1. SubSeq(t, 1, 0) = << >> /\ s \o << >> = s
    OBVIOUS
  <2> QED
    BY <2>1, Zenon
<1>3. ASSUME NEW m \in T PROVE m + 1 \in T
  <2> SUFFICES ASSUME m + 1 <= Len(t)
               PROVE  split(s \o SubSeq(t, 1, m + 1)) = Append(front, SubSeq(t, 1, m + 1))
    OBVIOUS
  <2> DEFINE x == SubSeq(t, 1, m)
             p == t[m + 1]
  <2>1. m \in Nat /\ m <= Len(t) /\ m + 1 \in 1..Len(t)
    BY <1>1
  <2>2. split(s \o x) = Append(front, x)
    BY <2>1, Zenon
  <2>3. x \in Seq(P) /\ p \in P /\ p # <<Blank>>
    BY <2>1
  <2>4. SubSeq(t, 1, m + 1) = Append(x, p)
    BY <2>1
  <2> HIDE DEF x, p
  <2>5. s \o Append(x, p) = Append(s \o x, p) /\ s \o x \in Seq(P)
    BY <2>3, ConcatAppend, Zenon
  <2>6. split(Append(s \o x, p)) = SplitStep(split(s \o x), p)
    BY <2>3, <2>5, SplitAppend, Zenon
  <2>7. SplitStep(Append(front, x), p) = Append(front, Append(x, p))
    BY <2>3, SplitPiece
  <2> QED
    BY <2>2, <2>4, <2>5, <2>6, <2>7, Zenon
<1> HIDE DEF T
<1>4. T = Nat
  <2>1. T \in SUBSET Nat
    BY Zenon DEF T
  <2> QED
    BY <2>1, <1>2, <1>3, InductiveSet, Zenon
<1>5. SubSeq(t, 1, Len(t)) = t
  OBVIOUS
<1>6. Len(t) \in T /\ Len(t) <= Len(t)
  BY <1>1, <1>4
<1>7. split(s \o SubSeq(t, 1, Len(t))) = Append(front, SubSeq(t, 1, Len(t)))
  BY <1>6, Zenon DEF T
<1> QED
  BY <1>5, <1>7, Zenon

\* a character is a space or not, digits are none
LEMMA Spacing ==
    /\ is_space(<<Blank>>) /\ ~is_space(<<One>>)
    /\ \A c : c \notin Spaces => ~is_space(<<c>>)
    /\ \A v : Len(v) # 1 => ~is_space(v)
<1>1. Blank \in Spaces /\ One \notin Spaces
  BY MarshallingAssumption, Zenon
<1>2. ASSUME NEW c, c \notin Spaces PROVE ~is_space(<<c>>)
  BY <1>2 DEF is_space
<1>3. ASSUME NEW v, Len(v) # 1 PROVE ~is_space(v)
  BY <1>3 DEF is_space
<1> QED
  BY <1>1, <1>2, <1>3, Zenon DEF is_space

\* t does not begin with a space
Unspaced(t) == t = << >> \/ ~is_space(t[1])

\* ltrim() takes away the delimiter in front of the first token, and nothing else when
\* that does not begin with a space
LEMMA LtrimDelimiter ==
    ASSUME NEW P, <<Blank>> \in P, NEW g \in Seq(P), Unspaced(g)
    PROVE  ltrim(<<<<Blank>>>> \o g) = g
<1> DEFINE s == <<<<Blank>>>> \o g
           n == Len(g)
           rest == {i \in 1..Len(s) : ~is_space(s[i])}
<1>1. /\ n \in Nat /\ s \in Seq(P) /\ Len(s) = n + 1 /\ s[1] = <<Blank>>
      /\ \A i \in 1..n : s[i + 1] = g[i]
  OBVIOUS
<1>2. ltrim(s) = IF rest = {} THEN << >> ELSE SubSeq(s, Min(rest), Len(s))
  BY Zenon DEF ltrim
<1>0. is_space(s[1])
  BY <1>1, Spacing, Zenon
<1> HIDE DEF s
<1>3. CASE g = << >>
  <2>1. Len(s) = 1
    BY <1>1, <1>3
  <2>2. rest = {}
    BY <2>1, <1>0
  <2> QED
    BY <2>2, <1>2, <1>3, ZenonT(30) DEF s
<1>4. CASE g # << >>
  <2>1. n > 0 /\ 1 \in 1..n
    BY <1>4
  <2>2. s[2] = g[1] /\ ~is_space(g[1])
    <3>1. 1 + 1 = 2
      OBVIOUS
    <3> QED
      BY <2>1, <3>1, <1>1, <1>4, ZenonT(30) DEF Unspaced
  <2>3. 2 \in rest
    BY <2>1, <2>2, <1>1
  <2>4. \A i \in rest : i \in Int /\ 2 <= i
    BY <1>0, <1>1
  <2> HIDE DEF rest
  <2>5. Min(rest) = 2
    <3>1. \A x \in rest : (\A y \in rest : x <= y) => x = 2
      BY <2>3, <2>4
    <3>2. \A y \in rest : 2 <= y
      BY <2>4, Zenon
    <3> QED
      BY <2>3, <3>1, <3>2, Zenon DEF Min
  <2>6. ltrim(s) = SubSeq(s, 2, n + 1)
    BY <1>1, <1>2, <2>3, <2>5, ZenonT(30)
  <2>7. SubSeq(s, 2, n + 1) = g
    <3> DEFINE u == SubSeq(s, 2, n + 1)
    <3>1. u \in Seq(P) /\ Len(u) = n /\ \A i \in 1..n : u[i] = s[i + 1]
      BY <1>1
    <3> HIDE DEF u, n
    <3>2. \A i \in 1..Len(u) : u[i] = g[i]
      BY <3>1, <1>1, Zenon
    <3>3. u = g
      BY <3>1, <3>2, SameElements, Zenon DEF n
    <3> QED
      BY <3>3, Zenon DEF u
  <2> QED
    BY <2>6, <2>7, Zenon DEF s
<1> QED
  BY <1>3, <1>4, ZenonT(30)

\* tokens without a blank, and each with a delimiter in front
Words(T, P) ==
    /\ <<Blank>> \in P /\ T \in Seq(Seq(P))
    /\ \A k \in 1..Len(T) : \A i \in 1..Len(T[k]) : T[k][i] # <<Blank>>

Delimited(T) == [k \in 1..Len(T) |-> <<<<Blank>>>> \o T[k]]

\* x holds the first k tokens of T, with their delimiters
Holds(x, T, k, P) ==
    \E g \in Seq(P) :
       /\ x = <<<<Blank>>>> \o g /\ split(g) = SubSeq(T, 1, k)
       /\ Begins(T[1], g) /\ (k = 1 => g = T[1])

LEMMA HoldsFirst ==
    ASSUME NEW P, NEW T, Words(T, P), Len(T) > 0
    PROVE  Holds(<<<<Blank>>>> \o T[1], T, 1, P)
<1>1. T \in Seq(Seq(P)) /\ 1 \in 1..Len(T) /\ \A i \in 1..Len(T[1]) : T[1][i] # <<Blank>>
  BY DEF Words
<1>2. T[1] \in Seq(P) /\ << >> \in Seq(P) /\ << >> \in Seq(Seq(P))
  BY <1>1
<1>3. split(<< >> \o T[1]) = Append(<< >>, T[1])
  BY <1>1, <1>2, SplitEmpty, SplitWord, Zenon
<1>4. << >> \o T[1] = T[1]
  BY <1>2
<1>5. SubSeq(T, 1, 1) = Append(<< >>, T[1])
  <2> DEFINE a == T[1]
             u == SubSeq(T, 1, 1)
  <2>1. u \in Seq(Seq(P)) /\ Len(u) = 1 /\ u[1] = a
    BY <1>1
  <2>2. a \in Seq(P)
    BY <1>2, Zenon
  <2> HIDE DEF a, u
  <2>3. u = <<a>>
    BY <2>1, <2>2
  <2> QED
    BY <2>3 DEF a, u
<1>6. Begins(T[1], T[1])
  BY <1>2 DEF Begins
<1>7. T[1] \in Seq(P) /\ split(T[1]) = SubSeq(T, 1, 1)
  BY <1>2, <1>3, <1>4, <1>5, ZenonT(30)
<1> QED
  BY <1>6, <1>7, Zenon DEF Holds

Regrouped(d, g, t) == (d \o g) \o (d \o t) = d \o ((g \o d) \o t)

LEMMA Regroup ==
    ASSUME NEW P, NEW d \in Seq(P), NEW g \in Seq(P), NEW t \in Seq(P)
    PROVE  Regrouped(d, g, t)
<1> DEFINE u == (d \o g) \o (d \o t)
           v == d \o ((g \o d) \o t)
<1>1. d \o g \in Seq(P) /\ d \o t \in Seq(P) /\ g \o d \in Seq(P)
  OBVIOUS
<1>2. (g \o d) \o t \in Seq(P)
  BY <1>1
<1>3. u \in Seq(P) /\ v \in Seq(P) /\ Len(u) = Len(v)
  BY <1>1, <1>2
<1>4. ASSUME NEW i \in 1..Len(u) PROVE u[i] = v[i]
  BY <1>1, <1>2
<1>5. u = v
  <2> HIDE DEF u, v
  <2> QED
    BY <1>3, <1>4, SameElements, ZenonT(30)
<1> QED
  BY <1>5, Zenon DEF Regrouped

LEMMA HoldsNext ==
    ASSUME NEW P, NEW T, Words(T, P), NEW k \in Nat, 0 < k, k + 1 <= Len(T),
           NEW x, Holds(x, T, k, P)
    PROVE  Holds(x \o (<<<<Blank>>>> \o T[k + 1]), T, k + 1, P)
<1> DEFINE d == <<<<Blank>>>>
           t == T[k + 1]
           fr == SubSeq(T, 1, k)
<1>1. PICK g \in Seq(P) : x = d \o g /\ split(g) = fr /\ Begins(T[1], g)
  BY Zenon DEF Holds
<1>2. /\ T \in Seq(Seq(P)) /\ <<Blank>> \in P /\ k + 1 \in 1..Len(T) /\ 1 \in 1..Len(T)
      /\ \A i \in 1..Len(t) : t[i] # <<Blank>>
  BY DEF Words
<1>3. t \in Seq(P) /\ T[1] \in Seq(P) /\ d \in Seq(P)
  BY <1>2
<1>4. fr \in Seq(Seq(P)) /\ SubSeq(T, 1, k + 1) = Append(fr, t)
  BY <1>2
<1>5. Append(g, <<Blank>>) = g \o d
  BY <1>2
<1> DEFINE h == g \o d
<1> HIDE DEF t, fr, d
<1>6. h \in Seq(P) /\ h \o t \in Seq(P)
  BY <1>3
<1>7. split(h) = Append(fr, << >>)
  <2>1. split(Append(g, <<Blank>>)) = SplitStep(fr, <<Blank>>)
    BY <1>1, <1>2, SplitAppend, ZenonT(30)
  <2> QED
    BY <2>1, <1>5, Zenon DEF SplitStep
<1>8. split(h \o t) = Append(fr, t)
  <2> HIDE DEF h
  <2> QED
    BY <1>2, <1>3, <1>4, <1>6, <1>7, SplitWord, ZenonT(30)
<1>9. x \o (d \o t) = d \o (h \o t)
  <2>1. Regrouped(d, g, t)
    BY <1>3, Regroup, Zenon
  <2> QED
    BY <2>1, <1>1, Zenon DEF Regrouped
<1>10. Begins(T[1], h \o t)
  <2>1. Begins(T[1], h)
    BY <1>1, <1>3, BeginsConcat, ZenonT(30)
  <2> QED
    BY <2>1, <1>3, <1>6, BeginsConcat, Zenon
<1>11. k + 1 # 1
  OBVIOUS
<1> HIDE DEF h
<1> QED
  BY <1>4, <1>6, <1>8, <1>9, <1>10, <1>11, Zenon DEF Holds, d, t

\* split() finds the tokens again
LEMMA TextTokens ==
    ASSUME NEW P, NEW T, Words(T, P), Len(T) > 0, Len(T) > 1 => T[1] # << >>,
           Unspaced(T[1])
    PROVE  split(ltrim(concat(Delimited(T)))) = T
<1> DEFINE items == Delimited(T)
           n == Len(T)
<1>1. /\ n \in Nat /\ n > 0 /\ T \in Seq(Seq(P)) /\ <<Blank>> \in P
      /\ \A k \in 1..n : T[k] \in Seq(P)
  BY DEF Words
<1>2. /\ items \in Seq(Seq(P)) /\ Len(items) = n
      /\ \A k \in 1..n : items[k] = <<<<Blank>>>> \o T[k]
  <2> HIDE DEF n
  <2>1. \A k \in 1..n : <<<<Blank>>>> \o T[k] \in Seq(P)
    BY <1>1
  <2> DEFINE e == [k \in 1..n |-> <<<<Blank>>>> \o T[k]]
  <2>2. items = e
    BY Zenon DEF n, Delimited
  <2>3. e \in [1..n -> Seq(P)] /\ \A k \in 1..n : e[k] = <<<<Blank>>>> \o T[k]
    BY <2>1, Zenon
  <2> HIDE DEF e
  <2>4. e \in Seq(Seq(P)) /\ Len(e) = n
    BY <2>3, <1>1
  <2> QED
    BY <2>2, <2>3, <2>4, ZenonT(30)
<1> HIDE DEF items
<1>3. PICK f : Joins(f, items, P) /\ concat(items) = f[n]
  BY <1>2, ConcatDef, Zenon
<1>4. /\ f[0] = << >>
      /\ \A k \in 1..n : f[k] = f[k - 1] \o (<<<<Blank>>>> \o T[k])
  <2>1. f[0] = << >> /\ \A k \in 1..n : f[k] = f[k - 1] \o items[k]
    BY <1>2, <1>3, Zenon DEF Joins
  <2> QED
    BY <2>1, <1>2, Zenon
<1> HIDE DEF n
<1> DEFINE S == {m \in Nat : m + 1 <= n => Holds(f[m + 1], T, m + 1, P)}
<1>5. 0 \in S
  <2>1. 0 + 1 = 1 /\ 1 \in 1..n /\ 1 - 1 = 0
    BY <1>1
  <2>2. f[1] = << >> \o (<<<<Blank>>>> \o T[1])
    BY <2>1, <1>4, Zenon
  <2>3. f[1] = <<<<Blank>>>> \o T[1]
    BY <2>1, <2>2, <1>1
  <2>4. Holds(f[1], T, 1, P)
    BY <2>3, <1>1, HoldsFirst, ZenonT(30) DEF n
  <2> QED
    BY <2>1, <2>4, ZenonT(30)
<1>6. ASSUME NEW m \in S PROVE m + 1 \in S
  <2> SUFFICES ASSUME m + 1 \in Nat, (m + 1) + 1 <= n
               PROVE  Holds(f[(m + 1) + 1], T, (m + 1) + 1, P)
    OBVIOUS
  <2> DEFINE k == m + 1
  <2>1. k \in Nat /\ 0 < k /\ k <= n /\ k + 1 <= n /\ k + 1 \in 1..n /\ (k + 1) - 1 = k
    BY <1>1
  <2>2. Holds(f[k], T, k, P)
    BY <2>1, Zenon
  <2> HIDE DEF k
  <2>3. f[k + 1] = f[k] \o (<<<<Blank>>>> \o T[k + 1])
    BY <2>1, <1>4, Zenon
  <2>4. Holds(f[k] \o (<<<<Blank>>>> \o T[k + 1]), T, k + 1, P)
    BY <2>1, <2>2, HoldsNext, Zenon DEF n
  <2> QED
    BY <2>3, <2>4, Zenon DEF k
<1> HIDE DEF S
<1>7. S = Nat
  <2>1. S \in SUBSET Nat
    BY Zenon DEF S
  <2> QED
    BY <2>1, <1>5, <1>6, InductiveSet, Zenon
<1>8. Holds(f[n], T, n, P)
  <2>1. n - 1 \in Nat /\ (n - 1) + 1 = n /\ n <= n
    BY <1>1
  <2>2. n - 1 \in S
    BY <2>1, <1>7, Zenon
  <2> QED
    BY <2>1, <2>2, Zenon DEF S
<1>9. PICK g \in Seq(P) : /\ f[n] = <<<<Blank>>>> \o g /\ split(g) = SubSeq(T, 1, n)
                          /\ Begins(T[1], g) /\ (n = 1 => g = T[1])
  BY <1>8, Zenon DEF Holds
<1>10. Unspaced(g)
  <2>1. CASE T[1] = << >>
    <3>1. n = 1
      BY <2>1, <1>1 DEF n
    <3> QED
      BY <3>1, <2>1, <1>9, Zenon DEF Unspaced
  <2>2. CASE T[1] # << >>
    <3>1. 1 \in 1..n /\ T[1] \in Seq(P)
      BY <1>1
    <3>2. 1 \in 1..Len(T[1])
      BY <3>1, <2>2
    <3>3. g[1] = T[1][1]
      BY <3>2, <1>9, Zenon DEF Begins
    <3> QED
      BY <2>2, <3>3, Zenon DEF Unspaced
  <2> QED
    BY <2>1, <2>2, Zenon
<1>11. ltrim(<<<<Blank>>>> \o g) = g
  BY <1>1, <1>10, LtrimDelimiter, Zenon
<1>12. SubSeq(T, 1, n) = T
  BY <1>1 DEF n
<1> QED
  BY <1>3, <1>9, <1>11, <1>12, Zenon DEF items

Joined(x, y, z) == z = x \o y

\* what is in front of the first item
LEMMA ConcatCons ==
    ASSUME NEW P, NEW x \in Seq(P), NEW items \in Seq(Seq(P)), NEW all \in Seq(Seq(P)),
           Len(all) = Len(items) + 1, all[1] = x, \A k \in 1..Len(items) : all[k + 1] = items[k]
    PROVE  concat(all) = x \o concat(items)
<1> DEFINE n == Len(items)
<1>1. n \in Nat /\ Len(all) = n + 1
  OBVIOUS
<1>2. PICK f : Joins(f, items, P) /\ concat(items) = f[n]
  BY ConcatDef, Zenon
<1>3. PICK g : Joins(g, all, P) /\ concat(all) = g[n + 1]
  BY <1>1, ConcatDef, Zenon
<1>4. /\ f \in [0..n -> Seq(P)] /\ f[0] = << >> /\ \A k \in 1..n : f[k] = f[k - 1] \o items[k]
  BY <1>2, Zenon DEF Joins
<1>5. /\ g[0] = << >> /\ \A k \in 1..n + 1 : g[k] = g[k - 1] \o all[k]
  BY <1>1, <1>3, ZenonT(30) DEF Joins
<1>6. \A k \in 1..n : items[k] \in Seq(P) /\ all[k + 1] = items[k]
  OBVIOUS
<1> HIDE DEF n
<1> DEFINE S == {m \in Nat : m <= n => Joined(x, f[m], g[m + 1])}
<1>7. 0 \in S
  <2>1. 1 \in 1..n + 1 /\ 1 - 1 = 0 /\ 0 + 1 = 1
    BY <1>1
  <2>2. g[1] = << >> \o x
    BY <2>1, <1>5, Zenon
  <2>3. << >> \o x = x /\ x \o << >> = x
    OBVIOUS
  <2> QED
    BY <2>1, <2>2, <2>3, <1>4, Zenon DEF Joined
<1>8. ASSUME NEW m \in S PROVE m + 1 \in S
  <2> SUFFICES ASSUME m + 1 <= n PROVE Joined(x, f[m + 1], g[(m + 1) + 1])
    OBVIOUS
  <2> DEFINE k == m + 1
  <2>1. k \in 1..n /\ k - 1 = m /\ m \in 0..n /\ k + 1 \in 1..n + 1 /\ (k + 1) - 1 = k /\ m <= n
    BY <1>1
  <2>2. g[k] = x \o f[m]
    BY <2>1, Zenon DEF Joined
  <2> HIDE DEF k
  <2>3. f[m] \in Seq(P) /\ items[k] \in Seq(P) /\ f[k] = f[m] \o items[k]
    BY <2>1, <1>4, <1>6, Zenon
  <2>4. g[k + 1] = g[k] \o items[k]
    BY <2>1, <1>5, <1>6, Zenon
  <2>5. Associates(x, f[m], items[k])
    BY <2>3, Associative, Zenon
  <2> QED
    BY <2>2, <2>3, <2>4, <2>5, Zenon DEF Joined, Associates, k
<1> HIDE DEF S
<1>9. S = Nat
  <2>1. S \in SUBSET Nat
    BY Zenon DEF S
  <2> QED
    BY <2>1, <1>7, <1>8, InductiveSet, Zenon
<1>10. Joined(x, f[n], g[n + 1])
  <2>1. n \in S /\ n <= n
    BY <1>1, <1>9
  <2> QED
    BY <2>1, Zenon DEF S
<1> QED
  BY <1>2, <1>3, <1>10, Zenon DEF Joined

-------------------------------------------------------------------------------
(* A value printed and read again.                                         *)

LEMMA ConcatLetters ==
    ASSUME NEW S, NEW v \in Seq(S), NEW letters, letters = [k \in 1..Len(v) |-> <<v[k]>>]
    PROVE  letters \in Seq(Seq(S)) /\ Len(letters) = Len(v) /\ concat(letters) = v
<1> DEFINE n == Len(v)
<1>1. n \in Nat /\ \A k \in 1..n : v[k] \in S /\ <<v[k]>> \in Seq(S)
  OBVIOUS
<1>2. letters \in [1..n -> Seq(S)] /\ \A k \in 1..n : letters[k] = <<v[k]>>
  BY <1>1, ZenonT(30)
<1>3. letters \in Seq(Seq(S)) /\ Len(letters) = n
  <2> HIDE DEF n
  <2> QED
    BY <1>1, <1>2
<1>4. PICK f : Joins(f, letters, S) /\ concat(letters) = f[n]
  BY <1>3, ConcatDef, Zenon
<1>5. f[0] = << >> /\ \A k \in 1..n : f[k] = f[k - 1] \o <<v[k]>>
  <2>1. f[0] = << >> /\ \A k \in 1..n : f[k] = f[k - 1] \o letters[k]
    BY <1>3, <1>4, Zenon DEF Joins
  <2> QED
    BY <2>1, <1>2, Zenon
<1> DEFINE T == {m \in Nat : m <= n => f[m] = SubSeq(v, 1, m)}
<1>6. 0 \in T
  <2>1. SubSeq(v, 1, 0) = << >>
    OBVIOUS
  <2> QED
    BY <2>1, <1>5, Zenon
<1>7. ASSUME NEW m \in T PROVE m + 1 \in T
  <2> SUFFICES ASSUME m + 1 <= n PROVE f[m + 1] = SubSeq(v, 1, m + 1)
    OBVIOUS
  <2>1. m \in Nat /\ m <= n /\ m + 1 \in 1..n /\ (m + 1) - 1 = m
    BY <1>1
  <2>2. f[m + 1] = SubSeq(v, 1, m) \o <<v[m + 1]>>
    BY <2>1, <1>5, Zenon
  <2>3. SubSeq(v, 1, m + 1) = Append(SubSeq(v, 1, m), v[m + 1])
    BY <2>1
  <2>4. SubSeq(v, 1, m) \in Seq(S) /\ v[m + 1] \in S
    BY <2>1
  <2>5. \A a \in Seq(S) : \A x \in S : Append(a, x) = a \o <<x>>
    OBVIOUS
  <2> QED
    BY <2>2, <2>3, <2>4, <2>5, ZenonT(30)
<1> HIDE DEF T
<1>8. T = Nat
  <2>1. T \in SUBSET Nat
    BY Zenon DEF T
  <2> QED
    BY <2>1, <1>6, <1>7, InductiveSet, Zenon
<1>9. n \in T /\ n <= n
  BY <1>1, <1>8
<1>10. f[n] = SubSeq(v, 1, n)
  BY <1>9, ZenonT(30) DEF T
<1>11. SubSeq(v, 1, n) = v
  OBVIOUS
<1> QED
  BY <1>3, <1>4, <1>10, <1>11, ZenonT(30)

LEMMA FirstChar ==
    ASSUME NEW c \in Byte
    PROVE  first_char(<<<<c>>>>) = c
<1> DEFINE v == <<c>>
           letters == <<<<c>>>>
<1>1. v \in Seq(Byte) /\ Len(v) = 1 /\ v[1] = c
  OBVIOUS
<1>2. letters = [k \in 1..1 |-> <<v[k]>>]
  OBVIOUS
<1> HIDE DEF v, letters
<1>3. concat(letters) = v
  BY <1>1, <1>2, ConcatLetters, ZenonT(30)
<1>4. Head(v \o <<0>>) = c
  BY <1>1
<1> QED
  BY <1>3, <1>4, ZenonT(30) DEF first_char, letters

\* what print() makes of v has no blank in it, and read_text() reads v from it
Printed(base, v) ==
    /\ print(base, v) \in Seq(Seq(Byte))
    /\ \A i \in 1..Len(print(base, v)) : print(base, v)[i] # <<Blank>>
    /\ v # << >> => print(base, v) # << >>
    /\ read_text(base, print(base, v)) = {v}

LEMMA PrintedWhole ==
    ASSUME NEW base, NEW v \in Seq(Byte), Len(v) > 0, print(base, v) = <<v>>, v # <<Blank>>,
           read_text(base, <<v>>) = {v}
    PROVE  Printed(base, v)
<1>1. <<v>> \in Seq(Seq(Byte)) /\ Len(<<v>>) = 1 /\ <<v>>[1] = v /\ <<v>> # << >>
  OBVIOUS
<1>2. \A i \in 1..1 : i = 1
  OBVIOUS
<1> QED
  BY <1>1, <1>2, ZenonT(30) DEF Printed

LEMMA PrintRead ==
    ASSUME NEW base \in Bases \ {"blob"}, NEW v \in Values(base), carries_value(base, v)
    PROVE  Printed(base, v)
<1>1. /\ v \in Seq(Byte) /\ Len(v) \in Nat
      /\ base \notin blobs => base \in DOMAIN sizeof /\ Len(v) = sizeof[base]
  BY ValueBytes, ZenonT(30)
<1>2. base = "string" \/ base \notin blobs
  BY Zenon DEF blobs
<1>3. CASE base = "string"
  <2> DEFINE p == [k \in 1..Len(v) |-> <<v[k]>>]
  <2>1. print(base, v) = p
    BY <1>3, ZenonT(30) DEF print
  <2>2. p \in Seq(Seq(Byte)) /\ Len(p) = Len(v) /\ concat(p) = v
    BY <1>1, ConcatLetters, ZenonT(30)
  <2>3. \A k \in 1..Len(v) : v[k] # Blank
    BY <1>3, ZenonT(30) DEF carries_value, characters
  <2>4. \A k \in 1..Len(v) : p[k] # <<Blank>>
    BY <2>3, ZenonT(30)
  <2> HIDE DEF p
  <2>5. v # << >> => p # << >>
    BY <2>2, <1>1
  <2>6. read_text(base, p) = {v}
    BY <2>2, <1>3, ZenonT(30) DEF read_text
  <2> QED
    BY <2>1, <2>2, <2>4, <2>5, <2>6, ZenonT(30) DEF Printed
<1>4. CASE base = "bool"
  <2>1. v = <<1>>
    <3>1. v # <<0>>
      BY <1>4, ZenonT(30) DEF carries_value, characters
    <3> QED
      BY <3>1, <1>4, MarshallingAssumption, Zenon
  <2>2. One \in Byte /\ One # Blank /\ One # 0 /\ One % 2 = 1
    BY Bytes, Zenon
  <2>3. print(base, v) = <<<<One>>>>
    <3>1. v # <<0>>
      BY <2>1
    <3> QED
      BY <3>1, <1>4, ZenonT(30) DEF print
  <2>4. getAs("bool", <<One>>) = {<<1>>}
    BY <2>2, ZenonT(30) DEF getAs
  <2>5. read_text(base, <<<<One>>>>) = {v}
    BY <2>1, <2>2, <2>4, <1>4, FirstChar, ZenonT(30) DEF read_text
  <2> DEFINE a == <<One>>
             p == <<a>>
  <2>6. p \in Seq(Seq(Byte)) /\ Len(p) = 1 /\ p[1] # <<Blank>> /\ p # << >>
    <3>1. a \in Seq(Byte) /\ a # <<Blank>>
      BY <2>2
    <3> HIDE DEF a
    <3> QED
      BY <3>1
  <2> HIDE DEF p
  <2>7. \A i \in 1..1 : i = 1
    OBVIOUS
  <2> QED
    BY <2>3, <2>5, <2>6, <2>7, ZenonT(30) DEF Printed, p, a
<1>5. CASE base \in {"char", "uchar"}
  <2>1. Len(v) = 1
    BY <1>1, <1>5, Sizes, Zenon DEF blobs
  <2>2. v = <<v[1]>> /\ v[1] \in Byte
    BY <2>1, <1>1
  <2>3. v[1] # Blank
    BY <2>1, <1>5 DEF carries_value, characters
  <2>4. print(base, v) = <<v>>
    BY <1>5, ZenonT(30) DEF print
  <2>5. v # <<Blank>>
    BY <2>3
  <2>6. first_char(<<v>>) = v[1]
    BY <2>2, FirstChar, ZenonT(30)
  <2>7. read_text(base, <<v>>) = {v}
    BY <2>2, <2>6, <1>5, ZenonT(30) DEF read_text, getAs
  <2> QED
    BY <2>1, <2>4, <2>5, <2>7, <1>1, PrintedWhole
<1>6. CASE base \notin {"string", "bool", "char", "uchar"}
  <2>1. base \in DOMAIN sizeof /\ Len(v) = sizeof[base] /\ Len(v) > 0 /\ Len(v) # 1
    <3>1. base \in DOMAIN sizeof /\ Len(v) = sizeof[base]
      BY <1>1, <1>2, <1>6, ZenonT(30)
    <3>2. sizeof[base] \in Nat \ {0} /\ sizeof[base] # 1
      BY <3>1, <1>6, Sizes, ZenonT(30)
    <3> QED
      BY <3>1, <3>2
  <2>2. print(base, v) = <<v>>
    <3>1. CASE base \in {"float", "double"}
      <4>1. v[Len(v)] = 0
        BY <3>1, ZenonT(30) DEF carries_value, characters
      <4>2. [v EXCEPT ![Len(v)] = 0] = v
        BY <4>1, <1>1
      <4> QED
        BY <4>2, <3>1, ZenonT(30) DEF print
    <3>2. CASE base \notin {"float", "double"}
      BY <3>2, <1>6, ZenonT(30) DEF print
    <3> QED
      BY <3>1, <3>2, ZenonT(30)
  <2>3. v # <<Blank>>
    BY <2>1
  <2>4. Len(<<v>>) = 1 /\ <<v>>[1] = v
    BY Zenon
  <2>5. read_text(base, <<v>>) = {v}
    BY <2>1, <2>4, <1>6, Zenon DEF read_text
  <2> QED
    BY <2>1, <2>2, <2>3, <2>5, <1>1, PrintedWhole, Zenon
<1> QED
  BY <1>3, <1>4, <1>5, <1>6, ZenonT(30)

\* the text of a value begins with a space only when the value does
LEMMA PrintUnspaced ==
    ASSUME NEW base \in Bases \ {"blob"}, NEW v \in Values(base), carries_value(base, v),
           ~spaced(base, v)
    PROVE  Unspaced(print(base, v))
<1>1. /\ v \in Seq(Byte) /\ Len(v) \in Nat
      /\ base \notin blobs => base \in DOMAIN sizeof /\ Len(v) = sizeof[base]
  BY ValueBytes, ZenonT(30)
<1>2. \A x : <<x>>[1] = x
  OBVIOUS
<1>3. CASE base = "string"
  <2> DEFINE p == [k \in 1..Len(v) |-> <<v[k]>>]
  <2>1. print(base, v) = p
    BY <1>3, ZenonT(30) DEF print
  <2>2. CASE v = << >>
    <3>1. Len(v) = 0
      BY <2>2
    <3>2. p = << >>
      BY <3>1
    <3> QED
      BY <3>2, <2>1, Zenon DEF Unspaced
  <2>3. CASE v # << >>
    <3>1. 1 \in 1..Len(v)
      BY <2>3, <1>1
    <3>2. p[1] = <<v[1]>>
      BY <3>1, Zenon
    <3>3. v[1] \notin Spaces
      BY <2>3, <1>3, ZenonT(30) DEF spaced, characters
    <3>4. ~is_space(<<v[1]>>)
      BY <3>3, Spacing, Zenon
    <3> QED
      BY <3>2, <3>4, <2>1, Zenon DEF Unspaced
  <2> QED
    BY <2>2, <2>3, Zenon
<1>4. CASE base = "bool"
  <2>1. print(base, v) = <<<<One>>>>
    BY <1>4, ZenonT(30) DEF print, carries_value, characters
  <2> QED
    BY <2>1, <1>2, Spacing, ZenonT(30) DEF Unspaced
<1>5. CASE base \in {"char", "uchar"}
  <2>1. Len(v) = 1
    BY <1>1, <1>5, Sizes, Zenon DEF blobs
  <2>2. v = <<v[1]>> /\ v # << >>
    BY <2>1, <1>1
  <2>3. v[1] \notin Spaces
    BY <2>2, <1>5, ZenonT(30) DEF spaced, characters
  <2>4. ~is_space(v)
    BY <2>2, <2>3, Spacing, Zenon
  <2>5. print(base, v) = <<v>>
    BY <1>5, ZenonT(30) DEF print
  <2> QED
    BY <2>4, <2>5, <1>2, ZenonT(30) DEF Unspaced
<1>6. CASE base \notin {"string", "bool", "char", "uchar"}
  <2>1. Len(v) # 1
    <3>1. base \in DOMAIN sizeof /\ Len(v) = sizeof[base]
      BY <1>1, <1>6, ZenonT(30) DEF blobs
    <3> QED
      BY <3>1, <1>6, Sizes, ZenonT(30)
  <2>2. print(base, v) = <<v>>
    <3>1. CASE base \in {"float", "double"}
      <4>1. v[Len(v)] = 0
        BY <3>1, ZenonT(30) DEF carries_value, characters
      <4>2. [v EXCEPT ![Len(v)] = 0] = v
        BY <4>1, <1>1
      <4> QED
        BY <4>2, <3>1, ZenonT(30) DEF print
    <3>2. CASE base \notin {"float", "double"}
      BY <3>2, <1>6, ZenonT(30) DEF print
    <3> QED
      BY <3>1, <3>2, ZenonT(30)
  <2> QED
    BY <2>1, <2>2, <1>2, Spacing, ZenonT(30) DEF Unspaced
<1> QED
  BY <1>3, <1>4, <1>5, <1>6, ZenonT(30)

-------------------------------------------------------------------------------
(* Values one after another in the text protocol.                          *)

LEMMA OneOfEachSingle ==
    ASSUME NEW n \in Nat, NEW sets, Len(sets) = n, NEW x, x = [k \in 1..n |-> x[k]],
           \A k \in 1..n : sets[k] = {x[k]}
    PROVE  OneOfEach(sets) = {x}
<1> DEFINE U == UNION {sets[i] : i \in 1..Len(sets)}
<1>1. \A k \in 1..n : x[k] \in U
  BY Zenon
<1>2. OneOfEach(sets) = {f \in [1..n -> U] : \A i \in 1..n : f[i] \in sets[i]}
  BY Zenon DEF OneOfEach
<1> HIDE DEF U
<1>3. x \in [1..n -> U] /\ \A i \in 1..n : x[i] \in sets[i]
  BY <1>1, Zenon
<1>4. ASSUME NEW f \in [1..n -> U], \A i \in 1..n : f[i] \in sets[i] PROVE f = x
  <2>1. \A i \in 1..n : f[i] = x[i]
    BY <1>4, Zenon
  <2> QED
    BY <2>1, Zenon
<1> QED
  BY <1>2, <1>3, <1>4

\* a value at the positions of format is one the text protocol can carry
Carried(params, format, values) ==
    \A k \in 1..Len(format) :
       /\ params[format[k]].base # "blob"
       /\ carries_value(params[format[k]].base, values[format[k]])

Texts(params, format, values) ==
    [k \in 1..Len(format) |-> print(params[format[k]].base, values[format[k]])]

\* data begins with the tokens of the values
Starts(data, params, format, values) ==
    \A k \in 1..Len(format) :
       k \in 1..Len(data) /\ data[k] = print(params[format[k]].base, values[format[k]])

LEMMA TextRead ==
    ASSUME NEW b, ~b.binary, NEW params, NEW format, NEW values, NEW data, NEW order,
           Typed(params, format, values), Carried(params, format, values),
           Starts(data, params, format, values)
    PROVE  read_all(b, params, format, data, order) =
              {[values |-> pick(values, format), ix |-> Len(format)]}
<1> DEFINE n == Len(format)
           token(k) == IF k \in 1..Len(data) THEN read_text(params[format[k]].base, data[k])
                       ELSE Values(params[format[k]].base)
           sets == [k \in 1..n |-> token(k)]
           x == pick(values, format)
<1>1. n \in Nat
  BY DEF Typed
<1>2. x = [k \in 1..n |-> values[format[k]]]
  BY Zenon DEF pick
<1>3. ASSUME NEW k \in 1..n PROVE token(k) = {values[format[k]]}
  <2> DEFINE base == params[format[k]].base
             v == values[format[k]]
  <2>1. base \in Bases \ {"blob"} /\ v \in Values(base) /\ carries_value(base, v)
    BY Zenon DEF Typed, Carried
  <2>2. k \in 1..Len(data) /\ data[k] = print(base, v)
    BY Zenon DEF Starts
  <2> HIDE DEF base, v
  <2>3. read_text(base, print(base, v)) = {v}
    BY <2>1, PrintRead, ZenonT(30) DEF Printed
  <2> QED
    BY <2>2, <2>3, Zenon DEF base, v
<1>4. read_all(b, params, format, data, order) = [values : OneOfEach(sets), ix : {n}]
  BY Zenon DEF read_all, BINARY_BASED_PROTOCOL
<1> HIDE DEF n, token, x
<1>5. Len(sets) = n /\ \A k \in 1..n : sets[k] = {x[k]}
  BY <1>1, <1>2, <1>3
<1>6. x = [k \in 1..n |-> x[k]]
  BY <1>2, Zenon
<1> HIDE DEF sets
<1>7. OneOfEach(sets) = {x}
  BY <1>1, <1>5, <1>6, OneOfEachSingle
<1>8. [values : {x}, ix : {n}] = {[values |-> x, ix |-> n]}
  <2>1. [values |-> x, ix |-> n] \in [values : {x}, ix : {n}]
    BY Zenon
  <2>2. \A z \in [values : {x}, ix : {n}] : z = [values |-> x, ix |-> n]
    OBVIOUS
  <2> QED
    BY <2>1, <2>2, Zenon
<1> QED
  BY <1>4, <1>7, <1>8, ZenonT(30) DEF n, x

\* what write_all() writes are the tokens of the values, a delimiter before each
LEMMA TextItems ==
    ASSUME NEW b, ~b.binary, NEW params, NEW format, NEW values, NEW order,
           Typed(params, format, values)
    PROVE  write_all(b, params, format, values, order) =
              concat(Delimited(Texts(params, format, values)))
<1> DEFINE n == Len(format)
           T == Texts(params, format, values)
           p(k) == print(params[format[k]].base, values[format[k]])
<1>1. n \in Nat
  BY DEF Typed
<1>2. T = [k \in 1..n |-> p(k)]
  BY Zenon DEF Texts
<1>3. write_all(b, params, format, values, order) = concat([k \in 1..n |-> <<<<Blank>>>> \o p(k)])
  BY Zenon DEF write_all, write, write_text, BINARY_BASED_PROTOCOL
<1> HIDE DEF n, T, p
<1>4. Len(T) = n /\ \A k \in 1..n : T[k] = p(k)
  BY <1>1, <1>2
<1>5. Delimited(T) = [k \in 1..n |-> <<<<Blank>>>> \o p(k)]
  BY <1>4, Zenon DEF Delimited
<1> QED
  BY <1>3, <1>5, Zenon DEF T

LEMMA TextWords ==
    ASSUME NEW params, NEW format, NEW values,
           Typed(params, format, values), Carried(params, format, values)
    PROVE  LET T == Texts(params, format, values)
           IN  /\ Words(T, Seq(Byte)) /\ Len(T) = Len(format) /\ Len(format) \in Nat
               /\ Starts(T, params, format, values)
               /\ \A k \in 1..Len(format) :
                     /\ values[format[k]] # << >> => T[k] # << >>
                     /\ ~spaced(params[format[k]].base, values[format[k]]) => Unspaced(T[k])
<1> DEFINE n == Len(format)
           T == Texts(params, format, values)
           p(k) == print(params[format[k]].base, values[format[k]])
<1>1. n \in Nat
  BY DEF Typed
<1>2. T = [k \in 1..n |-> p(k)]
  BY Zenon DEF Texts
<1>3. ASSUME NEW k \in 1..n
      PROVE  /\ p(k) \in Seq(Seq(Byte)) /\ \A i \in 1..Len(p(k)) : p(k)[i] # <<Blank>>
             /\ values[format[k]] # << >> => p(k) # << >>
             /\ ~spaced(params[format[k]].base, values[format[k]]) => Unspaced(p(k))
  <2> DEFINE base == params[format[k]].base
             v == values[format[k]]
  <2>1. base \in Bases \ {"blob"} /\ v \in Values(base) /\ carries_value(base, v)
    BY Zenon DEF Typed, Carried
  <2> HIDE DEF base, v
  <2>2. Printed(base, v)
    BY <2>1, PrintRead, ZenonT(30)
  <2>3. ~spaced(base, v) => Unspaced(print(base, v))
    BY <2>1, PrintUnspaced, ZenonT(30)
  <2> QED
    BY <2>2, <2>3, Zenon DEF Printed, base, v
<1> HIDE DEF n, T, p
<1>4. Len(T) = n /\ \A k \in 1..n : T[k] = p(k)
  BY <1>1, <1>2
<1>5. T \in Seq(Seq(Seq(Byte)))
  BY <1>1, <1>2, <1>3
<1>6. <<Blank>> \in Seq(Byte)
  <2>1. Blank \in Byte
    BY Bytes, Zenon
  <2> QED
    BY <2>1
<1>7. Words(T, Seq(Byte))
  BY <1>3, <1>4, <1>5, <1>6, Zenon DEF Words
<1>8. Starts(T, params, format, values)
  BY <1>1, <1>4, Zenon DEF Starts, n, p
<1> QED
  BY <1>1, <1>3, <1>4, <1>7, <1>8, ZenonT(30) DEF n, T

-------------------------------------------------------------------------------
(* A request, from the caller to the function.                             *)

\* a build, and the signature of a function it compiles
Compiled(b, s) ==
    b \in Builds /\ s \in Signatures /\ \A i \in 1..Len(s.params) : valid(b, s.params[i])

LEMMA SignatureTypes ==
    ASSUME NEW b, NEW s, Compiled(b, s)
    PROVE  /\ Len(s.params) \in Nat /\ Len(s.params) > 0 /\ s.ret \in return_types
           /\ \A i \in 1..Len(s.params) :
                 /\ s.params[i].base \in Bases
                 /\ ~b.binary => s.params[i].base # "blob"
<1>1. /\ s.params \in Seq([base : Bases, by : {"value", "&", "const &", "*", "const *"}])
      /\ s.params # << >> /\ s.ret \in return_types
  BY MarshallingAssumption, Zenon DEF Compiled, Bases
<1>2. /\ Len(s.params) \in Nat /\ Len(s.params) > 0
      /\ \A i \in 1..Len(s.params) : s.params[i].base \in Bases
  <2> DEFINE P == [base : Bases, by : {"value", "&", "const &", "*", "const *"}]
             params == s.params
  <2>1. \A p \in P : p.base \in Bases
    BY Zenon
  <2>2. params \in Seq(P) /\ params # << >>
    BY <1>1, Zenon
  <2> HIDE DEF P, params
  <2>3. Len(params) \in Nat /\ Len(params) > 0 /\ \A i \in 1..Len(params) : params[i] \in P
    BY <2>2
  <2> QED
    BY <2>1, <2>3, Zenon DEF params
<1>3. ASSUME NEW i \in 1..Len(s.params), ~b.binary PROVE s.params[i].base # "blob"
  <2>1. valid(b, s.params[i])
    BY Zenon DEF Compiled
  <2>2. "blob" \notin DOMAIN sizeof
    BY Zenon DEF sizeof
  <2> QED
    BY <2>1, <2>2, <1>3, Zenon DEF valid, BINARY_BASED_PROTOCOL
<1> QED
  BY <1>1, <1>2, <1>3, Zenon

LEMMA OneOfEachType ==
    ASSUME NEW n \in Nat, NEW sets, Len(sets) = n, NEW f \in OneOfEach(sets)
    PROVE  f = [i \in 1..n |-> f[i]] /\ \A i \in 1..n : f[i] \in sets[i]
BY Zenon DEF OneOfEach

\* the values of all parameters
LEMMA ArgumentsTyped ==
    ASSUME NEW b, NEW s, Compiled(b, s), NEW a \in Assignments(s.params)
    PROVE  LET format == in_args_format(s.params)
           IN  /\ Len(format) = Len(s.params) /\ \A k \in 1..Len(s.params) : format[k] = k
               /\ Typed(s.params, format, a)
               /\ pick(a, format) = a /\ Len(a) = Len(s.params)
<1> DEFINE n == Len(s.params)
           format == in_args_format(s.params)
           sets == [i \in 1..n |-> Values(s.params[i].base)]
<1>1. n \in Nat /\ \A i \in 1..n : s.params[i].base \in Bases
  BY SignatureTypes, Zenon
<1>2. format = [i \in 1..n |-> i]
  BY Zenon DEF in_args_format
<1>3. a \in OneOfEach(sets)
  BY Zenon DEF Assignments
<1> HIDE DEF n, format
<1>4. Len(sets) = n
  BY <1>1
<1>5. a = [i \in 1..n |-> a[i]] /\ \A i \in 1..n : a[i] \in Values(s.params[i].base)
  <2>1. a = [i \in 1..n |-> a[i]] /\ \A i \in 1..n : a[i] \in sets[i]
    <3> HIDE DEF sets
    <3> QED
      BY <1>1, <1>3, <1>4, OneOfEachType, ZenonT(30)
  <2> QED
    BY <2>1, Zenon
<1>6. format \in Seq(Nat) /\ Len(format) = n /\ \A k \in 1..n : format[k] = k
  BY <1>1, <1>2
<1>7. Typed(s.params, format, a)
  BY <1>1, <1>5, <1>6, ZenonT(30) DEF Typed
<1>8. pick(a, format) = a
  <2>1. pick(a, format) = [k \in 1..n |-> a[format[k]]]
    BY <1>6, Zenon DEF pick
  <2>2. \A k \in 1..n : a[format[k]] = a[k]
    BY <1>6, ZenonT(30)
  <2> QED
    BY <2>1, <2>2, <1>5, ZenonT(30)
<1>9. Len(a) = n
  BY <1>1, <1>5
<1> QED
  BY <1>6, <1>7, <1>8, <1>9, ZenonT(30) DEF n, format

\* data is what the skeleton makes of a request with the values a, and it reads them
Sent(b, s, a, data) ==
    /\ a \in Assignments(s.params)
    /\ data = unmarshall_args_in(b, serialize_args(b, s.params, a))

Received(a, data, vec) == vec.values = a /\ vec.ix = Len(data)

\* the function gets what the caller passed
LEMMA RequestRead ==
    ASSUME NEW b, NEW s, Compiled(b, s), NEW a, carries(b, bases(s.params), a),
           NEW data, Sent(b, s, a, data), NEW vec \in deserialize_in_args(b, s.params, data)
    PROVE  Received(a, data, vec)
<1>0. a \in Assignments(s.params) /\ data = unmarshall_args_in(b, serialize_args(b, s.params, a))
  BY Zenon DEF Sent
<1> SUFFICES vec.values = a /\ vec.ix = Len(data)
  BY Zenon DEF Received
<1> DEFINE n == Len(s.params)
           format == in_args_format(s.params)
           w == client_order(b)
           r == server_order(b)
           text == write_all(b, s.params, format, a, w)
<1>1. b \in Builds /\ n \in Nat /\ n > 0
  BY SignatureTypes, Zenon DEF Compiled
<1>2. /\ Len(format) = n /\ \A k \in 1..n : format[k] = k
      /\ Typed(s.params, format, a) /\ pick(a, format) = a /\ Len(a) = n
  BY <1>0, ArgumentsTyped, ZenonT(30)
<1>3. vec \in read_all(b, s.params, format, data, r)
  BY Zenon DEF deserialize_in_args
<1>4. CASE b.binary
  <2>1. Ends(b, w, r)
    BY Zenon DEF Ends
  <2>2. data = text
    BY <1>0, <1>4, ZenonT(30) DEF unmarshall_args_in, serialize_args, message_value, BINARY_BASED_PROTOCOL
  <2> HIDE DEF text, format, w, r
  <2>3. read_all(b, s.params, format, text, r) = {[values |-> pick(a, format), ix |-> Len(text)]}
    BY <2>1, <1>1, <1>2, <1>4, BinaryRoundTrip DEF text
  <2>4. vec = [values |-> a, ix |-> Len(data)]
    BY <2>2, <2>3, <1>2, <1>3, Zenon
  <2> QED
    BY <2>4, ZenonT(30)
<1>5. CASE ~b.binary
  <2> DEFINE T == Texts(s.params, format, a)
  <2>1. data = split(ltrim(text))
    BY <1>0, <1>5, ZenonT(30) DEF unmarshall_args_in, serialize_args, message_value, BINARY_BASED_PROTOCOL
  <2>2. /\ \A i \in 1..n : carries_value(s.params[i].base, a[i])
        /\ n > 1 => a[1] # << >>
        /\ n > 0 => ~spaced(bases(s.params)[1], a[1])
    <3>1. \A i \in 1..n : bases(s.params)[i] = s.params[i].base
      BY Zenon DEF bases
    <3>2. /\ \A i \in 1..Len(a) : carries_value(bases(s.params)[i], a[i])
          /\ Len(a) > 1 => a[1] # << >>
          /\ Len(a) > 0 => ~spaced(bases(s.params)[1], a[1])
      BY <1>5, ZenonT(30) DEF carries, BINARY_BASED_PROTOCOL
    <3> QED
      BY <3>1, <3>2, <1>2, ZenonT(30)
  <2>3. Carried(s.params, format, a)
    BY <2>2, <1>2, <1>5, SignatureTypes, ZenonT(30) DEF Carried
  <2>4. text = concat(Delimited(T))
    BY <1>2, <1>5, TextItems
  <2>5. /\ Words(T, Seq(Byte)) /\ Len(T) = n /\ Starts(T, s.params, format, a)
        /\ \A k \in 1..n :
              /\ a[format[k]] # << >> => T[k] # << >>
              /\ ~spaced(s.params[format[k]].base, a[format[k]]) => Unspaced(T[k])
    BY <2>3, <1>2, TextWords
  <2> HIDE DEF T, format, text, w, r
  <2>6. data = T
    <3>1. 1 \in 1..n /\ format[1] = 1
      BY <1>1, <1>2
    <3>2. Len(T) > 0 /\ (Len(T) > 1 => T[1] # << >>)
      BY <3>1, <2>2, <2>5, <1>1, ZenonT(30)
    <3>3. bases(s.params)[1] = s.params[1].base
      BY <3>1, Zenon DEF bases, n
    <3>4. Unspaced(T[1])
      BY <3>1, <3>3, <2>2, <2>5, <1>1, ZenonT(30)
    <3> QED
      BY <3>2, <3>4, <2>1, <2>4, <2>5, TextTokens, Zenon
  <2>7. read_all(b, s.params, format, data, r) = {[values |-> pick(a, format), ix |-> Len(format)]}
    BY <2>3, <2>5, <2>6, <1>2, <1>5, TextRead
  <2>8. vec = [values |-> a, ix |-> n]
    BY <2>7, <1>2, <1>3, Zenon
  <2> QED
    BY <2>5, <2>6, <2>8, ZenonT(30)
<1> QED
  BY <1>4, <1>5, ZenonT(30)

-------------------------------------------------------------------------------
(* A reply, from the function to the caller.                               *)

\* what the function has returned, and left in the parameters it may assign
Answer(s, r, left) ==
    /\ r \in Returns(s.ret)
    /\ \A i \in 1..Len(s.params) : is_out(s.params[i]) => left[i] \in Values(s.params[i].base)

LEMMA AnswerTyped ==
    ASSUME NEW b, NEW s, Compiled(b, s), NEW r, NEW left, Answer(s, r, left)
    PROVE  LET format == out_args_format(s.params)
           IN  /\ Lists(format, s.params, {"&", "*"}, Len(s.params))
               /\ Typed(s.params, format, left)
               /\ Len(format) \in Nat /\ \A k \in 1..Len(format) : format[k] \in 1..Len(s.params)
<1> DEFINE n == Len(s.params)
           format == out_args_format(s.params)
<1>1. n \in Nat /\ \A i \in 1..n : s.params[i].base \in Bases
  BY SignatureTypes, ZenonT(30)
<1>2. Lists(format, s.params, {"&", "*"}, n)
  BY <1>1, PositionsList, ZenonT(30) DEF out_args_format
<1> HIDE DEF format
<1>3. format \in Seq(1..n) /\ \A k \in 1..Len(format) : is_out(s.params[format[k]])
  BY <1>2, Zenon DEF Lists, is_out
<1> HIDE DEF n
<1>4. /\ Len(format) \in Nat /\ format \in Seq(Nat)
      /\ \A k \in 1..Len(format) : format[k] \in 1..n
  BY <1>1, <1>3
<1>5. \A i \in 1..n : is_out(s.params[i]) => left[i] \in Values(s.params[i].base)
  BY Zenon DEF Answer, n
<1>6. Typed(s.params, format, left)
  BY <1>1, <1>3, <1>4, <1>5, Zenon DEF Typed
<1> QED
  BY <1>2, <1>4, <1>6, ZenonT(30) DEF format, n

\* the parts of a concatenation
LEMMA Parts ==
    ASSUME NEW P, NEW x \in Seq(P), NEW y \in Seq(P)
    PROVE  /\ SubSeq(x \o y, 1, Len(x)) = x
           /\ SubSeq(x \o y, Len(x) + 1, Len(x \o y)) = y
<1> DEFINE z == x \o y
           u == SubSeq(z, 1, Len(x))
           v == SubSeq(z, Len(x) + 1, Len(z))
<1>1. /\ z \in Seq(P) /\ Len(z) = Len(x) + Len(y) /\ Len(x) \in Nat /\ Len(y) \in Nat
      /\ \A i \in 1..Len(x) : z[i] = x[i]
      /\ \A i \in 1..Len(y) : z[Len(x) + i] = y[i]
  OBVIOUS
<1> HIDE DEF z
<1>2. u \in Seq(P) /\ Len(u) = Len(x) /\ \A i \in 1..Len(x) : u[i] = x[i]
  BY <1>1
<1>3. v \in Seq(P) /\ Len(v) = Len(y) /\ \A i \in 1..Len(y) : v[i] = y[i]
  BY <1>1
<1> HIDE DEF u, v
<1>4. u = x /\ v = y
  BY <1>2, <1>3, SameElements, ZenonT(30)
<1> QED
  BY <1>4, Zenon DEF u, v, z

\* the caller reads what the function answered
Understood(b, s, r, left, value) ==
    LET d == unmarshall_out_args(b, s.ret, value)
    IN  /\ deserialize_r(b, s.ret, d.r_arg) = {r}
        /\ \A done \in read_all(b, s.params, out_args_format(s.params), d.out_args,
                                client_order(b)) :
              done.values = pick(left, out_args_format(s.params))

LEMMA BinaryReply ==
    ASSUME NEW b, NEW s, Compiled(b, s), b.binary, NEW r, NEW left, Answer(s, r, left)
    PROVE  Understood(b, s, r, left, reply_value(b, s, r, left))
<1> DEFINE format == out_args_format(s.params)
           w == server_order(b)
           c == client_order(b)
           x == serialize_r(b, s.ret, r)
           y == write_all(b, s.params, format, left, w)
           value == reply_value(b, s, r, left)
           d == unmarshall_out_args(b, s.ret, value)
<1>1. b \in Builds /\ s.ret \in return_types /\ Ends(b, w, c)
  BY SignatureTypes, Zenon DEF Compiled, Ends
<1>2. Typed(s.params, format, left)
  BY AnswerTyped, Zenon
<1>3. /\ y \in Seq(Byte)
      /\ read_all(b, s.params, format, y, c) = {[values |-> pick(left, format), ix |-> Len(y)]}
  <2> HIDE DEF format, w, c
  <2> QED
    BY <1>1, <1>2, BinaryRoundTrip
<1>4. value = x \o y
  BY Zenon DEF reply_value, message_value, serialize_out_args, BINARY_BASED_PROTOCOL
<1>5. /\ x \in Seq(Byte) /\ Len(x) = r_size(b, s.ret)
      /\ deserialize_r(b, s.ret, x) = {r}
  <2>1. CASE s.ret = "void"
    <3>1. r = << >>
      BY <2>1, ZenonT(30) DEF Answer, Returns
    <3> QED
      BY <3>1, <2>1 DEF serialize_r, r_size, deserialize_r
  <2>2. CASE s.ret # "void"
    <3>1. s.ret \in DOMAIN sizeof /\ s.ret \notin blobs /\ s.ret \in Bases
      BY <1>1, <2>2, Sizes, ZenonT(30) DEF Bases
    <3>2. r \in Values(s.ret)
      BY <2>2, Zenon DEF Answer, Returns
    <3>3. r \in Seq(Byte) /\ Len(r) = sizeof[s.ret]
      BY <3>1, <3>2, ValueBytes, ZenonT(30)
    <3>4. x = write_scalar(b, r, w)
      BY <3>1, <2>2, ZenonT(30) DEF serialize_r, write, BINARY_BASED_PROTOCOL
    <3>5. x \in Seq(Byte) /\ Len(x) = Len(r)
      <4> HIDE DEF w, x
      <4> QED
        BY <3>3, <3>4, <1>1, ScalarBytes, ZenonT(30)
    <3>6. At(x, 0, x)
      <4> HIDE DEF x
      <4> QED
        BY <3>5 DEF At
    <3>7. read_scalar(b, x, 0, Len(r), c) = r
      <4> HIDE DEF x, c, w
      <4> QED
        BY <3>3, <3>4, <3>5, <3>6, <1>1, ReadScalar
    <3> QED
      BY <3>3, <3>5, <3>7, <2>2, ZenonT(30) DEF r_size, deserialize_r, BINARY_BASED_PROTOCOL
  <2> QED
    BY <2>1, <2>2, Zenon
<1>6. d.r_arg = SubSeq(value, 1, Len(x)) /\ d.out_args = SubSeq(value, Len(x) + 1, Len(value))
  BY <1>5, Zenon DEF unmarshall_out_args, BINARY_BASED_PROTOCOL
<1> HIDE DEF x, y
<1>7. d.r_arg = x /\ d.out_args = y
  BY <1>3, <1>4, <1>5, <1>6, Parts
<1> HIDE DEF d
<1>8. deserialize_r(b, s.ret, d.r_arg) = {r}
  BY <1>5, <1>7, Zenon
<1>9. \A done \in read_all(b, s.params, format, d.out_args, c) : done.values = pick(left, format)
  BY <1>3, <1>7
<1> QED
  BY <1>8, <1>9, Zenon DEF Understood, d

LEMMA CarriedResults ==
    ASSUME NEW b, NEW s, Compiled(b, s), ~b.binary, NEW msg, Answer(s, msg.r, msg.left),
           carries(b, results(s, msg).types, results(s, msg).values)
    PROVE  LET format == out_args_format(s.params)
           IN  /\ Carried(s.params, format, msg.left)
               /\ s.ret # "void" => carries_value(s.ret, msg.r)
               /\ s.ret = "void" /\ Len(format) > 1 => msg.left[format[1]] # << >>
               /\ s.ret = "void" /\ Len(format) > 0 =>
                     ~spaced(s.params[format[1]].base, msg.left[format[1]])
<1> DEFINE format == out_args_format(s.params)
           m == Len(format)
           t == pick(bases(s.params), format)
           v == pick(msg.left, format)
           types == (IF s.ret = "void" THEN << >> ELSE <<s.ret>>) \o t
           values == (IF s.ret = "void" THEN << >> ELSE <<msg.r>>) \o v
<1>1. /\ m \in Nat /\ \A k \in 1..m : format[k] \in 1..Len(s.params)
      /\ \A i \in 1..Len(s.params) : s.params[i].base # "blob"
  BY AnswerTyped, SignatureTypes, ZenonT(30)
<1>2. /\ \A i \in 1..Len(values) : carries_value(types[i], values[i])
      /\ Len(values) > 1 => values[1] # << >>
      /\ Len(values) > 0 => ~spaced(types[1], values[1])
  <2>1. results(s, msg).types = types /\ results(s, msg).values = values
    BY Zenon DEF results
  <2> HIDE DEF types, values
  <2> QED
    BY <2>1, ZenonT(30) DEF carries, BINARY_BASED_PROTOCOL
<1>3. \A k \in 1..m : bases(s.params)[format[k]] = s.params[format[k]].base
  BY <1>1, Zenon DEF bases
<1>4. t = [k \in 1..m |-> bases(s.params)[format[k]]] /\ v = [k \in 1..m |-> msg.left[format[k]]]
  BY Zenon DEF pick
<1> DEFINE S == {t[k] : k \in 1..m} \cup {v[k] : k \in 1..m} \cup {msg.r, s.ret}
<1> HIDE DEF m, t, v
<1>5. t \in Seq(S) /\ Len(t) = m /\ v \in Seq(S) /\ Len(v) = m /\ msg.r \in S /\ s.ret \in S
  <2>1. msg.r \in S /\ s.ret \in S /\ \A k \in 1..m : t[k] \in S /\ v[k] \in S
    BY Zenon
  <2> HIDE DEF S
  <2>2. t \in [1..m -> S] /\ v \in [1..m -> S]
    BY <2>1, <1>4, ZenonT(30)
  <2>3. \A e \in [1..m -> S] : e \in Seq(S) /\ Len(e) = m
    BY <1>1
  <2> QED
    BY <2>1, <2>2, <2>3, ZenonT(30)
<1>6. \A k \in 1..m : t[k] = s.params[format[k]].base /\ v[k] = msg.left[format[k]]
  BY <1>3, <1>4, ZenonT(30)
<1> HIDE DEF format, S
<1>7. CASE s.ret = "void"
  <2>1. types = t /\ values = v
    BY <1>5, <1>7
  <2>2. \A k \in 1..m : carries_value(t[k], v[k])
    BY <2>1, <1>2, <1>5, ZenonT(30)
  <2>3. Carried(s.params, format, msg.left)
    BY <2>2, <1>1, <1>6, ZenonT(30) DEF Carried, m
  <2>4. m > 1 => msg.left[format[1]] # << >>
    <3>1. m > 1 => 1 \in 1..m /\ v[1] # << >>
      BY <2>1, <1>1, <1>2, <1>5
    <3> QED
      BY <3>1, <1>6, ZenonT(30)
  <2>5. m > 0 => ~spaced(s.params[format[1]].base, msg.left[format[1]])
    <3>1. m > 0 => 1 \in 1..m
      BY <1>1
    <3>2. m > 0 => ~spaced(t[1], v[1])
      BY <2>1, <1>2, <1>5, ZenonT(30)
    <3> QED
      BY <3>1, <3>2, <1>6, ZenonT(30)
  <2> QED
    BY <2>3, <2>4, <2>5, <1>7, ZenonT(30) DEF format, m
<1>8. CASE s.ret # "void"
  <2>1. /\ Len(values) = m + 1 /\ types[1] = s.ret /\ values[1] = msg.r
        /\ \A k \in 1..m : types[k + 1] = t[k] /\ values[k + 1] = v[k]
    BY <1>5, <1>8
  <2> HIDE DEF types, values
  <2>2. carries_value(s.ret, msg.r)
    <3>1. 1 \in 1..m + 1
      BY <1>1
    <3> QED
      BY <3>1, <2>1, <1>2, ZenonT(30)
  <2>3. ASSUME NEW k \in 1..m PROVE carries_value(t[k], v[k])
    <3>1. k + 1 \in 1..m + 1
      BY <1>1
    <3> QED
      BY <3>1, <2>1, <1>2, ZenonT(30)
  <2>4. Carried(s.params, format, msg.left)
    BY <2>3, <1>1, <1>6, ZenonT(30) DEF Carried, m
  <2> QED
    BY <2>2, <2>4, <1>8, ZenonT(30) DEF format
<1> QED
  BY <1>7, <1>8, ZenonT(30)

\* one more token in front
InFront(a, U, T) == Len(T) = Len(U) + 1 /\ T[1] = a /\ \A k \in 1..Len(U) : T[k + 1] = U[k]

LEMMA DelimitedCons ==
    ASSUME NEW P, <<Blank>> \in P, NEW T \in Seq(Seq(P)), NEW U \in Seq(Seq(P)), NEW a \in Seq(P),
           InFront(a, U, T)
    PROVE  concat(Delimited(T)) = (<<<<Blank>>>> \o a) \o concat(Delimited(U))
<1> DEFINE n == Len(U)
           x == <<<<Blank>>>> \o a
           items == Delimited(U)
           all == Delimited(T)
<1>1. /\ n \in Nat /\ Len(T) = n + 1 /\ x \in Seq(P) /\ T[1] = a
      /\ \A k \in 1..n : U[k] \in Seq(P) /\ T[k + 1] = U[k]
  BY DEF InFront
<1>2. /\ items = [k \in 1..n |-> <<<<Blank>>>> \o U[k]]
      /\ all = [k \in 1..n + 1 |-> <<<<Blank>>>> \o T[k]]
  BY <1>1, Zenon DEF Delimited
<1>3. \A k \in 1..n : T[k + 1] = U[k] /\ <<<<Blank>>>> \o U[k] \in Seq(P)
  BY <1>1
<1>4. \A k \in 1..n + 1 : <<<<Blank>>>> \o T[k] \in Seq(P)
  <2>1. \A k \in 1..n + 1 : T[k] \in Seq(P)
    BY <1>1
  <2> QED
    BY <2>1
<1> HIDE DEF items, all, n
<1>5. items \in [1..n -> Seq(P)] /\ all \in [1..n + 1 -> Seq(P)]
  BY <1>2, <1>3, <1>4, Zenon
<1>6. items \in Seq(Seq(P)) /\ Len(items) = n /\ all \in Seq(Seq(P)) /\ Len(all) = n + 1
  <2>1. \A j \in Nat : \A e \in [1..j -> Seq(P)] : e \in Seq(Seq(P)) /\ Len(e) = j
    OBVIOUS
  <2>2. n \in Nat /\ n + 1 \in Nat
    BY <1>1
  <2> QED
    BY <2>1, <2>2, <1>5, Zenon
<1>7. all[1] = x
  <2>1. 1 \in 1..n + 1
    BY <1>1
  <2> QED
    BY <2>1, <1>1, <1>2, ZenonT(30)
<1>8. ASSUME NEW k \in 1..n PROVE all[k + 1] = items[k]
  <2>1. k + 1 \in 1..n + 1
    BY <1>1
  <2> QED
    BY <2>1, <1>2, <1>3, Zenon
<1> HIDE DEF x
<1>9. concat(all) = x \o concat(items)
  BY <1>1, <1>6, <1>7, <1>8, ConcatCons, ZenonT(30)
<1> QED
  BY <1>9, Zenon DEF x, all, items

LEMMA TextReply ==
    ASSUME NEW b, NEW s, Compiled(b, s), ~b.binary, NEW msg, Answer(s, msg.r, msg.left),
           carries(b, results(s, msg).types, results(s, msg).values)
    PROVE  Understood(b, s, msg.r, msg.left, reply_value(b, s, msg.r, msg.left))
<1> DEFINE format == out_args_format(s.params)
           m == Len(format)
           w == server_order(b)
           c == client_order(b)
           r == msg.r
           left == msg.left
           x == serialize_r(b, s.ret, r)
           y == write_all(b, s.params, format, left, w)
           value == reply_value(b, s, r, left)
           U == Texts(s.params, format, left)
           data == split(value)
           n == r_size(b, s.ret)
           d == unmarshall_out_args(b, s.ret, value)
<1>1. m \in Nat /\ Typed(s.params, format, left)
  BY AnswerTyped, Zenon
<1>2. /\ Carried(s.params, format, left)
      /\ s.ret # "void" => carries_value(s.ret, r)
      /\ s.ret = "void" /\ m > 1 => left[format[1]] # << >>
      /\ s.ret = "void" /\ m > 0 => ~spaced(s.params[format[1]].base, left[format[1]])
  BY CarriedResults, Zenon
<1>3. y = concat(Delimited(U))
  <2> HIDE DEF format, w, left
  <2> QED
    BY <1>1, TextItems
<1>4. /\ Words(U, Seq(Byte)) /\ Len(U) = m /\ Starts(U, s.params, format, left)
      /\ \A k \in 1..m :
            /\ left[format[k]] # << >> => U[k] # << >>
            /\ ~spaced(s.params[format[k]].base, left[format[k]]) => Unspaced(U[k])
  <2> HIDE DEF format, left
  <2> QED
    BY <1>1, <1>2, TextWords, ZenonT(30)
<1>5. U \in Seq(Seq(Seq(Byte))) /\ <<Blank>> \in Seq(Byte)
  BY <1>4, Zenon DEF Words
<1>6. value = ltrim(x \o y)
  BY Zenon DEF reply_value, message_value, serialize_out_args, BINARY_BASED_PROTOCOL
<1>7. d.r_arg = SubSeq(data, 1, n) /\ d.out_args = SubSeq(data, n + 1, Len(data))
  BY ZenonT(30) DEF unmarshall_out_args, BINARY_BASED_PROTOCOL
<1> HIDE DEF U, y, m, format, w, left
<1>8. /\ deserialize_r(b, s.ret, d.r_arg) = {r}
      /\ Starts(d.out_args, s.params, format, left)
  <2>1. CASE s.ret = "void"
    <3>1. r = << >> /\ x = << >> /\ n = 0
      BY <2>1, ZenonT(30) DEF Answer, Returns, serialize_r, r_size
    <3>2. deserialize_r(b, s.ret, d.r_arg) = {r}
      BY <3>1, <2>1, ZenonT(30) DEF deserialize_r
    <3>3. CASE m = 0
      <4>1. Starts(d.out_args, s.params, format, left)
        BY <3>3 DEF Starts, m
      <4> QED
        BY <4>1, <3>2, ZenonT(30)
    <3>4. CASE m > 0
      <4>1. y \in Seq(Seq(Byte))
        <5>1. Delimited(U) \in Seq(Seq(Seq(Byte)))
          <6>1. \A k \in 1..m : <<<<Blank>>>> \o U[k] \in Seq(Seq(Byte))
            BY <1>4, <1>5
          <6>2. Delimited(U) = [k \in 1..m |-> <<<<Blank>>>> \o U[k]]
            BY <1>4, Zenon DEF Delimited
          <6> QED
            BY <6>1, <6>2, <1>1
        <5>2. PICK f : Joins(f, Delimited(U), Seq(Byte)) /\ concat(Delimited(U)) = f[Len(Delimited(U))]
          BY <5>1, ConcatDef, Zenon
        <5>3. Len(Delimited(U)) \in 0..Len(Delimited(U))
          BY <5>1
        <5>4. f[Len(Delimited(U))] \in Seq(Seq(Byte))
          BY <5>2, <5>3, Zenon DEF Joins
        <5> QED
          BY <5>2, <5>4, <1>3, ZenonT(30)
      <4>2. value = ltrim(concat(Delimited(U)))
        <5>1. << >> \o y = y
          BY <4>1
        <5> QED
          BY <5>1, <3>1, <1>3, <1>6, ZenonT(30)
      <4>3. (Len(U) > 1 => U[1] # << >>) /\ Unspaced(U[1])
        <5>1. 1 \in 1..m
          BY <3>4, <1>1
        <5> QED
          BY <5>1, <3>4, <2>1, <1>2, <1>4, ZenonT(30)
      <4>4. data = U
        BY <4>2, <4>3, <3>4, <1>4, TextTokens, ZenonT(30)
      <4>5. d.out_args = U
        <5>1. SubSeq(U, 1, Len(U)) = U
          BY <1>5
        <5> HIDE DEF d, data
        <5> QED
          BY <5>1, <4>4, <3>1, <1>7
      <4> QED
        BY <4>5, <3>2, <1>4, ZenonT(30)
    <3> QED
      BY <3>3, <3>4, <1>1
  <2>2. CASE s.ret # "void"
    <3> DEFINE a == print(s.ret, r)
               T == <<a>> \o U
    <3>1. s.ret \in Bases \ {"blob"} /\ r \in Values(s.ret)
      <4>1. s.ret \in DOMAIN sizeof /\ s.ret \notin blobs
        BY <2>2, SignatureTypes, Sizes, ZenonT(30)
      <4> QED
        BY <4>1, <2>2, Zenon DEF Answer, Returns, Bases, blobs
    <3>2. Printed(s.ret, r)
      BY <3>1, <2>2, <1>2, PrintRead, ZenonT(30)
    <3>0. Unspaced(a)
      <4>1. ~spaced(s.ret, r)
        BY <2>2, SignatureTypes, Zenon DEF spaced, characters, return_types
      <4> QED
        BY <4>1, <3>1, <2>2, <1>2, PrintUnspaced, ZenonT(30)
    <3>3. r # << >>
      <4>1. Len(r) = sizeof[s.ret] /\ sizeof[s.ret] # 0
        <5>1. s.ret \in DOMAIN sizeof /\ s.ret \notin blobs
          BY <2>2, SignatureTypes, Sizes, Zenon
        <5>2. Len(r) = sizeof[s.ret]
          BY <5>1, <3>1, ValueBytes, Zenon
        <5>3. sizeof[s.ret] # 0
          BY <5>1, Sizes, Zenon
        <5> QED
          BY <5>2, <5>3, ZenonT(30)
      <4> QED
        BY <4>1, Zenon
    <3>4. /\ a \in Seq(Seq(Byte)) /\ a # << >> /\ read_text(s.ret, a) = {r}
          /\ \A i \in 1..Len(a) : a[i] # <<Blank>>
      BY <3>2, <3>3, Zenon DEF Printed
    <3>5. x = <<<<Blank>>>> \o a /\ n = 1
      BY <2>2, Zenon DEF serialize_r, write, write_text, r_size, BINARY_BASED_PROTOCOL
    <3> HIDE DEF a
    <3>6. /\ T \in Seq(Seq(Seq(Byte))) /\ Len(T) = m + 1 /\ T[1] = a
          /\ \A k \in 1..m : T[k + 1] = U[k]
      BY <3>4, <1>1, <1>4, <1>5
    <3> HIDE DEF T
    <3>7. Words(T, Seq(Byte))
      <4>1. ASSUME NEW k \in 1..m + 1
            PROVE  \A i \in 1..Len(T[k]) : T[k][i] # <<Blank>>
        <5>1. CASE k = 1
          BY <5>1, <3>4, <3>6, ZenonT(30)
        <5>2. CASE k # 1
          <6>1. k - 1 \in 1..m /\ (k - 1) + 1 = k
            BY <5>2, <1>1
          <6>2. T[k] = U[k - 1]
            BY <6>1, <3>6, Zenon
          <6> QED
            BY <6>1, <6>2, <1>4, ZenonT(30) DEF Words
        <5> QED
          BY <5>1, <5>2, Zenon
      <4> QED
        BY <4>1, <3>6, <1>5, ZenonT(30) DEF Words
    <3>8. concat(Delimited(T)) = x \o y
      <4>1. InFront(a, U, T)
        BY <3>6, <1>4, Zenon DEF InFront
      <4>2. concat(Delimited(T)) = (<<<<Blank>>>> \o a) \o concat(Delimited(U))
        BY <4>1, <3>4, <3>6, <1>5, DelimitedCons, Zenon
      <4> QED
        BY <4>2, <3>5, <1>3, ZenonT(30)
    <3>9. data = T
      <4>1. Len(T) > 0 /\ T[1] # << >> /\ Unspaced(T[1])
        BY <3>0, <3>4, <3>6, <1>1
      <4>2. split(ltrim(concat(Delimited(T)))) = T
        BY <4>1, <3>7, TextTokens, Zenon
      <4> QED
        BY <4>2, <3>8, <1>6, Zenon
    <3> HIDE DEF d, data, n
    <3>10. d.r_arg = SubSeq(T, 1, 1) /\ d.out_args = SubSeq(T, 2, m + 1)
      BY <3>5, <3>6, <3>9, <1>7
    <3>11. d.r_arg[1] = a
      BY <3>6, <3>10, <1>1
    <3>12. deserialize_r(b, s.ret, d.r_arg) = {r}
      BY <3>4, <3>11, <2>2, Zenon DEF deserialize_r, BINARY_BASED_PROTOCOL
    <3>13. Len(d.out_args) = m /\ \A k \in 1..m : d.out_args[k] = U[k]
      <4>1. Len(d.out_args) = m /\ \A k \in 1..m : d.out_args[k] = T[k + 1]
        BY <3>6, <3>10, <1>1
      <4> QED
        BY <4>1, <3>6, Zenon
    <3>14. Starts(d.out_args, s.params, format, left)
      BY <3>13, <1>4, ZenonT(30) DEF Starts, m
    <3> QED
      BY <3>12, <3>14, ZenonT(30)
  <2> QED
    BY <2>1, <2>2, ZenonT(30)
<1> HIDE DEF d
<1>9. read_all(b, s.params, format, d.out_args, c) =
         {[values |-> pick(left, format), ix |-> Len(format)]}
  BY <1>1, <1>2, <1>8, TextRead
<1>10. \A done \in read_all(b, s.params, format, d.out_args, c) : done.values = pick(left, format)
  BY <1>9
<1> QED
  BY <1>8, <1>10, Zenon DEF Understood, d, left, format

\* the reply of the call is read as it was written
LEMMA ReplyRead ==
    ASSUME NEW b, NEW s, Compiled(b, s), NEW msg, Answer(s, msg.r, msg.left),
           carries(b, results(s, msg).types, results(s, msg).values)
    PROVE  Understood(b, s, msg.r, msg.left, reply_value(b, s, msg.r, msg.left))
<1>1. CASE b.binary
  BY <1>1, BinaryReply, Zenon
<1>2. CASE ~b.binary
  BY <1>2, TextReply, ZenonT(30)
<1> QED
  BY <1>1, <1>2, Zenon

\* the function takes no pointer to what is const
NoConstPointer(s) == \A i \in 1..Len(s.params) : s.params[i].by # "const *"

\* the variables of the caller with what the function left in its parameters
Assigned(s, left, variables) ==
    LET format == out_args_format(s.params)
    IN  store(format, pick(left, format), out_args_addresses(s.params), variables) =
           [i \in 1..Len(variables) |-> IF is_out(s.params[i]) THEN left[i] ELSE variables[i]]

LEMMA Stored ==
    ASSUME NEW b, NEW s, Compiled(b, s), NoConstPointer(s), NEW r, NEW left,
           Answer(s, r, left), NEW variables, Len(variables) = Len(s.params)
    PROVE  Assigned(s, left, variables)
<1> DEFINE n == Len(s.params)
           format == out_args_format(s.params)
           v == pick(left, format)
<1>1. n \in Nat
  BY SignatureTypes, ZenonT(30)
<1>2. out_args_addresses(s.params) = format
  <2>1. \A i \in 1..n : s.params[i].by # "const *"
    BY ZenonT(30) DEF NoConstPointer
  <2>2. \A i \in 1..n : s.params[i].by \in {"&", "*", "const *"} <=> s.params[i].by \in {"&", "*"}
    BY <2>1, Zenon
  <2> QED
    BY <2>2, <1>1, SamePositions, ZenonT(30) DEF out_args_addresses, out_args_format
<1>3. Lists(format, s.params, {"&", "*"}, n)
  BY AnswerTyped, Zenon
<1>4. \A k \in 1..Len(format) : v[k] = left[format[k]]
  BY Zenon DEF pick
<1> HIDE DEF format, v
<1>5. /\ \A k \in 1..Len(format) : is_out(s.params[format[k]])
      /\ \A i \in 1..n : is_out(s.params[i]) => \E k \in 1..Len(format) : format[k] = i
  BY <1>3, Zenon DEF Lists, is_out
<1>6. ASSUME NEW i \in 1..n
      PROVE  (IF \E k \in 1..Len(format) : format[k] = i
              THEN v[CHOOSE k \in 1..Len(format) : format[k] = i]
              ELSE variables[i]) = IF is_out(s.params[i]) THEN left[i] ELSE variables[i]
  <2>1. CASE is_out(s.params[i])
    <3>1. \E k \in 1..Len(format) : format[k] = i
      BY <2>1, <1>5, ZenonT(30)
    <3> DEFINE j == CHOOSE k \in 1..Len(format) : format[k] = i
    <3>2. j \in 1..Len(format) /\ format[j] = i
      BY <3>1, Zenon
    <3> HIDE DEF j
    <3>3. v[j] = left[i]
      BY <3>2, <1>4, Zenon
    <3> QED
      BY <3>1, <3>3, <2>1, ZenonT(30) DEF j
  <2>2. CASE ~is_out(s.params[i])
    <3>1. ~\E k \in 1..Len(format) : format[k] = i
      BY <2>2, <1>5, Zenon
    <3> QED
      BY <3>1, <2>2, Zenon
  <2> QED
    BY <2>1, <2>2, Zenon
<1>7. store(format, v, format, variables) =
         [i \in 1..n |-> IF is_out(s.params[i]) THEN left[i] ELSE variables[i]]
  BY <1>6, Zenon DEF store
<1> QED
  BY <1>2, <1>7, ZenonT(30) DEF Assigned, format, v

-------------------------------------------------------------------------------
(* The properties.                                                         *)

\* a sequence of messages
Queue(q) == q \in Seq({q[j] : j \in 1..Len(q)})

Requested(b, s, msg) ==
    /\ msg.sent \in Assignments(s.params)
    /\ msg.value = serialize_args(b, s.params, msg.sent)

Replied(b, s, msg) ==
    Answer(s, msg.r, msg.left) /\ msg.value = reply_value(b, s, msg.r, msg.left)

\* the messages under way are those the stub and the skeleton have made
Messages ==
    /\ Compiled(build, sig)
    /\ Queue(requests) /\ \A j \in 1..Len(requests) : Requested(build, sig, requests[j])
    /\ Queue(replies) /\ \A j \in 1..Len(replies) : Replied(build, sig, replies[j])
    /\ requests # << >> \/ replies # << >> => Len(args) = Len(sig.params)

LEMMA QueueAppend ==
    ASSUME NEW q, Queue(q), NEW m
    PROVE  /\ Queue(Append(q, m)) /\ Append(q, m) # << >>
           /\ \A j \in 1..Len(Append(q, m)) :
                 Append(q, m)[j] = m \/ \E i \in 1..Len(q) : Append(q, m)[j] = q[i]
<1> DEFINE n == Len(q)
           S == {q[j] : j \in 1..n} \cup {m}
           u == Append(q, m)
<1>1. q \in Seq(S)
  <2> DEFINE R == {q[j] : j \in 1..n}
  <2>1. q \in Seq(R) /\ R \subseteq S
    BY Zenon DEF Queue
  <2> HIDE DEF R, S
  <2> QED
    BY <2>1
<1>2. m \in S
  BY Zenon
<1> HIDE DEF S
<1>3. /\ u \in Seq(S) /\ Len(u) = n + 1 /\ n \in Nat /\ u[n + 1] = m
      /\ \A j \in 1..n : u[j] = q[j]
  BY <1>1, <1>2
<1> HIDE DEF n, u
<1>4. \A j \in 1..n + 1 : j \in 1..n \/ j = n + 1
  BY <1>3
<1>5. \A j \in 1..n + 1 : u[j] = m \/ \E i \in 1..n : u[j] = q[i]
  BY <1>3, <1>4, Zenon
<1>6. Queue(u)
  <2>1. u \in [1..Len(u) -> {u[j] : j \in 1..Len(u)}] /\ Len(u) \in Nat
    BY <1>3
  <2> QED
    BY <2>1 DEF Queue
<1>7. u # << >>
  BY <1>3
<1> QED
  BY <1>3, <1>5, <1>6, <1>7, ZenonT(30) DEF u, n

LEMMA QueueTail ==
    ASSUME NEW q, Queue(q), q # << >>
    PROVE  /\ Queue(Tail(q)) /\ 1 \in 1..Len(q) /\ Head(q) = q[1]
           /\ \A j \in 1..Len(Tail(q)) : \E i \in 1..Len(q) : Tail(q)[j] = q[i]
<1> DEFINE n == Len(q)
           S == {q[j] : j \in 1..n}
           u == Tail(q)
<1>1. q \in Seq(S)
  BY Zenon DEF Queue
<1> HIDE DEF S
<1>2. /\ n \in Nat /\ n > 0 /\ u \in Seq(S) /\ Len(u) = n - 1 /\ Head(q) = q[1]
      /\ \A j \in 1..n - 1 : u[j] = q[j + 1]
  BY <1>1
<1> HIDE DEF n, u
<1>3. 1 \in 1..n /\ \A j \in 1..n - 1 : j + 1 \in 1..n
  BY <1>2
<1>4. \A j \in 1..n - 1 : \E i \in 1..n : u[j] = q[i]
  BY <1>2, <1>3, ZenonT(30)
<1>5. Queue(u)
  <2>1. u \in Seq(S)
    BY <1>2, Zenon
  <2>2. u = [j \in 1..Len(u) |-> u[j]] /\ Len(u) \in Nat
    BY <2>1
  <2> DEFINE R == {u[j] : j \in 1..Len(u)}
  <2>3. \A j \in 1..Len(u) : u[j] \in R
    BY Zenon
  <2> HIDE DEF R
  <2>4. u \in [1..Len(u) -> R]
    BY <2>2, <2>3, Zenon
  <2>5. u \in Seq(R)
    BY <2>2, <2>4
  <2> QED
    BY <2>5, Zenon DEF Queue, R
<1> QED
  BY <1>2, <1>3, <1>4, <1>5, Zenon DEF u, n

LEMMA StoredLength ==
    ASSUME NEW format, NEW values, NEW addresses, NEW variables, Len(variables) \in Nat
    PROVE  Len(store(format, values, addresses, variables)) = Len(variables)
BY DEF store

LEMMA InitMessages == Init => Messages
<1> SUFFICES ASSUME Init PROVE Messages
  BY Zenon
<1>1. requests = << >> /\ replies = << >>
  BY Zenon DEF Init
<1>2. Compiled(build, sig)
  BY Zenon DEF Init, Compiled
<1>3. Queue(<< >>) /\ Len(<< >>) = 0
  BY DEF Queue
<1> QED
  BY <1>1, <1>2, <1>3 DEF Messages

\* a call is asked for
LEMMA AsyncMessages ==
    ASSUME Messages, asyncRPC
    PROVE  Messages'
<1>1. PICK a \in Assignments(sig.params) :
         /\ args' = a
         /\ requests' = Append(requests, [value |-> serialize_args(build, sig.params, a), sent |-> a])
  BY Zenon DEF asyncRPC
<1> DEFINE m == [value |-> serialize_args(build, sig.params, a), sent |-> a]
<1>2. build' = build /\ sig' = sig /\ replies' = replies
  BY Zenon DEF asyncRPC
<1>3. Requested(build, sig, m)
  BY Zenon DEF Requested
<1> HIDE DEF m
<1>4. requests' = Append(requests, m)
  BY <1>1, Zenon DEF m
<1>5. /\ Queue(Append(requests, m))
      /\ \A j \in 1..Len(Append(requests, m)) :
            \/ Append(requests, m)[j] = m
            \/ \E i \in 1..Len(requests) : Append(requests, m)[j] = requests[i]
  BY QueueAppend DEF Messages
<1>6. Queue(requests') /\ \A j \in 1..Len(requests') : Requested(build, sig, requests'[j])
  BY <1>3, <1>4, <1>5, Zenon DEF Messages
<1>7. Len(args') = Len(sig.params)
  BY <1>1, ArgumentsTyped, Zenon DEF Messages
<1> QED
  BY <1>2, <1>6, <1>7, ZenonT(30) DEF Messages

\* what the function leaves and returns
LEMMA EffectsAnswer ==
    ASSUME NEW b, NEW s, Compiled(b, s), NEW values, NEW left \in Effects(s.params, values),
           NEW r \in Returns(s.ret)
    PROVE  Answer(s, r, left)
<1> DEFINE n == Len(s.params)
           sets == [i \in 1..n |-> IF is_out(s.params[i]) THEN Values(s.params[i].base)
                                   ELSE {values[i]}]
<1>1. n \in Nat
  BY SignatureTypes, Zenon
<1>2. left \in OneOfEach(sets)
  BY Zenon DEF Effects
<1> HIDE DEF n
<1>3. Len(sets) = n
  BY <1>1
<1>4. \A i \in 1..n : left[i] \in sets[i]
  <2> HIDE DEF sets
  <2> QED
    BY <1>1, <1>2, <1>3, OneOfEachType, ZenonT(30)
<1>5. \A i \in 1..n : is_out(s.params[i]) => left[i] \in Values(s.params[i].base)
  BY <1>4, Zenon
<1> QED
  BY <1>5, Zenon DEF Answer, n

\* a function is invoked
LEMMA DispatchMessages ==
    ASSUME Messages, dispatch
    PROVE  Messages'
<1> DEFINE msg == Head(requests)
           data == unmarshall_args_in(build, msg.value)
<1>1. PICK vec \in deserialize_in_args(build, sig.params, data) :
         \E left \in Effects(sig.params, vec.values), r \in Returns(sig.ret) :
            replies' = Append(replies, [value |-> reply_value(build, sig, r, left), r |-> r,
                                        left |-> left])
  BY ZenonT(30) DEF dispatch
<1>2. PICK left \in Effects(sig.params, vec.values), r \in Returns(sig.ret) :
         replies' = Append(replies, [value |-> reply_value(build, sig, r, left), r |-> r,
                                     left |-> left])
  BY <1>1, Zenon
<1>3. /\ build' = build /\ sig' = sig /\ args' = args /\ requests' = Tail(requests)
      /\ requests # << >>
  BY ZenonT(30) DEF dispatch
<1> DEFINE m == [value |-> reply_value(build, sig, r, left), r |-> r, left |-> left]
<1>4. Replied(build, sig, m)
  <2>1. Answer(sig, r, left)
    BY <1>2, EffectsAnswer, ZenonT(30) DEF Messages
  <2> QED
    BY <2>1, Zenon DEF Replied
<1> HIDE DEF m, msg, data
<1>5. replies' = Append(replies, m)
  BY <1>2, Zenon DEF m
<1>6. /\ Queue(Append(replies, m))
      /\ \A j \in 1..Len(Append(replies, m)) :
            \/ Append(replies, m)[j] = m
            \/ \E i \in 1..Len(replies) : Append(replies, m)[j] = replies[i]
  BY QueueAppend DEF Messages
<1>7. Queue(replies') /\ \A j \in 1..Len(replies') : Replied(build, sig, replies'[j])
  BY <1>4, <1>5, <1>6, Zenon DEF Messages
<1>8. /\ Queue(Tail(requests))
      /\ \A j \in 1..Len(Tail(requests)) : \E i \in 1..Len(requests) : Tail(requests)[j] = requests[i]
  BY <1>3, QueueTail, Zenon DEF Messages
<1>9. Queue(requests') /\ \A j \in 1..Len(requests') : Requested(build, sig, requests'[j])
  BY <1>3, <1>8, Zenon DEF Messages
<1>10. Len(args') = Len(sig.params)
  BY <1>3, Zenon DEF Messages
<1> QED
  BY <1>3, <1>7, <1>9, <1>10, ZenonT(30) DEF Messages

\* a reply is taken
LEMMA ReplyMessages ==
    ASSUME Messages, unmarshall_and_dispatch
    PROVE  Messages'
<1> DEFINE data == unmarshall_out_args(build, sig.ret, Head(replies).value)
           addresses == out_args_addresses(sig.params)
<1>1. args' \in deserialize_out_args(build, sig.params, data.out_args, addresses, args)
  BY ZenonT(30) DEF unmarshall_and_dispatch
<1>2. /\ build' = build /\ sig' = sig /\ requests' = requests /\ replies' = Tail(replies)
      /\ replies # << >>
  BY ZenonT(30) DEF unmarshall_and_dispatch
<1>3. Len(args) = Len(sig.params) /\ Len(sig.params) \in Nat
  BY <1>2, SignatureTypes, Zenon DEF Messages
<1>4. Len(args') = Len(sig.params)
  <2>1. PICK values : args' = store(out_args_format(sig.params), values, addresses, args)
    BY <1>1, Zenon DEF deserialize_out_args
  <2> QED
    BY <2>1, <1>3, StoredLength
<1>5. /\ Queue(Tail(replies))
      /\ \A j \in 1..Len(Tail(replies)) : \E i \in 1..Len(replies) : Tail(replies)[j] = replies[i]
  BY <1>2, QueueTail, Zenon DEF Messages
<1>6. Queue(replies') /\ \A j \in 1..Len(replies') : Replied(build, sig, replies'[j])
  BY <1>2, <1>5, Zenon DEF Messages
<1> QED
  BY <1>2, <1>4, <1>6, Zenon DEF Messages

LEMMA NextMessages == Messages /\ [Next]_vars => Messages'
<1> SUFFICES ASSUME Messages, [Next]_vars PROVE Messages'
  BY Zenon
<1>1. CASE asyncRPC
  BY <1>1, AsyncMessages, Zenon
<1>2. CASE dispatch
  BY <1>2, DispatchMessages, ZenonT(30)
<1>3. CASE unmarshall_and_dispatch
  BY <1>3, ReplyMessages, Zenon
<1>4. CASE UNCHANGED vars
  BY <1>4, Zenon DEF vars, Messages
<1> QED
  BY <1>1, <1>2, <1>3, <1>4, ZenonT(30) DEF Next

\* the invariant the two theorems rest on
LEMMA MessagesHold == Spec => []Messages
<1> QED
  BY InitMessages, NextMessages, PTL DEF Spec

LEMMA InitServer == Init => ServerGetsArguments
<1> SUFFICES ASSUME Init PROVE ServerGetsArguments
  BY Zenon
<1>1. invoked = [sent |-> << >>, got |-> << >>, ix |-> 0, size |-> 0, carried |-> TRUE]
  BY Zenon DEF Init
<1> QED
  BY <1>1, Zenon DEF ServerGetsArguments

LEMMA NextServer == ServerGetsArguments /\ Messages /\ [Next]_vars => ServerGetsArguments'
<1> SUFFICES ASSUME ServerGetsArguments, Messages, [Next]_vars PROVE ServerGetsArguments'
  BY Zenon
<1>1. CASE dispatch
  <2> DEFINE msg == Head(requests)
             data == unmarshall_args_in(build, msg.value)
             carried == carries(build, bases(sig.params), msg.sent)
  <2>1. PICK vec \in deserialize_in_args(build, sig.params, data) :
           invoked' = [sent |-> msg.sent, got |-> vec.values, ix |-> vec.ix, size |-> Len(data),
                       carried |-> carried]
    BY <1>1, ZenonT(30) DEF dispatch
  <2>2. sig' = sig /\ requests # << >>
    BY <1>1, Zenon DEF dispatch
  <2>3. Requested(build, sig, msg)
    <3>1. 1 \in 1..Len(requests) /\ Head(requests) = requests[1]
      BY <2>2, QueueTail, ZenonT(30) DEF Messages
    <3> QED
      BY <3>1, Zenon DEF Messages
  <2>4. carried => vec.values = msg.sent /\ vec.ix = Len(data)
    <3>1. /\ msg.sent \in Assignments(sig.params)
          /\ msg.value = serialize_args(build, sig.params, msg.sent)
      BY <2>3, Zenon DEF Requested
    <3>2. Compiled(build, sig)
      BY Zenon DEF Messages
    <3>3. Sent(build, sig, msg.sent, data)
      BY <3>1, Zenon DEF Sent
    <3> HIDE DEF msg, data
    <3>4. ASSUME carries(build, bases(sig.params), msg.sent)
          PROVE  Received(msg.sent, data, vec)
      BY <3>2, <3>3, <3>4, RequestRead, Zenon
    <3> QED
      BY <3>4, Zenon DEF Received
  <2> HIDE DEF msg, data, carried
  <2>5. /\ invoked'.sent = msg.sent /\ invoked'.got = vec.values /\ invoked'.ix = vec.ix
        /\ invoked'.size = Len(data) /\ invoked'.carried = carried
    BY <2>1, Zenon
  <2> QED
    BY <2>2, <2>4, <2>5, ZenonT(30) DEF ServerGetsArguments
<1>2. CASE asyncRPC
  BY <1>2, Zenon DEF asyncRPC, ServerGetsArguments
<1>3. CASE unmarshall_and_dispatch
  BY <1>3, ZenonT(30) DEF unmarshall_and_dispatch, ServerGetsArguments
<1>4. CASE UNCHANGED vars
  BY <1>4, ZenonT(30) DEF vars, ServerGetsArguments
<1> QED
  BY <1>1, <1>2, <1>3, <1>4, ZenonT(30) DEF Next

\* A function is invoked with the values its caller passed, for every signature,
\* every build and every pair of byte orders, in the binary protocol for all values
\* and in the text protocol for those it can carry, and deserialize_in_args() reads
\* the value of the request to its end.
THEOREM ServerGetsArgumentsHolds == Spec => []ServerGetsArguments
<1> QED
  BY MessagesHold, InitServer, NextServer, PTL DEF Spec

LEMMA InitCaller == Init => CallerGetsResults
<1> SUFFICES ASSUME Init PROVE CallerGetsResults
  BY Zenon
<1>1. returned = [sent |-> << >>, got |-> << >>, carried |-> TRUE]
  BY Zenon DEF Init
<1> QED
  BY <1>1, Zenon DEF CallerGetsResults

ResultsWithoutConstPointer == NoConstPointer(sig) => CallerGetsResults

LEMMA NextCaller ==
    ResultsWithoutConstPointer /\ Messages /\ [Next]_vars => ResultsWithoutConstPointer'
<1> SUFFICES ASSUME ResultsWithoutConstPointer, Messages, [Next]_vars, NoConstPointer(sig)'
             PROVE  CallerGetsResults'
  BY Zenon DEF ResultsWithoutConstPointer
<1>0. NoConstPointer(sig) /\ CallerGetsResults
  <2>1. sig' = sig
    BY Zenon DEF Next, asyncRPC, dispatch, unmarshall_and_dispatch, vars
  <2>2. NoConstPointer(sig)
    BY <2>1, Zenon
  <2> QED
    BY <2>2, ZenonT(30) DEF ResultsWithoutConstPointer
<1>1. CASE unmarshall_and_dispatch
  <2> DEFINE msg == Head(replies)
             data == unmarshall_out_args(build, sig.ret, msg.value)
             format == out_args_format(sig.params)
             addresses == out_args_addresses(sig.params)
             carried == carries(build, results(sig, msg).types, results(sig, msg).values)
             stored == [i \in 1..Len(args) |->
                          IF is_out(sig.params[i]) THEN msg.left[i] ELSE args[i]]
  <2>1. PICK r \in deserialize_r(build, sig.ret, data.r_arg) :
           /\ args' \in deserialize_out_args(build, sig.params, data.out_args, addresses, args)
           /\ returned' = [sent |-> [r |-> msg.r, args |-> stored],
                           got |-> [r |-> r, args |-> args'], carried |-> carried]
    BY <1>1, ZenonT(30) DEF unmarshall_and_dispatch
  <2>2. replies # << >>
    BY <1>1, Zenon DEF unmarshall_and_dispatch
  <2>3. Replied(build, sig, msg)
    <3>1. 1 \in 1..Len(replies) /\ Head(replies) = replies[1]
      BY <2>2, QueueTail, ZenonT(30) DEF Messages
    <3> QED
      BY <3>1, Zenon DEF Messages
  <2>4. Compiled(build, sig) /\ Len(args) = Len(sig.params)
    BY <2>2, Zenon DEF Messages
  <2>5. Answer(sig, msg.r, msg.left) /\ msg.value = reply_value(build, sig, msg.r, msg.left)
    BY <2>3, Zenon DEF Replied
  <2> HIDE DEF msg
  <2>6. ASSUME carries(build, results(sig, msg).types, results(sig, msg).values)
        PROVE  r = msg.r /\ args' = stored
    <3>1. Understood(build, sig, msg.r, msg.left, msg.value)
      <4>1. Understood(build, sig, msg.r, msg.left, reply_value(build, sig, msg.r, msg.left))
        BY <2>4, <2>5, <2>6, ReplyRead, Zenon
      <4> QED
        BY <4>1, <2>5, Zenon
    <3>2. /\ deserialize_r(build, sig.ret, data.r_arg) = {msg.r}
          /\ \A done \in read_all(build, sig.params, format, data.out_args, client_order(build)) :
                done.values = pick(msg.left, format)
      BY <3>1, Zenon DEF Understood
    <3> HIDE DEF data
    <3>3. r = msg.r
      BY <3>2, Zenon
    <3>4. PICK done \in read_all(build, sig.params, format, data.out_args, client_order(build)) :
             args' = store(format, done.values, addresses, args)
      BY <2>1, Zenon DEF deserialize_out_args
    <3>5. args' = store(format, pick(msg.left, format), addresses, args)
      BY <3>2, <3>4, Zenon
    <3>6. store(format, pick(msg.left, format), addresses, args) = stored
      <4>1. Assigned(sig, msg.left, args)
        BY <1>0, <2>4, <2>5, Stored, Zenon
      <4> QED
        BY <4>1, Zenon DEF Assigned
    <3> QED
      BY <3>3, <3>5, <3>6, ZenonT(30)
  <2> HIDE DEF stored, data
  <2>7. /\ returned'.sent = [r |-> msg.r, args |-> stored]
        /\ returned'.got = [r |-> r, args |-> args'] /\ returned'.carried = carried
    BY <2>1, Zenon
  <2> QED
    BY <2>6, <2>7, ZenonT(30) DEF CallerGetsResults
<1>2. CASE asyncRPC
  BY <1>0, <1>2, Zenon DEF asyncRPC, CallerGetsResults
<1>3. CASE dispatch
  BY <1>0, <1>3, ZenonT(30) DEF dispatch, CallerGetsResults
<1>4. CASE UNCHANGED vars
  BY <1>0, <1>4, Zenon DEF vars, CallerGetsResults
<1> QED
  BY <1>1, <1>2, <1>3, <1>4, ZenonT(30) DEF Next

\* A caller gets the return value and what the function left in the variables it
\* passed by reference, and its other variables are as they were, for every build
\* and every function without a pointer to what is const: for such a pointer
\* out_args_addresses() of Stub has an address and out_args_format() has no value.
THEOREM CallerGetsResultsHolds == Spec => [](NoConstPointer(sig) => CallerGetsResults)
<1>1. Init => ResultsWithoutConstPointer
  BY InitCaller, Zenon DEF ResultsWithoutConstPointer
<1>2. Spec => []ResultsWithoutConstPointer
  BY <1>1, MessagesHold, NextCaller, PTL DEF Spec
<1> QED
  BY <1>2, PTL DEF ResultsWithoutConstPointer
===============================================================================
