----------------------------- MODULE DataLemmas -----------------------------
(***************************************************************************)
(* Lemmas that several proofs rest on: induction over the naturals, in the *)
(* form of a fact about a set, and the parts of a sequence.                *)
(***************************************************************************)
EXTENDS Integers, Sequences, WellFoundedInduction, TLAPS

\* the solver the steps without one of their own go to
USE SMTT(30)

\* a set of naturals that is not empty has a least element
LEMMA LeastElement ==
    ASSUME NEW T \in SUBSET Nat, T # {}
    PROVE  \E x \in T : \A y \in T : x <= y
<1> DEFINE R == OpToRel(<, Nat)
<1>1. IsWellFoundedOn(R, Nat)
  BY NatLessThanWellFounded, Zenon
<1>2. PICK x \in T : \A y \in T : ~(<<y, x>> \in R)
  <2> HIDE DEF R
  <2> QED
    BY <1>1, WFMin, Zenon
<1>3. \A y \in T : <<y, x>> \in R <=> y < x
  BY Zenon DEF OpToRel
<1>4. \A y \in T : ~(y < x) /\ y \in Nat /\ x \in Nat
  <2> HIDE DEF R
  <2> QED
    BY <1>2, <1>3, Zenon
<1> QED
  BY <1>4

\* induction: a set that holds 0 and with each number the next one is Nat
LEMMA InductiveSet ==
    ASSUME NEW T \in SUBSET Nat, 0 \in T, \A n \in T : n + 1 \in T
    PROVE  T = Nat
<1> SUFFICES ASSUME Nat \ T # {}
             PROVE  FALSE
  BY Zenon
<1>1. PICK x \in Nat \ T : \A y \in Nat \ T : x <= y
  BY LeastElement, Zenon
<1>2. x # 0 /\ x - 1 \in Nat
  BY <1>1
<1>3. x - 1 \in T
  BY <1>1, <1>2
<1> QED
  BY <1>1, <1>3

\* h[0] is v0, and step[i] makes h[i] of the value before it
Stepwise(h, v0, step, w) == h[0] = v0 /\ \A i \in 1..w : h[i] = step[i][h[i - 1]]


\* recursion: a function whose values follow from the ones before exists
LEMMA RecursionExists ==
    ASSUME NEW V, NEW v0 \in V, NEW step \in [Nat -> [V -> V]], NEW w \in Nat
    PROVE  \E h \in [0..w -> V] : Stepwise(h, v0, step, w)
<1> DEFINE T == {n \in Nat : \E h \in [0..n -> V] :
                               h[0] = v0 /\ \A i \in 1..n : h[i] = step[i][h[i - 1]]}
<1>1. 0 \in T
  <2> DEFINE h == [i \in 0..0 |-> v0]
  <2>1. h \in [0..0 -> V] /\ h[0] = v0 /\ \A i \in 1..0 : FALSE
    OBVIOUS
  <2> HIDE DEF h
  <2> QED
    BY <2>1, Zenon
<1>2. ASSUME NEW n \in T
      PROVE  n + 1 \in T
  <2>1. PICK g \in [0..n -> V] : g[0] = v0 /\ \A i \in 1..n : g[i] = step[i][g[i - 1]]
    BY Zenon
  <2>2. n \in Nat /\ g[n] \in V
    BY <2>1
  <2> DEFINE v == step[n + 1][g[n]]
             h == [i \in 0..n + 1 |-> IF i = n + 1 THEN v ELSE g[i]]
  <2>3. v \in V
    BY <2>2
  <2> HIDE DEF v
  <2>4. h \in [0..n + 1 -> V] /\ h[n + 1] = v /\ \A i \in 0..n : h[i] = g[i]
    BY <2>2, <2>3
  <2> HIDE DEF h
  <2>5. h[0] = v0
    BY <2>1, <2>2, <2>4
  <2>6. ASSUME NEW i \in 1..n + 1
        PROVE  h[i] = step[i][h[i - 1]]
    <3>1. CASE i = n + 1
      <4>1. i - 1 = n /\ h[n] = g[n]
        BY <3>1, <2>2, <2>4
      <4> QED
        BY <4>1, <3>1, <2>4, Zenon DEF v
    <3>2. CASE i # n + 1
      <4>1. i \in 1..n /\ h[i] = g[i] /\ h[i - 1] = g[i - 1]
        BY <3>2, <2>2, <2>4
      <4> QED
        BY <4>1, <2>1, Zenon
    <3> QED
      BY <3>1, <3>2, Zenon
  <2>7. \E f \in [0..n + 1 -> V] : f[0] = v0 /\ \A i \in 1..n + 1 : f[i] = step[i][f[i - 1]]
    BY <2>4, <2>5, <2>6, Zenon
  <2>8. n + 1 \in Nat
    BY <2>2
  <2> QED
    BY <2>7, <2>8, Zenon
<1> HIDE DEF T
<1>3. T = Nat
  <2>1. T \in SUBSET Nat
    BY Zenon DEF T
  <2> QED
    BY <2>1, <1>1, <1>2, InductiveSet, Zenon
<1> QED
  BY <1>3, Zenon DEF T, Stepwise

\* n, and what is left of it above each of its lowest digits
quotients(n, base, width) ==
    LET rest[i \in 0..width] == IF i = 0 THEN n ELSE rest[i - 1] \div base
    IN  rest

LEMMA QuotientsDef ==
    ASSUME NEW n \in Nat, NEW base \in Nat \ {0}, NEW width \in Nat
    PROVE  /\ quotients(n, base, width) \in [0..width -> Nat]
           /\ quotients(n, base, width)[0] = n
           /\ \A i \in 1..width :
                 quotients(n, base, width)[i] = quotients(n, base, width)[i - 1] \div base
<1> DEFINE divide == [i \in Nat |-> [x \in Nat |-> x \div base]]
           Def(f) == f = [i \in 0..width |-> IF i = 0 THEN n ELSE f[i - 1] \div base]
<1>1. divide \in [Nat -> [Nat -> Nat]]
  OBVIOUS
<1>2. PICK h \in [0..width -> Nat] : Stepwise(h, n, divide, width)
  <2> HIDE DEF divide
  <2> QED
    BY <1>1, RecursionExists, Zenon
<1>3. h[0] = n /\ \A i \in 1..width : h[i] = h[i - 1] \div base
  <2>1. \A i, x \in Nat : divide[i][x] = x \div base
    BY Zenon
  <2>2. \A i \in 1..width : i \in Nat /\ h[i - 1] \in Nat
    OBVIOUS
  <2> HIDE DEF divide
  <2> QED
    BY <2>1, <2>2, <1>2, Zenon DEF Stepwise
<1>4. Def(h)
  BY <1>3
<1> DEFINE rest == CHOOSE f : Def(f)
<1>5. Def(rest)
  <2> HIDE DEF Def
  <2> QED
    BY <1>4, Zenon
<1>6. quotients(n, base, width) = rest
  BY Zenon DEF quotients
<1> HIDE DEF rest
<1>7. rest[0] = n /\ \A i \in 1..width : rest[i] = rest[i - 1] \div base
  BY <1>5
<1>8. rest \in [0..width -> Nat]
  <2> DEFINE T == {k \in Nat : k \in 0..width => rest[k] = h[k]}
  <2>1. 0 \in T
    BY <1>3, <1>7, Zenon
  <2>2. ASSUME NEW k \in T PROVE k + 1 \in T
    <3> SUFFICES ASSUME k + 1 \in 0..width PROVE rest[k + 1] = h[k + 1]
      OBVIOUS
    <3>1. k \in Nat /\ k \in 0..width /\ k + 1 \in 1..width /\ (k + 1) - 1 = k
      OBVIOUS
    <3>2. rest[k] = h[k]
      BY <3>1, Zenon
    <3> QED
      BY <3>1, <3>2, <1>3, <1>7
  <2> HIDE DEF T
  <2>3. T = Nat
    <3>1. T \in SUBSET Nat
      BY Zenon DEF T
    <3> QED
      BY <3>1, <2>1, <2>2, InductiveSet, Zenon
  <2>4. \A k \in 0..width : rest[k] = h[k]
    BY <2>3 DEF T
  <2> HIDE DEF Def
  <2>5. rest = [i \in 0..width |-> rest[i]]
    BY <1>5, Zenon DEF Def
  <2> QED
    BY <2>4, <2>5, Zenon
<1> QED
  BY <1>6, <1>7, <1>8, Zenon

-----------------------------------------------------------------------------
(* Concatenation and the sequences within a sequence.                      *)

\* sequences with the same elements are equal
LEMMA SameElements ==
    ASSUME NEW S, NEW s \in Seq(S), NEW t \in Seq(S),
           Len(s) = Len(t), \A i \in 1..Len(s) : s[i] = t[i]
    PROVE  s = t
<1>1. s = [i \in 1..Len(s) |-> s[i]] /\ t = [i \in 1..Len(t) |-> t[i]]
  OBVIOUS
<1> QED
  BY <1>1, Zenon

\* a sequence that is not empty has elements
LEMMA NotEmpty ==
    ASSUME NEW S, NEW s \in Seq(S), s # << >>
    PROVE  Len(s) \in Nat \ {0}
OBVIOUS

\* concatenation is associative
Associates(s, t, u) == (s \o t) \o u = s \o (t \o u)

\* the elements of a concatenation
LEMMA ConcatElements ==
    ASSUME NEW S, NEW s \in Seq(S), NEW t \in Seq(S)
    PROVE  /\ s \o t \in Seq(S) /\ Len(s \o t) = Len(s) + Len(t)
           /\ \A i \in 1..Len(s) + Len(t) :
                 (s \o t)[i] = IF i <= Len(s) THEN s[i] ELSE t[i - Len(s)]
OBVIOUS

LEMMA Associative ==
    ASSUME NEW S, NEW s \in Seq(S), NEW t \in Seq(S), NEW u \in Seq(S)
    PROVE  Associates(s, t, u)
<1> DEFINE st == s \o t
           tu == t \o u
           l == st \o u
           r == s \o tu
<1>1. Len(s) \in Nat /\ Len(t) \in Nat /\ Len(u) \in Nat
  OBVIOUS
<1>2. /\ st \in Seq(S) /\ Len(st) = Len(s) + Len(t)
      /\ \A i \in 1..Len(s) + Len(t) : st[i] = IF i <= Len(s) THEN s[i] ELSE t[i - Len(s)]
  OBVIOUS
<1>3. /\ tu \in Seq(S) /\ Len(tu) = Len(t) + Len(u)
      /\ \A i \in 1..Len(t) + Len(u) : tu[i] = IF i <= Len(t) THEN t[i] ELSE u[i - Len(t)]
  OBVIOUS
<1> HIDE DEF st, tu
<1>4. /\ l \in Seq(S) /\ Len(l) = Len(st) + Len(u)
      /\ \A i \in 1..Len(st) + Len(u) : l[i] = IF i <= Len(st) THEN st[i] ELSE u[i - Len(st)]
  <2>1. st \in Seq(S)
    BY <1>2, Zenon
  <2> QED
    BY <2>1
<1>5. /\ r \in Seq(S) /\ Len(r) = Len(s) + Len(tu)
      /\ \A i \in 1..Len(s) + Len(tu) : r[i] = IF i <= Len(s) THEN s[i] ELSE tu[i - Len(s)]
  <2>1. tu \in Seq(S)
    BY <1>3, Zenon
  <2> QED
    BY <2>1
<1> HIDE DEF l, r
<1>6. Len(l) = Len(r) /\ Len(l) = Len(s) + Len(t) + Len(u)
  BY <1>1, <1>2, <1>3, <1>4, <1>5
<1>7. ASSUME NEW i \in 1..Len(l)
      PROVE  l[i] = r[i]
  <2>1. /\ l[i] = IF i <= Len(s) + Len(t) THEN st[i] ELSE u[i - (Len(s) + Len(t))]
        /\ r[i] = IF i <= Len(s) THEN s[i] ELSE tu[i - Len(s)]
    BY <1>2, <1>3, <1>4, <1>5, <1>6, Zenon
  <2>2. CASE i <= Len(s)
    <3>1. i \in 1..Len(s) + Len(t) /\ i <= Len(s) + Len(t)
      BY <2>2, <1>1
    <3>2. st[i] = s[i]
      BY <3>1, <2>2, <1>2, Zenon
    <3> QED
      BY <3>1, <3>2, <2>1, <2>2, Zenon
  <2>3. CASE ~(i <= Len(s)) /\ i <= Len(s) + Len(t)
    <3>1. /\ i \in 1..Len(s) + Len(t)
          /\ i - Len(s) \in 1..Len(t) + Len(u) /\ i - Len(s) <= Len(t)
      BY <2>3, <1>1
    <3>2. st[i] = t[i - Len(s)] /\ tu[i - Len(s)] = t[i - Len(s)]
      BY <3>1, <2>3, <1>2, <1>3, Zenon
    <3> QED
      BY <3>2, <2>1, <2>3, Zenon
  <2>4. CASE ~(i <= Len(s)) /\ ~(i <= Len(s) + Len(t))
    <3>1. /\ i - Len(s) \in 1..Len(t) + Len(u) /\ ~(i - Len(s) <= Len(t))
          /\ i - Len(s) - Len(t) = i - (Len(s) + Len(t))
      BY <2>4, <1>1, <1>6
    <3>2. tu[i - Len(s)] = u[i - (Len(s) + Len(t))]
      BY <3>1, <1>3, Zenon
    <3> QED
      BY <3>2, <2>1, <2>4, Zenon
  <2> QED
    BY <2>2, <2>3, <2>4, Zenon
<1>8. l = r
  BY <1>4, <1>5, <1>6, <1>7, SameElements, Zenon
<1> QED
  BY <1>8, Zenon DEF Associates, l, r, st, tu

LEMMA ConcatEmpty ==
    ASSUME NEW S, NEW s \in Seq(S)
    PROVE  s \o << >> = s /\ << >> \o s = s
OBVIOUS

LEMMA Slice ==
    ASSUME NEW S, NEW seq \in Seq(S), NEW i \in Int, NEW j \in Int,
           1 <= i, i <= j + 1, j <= Len(seq)
    PROVE  /\ SubSeq(seq, i, j) \in Seq(S) /\ Len(SubSeq(seq, i, j)) = j - i + 1
           /\ \A k \in 1..j - i + 1 : SubSeq(seq, i, j)[k] = seq[i + k - 1]
OBVIOUS

\* a sequence is what is before and what is behind any place in it
LEMMA Cut ==
    ASSUME NEW S, NEW seq \in Seq(S), NEW j \in 0..Len(seq)
    PROVE  seq = SubSeq(seq, 1, j) \o SubSeq(seq, j + 1, Len(seq))
<1> DEFINE a == SubSeq(seq, 1, j)
           b == SubSeq(seq, j + 1, Len(seq))
<1>0. Len(seq) \in Nat
  OBVIOUS
<1>1. a \in Seq(S) /\ Len(a) = j /\ \A k \in 1..j : a[k] = seq[k]
  BY <1>0, Slice
<1>2. b \in Seq(S) /\ Len(b) = Len(seq) - j /\ \A k \in 1..Len(seq) - j : b[k] = seq[j + k]
  <2>1. /\ b \in Seq(S) /\ Len(b) = Len(seq) - (j + 1) + 1
        /\ \A k \in 1..Len(seq) - (j + 1) + 1 : b[k] = seq[j + 1 + k - 1]
    BY <1>0, Slice
  <2> HIDE DEF b
  <2> QED
    BY <2>1, <1>0
<1> HIDE DEF a, b
<1>3. /\ a \o b \in Seq(S) /\ Len(a \o b) = Len(a) + Len(b)
      /\ \A k \in 1..Len(a) + Len(b) : (a \o b)[k] = IF k <= Len(a) THEN a[k] ELSE b[k - Len(a)]
  BY <1>1, <1>2
<1>4. ASSUME NEW k \in 1..Len(seq)
      PROVE  (a \o b)[k] = seq[k]
  <2>1. CASE k <= j
    BY <2>1, <1>0, <1>1, <1>2, <1>3
  <2>2. CASE ~(k <= j)
    <3>1. k - j \in 1..Len(seq) - j /\ j + (k - j) = k
      BY <2>2, <1>0
    <3>2. b[k - j] = seq[k]
      BY <3>1, <1>2, Zenon
    <3> QED
      BY <3>2, <2>2, <1>0, <1>1, <1>2, <1>3
  <2> QED
    BY <2>1, <2>2, Zenon
<1>5. Len(a \o b) = Len(seq)
  BY <1>0, <1>1, <1>2, <1>3
<1>6. a \o b = seq
  BY <1>3, <1>4, <1>5, SameElements, Zenon
<1> QED
  BY <1>6, Zenon DEF a, b

\* equal concatenations whose first parts are equally long have equal parts
LEMMA ConcatCancel ==
    ASSUME NEW S, NEW a \in Seq(S), NEW b \in Seq(S), NEW x \in Seq(S), NEW y \in Seq(S),
           a \o x = b \o y, Len(a) = Len(b)
    PROVE  a = b /\ x = y
<1>1. /\ Len(a \o x) = Len(a) + Len(x)
      /\ \A k \in 1..Len(a) + Len(x) : (a \o x)[k] = IF k <= Len(a) THEN a[k] ELSE x[k - Len(a)]
  BY ConcatElements, Zenon
<1>2. /\ Len(b \o y) = Len(b) + Len(y)
      /\ \A k \in 1..Len(b) + Len(y) : (b \o y)[k] = IF k <= Len(b) THEN b[k] ELSE y[k - Len(b)]
  BY ConcatElements, Zenon
<1>3. Len(a) \in Nat /\ Len(b) \in Nat /\ Len(x) \in Nat /\ Len(y) \in Nat /\ Len(x) = Len(y)
  <2>1. Len(a) \in Nat /\ Len(b) \in Nat /\ Len(x) \in Nat /\ Len(y) \in Nat
    OBVIOUS
  <2> QED
    BY <2>1, <1>1, <1>2
<1>4. ASSUME NEW k \in 1..Len(a)
      PROVE  a[k] = b[k]
  <2>1. k \in 1..Len(a) + Len(x) /\ k \in 1..Len(b) + Len(y) /\ k <= Len(a) /\ k <= Len(b)
    BY <1>3
  <2> QED
    BY <2>1, <1>1, <1>2, Zenon
<1>5. ASSUME NEW k \in 1..Len(x)
      PROVE  x[k] = y[k]
  <2> DEFINE j == Len(a) + k
  <2>1. /\ j \in 1..Len(a) + Len(x) /\ j \in 1..Len(b) + Len(y) /\ ~(j <= Len(a)) /\ ~(j <= Len(b))
        /\ j - Len(a) = k /\ j - Len(b) = k
    BY <1>3
  <2> HIDE DEF j
  <2>2. (a \o x)[j] = x[k] /\ (b \o y)[j] = y[k]
    BY <2>1, <1>1, <1>2, Zenon
  <2> QED
    BY <2>2, Zenon
<1>6. a = b
  BY <1>3, <1>4, SameElements, Zenon
<1>7. x = y
  BY <1>3, <1>5, SameElements, Zenon
<1> QED
  BY <1>6, <1>7, Zenon

\* where a text ends with its first z, equal streams have equal texts
LEMMA TextCancel ==
    ASSUME NEW S, NEW z \in S, NEW a \in Seq(S), NEW b \in Seq(S), NEW x \in Seq(S), NEW y \in Seq(S),
           Append(a, z) \o x = Append(b, z) \o y,
           \A k \in 1..Len(a) : a[k] # z, \A k \in 1..Len(b) : b[k] # z
    PROVE  a = b /\ x = y
<1> DEFINE s == Append(a, z) \o x
           t == Append(b, z) \o y
<1>1. ASSUME NEW c \in Seq(S), NEW u \in Seq(S)
      PROVE  /\ (Append(c, z) \o u)[Len(c) + 1] = z
             /\ \A k \in 1..Len(c) : (Append(c, z) \o u)[k] = c[k]
             /\ Append(c, z) \in Seq(S) /\ Len(Append(c, z)) = Len(c) + 1 /\ Len(c) \in Nat
  <2> DEFINE d == Append(c, z)
  <2>1. /\ d \in Seq(S) /\ Len(d) = Len(c) + 1 /\ Len(c) \in Nat /\ d[Len(c) + 1] = z
        /\ \A k \in 1..Len(c) : d[k] = c[k]
    OBVIOUS
  <2> HIDE DEF d
  <2>2. \A k \in 1..Len(d) + Len(u) : (d \o u)[k] = IF k <= Len(d) THEN d[k] ELSE u[k - Len(d)]
    BY <2>1
  <2>3. Len(u) \in Nat
    OBVIOUS
  <2>4. (d \o u)[Len(c) + 1] = z
    BY <2>1, <2>2, <2>3
  <2>5. \A k \in 1..Len(c) : (d \o u)[k] = c[k]
    BY <2>1, <2>2, <2>3
  <2> QED
    BY <2>1, <2>4, <2>5, Zenon DEF d
<1>2. /\ s[Len(a) + 1] = z /\ \A k \in 1..Len(a) : s[k] = a[k]
      /\ Append(a, z) \in Seq(S) /\ Len(Append(a, z)) = Len(a) + 1 /\ Len(a) \in Nat
  BY <1>1, Zenon
<1>3. /\ t[Len(b) + 1] = z /\ \A k \in 1..Len(b) : t[k] = b[k]
      /\ Append(b, z) \in Seq(S) /\ Len(Append(b, z)) = Len(b) + 1 /\ Len(b) \in Nat
  BY <1>1, ZenonT(30)
<1>4. s = t
  BY Zenon
<1> HIDE DEF s, t
<1>5. Len(a) = Len(b)
  <2>1. ~(Len(a) < Len(b))
    <3> SUFFICES ASSUME Len(a) < Len(b)
                 PROVE  FALSE
      BY Zenon
    <3>1. Len(a) + 1 \in 1..Len(b)
      BY <1>2, <1>3
    <3> QED
      BY <3>1, <1>2, <1>3, <1>4, Zenon
  <2>2. ~(Len(b) < Len(a))
    <3> SUFFICES ASSUME Len(b) < Len(a)
                 PROVE  FALSE
      BY Zenon
    <3>1. Len(b) + 1 \in 1..Len(a)
      BY <1>2, <1>3
    <3> QED
      BY <3>1, <1>2, <1>3, <1>4, Zenon
  <2> QED
    BY <2>1, <2>2, <1>2, <1>3
<1>6. x = y
  <2> DEFINE c == Append(a, z)
             d == Append(b, z)
  <2>1. c \in Seq(S) /\ d \in Seq(S) /\ Len(c) = Len(d)
    BY <1>2, <1>3, <1>5, Zenon
  <2>2. c \o x = d \o y
    BY <1>4, Zenon DEF s, t
  <2> HIDE DEF c, d
  <2> QED
    BY <2>1, <2>2, ConcatCancel, Zenon
<1>7. a = b
  <2>1. \A k \in 1..Len(a) : a[k] = b[k]
    BY <1>2, <1>3, <1>4, <1>5, Zenon
  <2> QED
    BY <2>1, <1>5, SameElements, Zenon
<1> QED
  BY <1>6, <1>7, Zenon

\* what is behind a place in the first of two sequences
LEMMA DropConcat ==
    ASSUME NEW S, NEW f \in Seq(S), NEW g \in Seq(S), NEW i \in 0..Len(f)
    PROVE  SubSeq(f \o g, i + 1, Len(f \o g)) = SubSeq(f, i + 1, Len(f)) \o g
<1> DEFINE fg == f \o g
           f1 == SubSeq(f, 1, i)
           f2 == SubSeq(f, i + 1, Len(f))
           h1 == SubSeq(fg, 1, i)
           h2 == SubSeq(fg, i + 1, Len(fg))
<1>1. fg \in Seq(S) /\ Len(fg) = Len(f) + Len(g) /\ Len(f) \in Nat /\ Len(g) \in Nat /\ i \in 0..Len(fg)
  OBVIOUS
<1> HIDE DEF fg
<1>2. f1 \in Seq(S) /\ f2 \in Seq(S) /\ Len(f1) = i
  BY <1>1
<1>3. h1 \in Seq(S) /\ h2 \in Seq(S) /\ Len(h1) = i
  BY <1>1
<1>4. f = f1 \o f2
  BY Cut, Zenon
<1>5. fg = h1 \o h2
  BY <1>1, Cut, Zenon
<1> HIDE DEF f1, f2, h1, h2
<1>6. fg = f1 \o (f2 \o g) /\ f2 \o g \in Seq(S)
  <2>1. Associates(f1, f2, g)
    BY <1>2, Associative, Zenon
  <2> QED
    BY <2>1, <1>2, <1>4 DEF Associates, fg
<1>7. h2 = f2 \o g
  <2> DEFINE y1 == f2 \o g
  <2>1. y1 \in Seq(S) /\ h1 \o h2 = f1 \o y1 /\ Len(h1) = Len(f1)
    BY <1>2, <1>3, <1>5, <1>6, Zenon
  <2> HIDE DEF y1
  <2>2. h2 = y1
    BY <2>1, <1>2, <1>3, ConcatCancel, Zenon
  <2> QED
    BY <2>2, Zenon DEF y1
<1> QED
  BY <1>7, Zenon DEF h2, f2, fg

\* the part behind a place begins with any part of it
LEMMA DropTwice ==
    ASSUME NEW S, NEW f \in Seq(S), NEW i \in 0..Len(f), NEW k \in 0..Len(f) - i
    PROVE  SubSeq(f, i + 1, Len(f)) =
              SubSeq(SubSeq(f, i + 1, Len(f)), 1, k) \o SubSeq(f, i + k + 1, Len(f))
<1> DEFINE d == SubSeq(f, i + 1, Len(f))
           d1 == SubSeq(d, 1, k)
           d2 == SubSeq(d, k + 1, Len(d))
           e == SubSeq(f, i + k + 1, Len(f))
<1>1. Len(f) \in Nat /\ i \in Nat /\ k \in Nat /\ i + k <= Len(f)
  OBVIOUS
<1>2. d \in Seq(S) /\ Len(d) = Len(f) - i /\ \A j \in 1..Len(f) - i : d[j] = f[i + j]
  BY <1>1
<1>3. e \in Seq(S) /\ Len(e) = Len(f) - (i + k) /\ \A j \in 1..Len(f) - (i + k) : e[j] = f[i + k + j]
  BY <1>1
<1> HIDE DEF d, e
<1>4. d2 \in Seq(S) /\ Len(d2) = Len(f) - (i + k) /\ \A j \in 1..Len(f) - (i + k) : d2[j] = d[k + j]
  <2>1. /\ k + 1 \in Int /\ Len(d) \in Int /\ 1 <= k + 1 /\ k + 1 <= Len(d) + 1
        /\ Len(d) - (k + 1) + 1 = Len(f) - (i + k)
    BY <1>1, <1>2
  <2>2. /\ d2 \in Seq(S) /\ Len(d2) = Len(f) - (i + k)
        /\ \A j \in 1..Len(f) - (i + k) : d2[j] = d[k + 1 + j - 1]
    BY <1>2, <2>1, Slice
  <2>3. \A j \in 1..Len(f) - (i + k) : k + 1 + j - 1 = k + j
    BY <1>1
  <2> QED
    BY <2>2, <2>3, Zenon
<1>5. d = d1 \o d2
  <2>1. k \in 0..Len(d)
    BY <1>1, <1>2, Zenon
  <2> QED
    BY <2>1, <1>2, Cut, Zenon
<1> HIDE DEF d2
<1>6. d2 = e
  <2>1. ASSUME NEW j \in 1..Len(f) - (i + k) PROVE d2[j] = e[j]
    <3>1. k + j \in 1..Len(f) - i /\ i + (k + j) = i + k + j
      BY <1>1
    <3>2. d2[j] = d[k + j] /\ d[k + j] = f[i + (k + j)] /\ e[j] = f[i + k + j]
      BY <3>1, <1>2, <1>3, <1>4, Zenon
    <3> QED
      BY <3>1, <3>2, Zenon
  <2> QED
    BY <2>1, <1>3, <1>4, SameElements, Zenon
<1> QED
  BY <1>5, <1>6, Zenon DEF d, e
=============================================================================
