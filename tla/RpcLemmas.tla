------------------------------ MODULE RpcLemmas ------------------------------
(***************************************************************************)
(* The inductive invariant of Rpc, and the lemmas its proof rests on: what *)
(* each step does to the flow of invocations, and to a registry.  The      *)
(* initial state and the steps that move messages.                         *)
(***************************************************************************)
EXTENDS Rpc, DataLemmas

\* the solver the steps without one of their own go to
USE SMTT(30)

(* The inductive invariant.                                                *)

Distinct(list) == \A m, n \in 1..Len(list) : list[m] = list[n] => m = n

\* what remove() and disconnect() rely on beside RegistriesAgree
Registered ==
    /\ Distinct(c_list) /\ Distinct(s_list)
    /\ \A i \in DOMAIN c_map : c_map[i] # NULL
    /\ \A p \in Addr : alive(c_list, p) => stub[p].n_handles = 1
    /\ \A f \in Function : s_pointer[f] \in Addr => find(s_map, id(f)) = s_pointer[f]

HandlesOwn ==
    ~misused =>
        /\ \A h \in Handle : handle[h] # NULL => alive(c_list, handle[h])
        /\ \A g, h \in Handle : handle[g] # NULL /\ handle[g] = handle[h] => g = h

\* the invocations each function waits for, as one function
pending == [i \in Id |-> invocations(i)]

Awaited(L, name, msg_id, call) ==
    \E k \in 1..Len(L[name]) : L[name][k] = [id |-> msg_id, call |-> call]
Requesting(U, i, call) == \E n \in 1..Len(U) : U[n].name = i /\ U[n].value = call
Replying(D, i, call) == \E n \in 1..Len(D) : D[n].name = i /\ answered(D[n]) = call

\* PendingInOrder of pending invocations L, requests U and replies D
InOrder(L, U, D) ==
    /\ \A n \in 1..Len(U) : Awaited(L, U[n].name, U[n].id, U[n].value)
    /\ \A n \in 1..Len(D) : Awaited(L, D[n].name, D[n].id, answered(D[n]))
    /\ \A m, n \in 1..Len(U) : m < n => U[m].value < U[n].value
    /\ \A m, n \in 1..Len(D) : m < n => answered(D[m]) < answered(D[n])
    /\ \A m \in 1..Len(D), n \in 1..Len(U) : answered(D[m]) < U[n].value
    /\ \A i \in Id : \A j, k \in 1..Len(L[i]) : j < k =>
          /\ L[i][j].call < L[i][k].call
          /\ Replying(D, i, L[i][k].call) => Replying(D, i, L[i][j].call)
          /\ Requesting(U, i, L[i][j].call) => Requesting(U, i, L[i][k].call)

\* an invocation that is neither requested nor replied was dropped by get(),
\* which left a null pointer that insert() never replaces
Accounted(L, U, D, map) ==
    \A i \in Id : \A k \in 1..Len(L[i]) :
        \/ Requesting(U, i, L[i][k].call)
        \/ Replying(D, i, L[i][k].call)
        \/ i \in DOMAIN map /\ map[i] = NULL

Numbered(L, n) == \A i \in Id : \A k \in 1..Len(L[i]) : L[i][k].call <= n

Flow ==
    ~misused =>
        /\ InOrder(pending, upstream, downstream)
        /\ Accounted(pending, upstream, downstream, s_map)
        /\ Numbered(pending, n_calls)

\* inside a callback: the reply is the oldest, and answers the oldest invocation
Answering ==
    c_pc = "callback" =>
        /\ answering \in [rpc : Addr, at : Nat \ {0}, value : {result(v) : v \in 1 .. MaxCalls},
                          call : 1 .. MaxCalls]
        /\ c_rx # << >>
        /\ ~misused =>
              /\ answering.rpc = find(c_map, Head(c_rx).name)
              /\ answering.at = 1
              /\ stub[answering.rpc].invokation_list # << >>
              /\ stub[answering.rpc].invokation_list[1]
                    = [id |-> Head(c_rx).id, call |-> answering.call]
              /\ answering.value = Head(c_rx).value
              /\ answered(Head(c_rx)) = answering.call

IInv == /\ TypeOK /\ RegistriesAgree /\ Registered /\ HandlesOwn /\ Flow /\ Answering
        /\ FaultOnlyByMisuse

-----------------------------------------------------------------------------
(* The flow of calls, as facts about L, U and D alone.                     *)

FirstOff(s, t) ==
    /\ Len(s) # 0 /\ Len(t) = Len(s) - 1
    /\ \A k \in 1..Len(s) - 1 : t[k] = s[k + 1]
LastOn(s, t, x) ==
    /\ Len(t) = Len(s) + 1 /\ t[Len(s) + 1] = x
    /\ \A k \in 1..Len(s) : t[k] = s[k]

\* asyncRPC() of the function i enters an invocation and a request
Called(L, U, L2, U2, i, x, call) ==
    /\ LastOn(L[i], L2[i], [id |-> x, call |-> call])
    /\ LastOn(U, U2, [name |-> i, id |-> x, value |-> call])
    /\ \A j \in Id \ {i} : L2[j] = L[j]

\* the server drops the oldest request, or replies to it
Dispatched(U, D, map, U2, D2, map2) ==
    /\ FirstOff(U, U2)
    /\ \A i \in Id : i \in DOMAIN map /\ map[i] = NULL => i \in DOMAIN map2 /\ map2[i] = NULL
    /\ \/ D2 = D /\ U[1].name \in DOMAIN map2 /\ map2[U[1].name] = NULL
       \/ /\ ~(U[1].name \in DOMAIN map /\ map[U[1].name] = NULL)
          /\ Len(D2) = Len(D) + 1 /\ \A k \in 1..Len(D) : D2[k] = D[k]
          /\ D2[Len(D) + 1].name = U[1].name /\ D2[Len(D) + 1].id = U[1].id
          /\ answered(D2[Len(D) + 1]) = U[1].value

\* the callback of the oldest reply has returned
Returned(L, D, L2, D2) ==
    /\ FirstOff(D, D2)
    /\ FirstOff(L[D[1].name], L2[D[1].name])
    /\ \A j \in Id \ {D[1].name} : L2[j] = L[j]

LEMMA FlowTypes ==
    ASSUME NEW L \in [Id -> Seq(Invocation)], NEW U \in Seq(Request), NEW D \in Seq(Reply)
    PROVE  /\ \A i \in Id : Len(L[i]) \in Nat /\ \A k \in 1..Len(L[i]) : L[i][k].call \in Nat
           /\ Len(U) \in Nat /\ Len(D) \in Nat
           /\ \A n \in 1..Len(U) : U[n].name \in Id /\ U[n].value \in Nat
           /\ \A n \in 1..Len(D) : D[n].name \in Id /\ answered(D[n]) \in Nat
<1>1. \A i \in Id : Len(L[i]) \in Nat /\ \A k \in 1..Len(L[i]) : L[i][k] \in Invocation
  OBVIOUS
<1>2. \A n \in 1..Len(U) : U[n] \in Request
  OBVIOUS
<1>3. \A n \in 1..Len(D) : D[n] \in Reply
  OBVIOUS
<1>4. \A r \in Reply : r.name \in Id /\ answered(r) \in Nat
  BY DEF Reply, answered, result
<1>5. \A e \in Invocation : e.call \in Nat
  BY DEF Invocation
<1>6. \A r \in Request : r.name \in Id /\ r.value \in Nat
  BY DEF Request
<1> QED
  BY <1>1, <1>2, <1>3, <1>4, <1>5, <1>6

LEMMA CallFlows ==
    ASSUME NEW L \in [Id -> Seq(Invocation)], NEW U \in Seq(Request), NEW D \in Seq(Reply),
           NEW map, NEW n \in Nat, NEW i \in Id, NEW x,
           NEW L2, NEW U2,
           Called(L, U, L2, U2, i, x, n + 1),
           InOrder(L, U, D), Accounted(L, U, D, map), Numbered(L, n)
    PROVE  InOrder(L2, U2, D) /\ Accounted(L2, U2, D, map) /\ Numbered(L2, n + 1)
<1> DEFINE e == [id |-> x, call |-> n + 1]
           r == [name |-> i, id |-> x, value |-> n + 1]
           l == Len(L[i])
           u == Len(U)
<1>0. /\ e.call = n + 1 /\ e.id = x
      /\ r.name = i /\ r.id = x /\ r.value = n + 1
  BY Zenon
<1>1. /\ \A j \in Id \ {i} : L2[j] = L[j]
      /\ Len(L2[i]) = l + 1 /\ L2[i][l + 1] = e
      /\ \A k \in 1..l : L2[i][k] = L[i][k]
  BY Zenon DEF Called, LastOn
<1>2. /\ Len(U2) = u + 1 /\ U2[u + 1] = r
      /\ \A k \in 1..u : U2[k] = U[k]
  BY Zenon DEF Called, LastOn
<1>t. /\ \A j \in Id : Len(L[j]) \in Nat /\ \A k \in 1..Len(L[j]) : L[j][k].call \in Nat
      /\ Len(U) \in Nat /\ Len(D) \in Nat
      /\ \A k \in 1..Len(U) : U[k].name \in Id /\ U[k].value \in Nat
      /\ \A k \in 1..Len(D) : D[k].name \in Id /\ answered(D[k]) \in Nat
  BY FlowTypes, Zenon
<1>l. l \in Nat /\ u \in Nat
  BY <1>t, Zenon
<1> HIDE DEF e, r, l, u
<1>3. \A nm \in Id : \A y, c : Awaited(L, nm, y, c) => Awaited(L2, nm, y, c)
  <2> SUFFICES ASSUME NEW nm \in Id, NEW y, NEW c,
                      NEW k \in 1..Len(L[nm]), L[nm][k] = [id |-> y, call |-> c]
               PROVE  k \in 1..Len(L2[nm]) /\ L2[nm][k] = [id |-> y, call |-> c]
    BY DEF Awaited
  <2>1. CASE nm = i
    BY <2>1, <1>1, <1>l DEF l
  <2>2. CASE nm # i
    BY <2>2, <1>1, Zenon
  <2> QED
    BY <2>1, <2>2, Zenon
<1>4. Awaited(L2, i, x, n + 1)
  BY <1>1, <1>t, <1>l DEF Awaited, e
<1>5. \A nm \in Id : \A y, c : Awaited(L, nm, y, c) => c <= n
  BY <1>t, <1>l DEF Awaited, Numbered
<1>6. \A j, c : Requesting(U, j, c) => Requesting(U2, j, c)
  BY <1>2, <1>t, <1>l DEF Requesting, u
<1>7. Requesting(U2, i, n + 1)
  <2>1. u + 1 \in 1..Len(U2)
    BY <1>2, <1>l
  <2> QED
    BY <2>1, <1>0, <1>2, Zenon DEF Requesting
<1>8. \A j, c : Requesting(U2, j, c) => Requesting(U, j, c) \/ (j = i /\ c = n + 1)
  <2> SUFFICES ASSUME NEW k \in 1..Len(U2)
               PROVE  \/ Requesting(U, U2[k].name, U2[k].value)
                      \/ U2[k].name = i /\ U2[k].value = n + 1
    BY Zenon DEF Requesting
  <2>1. CASE k = u + 1
    BY <2>1, <1>0, <1>2, Zenon
  <2>2. CASE k \in 1..Len(U)
    BY <2>2, <1>2, Zenon DEF Requesting, u
  <2> QED
    BY <2>1, <2>2, <1>2, <1>l DEF u
<1>9. \A j, c : Replying(D, j, c) => c <= n
  BY <1>5, <1>t, <1>l DEF Replying, InOrder
<1>10. InOrder(L2, U2, D)
  <2>1. \A k \in 1..Len(U2) : Awaited(L2, U2[k].name, U2[k].id, U2[k].value)
    <3> SUFFICES ASSUME NEW k \in 1..Len(U2)
                 PROVE  Awaited(L2, U2[k].name, U2[k].id, U2[k].value)
      BY Zenon
    <3>1. CASE k = u + 1
      BY <3>1, <1>0, <1>2, <1>4, Zenon
    <3>2. CASE k \in 1..Len(U)
      BY <3>2, <1>2, <1>3, <1>t, ZenonT(30) DEF InOrder, u
    <3> QED
      BY <3>1, <3>2, <1>2, <1>l DEF u
  <2>2. \A k \in 1..Len(D) : Awaited(L2, D[k].name, D[k].id, answered(D[k]))
    BY <1>3, <1>t, <1>l, ZenonT(30) DEF InOrder
  <2>3. \A k \in 1..u : U[k].value <= n
    BY <1>5, <1>t, <1>l, ZenonT(30) DEF InOrder, u
  <2>4. \A k \in 1..Len(D) : answered(D[k]) <= n
    BY <1>5, <1>t, <1>l, ZenonT(30) DEF InOrder
  <2>5. \A j, k \in 1..Len(U2) : j < k => U2[j].value < U2[k].value
    <3> SUFFICES ASSUME NEW j \in 1..Len(U2), NEW k \in 1..Len(U2), j < k
                 PROVE  U2[j].value < U2[k].value
      BY Zenon
    <3>0. j \in 1..u /\ U2[j] = U[j]
      BY <1>2, <1>l
    <3>1. CASE k = u + 1
      BY <3>0, <3>1, <2>3, <1>0, <1>2, <1>t DEF u
    <3>2. CASE k \in 1..u
      BY <3>0, <3>2, <1>2, ZenonT(30) DEF InOrder, u
    <3> QED
      BY <3>1, <3>2, <1>2, <1>l
  <2>6. \A j \in 1..Len(D), k \in 1..Len(U2) : answered(D[j]) < U2[k].value
    <3> SUFFICES ASSUME NEW j \in 1..Len(D), NEW k \in 1..Len(U2)
                 PROVE  answered(D[j]) < U2[k].value
      BY Zenon
    <3>1. CASE k = u + 1
      BY <3>1, <2>4, <1>0, <1>2, <1>t
    <3>2. CASE k \in 1..u
      BY <3>2, <1>2, Zenon DEF InOrder, u
    <3> QED
      BY <3>1, <3>2, <1>2, <1>l
  <2>7. ASSUME NEW m \in Id, NEW j \in 1..Len(L2[m]), NEW k \in 1..Len(L2[m]), j < k
        PROVE  /\ L2[m][j].call < L2[m][k].call
               /\ Replying(D, m, L2[m][k].call) => Replying(D, m, L2[m][j].call)
               /\ Requesting(U2, m, L2[m][j].call) => Requesting(U2, m, L2[m][k].call)
    <3>1. CASE m = i /\ k = l + 1
      <4>1. j \in 1..l /\ L2[m][j] = L[m][j] /\ L2[m][k] = e
        BY <3>1, <2>7, <1>1, <1>t, <1>l
      <4>2. L[m][j].call <= n /\ L[m][j].call \in Nat
        BY <4>1, <3>1, <1>t, <1>l, ZenonT(30) DEF Numbered, l
      <4> QED
        BY <4>1, <4>2, <3>1, <1>0, <1>7, <1>9
    <3>2. CASE ~(m = i /\ k = l + 1)
      <4>1. /\ j \in 1..Len(L[m]) /\ k \in 1..Len(L[m])
            /\ L2[m][j] = L[m][j] /\ L2[m][k] = L[m][k]
        BY <3>2, <2>7, <1>1, <1>t, <1>l DEF l
      <4>2. L[m][j].call <= n /\ L[m][j].call \in Nat
        BY <4>1, <1>t, <1>l, ZenonT(30) DEF Numbered
      <4> QED
        BY <4>1, <4>2, <2>7, <1>6, <1>8 DEF InOrder
    <3> QED
      BY <3>1, <3>2, Zenon
  <2> QED
    BY <2>1, <2>2, <2>5, <2>6, <2>7, Zenon DEF InOrder
<1>11. Accounted(L2, U2, D, map) /\ Numbered(L2, n + 1)
  <2> SUFFICES ASSUME NEW m \in Id, NEW k \in 1..Len(L2[m])
               PROVE  /\ \/ Requesting(U2, m, L2[m][k].call)
                         \/ Replying(D, m, L2[m][k].call)
                         \/ m \in DOMAIN map /\ map[m] = NULL
                      /\ L2[m][k].call <= n + 1
    BY Zenon DEF Accounted, Numbered
  <2>1. CASE m = i /\ k = l + 1
    BY <2>1, <1>0, <1>1, <1>7
  <2>2. CASE ~(m = i /\ k = l + 1)
    <3>1. k \in 1..Len(L[m]) /\ L2[m][k] = L[m][k]
      BY <2>2, <1>1, <1>t, <1>l DEF l
    <3> QED
      <4>1. L[m][k].call <= n /\ L[m][k].call \in Nat
        BY <3>1, <1>t, ZenonT(30) DEF Numbered
      <4>2. \/ Requesting(U, m, L[m][k].call)
            \/ Replying(D, m, L[m][k].call)
            \/ m \in DOMAIN map /\ map[m] = NULL
        BY <3>1, Zenon DEF Accounted
      <4> QED
        BY <3>1, <4>1, <4>2, <1>6
  <2> QED
    BY <2>1, <2>2, ZenonT(30)
<1> QED
  BY <1>10, <1>11, Zenon

\* taking the oldest request off
LEMMA RequestTaken ==
    ASSUME NEW L \in [Id -> Seq(Invocation)], NEW U \in Seq(Request), NEW D \in Seq(Reply),
           NEW U2, FirstOff(U, U2), InOrder(L, U, D)
    PROVE  /\ \A k \in 1..Len(U2) : k + 1 \in 1..Len(U) /\ U2[k] = U[k + 1] /\ U[1].value < U2[k].value
           /\ \A j, c : Requesting(U, j, c) =>
                 Requesting(U2, j, c) \/ (j = U[1].name /\ c = U[1].value)
           /\ \A j, c : Requesting(U2, j, c) => Requesting(U, j, c) /\ U[1].value < c
<1>t. Len(U) \in Nat /\ \A k \in 1..Len(U) : U[k].value \in Nat
  BY FlowTypes, Zenon
<1>0. Len(U) # 0 /\ Len(U2) = Len(U) - 1 /\ \A k \in 1..Len(U) - 1 : U2[k] = U[k + 1]
  BY Zenon DEF FirstOff
<1>1. \A k \in 1..Len(U2) : k + 1 \in 1..Len(U) /\ U2[k] = U[k + 1] /\ U[1].value < U2[k].value
  <2> SUFFICES ASSUME NEW k \in 1..Len(U2)
               PROVE  k + 1 \in 1..Len(U) /\ U2[k] = U[k + 1] /\ U[1].value < U2[k].value
    BY Zenon
  <2>1. k + 1 \in 1..Len(U) /\ 1 \in 1..Len(U) /\ 1 < k + 1 /\ U2[k] = U[k + 1]
    BY <1>t, <1>0
  <2> QED
    BY <2>1, Zenon DEF InOrder
<1>2. ASSUME NEW j, NEW c, Requesting(U, j, c)
      PROVE  Requesting(U2, j, c) \/ (j = U[1].name /\ c = U[1].value)
  <2>1. PICK n \in 1..Len(U) : U[n].name = j /\ U[n].value = c
    BY <1>2, Zenon DEF Requesting
  <2>2. CASE n # 1
    <3>1. n - 1 \in 1..Len(U2) /\ U2[n - 1] = U[n]
      BY <2>2, <1>t, <1>0
    <3> QED
      BY <3>1, <2>1, Zenon DEF Requesting
  <2> QED
    BY <2>1, <2>2, Zenon
<1>3. \A j, c : Requesting(U2, j, c) => Requesting(U, j, c) /\ U[1].value < c
  <2> SUFFICES ASSUME NEW k \in 1..Len(U2)
               PROVE  Requesting(U, U2[k].name, U2[k].value) /\ U[1].value < U2[k].value
    BY ZenonT(30) DEF Requesting
  <2> QED
    BY <1>1, Zenon DEF Requesting
<1> QED
  BY <1>1, <1>2, <1>3, Zenon

LEMMA DispatchFlows ==
    ASSUME NEW L \in [Id -> Seq(Invocation)], NEW U \in Seq(Request), NEW D \in Seq(Reply),
           NEW map, NEW U2, NEW D2, NEW map2, Dispatched(U, D, map, U2, D2, map2),
           InOrder(L, U, D), Accounted(L, U, D, map)
    PROVE  InOrder(L, U2, D2) /\ Accounted(L, U2, D2, map2)
<1> DEFINE dropped == D2 = D /\ U[1].name \in DOMAIN map2 /\ map2[U[1].name] = NULL
           v == U[1].value
           nm == U[1].name
           d == Len(D)
<1>t. /\ \A j \in Id : Len(L[j]) \in Nat /\ \A k \in 1..Len(L[j]) : L[j][k].call \in Nat
      /\ Len(U) \in Nat /\ Len(D) \in Nat
      /\ \A k \in 1..Len(U) : U[k].name \in Id /\ U[k].value \in Nat
      /\ \A k \in 1..Len(D) : D[k].name \in Id /\ answered(D[k]) \in Nat
  BY FlowTypes, Zenon
<1>f. FirstOff(U, U2) /\ Len(U) # 0
  BY Zenon DEF Dispatched, FirstOff
<1>0. 1 \in 1..Len(U) /\ nm \in Id /\ v \in Nat /\ d \in Nat
  BY <1>f, <1>t
<1>1. /\ \A k \in 1..Len(U2) : k + 1 \in 1..Len(U) /\ U2[k] = U[k + 1] /\ v < U2[k].value
      /\ \A j, c : Requesting(U, j, c) => Requesting(U2, j, c) \/ (j = nm /\ c = v)
      /\ \A j, c : Requesting(U2, j, c) => Requesting(U, j, c) /\ v < c
  BY <1>f, RequestTaken, Zenon
<1>2. \/ dropped
      \/ /\ ~(nm \in DOMAIN map /\ map[nm] = NULL)
         /\ Len(D2) = d + 1 /\ \A k \in 1..d : D2[k] = D[k]
         /\ D2[d + 1].name = nm /\ D2[d + 1].id = U[1].id /\ answered(D2[d + 1]) = v
  BY Zenon DEF Dispatched
<1>3. \A i \in Id : i \in DOMAIN map /\ map[i] = NULL => i \in DOMAIN map2 /\ map2[i] = NULL
  BY Zenon DEF Dispatched
<1>4. Awaited(L, nm, U[1].id, v)
  BY <1>0, Zenon DEF InOrder
<1>5. \A k \in 1..Len(D) : answered(D[k]) < v
  BY <1>0, Zenon DEF InOrder
<1>6. Requesting(U, nm, v)
  BY <1>0, Zenon DEF Requesting
<1> HIDE DEF dropped, v, nm, d
<1>7. /\ \A k \in 1..Len(U2) : Awaited(L, U2[k].name, U2[k].id, U2[k].value)
      /\ \A m, n \in 1..Len(U2) : m < n => U2[m].value < U2[n].value
      /\ \A m \in 1..Len(D), n \in 1..Len(U2) : answered(D[m]) < U2[n].value
  <2>1. \A k \in 1..Len(U2) : Awaited(L, U2[k].name, U2[k].id, U2[k].value)
    BY <1>1, Zenon DEF InOrder
  <2>2. ASSUME NEW m \in 1..Len(U2), NEW n \in 1..Len(U2), m < n
        PROVE  U2[m].value < U2[n].value
    <3>1. m + 1 < n + 1
      BY <2>2, <1>1, <1>t
    <3> QED
      BY <3>1, <1>1, Zenon DEF InOrder
  <2>3. \A m \in 1..Len(D), n \in 1..Len(U2) : answered(D[m]) < U2[n].value
    BY <1>1, Zenon DEF InOrder
  <2> QED
    BY <2>1, <2>2, <2>3, Zenon
<1>8. \A i \in Id : \A j, k \in 1..Len(L[i]) : j < k =>
         /\ L[i][j].call < L[i][k].call
         /\ Requesting(U2, i, L[i][j].call) => Requesting(U2, i, L[i][k].call)
  <2> SUFFICES ASSUME NEW i \in Id, NEW j \in 1..Len(L[i]), NEW k \in 1..Len(L[i]), j < k
               PROVE  /\ L[i][j].call < L[i][k].call
                      /\ Requesting(U2, i, L[i][j].call) => Requesting(U2, i, L[i][k].call)
    BY Zenon
  <2>1. /\ L[i][j].call < L[i][k].call /\ L[i][j].call \in Nat /\ L[i][k].call \in Nat
        /\ Requesting(U, i, L[i][j].call) => Requesting(U, i, L[i][k].call)
    BY <1>t, Zenon DEF InOrder
  <2> QED
    BY <2>1, <1>1, <1>0
<1>9. CASE dropped
  <2>1. D2 = D
    BY <1>9, Zenon DEF dropped
  <2>2. InOrder(L, U2, D)
    BY <1>7, <1>8, ZenonT(30) DEF InOrder
  <2>3. Accounted(L, U2, D, map2)
    <3> SUFFICES ASSUME NEW i \in Id, NEW k \in 1..Len(L[i]), ~Requesting(U2, i, L[i][k].call)
                 PROVE  \/ Replying(D, i, L[i][k].call)
                        \/ i \in DOMAIN map2 /\ map2[i] = NULL
      BY Zenon DEF Accounted
    <3>1. \/ Requesting(U, i, L[i][k].call)
          \/ Replying(D, i, L[i][k].call)
          \/ i \in DOMAIN map /\ map[i] = NULL
      BY Zenon DEF Accounted
    <3>2. CASE i = nm
      BY <3>2, <1>9, Zenon DEF dropped, nm
    <3>3. CASE i # nm
      BY <3>1, <3>3, <1>1, <1>3, ZenonT(30)
    <3> QED
      BY <3>2, <3>3, Zenon
  <2> QED
    BY <2>1, <2>2, <2>3, Zenon
<1>10. CASE ~dropped
  <2>1. /\ ~(nm \in DOMAIN map /\ map[nm] = NULL)
        /\ Len(D2) = d + 1 /\ \A k \in 1..d : D2[k] = D[k]
        /\ D2[d + 1].name = nm /\ D2[d + 1].id = U[1].id /\ answered(D2[d + 1]) = v
    BY <1>10, <1>2, Zenon
  <2>2. \A j, c : Replying(D, j, c) => Replying(D2, j, c)
    <3> SUFFICES ASSUME NEW k \in 1..Len(D)
                 PROVE  Replying(D2, D[k].name, answered(D[k]))
      BY Zenon DEF Replying
    <3>1. k \in 1..Len(D2) /\ D2[k] = D[k]
      BY <2>1, <1>0 DEF d
    <3> QED
      BY <3>1, Zenon DEF Replying
  <2>3. Replying(D2, nm, v)
    <3>1. d + 1 \in 1..Len(D2)
      BY <2>1, <1>0
    <3> QED
      BY <3>1, <2>1, Zenon DEF Replying
  <2>4. \A j, c : Replying(D2, j, c) => Replying(D, j, c) \/ (j = nm /\ c = v)
    <3> SUFFICES ASSUME NEW k \in 1..Len(D2)
                 PROVE  \/ Replying(D, D2[k].name, answered(D2[k]))
                        \/ D2[k].name = nm /\ answered(D2[k]) = v
      BY Zenon DEF Replying
    <3>1. CASE k = d + 1
      BY <3>1, <2>1, Zenon
    <3>2. CASE k \in 1..Len(D)
      BY <3>2, <2>1, Zenon DEF Replying, d
    <3> QED
      BY <3>1, <3>2, <2>1, <1>0 DEF d
  \* an older invocation of the function has its reply on the way: it is no
  \* longer requested, and none of this function was dropped
  <2>5. ASSUME NEW j \in 1..Len(L[nm]), L[nm][j].call < v
        PROVE  Replying(D, nm, L[nm][j].call)
    <3>1. ~Requesting(U, nm, L[nm][j].call)
      <4>1. L[nm][j].call \in Nat
        BY <1>0, <1>t, Zenon
      <4> QED
        BY <4>1, <2>5, <1>0, <1>1
    <3> QED
      BY <3>1, <2>1, <1>0, Zenon DEF Accounted
  <2>6. \A k \in 1..Len(D2) : Awaited(L, D2[k].name, D2[k].id, answered(D2[k]))
    <3> SUFFICES ASSUME NEW k \in 1..Len(D2)
                 PROVE  Awaited(L, D2[k].name, D2[k].id, answered(D2[k]))
      BY Zenon
    <3>1. CASE k = d + 1
      BY <3>1, <2>1, <1>4, Zenon
    <3>2. CASE k \in 1..Len(D)
      BY <3>2, <2>1, Zenon DEF InOrder, d
    <3> QED
      BY <3>1, <3>2, <2>1, <1>0 DEF d
  <2>7. \A k \in 1..Len(D2) : answered(D2[k]) <= v /\ answered(D2[k]) \in Nat
    <3> SUFFICES ASSUME NEW k \in 1..Len(D2)
                 PROVE  answered(D2[k]) <= v /\ answered(D2[k]) \in Nat
      BY Zenon
    <3>1. CASE k = d + 1
      BY <3>1, <2>1, <1>0
    <3>2. CASE k \in 1..Len(D)
      <4>1. D2[k] = D[k] /\ answered(D[k]) < v /\ answered(D[k]) \in Nat
        BY <3>2, <2>1, <1>5, <1>t, Zenon DEF d
      <4> QED
        BY <4>1, <1>0
    <3> QED
      BY <3>1, <3>2, <2>1, <1>0 DEF d
  <2>8. \A m \in 1..Len(D2), n \in 1..Len(U2) : answered(D2[m]) < U2[n].value
    <3> SUFFICES ASSUME NEW m \in 1..Len(D2), NEW n \in 1..Len(U2)
                 PROVE  answered(D2[m]) < U2[n].value
      BY Zenon
    <3>1. v < U2[n].value /\ U2[n].value \in Nat
      BY <1>1, <1>t, Zenon
    <3> QED
      BY <3>1, <2>7, <1>0
  <2>9. ASSUME NEW m \in 1..Len(D2), NEW n \in 1..Len(D2), m < n
        PROVE  answered(D2[m]) < answered(D2[n])
    <3>1. m \in 1..Len(D) /\ D2[m] = D[m]
      BY <2>9, <2>1, <1>0 DEF d
    <3>2. CASE n = d + 1
      BY <3>1, <3>2, <2>1, <1>5, Zenon
    <3>3. CASE n \in 1..Len(D)
      BY <3>1, <3>3, <2>9, <2>1, ZenonT(30) DEF InOrder, d
    <3>4. n \in 1..d + 1
      BY <2>1, Zenon
    <3> QED
      BY <3>2, <3>3, <3>4, <1>0 DEF d
  <2>10. ASSUME NEW i \in Id, NEW j \in 1..Len(L[i]), NEW k \in 1..Len(L[i]), j < k,
                Replying(D2, i, L[i][k].call)
         PROVE  Replying(D2, i, L[i][j].call)
    <3>1. L[i][j].call < L[i][k].call
      BY <2>10, Zenon DEF InOrder
    <3>2. CASE Replying(D, i, L[i][k].call)
      BY <3>2, <2>10, <2>2, ZenonT(30) DEF InOrder
    <3>3. CASE i = nm /\ L[i][k].call = v
      BY <3>1, <3>3, <2>5, <2>2, ZenonT(30)
    <3> QED
      BY <3>2, <3>3, <2>10, <2>4, ZenonT(30)
  <2>11. InOrder(L, U2, D2)
    BY <1>7, <1>8, <2>6, <2>8, <2>9, <2>10, ZenonT(30) DEF InOrder
  <2>12. Accounted(L, U2, D2, map2)
    <3> SUFFICES ASSUME NEW i \in Id, NEW k \in 1..Len(L[i])
                 PROVE  \/ Requesting(U2, i, L[i][k].call)
                        \/ Replying(D2, i, L[i][k].call)
                        \/ i \in DOMAIN map2 /\ map2[i] = NULL
      BY Zenon DEF Accounted
    <3>1. \/ Requesting(U, i, L[i][k].call)
          \/ Replying(D, i, L[i][k].call)
          \/ i \in DOMAIN map /\ map[i] = NULL
      BY Zenon DEF Accounted
    <3>2. CASE Requesting(U, i, L[i][k].call)
      BY <3>2, <2>3, <1>1, ZenonT(30)
    <3>3. CASE Replying(D, i, L[i][k].call)
      BY <3>3, <2>2, ZenonT(30)
    <3>4. CASE i \in DOMAIN map /\ map[i] = NULL
      BY <3>4, <1>3, Zenon
    <3> QED
      BY <3>1, <3>2, <3>3, <3>4, Zenon
  <2> QED
    BY <2>11, <2>12, Zenon
<1> QED
  BY <1>9, <1>10, Zenon

\* The oldest reply answers the oldest pending invocation of its function.
LEMMA OldestAnswered ==
    ASSUME NEW L \in [Id -> Seq(Invocation)], NEW U \in Seq(Request), NEW D \in Seq(Reply),
           Len(D) # 0, InOrder(L, U, D)
    PROVE  /\ D[1].name \in Id /\ Len(L[D[1].name]) # 0
           /\ L[D[1].name][1] = [id |-> D[1].id, call |-> answered(D[1])]
<1> DEFINE i == D[1].name
           c == answered(D[1])
<1>t. /\ \A j \in Id : Len(L[j]) \in Nat /\ \A k \in 1..Len(L[j]) : L[j][k].call \in Nat
      /\ Len(D) \in Nat
      /\ \A k \in 1..Len(D) : D[k].name \in Id /\ answered(D[k]) \in Nat
  BY FlowTypes, Zenon
<1>1. 1 \in 1..Len(D) /\ i \in Id /\ c \in Nat
  BY <1>t
<1>2. PICK k \in 1..Len(L[i]) : L[i][k] = [id |-> D[1].id, call |-> c]
  BY <1>1, Zenon DEF InOrder, Awaited
<1>3. Replying(D, i, L[i][k].call)
  BY <1>1, <1>2 DEF Replying
<1>4. \A j, b : Replying(D, j, b) => c <= b
  <2> SUFFICES ASSUME NEW n \in 1..Len(D)
               PROVE  c <= answered(D[n])
    BY Zenon DEF Replying
  <2>1. CASE n = 1
    BY <2>1, <1>1
  <2>2. CASE n # 1
    <3>1. 1 < n
      BY <2>2, <1>t
    <3>2. c < answered(D[n])
      BY <3>1, <1>1, Zenon DEF InOrder
    <3> QED
      BY <3>2, <1>1, <1>t
  <2> QED
    BY <2>1, <2>2, Zenon
<1>5. k = 1
  <2> SUFFICES ASSUME k # 1
               PROVE  FALSE
    BY Zenon
  <2>1. 1 \in 1..Len(L[i]) /\ 1 < k
    BY <1>1, <1>t
  <2>2. L[i][1].call < c /\ Replying(D, i, L[i][1].call)
    <3>1. /\ L[i][1].call < L[i][k].call
          /\ Replying(D, i, L[i][k].call) => Replying(D, i, L[i][1].call)
      BY <2>1, <1>1, Zenon DEF InOrder
    <3> QED
      BY <3>1, <1>2, <1>3
  <2>3. L[i][1].call \in Nat
    BY <2>1, <1>1, <1>t, ZenonT(30)
  <2> QED
    BY <2>2, <2>3, <1>1, <1>4
<1> QED
  BY <1>1, <1>2, <1>5, <1>t

LEMMA AnswerFlows ==
    ASSUME NEW L \in [Id -> Seq(Invocation)], NEW U \in Seq(Request), NEW D \in Seq(Reply),
           NEW map, NEW n, NEW L2, NEW D2, Returned(L, D, L2, D2),
           InOrder(L, U, D), Accounted(L, U, D, map), Numbered(L, n)
    PROVE  InOrder(L2, U, D2) /\ Accounted(L2, U, D2, map) /\ Numbered(L2, n)
<1> DEFINE i == D[1].name
           c == answered(D[1])
           sh(j) == IF j = i THEN 1 ELSE 0
<1>t. /\ \A j \in Id : Len(L[j]) \in Nat /\ \A k \in 1..Len(L[j]) : L[j][k].call \in Nat
      /\ Len(U) \in Nat /\ Len(D) \in Nat
      /\ \A k \in 1..Len(U) : U[k].name \in Id /\ U[k].value \in Nat
      /\ \A k \in 1..Len(D) : D[k].name \in Id /\ answered(D[k]) \in Nat
  BY FlowTypes, Zenon
<1>d. /\ Len(D) # 0 /\ Len(D2) = Len(D) - 1
      /\ \A k \in 1..Len(D) - 1 : D2[k] = D[k + 1]
  BY Zenon DEF Returned, FirstOff
<1>i. /\ Len(L[i]) # 0 /\ Len(L2[i]) = Len(L[i]) - 1
      /\ \A k \in 1..Len(L[i]) - 1 : L2[i][k] = L[i][k + 1]
      /\ \A j \in Id \ {i} : L2[j] = L[j]
  BY Zenon DEF Returned, FirstOff
<1>0. Len(L[i]) # 0 /\ L[i][1].call = c /\ 1 \in 1..Len(D) /\ c \in Nat /\ i \in Id
  <2>1. Len(L[i]) # 0 /\ L[i][1] = [id |-> D[1].id, call |-> c]
    BY <1>d, OldestAnswered, ZenonT(30)
  <2>2. 1 \in 1..Len(D)
    BY <1>d, <1>t
  <2> QED
    BY <2>1, <2>2, <1>t
<1>1. \A k \in 1..Len(D2) : k + 1 \in 1..Len(D) /\ D2[k] = D[k + 1] /\ c < answered(D2[k])
  <2> SUFFICES ASSUME NEW k \in 1..Len(D2)
               PROVE  k + 1 \in 1..Len(D) /\ D2[k] = D[k + 1] /\ c < answered(D2[k])
    BY ZenonT(30)
  <2>0. Len(D) \in Nat
    BY <1>t, Zenon
  <2>1. k + 1 \in 1..Len(D) /\ 1 < k + 1 /\ D2[k] = D[k + 1]
    BY <1>d, <2>0
  <2> QED
    BY <2>1, <1>0, ZenonT(30) DEF InOrder
<1> HIDE DEF i, c
\* an invocation left is one of L, one place further on in the list of i
<1>2. ASSUME NEW j \in Id, NEW k \in 1..Len(L2[j])
      PROVE  /\ sh(j) \in Nat /\ k + sh(j) \in 1..Len(L[j]) /\ L2[j][k] = L[j][k + sh(j)]
             /\ j = i => c < L2[j][k].call
  <2>1. CASE j = i
    <3>1. k + 1 \in 1..Len(L[i]) /\ 1 \in 1..Len(L[i]) /\ 1 < k + 1 /\ L2[i][k] = L[i][k + 1]
      BY <2>1, <1>2, <1>0, <1>i, <1>t
    <3>2. c < L[i][k + 1].call
      BY <3>1, <1>0, ZenonT(30) DEF InOrder
    <3> QED
      BY <2>1, <3>1, <3>2, Zenon
  <2>2. CASE j # i
    BY <2>2, <1>2, <1>i, <1>t
  <2> QED
    BY <2>1, <2>2, Zenon
<1>3. \A j \in Id : \A y, b : Awaited(L, j, y, b) /\ (j = i => c < b) => Awaited(L2, j, y, b)
  <2> SUFFICES ASSUME NEW j \in Id, NEW y, NEW b, NEW k \in 1..Len(L[j]),
                      L[j][k] = [id |-> y, call |-> b], j = i => c < b
               PROVE  Awaited(L2, j, y, b)
    BY DEF Awaited
  <2>1. CASE j = i
    <3>1. L[j][k].call = b
      OBVIOUS
    <3>2. k # 1
      BY <3>1, <2>1, <1>0
    <3>3. k - 1 \in 1..Len(L2[i]) /\ L2[i][k - 1] = L[i][k]
      BY <3>2, <2>1, <1>i, <1>t
    <3> QED
      BY <3>3, <2>1, Zenon DEF Awaited
  <2>2. CASE j # i
    BY <2>2, <1>i, ZenonT(30) DEF Awaited
  <2> QED
    BY <2>1, <2>2, Zenon
<1>4. \A j, b : Replying(D2, j, b) => Replying(D, j, b)
  <2> SUFFICES ASSUME NEW k \in 1..Len(D2)
               PROVE  Replying(D, D2[k].name, answered(D2[k]))
    BY ZenonT(30) DEF Replying
  <2> QED
    BY <1>1, Zenon DEF Replying
<1>5. \A j, b : Replying(D, j, b) => Replying(D2, j, b) \/ (j = i /\ b = c)
  <2> SUFFICES ASSUME NEW k \in 1..Len(D)
               PROVE  \/ Replying(D2, D[k].name, answered(D[k]))
                      \/ D[k].name = i /\ answered(D[k]) = c
    BY Zenon DEF Replying
  <2>1. CASE k # 1
    <3>a. Len(D) \in Nat /\ Len(D2) = Len(D) - 1
      BY <1>t, <1>d, Zenon
    <3>b. k - 1 \in 1..Len(D) - 1 /\ (k - 1) + 1 = k
      BY <2>1, <3>a
    <3>1. k - 1 \in 1..Len(D2) /\ D2[k - 1] = D[k]
      BY <3>a, <3>b, <1>d, Zenon
    <3> QED
      BY <3>1, Zenon DEF Replying
  <2> QED
    BY <2>1, Zenon DEF i, c
<1>6. InOrder(L2, U, D2)
  <2>1. \A k \in 1..Len(U) : Awaited(L2, U[k].name, U[k].id, U[k].value)
    <3> SUFFICES ASSUME NEW k \in 1..Len(U)
                 PROVE  Awaited(L2, U[k].name, U[k].id, U[k].value)
      BY Zenon
    <3>1. Awaited(L, U[k].name, U[k].id, U[k].value) /\ c < U[k].value
      BY <1>0, ZenonT(30) DEF InOrder, c
    <3> QED
      BY <3>1, <1>3, <1>t, Zenon
  <2>2. \A k \in 1..Len(D2) : Awaited(L2, D2[k].name, D2[k].id, answered(D2[k]))
    <3> SUFFICES ASSUME NEW k \in 1..Len(D2)
                 PROVE  Awaited(L2, D2[k].name, D2[k].id, answered(D2[k]))
      BY Zenon
    <3>1. Awaited(L, D2[k].name, D2[k].id, answered(D2[k])) /\ D2[k].name \in Id
      BY <1>1, <1>t, ZenonT(30) DEF InOrder
    <3> QED
      BY <3>1, <1>1, <1>3, Zenon
  <2>3. ASSUME NEW k \in 1..Len(D2), NEW m \in 1..Len(D2), k < m
        PROVE  answered(D2[k]) < answered(D2[m])
    <3>1. k + 1 < m + 1
      BY <2>3, <1>d, <1>t
    <3> QED
      BY <3>1, <1>1, ZenonT(30) DEF InOrder
  <2>4. \A k \in 1..Len(D2), m \in 1..Len(U) : answered(D2[k]) < U[m].value
    BY <1>1, ZenonT(30) DEF InOrder
  <2>5. ASSUME NEW m \in Id, NEW j \in 1..Len(L2[m]), NEW k \in 1..Len(L2[m]), j < k
        PROVE  /\ L2[m][j].call < L2[m][k].call
               /\ Replying(D2, m, L2[m][k].call) => Replying(D2, m, L2[m][j].call)
               /\ Requesting(U, m, L2[m][j].call) => Requesting(U, m, L2[m][k].call)
    <3>1. /\ sh(m) \in Nat
          /\ j + sh(m) \in 1..Len(L[m]) /\ L2[m][j] = L[m][j + sh(m)]
          /\ k + sh(m) \in 1..Len(L[m]) /\ L2[m][k] = L[m][k + sh(m)]
          /\ m = i => c < L2[m][j].call
      BY <1>2, Zenon
    <3> HIDE DEF sh
    <3>2. j + sh(m) < k + sh(m)
      <4>1. j \in Int /\ k \in Int /\ sh(m) \in Int
        BY <3>1
      <4> QED
        BY <4>1, <2>5
    <3>3. /\ L2[m][j].call < L2[m][k].call
          /\ Replying(D, m, L2[m][k].call) => Replying(D, m, L2[m][j].call)
          /\ Requesting(U, m, L2[m][j].call) => Requesting(U, m, L2[m][k].call)
      BY <3>1, <3>2, ZenonT(30) DEF InOrder
    <3>4. m = i => L2[m][j].call # c
      <4>1. L2[m][j].call \in Nat
        BY <3>1, <1>t, ZenonT(30)
      <4> QED
        BY <4>1, <3>1, <1>0
    <3> QED
      BY <3>3, <3>4, <1>4, <1>5, Zenon
  <2> QED
    BY <2>1, <2>2, <2>3, <2>4, <2>5, ZenonT(30) DEF InOrder
<1>7. Accounted(L2, U, D2, map) /\ Numbered(L2, n)
  <2> SUFFICES ASSUME NEW m \in Id, NEW k \in 1..Len(L2[m])
               PROVE  /\ \/ Requesting(U, m, L2[m][k].call)
                         \/ Replying(D2, m, L2[m][k].call)
                         \/ m \in DOMAIN map /\ map[m] = NULL
                      /\ L2[m][k].call <= n
    BY Zenon DEF Accounted, Numbered
  <2>1. /\ k + sh(m) \in 1..Len(L[m]) /\ L2[m][k] = L[m][k + sh(m)]
        /\ m = i => c < L2[m][k].call
    BY <1>2, Zenon
  <2> HIDE DEF sh
  <2>2. m = i => L2[m][k].call # c
    <3>1. L2[m][k].call \in Nat
      BY <2>1, <1>t, ZenonT(30)
    <3> QED
      BY <3>1, <2>1, <1>0
  <2>3. /\ \/ Requesting(U, m, L2[m][k].call)
           \/ Replying(D, m, L2[m][k].call)
           \/ m \in DOMAIN map /\ map[m] = NULL
        /\ L2[m][k].call <= n
    BY <2>1, ZenonT(30) DEF Accounted, Numbered
  <2> QED
    BY <2>2, <2>3, <1>5, ZenonT(30)
<1> QED
  BY <1>6, <1>7, Zenon

-----------------------------------------------------------------------------
(* The registry, as facts about a map, a list and the ids of the objects.  *)

RegistryOK(map, list, id_of) ==
    /\ DOMAIN map \subseteq Id
    /\ \A i \in DOMAIN map : map[i] \in Addr \union {NULL}
    /\ list \in Seq(Addr) /\ Distinct(list)
    /\ \A i \in DOMAIN map : map[i] # NULL => alive(list, map[i]) /\ id_of[map[i]] = i
    /\ \A p \in Addr : alive(list, p) => find(map, id_of[p]) = p

LEMMA ListInsert ==
    ASSUME NEW list \in Seq(Addr), NEW p \in Addr, Distinct(list), ~alive(list, p)
    PROVE  /\ list_after_insert(list, p) \in Seq(Addr)
           /\ Distinct(list_after_insert(list, p))
           /\ \A q : alive(list_after_insert(list, p), q) <=> q = p \/ alive(list, q)
<1> DEFINE l2 == list_after_insert(list, p)
<1>1. /\ l2 \in Seq(Addr) /\ Len(l2) = Len(list) + 1 /\ Len(list) \in Nat
      /\ l2[1] = p /\ \A k \in 1..Len(list) : l2[k + 1] = list[k]
  BY DEF list_after_insert
<1> HIDE DEF l2
<1>2. \A k \in 1..Len(l2) : k = 1 \/ (k - 1 \in 1..Len(list) /\ l2[k] = list[k - 1])
  <2> SUFFICES ASSUME NEW k \in 1..Len(l2), k # 1
               PROVE  k - 1 \in 1..Len(list) /\ l2[k] = list[k - 1]
    BY Zenon
  <2>1. k - 1 \in 1..Len(list) /\ (k - 1) + 1 = k
    BY <1>1
  <2> QED
    BY <2>1, <1>1, Zenon
<1>3. Distinct(l2)
  <2> SUFFICES ASSUME NEW m \in 1..Len(l2), NEW n \in 1..Len(l2), l2[m] = l2[n]
               PROVE  m = n
    BY Zenon DEF Distinct
  <2>1. CASE m = 1 \/ n = 1
    BY <2>1, <1>1, <1>2, ZenonT(30) DEF alive
  <2>2. CASE m # 1 /\ n # 1
    <3>1. m - 1 = n - 1
      BY <2>2, <1>2, ZenonT(30) DEF Distinct
    <3> QED
      BY <3>1, <1>1
  <2> QED
    BY <2>1, <2>2, Zenon
<1>4. ASSUME NEW q
      PROVE  alive(l2, q) <=> q = p \/ alive(list, q)
  <2>1. alive(l2, q) => q = p \/ alive(list, q)
    BY <1>1, <1>2, ZenonT(30) DEF alive
  <2>2. 1 \in 1..Len(l2)
    BY <1>1
  <2>3. alive(l2, p)
    BY <2>2, <1>1, Zenon DEF alive
  <2>4. ASSUME NEW k \in 1..Len(list)
        PROVE  k + 1 \in 1..Len(l2) /\ l2[k + 1] = list[k]
    BY <1>1
  <2>5. alive(list, q) => alive(l2, q)
    BY <2>4, Zenon DEF alive
  <2> QED
    BY <2>1, <2>3, <2>5, Zenon
<1> QED
  BY <1>1, <1>3, <1>4, Zenon DEF l2

LEMMA RemoveAt ==
    ASSUME NEW S, NEW s \in Seq(S), NEW a \in 1..Len(s)
    PROVE  LET t == SubSeq(s, 1, a - 1) \o SubSeq(s, a + 1, Len(s))
           IN  /\ t \in Seq(S) /\ Len(t) = Len(s) - 1
               /\ \A k \in 1..Len(s) - 1 : t[k] = IF k < a THEN s[k] ELSE s[k + 1]
<1> DEFINE x == SubSeq(s, 1, a - 1)
           y == SubSeq(s, a + 1, Len(s))
           t == x \o y
<1>1. x \in Seq(S) /\ Len(x) = a - 1 /\ \A k \in 1..a - 1 : x[k] = s[k]
  OBVIOUS
<1>2. y \in Seq(S) /\ Len(y) = Len(s) - a /\ \A k \in 1..Len(s) - a : y[k] = s[a + k]
  OBVIOUS
<1> HIDE DEF x, y
<1>3. t \in Seq(S) /\ Len(t) = Len(s) - 1
  BY <1>1, <1>2
<1>4. ASSUME NEW k \in 1..Len(s) - 1
      PROVE  t[k] = IF k < a THEN s[k] ELSE s[k + 1]
  <2>1. CASE k < a
    BY <2>1, <1>1, <1>2
  <2>2. CASE ~(k < a)
    <3>1. k - (a - 1) \in 1..Len(s) - a /\ a + (k - (a - 1)) = k + 1 /\ k \in 1..Len(x) + Len(y) /\ k > Len(x)
      BY <2>2, <1>1, <1>2
    <3>2. t[k] = y[k - (a - 1)]
      BY <3>1, <1>1, <1>2
    <3> QED
      BY <3>1, <3>2, <2>2, <1>2, Zenon
  <2> QED
    BY <2>1, <2>2, Zenon
<1> QED
  BY <1>3, <1>4, Zenon DEF x, y

LEMMA ListRemove ==
    ASSUME NEW list \in Seq(Addr), NEW id_of, NEW i, NEW p \in Addr,
           Distinct(list), alive(list, p), id_of[p] = i,
           \A q \in Addr : alive(list, q) /\ id_of[q] = i => q = p
    PROVE  /\ list_after_remove(list, id_of, i) \in Seq(Addr)
           /\ Distinct(list_after_remove(list, id_of, i))
           /\ \A q : alive(list_after_remove(list, id_of, i), q) <=> alive(list, q) /\ q # p
<1> DEFINE with_id == {k \in 1..Len(list) : id_of[list[k]] = i}
<1>1. PICK a \in 1..Len(list) : list[a] = p
  BY Zenon DEF alive
<1>2. with_id = {a}
  <2>1. a \in with_id
    BY <1>1, Zenon
  <2>2. ASSUME NEW k \in with_id
        PROVE  k = a
    <3>1. k \in 1..Len(list) /\ id_of[list[k]] = i /\ list[k] \in Addr
      BY <2>2
    <3>2. list[k] = p
      BY <3>1, Zenon DEF alive
    <3> QED
      BY <3>1, <3>2, <1>1, Zenon DEF Distinct
  <2> QED
    BY <2>1, <2>2, Zenon
<1>3. (CHOOSE k \in with_id : \A j \in with_id : k <= j) = a /\ with_id # {}
  <2> HIDE DEF with_id
  <2> QED
    BY <1>1, <1>2
<1> DEFINE t == SubSeq(list, 1, a - 1) \o SubSeq(list, a + 1, Len(list))
<1>4. list_after_remove(list, id_of, i) = t
  BY <1>3, Zenon DEF list_after_remove
<1>5. /\ t \in Seq(Addr) /\ Len(t) = Len(list) - 1
      /\ \A k \in 1..Len(list) - 1 : t[k] = IF k < a THEN list[k] ELSE list[k + 1]
  BY RemoveAt, Zenon
<1> HIDE DEF t, with_id
<1>6. Len(list) \in Nat /\ a \in Nat /\ a >= 1 /\ a <= Len(list)
  OBVIOUS
<1> DEFINE o(k) == IF k < a THEN k ELSE k + 1
<1>7. \A k \in 1..Len(t) : o(k) \in 1..Len(list) /\ o(k) # a /\ t[k] = list[o(k)]
  BY <1>5, <1>6
<1>8. \A j, k \in 1..Len(t) : o(j) = o(k) => j = k
  BY <1>5, <1>6
<1>9. ASSUME NEW k \in 1..Len(list), k # a
      PROVE  \E j \in 1..Len(t) : t[j] = list[k]
  <2>1. CASE k < a
    <3>1. k \in 1..Len(t) /\ t[k] = list[k]
      BY <2>1, <1>5, <1>6
    <3> QED
      BY <3>1, Zenon
  <2>2. CASE k > a
    <3>1. k - 1 \in 1..Len(t) /\ t[k - 1] = list[k]
      BY <2>2, <1>5, <1>6
    <3> QED
      BY <3>1, Zenon
  <2> QED
    BY <2>1, <2>2, <1>6, <1>9
<1> HIDE DEF o
<1>10. Distinct(t)
  BY <1>7, <1>8, ZenonT(30) DEF Distinct
<1>11. ASSUME NEW q
       PROVE  alive(t, q) <=> alive(list, q) /\ q # p
  <2>1. ASSUME alive(t, q)
        PROVE  alive(list, q) /\ q # p
    BY <2>1, <1>1, <1>7 DEF alive, Distinct
  <2>2. ASSUME alive(list, q), q # p
        PROVE  alive(t, q)
    BY <2>2, <1>1, <1>9, ZenonT(30) DEF alive
  <2> QED
    BY <2>1, <2>2, Zenon
<1> QED
  BY <1>4, <1>5, <1>10, <1>11, Zenon

LEMMA RegistryInsert ==
    ASSUME NEW map, NEW list, NEW id_of, NEW id2, NEW i \in Id, NEW p \in Addr,
           RegistryOK(map, list, id_of), i \notin DOMAIN map, ~alive(list, p),
           id2[p] = i, \A q \in Addr : q # p => id2[q] = id_of[q]
    PROVE  RegistryOK(map_after_insert(map, i, p), list_after_insert(list, p), id2)
<1> DEFINE m2 == map_after_insert(map, i, p)
           l2 == list_after_insert(list, p)
<1>0. list \in Seq(Addr) /\ Distinct(list) /\ NULL \notin Addr
  BY ConnectionAssumption, ZenonT(30) DEF RegistryOK
<1>1. l2 \in Seq(Addr) /\ Distinct(l2) /\ \A q : alive(l2, q) <=> q = p \/ alive(list, q)
  BY <1>0, ListInsert, Zenon
<1>2. DOMAIN m2 = DOMAIN map \union {i} /\ m2[i] = p /\ \A k \in DOMAIN map : m2[k] = map[k]
  BY Zenon DEF map_after_insert
<1> HIDE DEF m2, l2
<1>3. DOMAIN m2 \subseteq Id /\ \A k \in DOMAIN m2 : m2[k] \in Addr \union {NULL}
  BY <1>2, ZenonT(30) DEF RegistryOK
<1>4. ASSUME NEW k \in DOMAIN m2, m2[k] # NULL
      PROVE  alive(l2, m2[k]) /\ id2[m2[k]] = k
  <2>1. CASE k = i
    BY <2>1, <1>1, <1>2, Zenon
  <2>2. CASE k # i
    <3>1. k \in DOMAIN map /\ m2[k] = map[k]
      BY <2>2, <1>2, Zenon
    <3>2. alive(list, map[k]) /\ id_of[map[k]] = k /\ map[k] \in Addr
      BY <3>1, <1>4, Zenon DEF RegistryOK
    <3>3. map[k] # p
      BY <3>2, Zenon
    <3> QED
      BY <3>1, <3>2, <3>3, <1>1, ZenonT(30)
  <2> QED
    BY <2>1, <2>2, Zenon
<1>5. ASSUME NEW q \in Addr, alive(l2, q)
      PROVE  find(m2, id2[q]) = q
  <2>1. CASE q = p
    BY <2>1, <1>2, ZenonT(30) DEF find
  <2>2. CASE q # p
    <3>1. find(map, id_of[q]) = q /\ id2[q] = id_of[q]
      BY <2>2, <1>1, <1>5, ZenonT(30) DEF RegistryOK
    <3>2. id_of[q] \in DOMAIN map /\ map[id_of[q]] = q
      BY <3>1, <1>0, Zenon DEF find
    <3> QED
      BY <3>1, <3>2, <1>2, ZenonT(30) DEF find
  <2> QED
    BY <2>1, <2>2, Zenon
<1> QED
  BY <1>1, <1>3, <1>4, <1>5, ZenonT(30) DEF RegistryOK, m2, l2

\* remove() of a registered object takes this object out, and no other
LEMMA RegistryRemove ==
    ASSUME NEW map, NEW list, NEW id_of, NEW p \in Addr,
           RegistryOK(map, list, id_of), alive(list, p)
    PROVE  /\ RegistryOK(map_after_remove(map, id_of[p]),
                         list_after_remove(list, id_of, id_of[p]), id_of)
           /\ \A q : alive(list_after_remove(list, id_of, id_of[p]), q) <=> alive(list, q) /\ q # p
<1> DEFINE i == id_of[p]
           m2 == map_after_remove(map, i)
           l2 == list_after_remove(list, id_of, i)
<1>0. list \in Seq(Addr) /\ Distinct(list) /\ NULL \notin Addr
  BY ConnectionAssumption, Zenon DEF RegistryOK
<1>1. i \in DOMAIN map /\ map[i] = p
  BY <1>0, Zenon DEF RegistryOK, find
<1>2. \A q \in Addr : alive(list, q) /\ id_of[q] = i => q = p
  BY <1>0, <1>1, Zenon DEF RegistryOK, find
<1>3. l2 \in Seq(Addr) /\ Distinct(l2) /\ \A q : alive(l2, q) <=> alive(list, q) /\ q # p
  BY <1>0, <1>2, ListRemove
<1>4. DOMAIN m2 = DOMAIN map \ {i} /\ \A k \in DOMAIN m2 : m2[k] = map[k]
  BY Zenon DEF map_after_remove
<1> HIDE DEF m2, l2
<1>5. DOMAIN m2 \subseteq Id /\ \A k \in DOMAIN m2 : m2[k] \in Addr \union {NULL}
  BY <1>4, Zenon DEF RegistryOK
<1>6. ASSUME NEW k \in DOMAIN m2, m2[k] # NULL
      PROVE  alive(l2, m2[k]) /\ id_of[m2[k]] = k
  <2>1. k \in DOMAIN map /\ k # i /\ m2[k] = map[k]
    BY <1>4, Zenon
  <2>2. alive(list, map[k]) /\ id_of[map[k]] = k
    BY <2>1, <1>6, Zenon DEF RegistryOK
  <2>3. map[k] # p
    BY <2>1, <2>2, Zenon
  <2> QED
    BY <2>1, <2>2, <2>3, <1>3, Zenon
<1>7. ASSUME NEW q \in Addr, alive(l2, q)
      PROVE  find(m2, id_of[q]) = q
  <2>1. alive(list, q) /\ q # p
    BY <1>3, <1>7, Zenon
  <2>2. id_of[q] \in DOMAIN map /\ map[id_of[q]] = q
    BY <2>1, <1>0, ZenonT(30) DEF RegistryOK, find
  <2>3. id_of[q] # i
    BY <2>1, <1>2, Zenon
  <2> QED
    BY <2>2, <2>3, <1>4, ZenonT(30) DEF find
<1>8. RegistryOK(m2, l2, id_of)
  BY <1>3, <1>5, <1>6, <1>7, Zenon DEF RegistryOK
<1> QED
  BY <1>3, <1>8, Zenon DEF m2, l2

LEMMA RegistryGet ==
    ASSUME NEW map, NEW list, NEW id_of, NEW i \in Id, RegistryOK(map, list, id_of)
    PROVE  /\ RegistryOK(map_after_get(map, i), list, id_of)
           /\ \A k : find(map_after_get(map, i), k) = find(map, k)
           /\ DOMAIN map_after_get(map, i) = DOMAIN map \union {i}
<1> DEFINE m2 == map_after_get(map, i)
<1>1. DOMAIN m2 = DOMAIN map \union {i} /\ \A k \in DOMAIN m2 : m2[k] = find(map, k)
  BY Zenon DEF map_after_get
<1> HIDE DEF m2
<1>2. \A k : find(m2, k) = find(map, k)
  BY <1>1, Zenon DEF find
<1>3. RegistryOK(m2, list, id_of)
  <2>1. \A k \in DOMAIN m2 : m2[k] \in Addr \union {NULL} /\ k \in Id
    BY <1>1, Zenon DEF RegistryOK, find
  <2>2. \A k \in DOMAIN m2 : m2[k] # NULL => alive(list, m2[k]) /\ id_of[m2[k]] = k
    BY <1>1, Zenon DEF RegistryOK, find
  <2> QED
    BY <2>1, <2>2, <1>2, ZenonT(30) DEF RegistryOK
<1> QED
  BY <1>1, <1>2, <1>3, Zenon DEF m2

\* the two registries, as TypeOK, RegistriesAgree and Registered describe them
LEMMA BothRegistries ==
    TypeOK /\ RegistriesAgree /\ Registered =>
        RegistryOK(c_map, c_list, stub_id) /\ RegistryOK(s_map, s_list, skeleton_id)
<1>0. \A p \in Addr : stub_id[p] = stub[p].id
  BY Zenon DEF stub_id
<1>1. ASSUME TypeOK, RegistriesAgree, Registered
      PROVE  RegistryOK(c_map, c_list, stub_id)
  <2>1. \A i \in DOMAIN c_map : c_map[i] # NULL => alive(c_list, c_map[i]) /\ stub_id[c_map[i]] = i
    BY <1>0, <1>1, ZenonT(30) DEF TypeOK, RegistriesAgree
  <2>2. \A p \in Addr : alive(c_list, p) => find(c_map, stub_id[p]) = p
    BY <1>0, <1>1, ZenonT(30) DEF RegistriesAgree, alive
  <2> QED
    BY <2>1, <2>2, <1>1, ZenonT(30) DEF TypeOK, Registered, RegistryOK
<1>2. ASSUME TypeOK, RegistriesAgree, Registered
      PROVE  RegistryOK(s_map, s_list, skeleton_id)
  <2>1. \A p \in Addr : alive(s_list, p) => find(s_map, skeleton_id[p]) = p
    BY <1>2, ZenonT(30) DEF RegistriesAgree, alive
  <2> QED
    BY <2>1, <1>2, Zenon DEF TypeOK, Registered, RegistriesAgree, RegistryOK
<1> QED
  BY <1>1, <1>2, Zenon

RegistriesRecovered ==
    /\ RegistriesAgree /\ Distinct(c_list) /\ Distinct(s_list)
    /\ DOMAIN c_map \subseteq Id /\ DOMAIN s_map \subseteq Id
    /\ \A i \in DOMAIN c_map : c_map[i] \in Addr \union {NULL}
    /\ \A i \in DOMAIN s_map : s_map[i] \in Addr \union {NULL}
    /\ c_list \in Seq(Addr) /\ s_list \in Seq(Addr)

LEMMA FromRegistries ==
    RegistryOK(c_map, c_list, stub_id) /\ RegistryOK(s_map, s_list, skeleton_id) =>
        RegistriesRecovered
<1>0. \A p \in Addr : stub_id[p] = stub[p].id
  BY Zenon DEF stub_id
<1>1. ASSUME RegistryOK(c_map, c_list, stub_id), RegistryOK(s_map, s_list, skeleton_id)
      PROVE  RegistriesAgree
  <2>1. \A i \in DOMAIN c_map : c_map[i] # NULL => alive(c_list, c_map[i]) /\ stub[c_map[i]].id = i
    BY <1>0, <1>1, Zenon DEF RegistryOK
  <2>2. \A n \in 1..Len(c_list) : c_list[n] \in Addr /\ alive(c_list, c_list[n])
    BY <1>1 DEF RegistryOK, alive
  <2>3. \A n \in 1..Len(s_list) : s_list[n] \in Addr /\ alive(s_list, s_list[n])
    BY <1>1 DEF RegistryOK, alive
  <2>4. \A n \in 1..Len(c_list) : find(c_map, stub[c_list[n]].id) = c_list[n]
    BY <2>2, <1>0, <1>1 DEF RegistryOK
  <2>5. \A n \in 1..Len(s_list) : find(s_map, skeleton_id[s_list[n]]) = s_list[n]
    BY <2>3, <1>1, Zenon DEF RegistryOK
  <2> QED
    BY <2>1, <2>4, <2>5, <1>1, ZenonT(30) DEF RegistryOK, RegistriesAgree
<1> QED
  BY <1>1, ZenonT(30) DEF RegistryOK, RegistriesRecovered

-----------------------------------------------------------------------------
(* The initial state and the steps that only move messages or end a phase. *)

LEMMA InitIInv == Init => IInv
<1> SUFFICES ASSUME Init
             PROVE  IInv
  BY Zenon
<1> USE DEF Init, c_Init, s_Init
<1>0. /\ Len(c_list) = 0 /\ Len(s_list) = 0
      /\ DOMAIN c_map = {} /\ DOMAIN s_map = {}
      /\ upstream = << >> /\ downstream = << >>
  BY DEF upstream, downstream
<1>1. TypeOK
  <2>1. stub \in [Addr -> [id : Id \union {NULL}, invokations : 0 .. IdModulus - 1,
                           n_handles : {0, 1}, invokation_list : Seq(Invocation)]]
    BY ConnectionAssumption
  <2>2. /\ skeleton_id \in [Addr -> Id \union {NULL}]
        /\ handle \in [Handle -> Addr \union {NULL}]
        /\ s_pointer \in [Function -> Addr \union {NULL, "none"}]
    BY Zenon
  <2>3. /\ c_list \in Seq(Addr) /\ s_list \in Seq(Addr)
        /\ c_tx \in Seq(Request) /\ requests \in Seq(Request) /\ s_rx \in Seq(Request)
        /\ c_rx \in Seq(Reply) /\ replies \in Seq(Reply) /\ s_tx \in Seq(Reply)
    OBVIOUS
  <2>4. Len(c_tx) <= MAX_CLIENT_MSG_BUFFER_SIZE + 1 /\ n_calls \in 0 .. MaxCalls
    BY ConnectionAssumption, ClientAssumption
  <2> QED
    BY <1>0, <2>1, <2>2, <2>3, <2>4, ZenonT(30) DEF TypeOK
<1>2. RegistriesAgree
  BY <1>0 DEF RegistriesAgree
<1>3. Registered
  BY <1>0, ConnectionAssumption DEF Registered, Distinct, alive
<1>4. HandlesOwn
  BY Zenon DEF HandlesOwn
<1>5. \A i \in Id : pending[i] = << >>
  BY <1>0, Zenon DEF pending, invocations, find
<1>6. Flow
  <2>1. /\ Len(upstream) = 0 /\ Len(downstream) = 0 /\ \A i \in Id : Len(pending[i]) = 0
    BY <1>0, <1>5, ZenonT(30)
  <2> QED
    BY <2>1 DEF Flow, InOrder, Accounted, Numbered
<1>7. Answering /\ FaultOnlyByMisuse
  BY Zenon DEF Answering, FaultOnlyByMisuse
<1> QED
  BY <1>1, <1>2, <1>3, <1>4, <1>6, <1>7, Zenon DEF IInv

LEMMA FlowTyped ==
    ASSUME TypeOK
    PROVE  /\ pending \in [Id -> Seq(Invocation)]
           /\ upstream \in Seq(Request) /\ downstream \in Seq(Reply)
<1>1. ASSUME NEW i \in Id
      PROVE  invocations(i) \in Seq(Invocation)
  <2>1. CASE find(c_map, i) = NULL
    BY <2>1 DEF invocations
  <2>2. CASE find(c_map, i) # NULL
    <3>1. find(c_map, i) \in Addr
      BY <2>2, Zenon DEF TypeOK, find
    <3>2. stub[find(c_map, i)].invokation_list \in Seq(Invocation)
      BY <3>1, Zenon DEF TypeOK
    <3> QED
      BY <2>2, <3>2, Zenon DEF invocations
  <2> QED
    BY <2>1, <2>2, Zenon
<1>2. upstream \in Seq(Request) /\ downstream \in Seq(Reply)
  BY DEF TypeOK, upstream, downstream
<1> QED
  BY <1>1, <1>2, Zenon DEF pending

\* a step of a loop that dispatches nothing
LEMMA MoveKeeps ==
    ASSUME IInv,
           UNCHANGED <<c_map, c_list, stub, handle, n_calls,
                       s_map, s_list, skeleton_id, s_pointer, misused>>,
           upstream' = upstream, downstream' = downstream,
           (c_tx \in Seq(Request) /\ requests \in Seq(Request) /\ s_rx \in Seq(Request))',
           (c_rx \in Seq(Reply) /\ replies \in Seq(Reply) /\ s_tx \in Seq(Reply))',
           Len(c_tx') <= MAX_CLIENT_MSG_BUFFER_SIZE + 1,
           s_pc' \in {"app", "rx", "dispatch", "tx"},
           \/ c_pc' \in {"app", "tx", "rx", "dispatch"}
           \/ c_pc' = c_pc /\ UNCHANGED <<c_rx, answering>>
    PROVE  IInv'
<1>1. TypeOK'
  BY Zenon DEF IInv, TypeOK
<1>2. RegistriesAgree' /\ Registered' /\ HandlesOwn'
  <2>1. RegistriesAgree'
    BY ZenonT(30) DEF IInv, RegistriesAgree, alive, find, Distinct
  <2>2. Registered'
    BY ZenonT(30) DEF IInv, Registered, alive, find, Distinct
  <2>3. HandlesOwn'
    BY Zenon DEF IInv, HandlesOwn, alive, find, Distinct
  <2> QED
    BY <2>1, <2>2, <2>3, Zenon
<1>3. pending' = pending
  BY Zenon DEF pending, invocations, find
<1>4. Flow'
  BY <1>3, Zenon DEF IInv, Flow
<1>5. Answering'
  <2>1. CASE c_pc' \in {"app", "tx", "rx", "dispatch"}
    BY <2>1, Zenon DEF Answering
  <2>2. CASE c_pc' = c_pc /\ UNCHANGED <<c_rx, answering>>
    BY <2>2, Zenon DEF IInv, Answering, find
  <2> QED
    BY <2>1, <2>2, Zenon
<1>6. FaultOnlyByMisuse'
  BY Zenon DEF IInv, FaultOnlyByMisuse
<1> QED
  BY <1>1, <1>2, <1>4, <1>5, <1>6, Zenon DEF IInv

\* what a queue passes on, the next one holds at its end
LEMMA PassOn ==
    ASSUME NEW S, NEW a \in Seq(S), NEW b \in Seq(S), b # << >>
    PROVE  /\ Append(a, Head(b)) \in Seq(S) /\ Tail(b) \in Seq(S)
           /\ Len(Tail(b)) <= Len(b)
           /\ Append(a, Head(b)) \o Tail(b) = a \o b
<1>1. Append(a, Head(b)) \in Seq(S) /\ Tail(b) \in Seq(S) /\ Len(Tail(b)) = Len(b) - 1
      /\ Len(Append(a, Head(b))) = Len(a) + 1 /\ Len(b) >= 1 /\ Len(a) \in Nat /\ Len(b) \in Nat
  OBVIOUS
<1> DEFINE x == Append(a, Head(b)) \o Tail(b)
           y == a \o b
<1>2. x \in Seq(S) /\ y \in Seq(S) /\ Len(x) = Len(a) + Len(b) /\ Len(y) = Len(a) + Len(b)
  BY <1>1
<1>3. ASSUME NEW k \in 1..Len(a) + Len(b)
      PROVE  x[k] = y[k]
  <2>1. CASE k <= Len(a)
    BY <2>1, <1>1
  <2>2. CASE k = Len(a) + 1
    BY <2>2, <1>1
  <2>3. CASE k > Len(a) + 1
    <3>1. /\ x[k] = Tail(b)[k - (Len(a) + 1)] /\ y[k] = b[k - Len(a)]
      BY <2>3, <1>1
    <3> QED
      BY <3>1, <2>3, <1>1
  <2> QED
    BY <2>1, <2>2, <2>3, <1>1
<1>4. x = y
  <2> HIDE DEF x, y
  <2> QED
    BY <1>2, <1>3, SameElements, ZenonT(30)
<1> QED
  BY <1>1, <1>4

LEMMA PassOnFirst ==
    ASSUME NEW S, NEW a \in Seq(S), NEW b \in Seq(S), NEW c \in Seq(S), b # << >>
    PROVE  /\ Append(a, Head(b)) \in Seq(S) /\ Tail(b) \in Seq(S)
           /\ Append(a, Head(b)) \o Tail(b) \o c = a \o b \o c
  BY PassOn

\* the last queue of three passes its first message on to the one before
SentOn(S, a, b, c) ==
    /\ Append(b, Head(c)) \in Seq(S) /\ Tail(c) \in Seq(S)
    /\ Len(Tail(c)) <= Len(c)
    /\ a \o Append(b, Head(c)) \o Tail(c) = a \o b \o c

LEMMA PassOnLast ==
    ASSUME NEW S, NEW a \in Seq(S), NEW b \in Seq(S), NEW c \in Seq(S), c # << >>
    PROVE  SentOn(S, a, b, c)
<1> DEFINE x == Append(b, Head(c))
           y == Tail(c)
<1>1. x \in Seq(S) /\ y \in Seq(S) /\ Len(y) <= Len(c) /\ x \o y = b \o c
  BY PassOn
<1>2. a \o b \o c = a \o (b \o c)
  <2>1. Associates(a, b, c)
    BY Associative, Zenon
  <2> QED
    BY <2>1, Zenon DEF Associates
<1>t. x \in Seq(S) /\ y \in Seq(S)
  BY <1>1, Zenon
<1> HIDE DEF x, y
<1>3. a \o x \o y = a \o (x \o y)
  <2>1. Associates(a, x, y)
    BY <1>t, Associative, Zenon
  <2> QED
    BY <1>t, <2>1, ZenonT(30) DEF Associates
<1>4. a \o x \o y = a \o b \o c
  BY <1>1, <1>2, <1>3, ZenonT(30)
<1> QED
  BY <1>1, <1>4, Zenon DEF SentOn, x, y

LEMMA Unmoved ==
    ASSUME TypeOK, UNCHANGED <<c_tx, requests, s_rx>>
    PROVE  /\ upstream' = upstream /\ Len(c_tx') <= MAX_CLIENT_MSG_BUFFER_SIZE + 1
           /\ (c_tx \in Seq(Request) /\ requests \in Seq(Request) /\ s_rx \in Seq(Request))'
  BY Zenon DEF TypeOK, upstream

LEMMA UnmovedDown ==
    ASSUME TypeOK, UNCHANGED <<c_rx, replies, s_tx>>
    PROVE  /\ downstream' = downstream
           /\ (c_rx \in Seq(Reply) /\ replies \in Seq(Reply) /\ s_tx \in Seq(Reply))'
  BY Zenon DEF TypeOK, downstream

LEMMA ClientMoves ==
    ASSUME IInv, UNCHANGED <<s_vars, misused>>,
           c_doLoop \/ c_send \/ c_tx_expired \/ c_receive \/ c_rx_expired \/ c_dispatched
    PROVE  IInv'
<1> USE DEF c_registry, wires, s_vars
<1>0. TypeOK /\ s_pc \in {"app", "rx", "dispatch", "tx"}
  BY ZenonT(30) DEF IInv, TypeOK
<1>1. CASE c_doLoop \/ c_tx_expired \/ c_rx_expired \/ c_dispatched
  <2>1. /\ UNCHANGED <<c_map, c_list, stub, handle, c_tx, c_rx, n_calls, requests, replies>>
        /\ c_pc' \in {"app", "tx", "rx", "dispatch"}
    BY <1>1, Zenon DEF c_doLoop, c_tx_expired, c_rx_expired, c_dispatched
  <2> QED
    BY <2>1, <1>0, Unmoved, UnmovedDown, MoveKeeps, ZenonT(30)
<1>2. CASE c_send
  <2>0. c_tx # << >>
    BY <1>2, Zenon DEF c_send
  <2>1. /\ c_tx # << >> /\ requests' = Append(requests, Head(c_tx)) /\ c_tx' = Tail(c_tx)
        /\ UNCHANGED <<c_map, c_list, stub, handle, c_rx, c_pc, answering, n_calls, replies>>
    BY <1>2, Zenon DEF c_send
  <2>2. /\ c_tx \in Seq(Request) /\ requests \in Seq(Request) /\ s_rx \in Seq(Request)
        /\ Len(c_tx) <= MAX_CLIENT_MSG_BUFFER_SIZE + 1
    BY <1>0, Zenon DEF TypeOK
  <2>3. /\ Append(requests, Head(c_tx)) \in Seq(Request) /\ Tail(c_tx) \in Seq(Request)
        /\ Len(Tail(c_tx)) <= Len(c_tx)
        /\ s_rx \o Append(requests, Head(c_tx)) \o Tail(c_tx) = s_rx \o requests \o c_tx
    <3>1. SentOn(Request, s_rx, requests, c_tx)
      BY <2>0, <2>2, PassOnLast, ZenonT(30)
    <3> QED
      BY <3>1, Zenon DEF SentOn
  <2>4. upstream' = upstream
    BY <2>1, <2>3, ZenonT(30) DEF upstream
  <2>5. Len(c_tx') <= MAX_CLIENT_MSG_BUFFER_SIZE + 1
    BY <2>1, <2>2, <2>3, ClientAssumption
  <2>u. /\ downstream' = downstream
        /\ (c_rx \in Seq(Reply) /\ replies \in Seq(Reply) /\ s_tx \in Seq(Reply))'
    BY <2>1, <1>0, UnmovedDown, ZenonT(30)
  <2>v. (c_tx \in Seq(Request) /\ requests \in Seq(Request) /\ s_rx \in Seq(Request))'
    BY <2>1, <2>2, <2>3, Zenon
  <2> QED
    BY <2>1, <2>3, <2>4, <2>5, <2>u, <2>v, <1>0, MoveKeeps, ZenonT(30)
<1>3. CASE c_receive
  <2>0. replies # << >>
    BY <1>3, Zenon DEF c_receive
  <2>1. /\ c_pc = "rx" /\ replies # << >>
        /\ c_rx' = Append(c_rx, Head(replies)) /\ replies' = Tail(replies)
        /\ UNCHANGED <<c_map, c_list, stub, handle, c_tx, c_pc, answering, n_calls, requests>>
    BY <1>3, Zenon DEF c_receive
  <2>2. c_rx \in Seq(Reply) /\ replies \in Seq(Reply) /\ s_tx \in Seq(Reply)
    BY <1>0, Zenon DEF TypeOK
  <2>3. /\ Append(c_rx, Head(replies)) \in Seq(Reply) /\ Tail(replies) \in Seq(Reply)
        /\ Append(c_rx, Head(replies)) \o Tail(replies) \o s_tx = c_rx \o replies \o s_tx
    BY <2>0, <2>2, PassOnFirst
  <2>4. downstream' = downstream
    BY <2>1, <2>3, Zenon DEF downstream
  <2>u. /\ upstream' = upstream /\ Len(c_tx') <= MAX_CLIENT_MSG_BUFFER_SIZE + 1
        /\ (c_tx \in Seq(Request) /\ requests \in Seq(Request) /\ s_rx \in Seq(Request))'
    BY <2>1, <1>0, Unmoved, Zenon
  <2>v. (c_rx \in Seq(Reply) /\ replies \in Seq(Reply) /\ s_tx \in Seq(Reply))'
    BY <2>1, <2>2, <2>3, Zenon
  <2> QED
    BY <2>1, <2>2, <2>3, <2>4, <2>u, <2>v, <1>0, MoveKeeps, ZenonT(30)
<1> QED
  BY <1>1, <1>2, <1>3, ZenonT(30)

LEMMA ServerMoves ==
    ASSUME IInv, UNCHANGED <<c_vars, misused>>,
           s_doLoop \/ s_receive \/ s_rx_expired \/ s_dispatched \/ s_send \/ s_tx_expired
    PROVE  IInv'
<1> USE DEF s_registry, wires, c_vars
<1>0. TypeOK
  BY Zenon DEF IInv
<1>1. CASE s_doLoop \/ s_rx_expired \/ s_dispatched \/ s_tx_expired
  <2>1. /\ UNCHANGED <<s_map, s_list, skeleton_id, s_pointer, s_rx, s_tx, requests, replies>>
        /\ s_pc' \in {"app", "rx", "dispatch", "tx"}
    BY <1>1, Zenon DEF s_doLoop, s_rx_expired, s_dispatched, s_tx_expired
  <2> QED
    BY <2>1, <1>0, Unmoved, UnmovedDown, MoveKeeps, ZenonT(30)
<1>2. CASE s_receive
  <2>0. requests # << >>
    BY <1>2, Zenon DEF s_receive
  <2>1. /\ requests # << >> /\ s_rx' = Append(s_rx, Head(requests)) /\ requests' = Tail(requests)
        /\ UNCHANGED <<s_map, s_list, skeleton_id, s_pointer, s_tx, s_pc, replies>>
    BY <1>2, Zenon DEF s_receive
  <2>2. /\ c_tx \in Seq(Request) /\ requests \in Seq(Request) /\ s_rx \in Seq(Request)
        /\ Len(c_tx) <= MAX_CLIENT_MSG_BUFFER_SIZE + 1 /\ s_pc \in {"app", "rx", "dispatch", "tx"}
    BY <1>0, Zenon DEF TypeOK
  <2>3. /\ Append(s_rx, Head(requests)) \in Seq(Request) /\ Tail(requests) \in Seq(Request)
        /\ Append(s_rx, Head(requests)) \o Tail(requests) \o c_tx = s_rx \o requests \o c_tx
    BY <2>0, <2>2, PassOnFirst
  <2>4. upstream' = upstream
    BY <2>1, <2>3, Zenon DEF upstream
  <2>u. /\ downstream' = downstream
        /\ (c_rx \in Seq(Reply) /\ replies \in Seq(Reply) /\ s_tx \in Seq(Reply))'
    BY <2>1, <1>0, UnmovedDown, Zenon
  <2>v. (c_tx \in Seq(Request) /\ requests \in Seq(Request) /\ s_rx \in Seq(Request))'
    BY <2>1, <2>2, <2>3, Zenon
  <2> QED
    BY <2>1, <2>2, <2>4, <2>u, <2>v, MoveKeeps, ZenonT(30)
<1>3. CASE s_send
  <2>0. s_tx # << >>
    BY <1>3, Zenon DEF s_send
  <2>1. /\ s_tx # << >> /\ replies' = Append(replies, Head(s_tx)) /\ s_tx' = Tail(s_tx)
        /\ UNCHANGED <<s_map, s_list, skeleton_id, s_pointer, s_rx, s_pc, requests>>
    BY <1>3, Zenon DEF s_send
  <2>2. /\ c_rx \in Seq(Reply) /\ replies \in Seq(Reply) /\ s_tx \in Seq(Reply)
        /\ s_pc \in {"app", "rx", "dispatch", "tx"}
    BY <1>0, Zenon DEF TypeOK
  <2>3. /\ Append(replies, Head(s_tx)) \in Seq(Reply) /\ Tail(s_tx) \in Seq(Reply)
        /\ c_rx \o Append(replies, Head(s_tx)) \o Tail(s_tx) = c_rx \o replies \o s_tx
    <3>1. SentOn(Reply, c_rx, replies, s_tx)
      BY <2>0, <2>2, PassOnLast, ZenonT(30)
    <3> QED
      BY <3>1, Zenon DEF SentOn
  <2>4. downstream' = downstream
    BY <2>1, <2>3, ZenonT(30) DEF downstream
  <2>u. /\ upstream' = upstream /\ Len(c_tx') <= MAX_CLIENT_MSG_BUFFER_SIZE + 1
        /\ (c_tx \in Seq(Request) /\ requests \in Seq(Request) /\ s_rx \in Seq(Request))'
    BY <2>1, <1>0, Unmoved, ZenonT(30)
  <2>v. (c_rx \in Seq(Reply) /\ replies \in Seq(Reply) /\ s_tx \in Seq(Reply))'
    BY <2>1, <2>2, <2>3, ZenonT(30)
  <2> QED
    BY <2>1, <2>2, <2>3, <2>4, <2>u, <2>v, <1>0, MoveKeeps, ZenonT(30)
<1> QED
  BY <1>1, <1>2, <1>3, ZenonT(30)

LEMMA FaultKeeps ==
    ASSUME IInv, c_fault, UNCHANGED s_vars, misused' = TRUE
    PROVE  IInv'
<1> USE DEF c_fault, c_registry, wires, s_vars
<1>1. TypeOK'
  BY ZenonT(30) DEF IInv, TypeOK
<1>2. RegistriesAgree' /\ Registered'
  BY DEF IInv, RegistriesAgree, Registered, alive, find, Distinct
<1>3. HandlesOwn' /\ Flow' /\ Answering' /\ FaultOnlyByMisuse'
  BY Zenon DEF HandlesOwn, Flow, Answering, FaultOnlyByMisuse
<1> QED
  BY <1>1, <1>2, <1>3, ZenonT(30) DEF IInv
=============================================================================
