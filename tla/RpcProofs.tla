------------------------------ MODULE RpcProofs ------------------------------
(***************************************************************************)
(* Proofs about Rpc: for any functions, handles, addresses, capacities and *)
(* width of the invocation ids, the registries agree, and a client         *)
(* application that holds one handle for a function and disconnects it     *)
(* when no call is pending gets every result in the callback of its call.  *)
(***************************************************************************)
EXTENDS RpcLemmas

\* the solver the steps without one of their own go to
USE SMTT(30)

-----------------------------------------------------------------------------
(* The client application.                                                 *)

LEMMA ClientRegistry ==
    ASSUME TypeOK, RegistriesAgree, Registered
    PROVE  /\ RegistryOK(c_map, c_list, stub_id)
           /\ \A p \in Addr : stub_id[p] = stub[p].id
           /\ \A p \in Addr : alive(c_list, p) =>
                 stub[p].id \in DOMAIN c_map /\ stub[p].id \in Id /\ c_map[stub[p].id] = p
           /\ \A i \in DOMAIN c_map : i \in Id /\ c_map[i] \in Addr /\ alive(c_list, c_map[i])
                                      /\ stub[c_map[i]].id = i
<1>1. RegistryOK(c_map, c_list, stub_id)
  BY BothRegistries, Zenon
<1>2. \A p \in Addr : stub_id[p] = stub[p].id
  BY Zenon DEF stub_id
<1>3. ASSUME NEW p \in Addr, alive(c_list, p)
      PROVE  stub[p].id \in DOMAIN c_map /\ stub[p].id \in Id /\ c_map[stub[p].id] = p
  BY <1>1, <1>2, <1>3, ConnectionAssumption, Zenon DEF RegistryOK, find
<1>4. ASSUME NEW i \in DOMAIN c_map
      PROVE  /\ i \in Id /\ c_map[i] \in Addr /\ alive(c_list, c_map[i])
             /\ stub[c_map[i]].id = i
  <2>1. i \in Id /\ c_map[i] \in Addr
    BY <1>4, Zenon DEF TypeOK, Registered
  <2> QED
    BY <2>1, <1>1, <1>2, <1>4, ConnectionAssumption, Zenon DEF RegistryOK
<1> QED
  BY <1>1, <1>2, <1>3, <1>4, ZenonT(30)

\* a step that leaves the ids and the counts of the Stubs alone
LEMMA SameObjects ==
    ASSUME TypeOK, RegistriesAgree, Registered,
           UNCHANGED <<c_map, c_list, s_map, s_list, skeleton_id, s_pointer>>,
           \A q \in Addr : stub'[q].id = stub[q].id /\ stub'[q].n_handles = stub[q].n_handles
    PROVE  RegistriesAgree' /\ Registered'
<1>1. \A i \in DOMAIN c_map : c_map[i] \in Addr
  BY ClientRegistry, Zenon
<1>2. \A n \in 1..Len(c_list) : c_list[n] \in Addr
  BY DEF TypeOK
<1>3. RegistriesAgree'
  BY <1>1, <1>2 DEF RegistriesAgree, alive, find
<1>4. Registered'
  BY ZenonT(30) DEF Registered, alive, find, Distinct
<1> QED
  BY <1>3, <1>4, Zenon

\* a step on the Stub at p changes the invocations of its function alone
LEMMA PendingAt ==
    ASSUME TypeOK, RegistriesAgree, Registered, NEW p \in Addr, alive(c_list, p),
           c_map' = c_map, \A q \in Addr : q # p => stub'[q] = stub[q]
    PROVE  /\ pending[stub[p].id] = stub[p].invokation_list
           /\ pending'[stub[p].id] = stub'[p].invokation_list
           /\ \A j \in Id : j # stub[p].id => pending'[j] = pending[j]
<1> DEFINE i == stub[p].id
<1>1. i \in DOMAIN c_map /\ i \in Id /\ c_map[i] = p /\ p # NULL
  BY ClientRegistry, ConnectionAssumption, Zenon
<1>2. find(c_map, i) = p
  BY <1>1, Zenon DEF find
<1>3. pending[i] = stub[p].invokation_list /\ pending'[i] = stub'[p].invokation_list
  BY <1>1, <1>2, Zenon DEF pending, invocations, find
<1>4. ASSUME NEW j \in Id, j # i
      PROVE  pending'[j] = pending[j]
  <2>1. CASE j \notin DOMAIN c_map
    BY <2>1, Zenon DEF pending, invocations, find
  <2>2. CASE j \in DOMAIN c_map
    <3>1. c_map[j] \in Addr /\ c_map[j] # p /\ c_map[j] # NULL
      BY <2>2, <1>4, ClientRegistry, ConnectionAssumption, ZenonT(30)
    <3> QED
      BY <2>2, <3>1, Zenon DEF pending, invocations, find
  <2> QED
    BY <2>1, <2>2, Zenon
<1> QED
  BY <1>3, <1>4, Zenon

LEMMA AppendOn ==
    ASSUME NEW S, NEW s \in Seq(S), NEW x \in S
    PROVE  LastOn(s, Append(s, x), x)
  BY DEF LastOn

LEMMA AppendLast ==
    ASSUME NEW S, NEW a \in Seq(S), NEW b \in Seq(S), NEW x \in S
    PROVE  LastOn(a \o b, a \o Append(b, x), x)
<1>1. /\ Append(b, x) \in Seq(S) /\ Len(Append(b, x)) = Len(b) + 1 /\ Len(a) \in Nat /\ Len(b) \in Nat
      /\ Append(b, x)[Len(b) + 1] = x /\ \A k \in 1..Len(b) : Append(b, x)[k] = b[k]
  OBVIOUS
<1> DEFINE c == Append(b, x)
<1> HIDE DEF c
<1>2. /\ Len(a \o c) = Len(a) + Len(c)
      /\ \A k \in 1..Len(a) + Len(c) : (a \o c)[k] = IF k <= Len(a) THEN a[k] ELSE c[k - Len(a)]
  BY <1>1, ConcatElements, Zenon DEF c
<1>3. /\ Len(a \o b) = Len(a) + Len(b)
      /\ \A k \in 1..Len(a) + Len(b) : (a \o b)[k] = IF k <= Len(a) THEN a[k] ELSE b[k - Len(a)]
  BY ConcatElements, Zenon
<1>4. (a \o c)[Len(a \o b) + 1] = x
  <2>1. /\ Len(a) + Len(b) + 1 \in 1..Len(a) + Len(c) /\ ~(Len(a) + Len(b) + 1 <= Len(a))
        /\ (Len(a) + Len(b) + 1) - Len(a) = Len(b) + 1
    BY <1>1 DEF c
  <2>2. (a \o c)[Len(a) + Len(b) + 1] = c[Len(b) + 1]
    BY <2>1, <1>2
  <2> QED
    BY <2>2, <1>1, <1>3, Zenon DEF c
<1>5. ASSUME NEW k \in 1..Len(a \o b)
      PROVE  (a \o c)[k] = (a \o b)[k]
  <2>1. k \in 1..Len(a) + Len(b) /\ k \in 1..Len(a) + Len(c)
    BY <1>1, <1>3 DEF c
  <2>2. CASE k <= Len(a)
    BY <2>1, <2>2, <1>2, <1>3, ZenonT(30)
  <2>3. CASE ~(k <= Len(a))
    <3>1. k - Len(a) \in 1..Len(b)
      BY <2>1, <2>3, <1>1
    <3>2. c[k - Len(a)] = b[k - Len(a)]
      BY <3>1, <1>1, Zenon DEF c
    <3> QED
      BY <2>1, <2>3, <3>2, <1>2, <1>3, ZenonT(30)
  <2> QED
    BY <2>2, <2>3, Zenon
<1> QED
  BY <1>1, <1>2, <1>3, <1>4, <1>5 DEF LastOn, c

LEMMA CallKeeps ==
    ASSUME IInv, NEW h \in Handle, ClientCalls(h)
    PROVE  IInv'
<1> DEFINE p == handle[h]
           new_id == (stub[p].invokations + 1) % IdModulus
           e == [id |-> new_id, call |-> n_calls + 1]
           r == [name |-> stub[p].id, id |-> new_id, value |-> n_calls + 1]
<1>0. /\ TypeOK /\ RegistriesAgree /\ Registered /\ HandlesOwn /\ Flow /\ Answering
      /\ FaultOnlyByMisuse /\ misused' = misused /\ UNCHANGED s_vars /\ asyncRPC(h)
  BY Zenon DEF IInv, ClientCalls
<1>1. p \in Addr /\ p # NULL /\ ~tx_msg_full /\ n_calls < MaxCalls /\ app_runs
  BY <1>0, Zenon DEF asyncRPC, TypeOK
<1>2. CASE ~alive(c_list, p)
  <2>1. c_fault
    BY <1>0, <1>2, Zenon DEF asyncRPC
  <2>2. misused = TRUE
    BY <1>0, <1>1, <1>2, ZenonT(30) DEF HandlesOwn, TypeOK
  <2> QED
    BY <2>1, <2>2, <1>0, FaultKeeps, Zenon
<1>3. CASE alive(c_list, p)
  <2>1. /\ stub' = [stub EXCEPT ![p].invokations = new_id, ![p].invokation_list = Append(@, e)]
        /\ c_tx' = Append(c_tx, r) /\ n_calls' = n_calls + 1
        /\ UNCHANGED <<c_map, c_list, handle, c_rx, c_pc, answering, requests, replies>>
    BY <1>0, <1>3, Zenon DEF asyncRPC, wires
  <2>2. UNCHANGED <<s_map, s_list, skeleton_id, s_pointer, s_rx, s_tx, s_pc>>
    BY <1>0, Zenon DEF s_vars
  <2>3. /\ n_calls \in Nat /\ n_calls + 1 \in 1..MaxCalls /\ n_calls + 1 \in 0..MaxCalls
    BY <1>0, <1>1, ConnectionAssumption DEF TypeOK
  <2>4. new_id \in 0 .. IdModulus - 1
    <3>1. stub[p].invokations \in Nat
      BY <1>0, <1>1 DEF TypeOK
    <3> QED
      BY <3>1, ConnectionAssumption
  <2>5. stub[p].id \in DOMAIN c_map /\ stub[p].id \in Id /\ c_map[stub[p].id] = p
    BY <1>0, <1>1, <1>3, ClientRegistry, Zenon
  <2>6. e \in Invocation /\ r \in Request
    <3> HIDE DEF new_id
    <3> QED
      BY <2>3, <2>4, <2>5, Zenon DEF Invocation, Request
  <2>7. /\ stub[p] \in [id : Id \union {NULL}, invokations : 0 .. IdModulus - 1,
                        n_handles : {0, 1}, invokation_list : Seq(Invocation)]
        /\ stub \in [Addr -> [id : Id \union {NULL}, invokations : 0 .. IdModulus - 1,
                              n_handles : {0, 1}, invokation_list : Seq(Invocation)]]
    BY <1>0, <1>1, Zenon DEF TypeOK
  <2> HIDE DEF new_id, e, r, p
  <2>8. /\ stub'[p].id = stub[p].id /\ stub'[p].n_handles = stub[p].n_handles
        /\ stub'[p].invokation_list = Append(stub[p].invokation_list, e)
        /\ \A q \in Addr : q # p => stub'[q] = stub[q]
    BY <2>1, <2>7, <1>1, Zenon
  <2>9. stub' \in [Addr -> [id : Id \union {NULL}, invokations : 0 .. IdModulus - 1,
                            n_handles : {0, 1}, invokation_list : Seq(Invocation)]]
    <3>1. stub'[p] = [id |-> stub[p].id, invokations |-> new_id, n_handles |-> stub[p].n_handles,
                      invokation_list |-> Append(stub[p].invokation_list, e)]
      BY <2>1, <2>7, <1>1, Zenon
    <3>2. stub'[p] \in [id : Id \union {NULL}, invokations : 0 .. IdModulus - 1,
                        n_handles : {0, 1}, invokation_list : Seq(Invocation)]
      BY <3>1, <2>4, <2>6, <2>7
    <3> QED
      BY <3>2, <2>1, <2>7, <2>8, Zenon
  <2>10. TypeOK'
    <3>1. c_tx' \in Seq(Request) /\ Len(c_tx') <= MAX_CLIENT_MSG_BUFFER_SIZE + 1
      BY <2>1, <2>6, <1>0, <1>1, ClientAssumption DEF TypeOK, tx_msg_full
    <3> QED
      BY <2>1, <2>2, <2>3, <2>9, <3>1, <1>0, ZenonT(30) DEF TypeOK
  <2>11. \A q \in Addr : stub'[q].id = stub[q].id /\ stub'[q].n_handles = stub[q].n_handles
    BY <2>8, Zenon
  <2>12. RegistriesAgree' /\ Registered'
    BY <2>1, <2>2, <2>11, <1>0, SameObjects, Zenon
  <2>13. HandlesOwn'
    BY <2>1, <1>0, ZenonT(30) DEF HandlesOwn, alive
  <2>14. Flow'
    <3> SUFFICES ASSUME ~misused
                 PROVE  /\ InOrder(pending', upstream', downstream')
                        /\ Accounted(pending', upstream', downstream', s_map')
                        /\ Numbered(pending', n_calls')
      BY <1>0, ZenonT(30) DEF Flow
    <3>1. /\ pending[stub[p].id] = stub[p].invokation_list
          /\ pending'[stub[p].id] = stub'[p].invokation_list
          /\ \A j \in Id : j # stub[p].id => pending'[j] = pending[j]
      BY <2>1, <2>8, <1>0, <1>1, <1>3, PendingAt, ZenonT(30) DEF p
    <3> DEFINE i == stub[p].id
    <3>2. i \in Id
      BY <2>5, ZenonT(30)
    <3>3. LastOn(pending[i], pending'[i], [id |-> new_id, call |-> n_calls + 1])
      <4>1. stub[p].invokation_list \in Seq(Invocation)
        BY <2>7, Zenon
      <4> QED
        BY <4>1, <3>1, <2>6, <2>8, AppendOn, ZenonT(30) DEF e
    <3>4. LastOn(upstream, upstream', [name |-> i, id |-> new_id, value |-> n_calls + 1])
      <4>1. s_rx \o requests \in Seq(Request) /\ c_tx \in Seq(Request)
        BY <1>0 DEF TypeOK
      <4>2. upstream' = s_rx \o requests \o Append(c_tx, r)
        BY <2>1, <2>2, Zenon DEF upstream
      <4> DEFINE a == s_rx \o requests
      <4> HIDE DEF a
      <4>3. LastOn(a \o c_tx, a \o Append(c_tx, r), r)
        BY <4>1, <2>6, AppendLast, Zenon DEF a
      <4>4. upstream' = a \o Append(c_tx, r) /\ upstream = a \o c_tx
        BY <4>2, Zenon DEF a, upstream
      <4> QED
        BY <4>3, <4>4, ZenonT(30) DEF r
    <3>5. downstream' = downstream /\ s_map' = s_map
      BY <2>1, <2>2, Zenon DEF downstream
    <3>6. InOrder(pending, upstream, downstream) /\ Accounted(pending, upstream, downstream, s_map)
          /\ Numbered(pending, n_calls)
      BY <1>0, Zenon DEF Flow
    <3>7. /\ pending \in [Id -> Seq(Invocation)]
          /\ upstream \in Seq(Request) /\ downstream \in Seq(Reply)
      BY <1>0, FlowTyped, ZenonT(30)
    <3> HIDE DEF i
    <3>8. Called(pending, upstream, pending', upstream', i, new_id, n_calls + 1)
      <4>1. \A j \in Id \ {i} : pending'[j] = pending[j]
        BY <3>1, Zenon DEF i
      <4> QED
        BY <4>1, <3>3, <3>4, ZenonT(30) DEF Called
    <3>9. /\ InOrder(pending', upstream', downstream)
          /\ Accounted(pending', upstream', downstream, s_map)
          /\ Numbered(pending', n_calls + 1)
      BY <2>3, <3>2, <3>6, <3>7, <3>8, CallFlows, ZenonT(30)
    <3> QED
      BY <3>5, <3>9, <2>1, ZenonT(30)
  <2>15. Answering'
    <3> SUFFICES ASSUME c_pc = "callback"
                 PROVE  Answering'
      BY <2>1, Zenon DEF Answering
    <3>1. answering \in [rpc : Addr, at : Nat \ {0}, value : {result(v) : v \in 1 .. MaxCalls},
                         call : 1 .. MaxCalls]
      BY <1>0, Zenon DEF Answering
    <3>2. ASSUME ~misused
          PROVE  /\ stub'[answering.rpc].invokation_list # << >>
                 /\ stub'[answering.rpc].invokation_list[1] = stub[answering.rpc].invokation_list[1]
      <4>1. stub[answering.rpc].invokation_list # << >> /\ answering.rpc \in Addr
        BY <3>1, <3>2, <1>0, ZenonT(30) DEF Answering
      <4>2. CASE answering.rpc = p
        <5>1. stub[p].invokation_list \in Seq(Invocation) /\ stub[p].invokation_list # << >>
          BY <2>7, <4>1, <4>2, Zenon
        <5> QED
          BY <5>1, <4>2, <2>6, <2>8
      <4>3. CASE answering.rpc # p
        BY <4>1, <4>3, <2>8, Zenon
      <4> QED
        BY <4>2, <4>3, ZenonT(30)
    <3> QED
      BY <3>1, <3>2, <2>1, <1>0, ZenonT(30) DEF Answering, find
  <2>16. FaultOnlyByMisuse'
    BY <2>1, <1>0, Zenon DEF FaultOnlyByMisuse
  <2> QED
    BY <2>10, <2>12, <2>13, <2>14, <2>15, <2>16, ZenonT(30) DEF IInv
<1> QED
  BY <1>2, <1>3, Zenon

LEMMA ConnectKeeps ==
    ASSUME IInv, NEW h \in Handle, NEW f \in Function, ClientConnects(h, f)
    PROVE  IInv'
<1> DEFINE shared == \E g \in Handle \ {h} : handle[g] # NULL /\ handle[g] = handle'[h]
<1>0. /\ TypeOK /\ RegistriesAgree /\ Registered /\ HandlesOwn /\ Flow /\ Answering
      /\ FaultOnlyByMisuse
  BY Zenon DEF IInv
<1>1. /\ connect(h, f) /\ misused' = (misused \/ shared)
      /\ UNCHANGED <<s_map, s_list, skeleton_id, s_pointer, s_rx, s_tx, s_pc>>
  BY Zenon DEF ClientConnects, s_vars
<1>2. /\ app_runs /\ handle[h] = NULL
      /\ UNCHANGED <<c_tx, c_rx, c_pc, answering, n_calls, requests, replies>>
  BY <1>1, ZenonT(30) DEF connect, wires
<1>3. misused' \in BOOLEAN /\ (~misused' => ~misused /\ ~shared)
  BY <1>1, Zenon
<1>4. id(f) \in Id /\ <<f>> \notin Id
  BY Zenon DEF Id, id
<1>5. find(c_map, <<f>>) = NULL
  BY <1>0, <1>4, ZenonT(30) DEF TypeOK, find
<1>6. FaultOnlyByMisuse'
  BY <1>2, Zenon DEF FaultOnlyByMisuse, app_runs
<1>7. upstream' = upstream /\ downstream' = downstream
  BY <1>1, <1>2, Zenon DEF upstream, downstream
<1>8. handle \in [Handle -> Addr \union {NULL}]
  BY <1>0, Zenon DEF TypeOK
<1>9. CASE id(f) \in DOMAIN c_map
  <2>1. handle' = [handle EXCEPT ![h] = c_map[id(f)]] /\ UNCHANGED <<c_map, c_list, stub>>
    BY <1>1, <1>5, <1>9, ZenonT(30) DEF connect
  <2>2. c_map[id(f)] \in Addr /\ alive(c_list, c_map[id(f)])
    BY <1>0, <1>9, ClientRegistry, ZenonT(30)
  <2>3. TypeOK'
    <3>1. handle' \in [Handle -> Addr \union {NULL}]
      BY <2>1, <2>2, <1>8, ZenonT(30)
    <3> QED
      BY <3>1, <2>1, <1>0, <1>1, <1>2, <1>3, ZenonT(30) DEF TypeOK
  <2>4. RegistriesAgree' /\ Registered'
    BY <2>1, <1>0, <1>1, SameObjects, ZenonT(30)
  <2>5. HandlesOwn'
    <3> SUFFICES ASSUME ~misused'
                 PROVE  /\ \A k \in Handle : handle'[k] # NULL => alive(c_list, handle'[k])
                        /\ \A g, k \in Handle : handle'[g] # NULL /\ handle'[g] = handle'[k] => g = k
      BY <2>1, Zenon DEF HandlesOwn, alive
    <3>1. /\ handle'[h] = c_map[id(f)]
          /\ \A k \in Handle : k # h => handle'[k] = handle[k]
      BY <2>1, <1>8, ZenonT(30)
    <3>2. \A k \in Handle : k # h => handle[k] = NULL \/ handle[k] # handle'[h]
      BY <1>3, Zenon
    <3>3. /\ \A k \in Handle : handle[k] # NULL => alive(c_list, handle[k])
          /\ \A g, k \in Handle : handle[g] # NULL /\ handle[g] = handle[k] => g = k
      BY <1>0, <1>3, ZenonT(30) DEF HandlesOwn
    <3> QED
      BY <3>1, <3>2, <3>3, <2>2, ZenonT(30)
  <2>6. pending' = pending
    BY <2>1, Zenon DEF pending, invocations, find
  <2>7. Flow'
    BY <2>6, <1>0, <1>1, <1>2, <1>3, <1>7, ZenonT(30) DEF Flow
  <2>8. Answering'
    BY <2>1, <1>0, <1>2, <1>3, ZenonT(30) DEF Answering, find
  <2> QED
    BY <2>3, <2>4, <2>5, <2>7, <2>8, <1>6, ZenonT(30) DEF IInv
<1>10. CASE id(f) \notin DOMAIN c_map
  <2>1. PICK new \in Addr :
           /\ ~alive(c_list, new)
           /\ c_map' = map_after_insert(c_map, id(f), new)
           /\ c_list' = list_after_insert(c_list, new)
           /\ stub' = [stub EXCEPT ![new] = new_stub(f)]
           /\ handle' = [handle EXCEPT ![h] = new]
    BY <1>1, <1>5, <1>10, ZenonT(30) DEF connect
  <2>2. /\ DOMAIN c_map' = DOMAIN c_map \union {id(f)} /\ c_map'[id(f)] = new
        /\ \A i \in DOMAIN c_map : c_map'[i] = c_map[i]
    BY <2>1, <1>10, Zenon DEF map_after_insert
  <2>3. c_list \in Seq(Addr) /\ Distinct(c_list)
    BY <1>0, Zenon DEF TypeOK, Registered
  <2>4. \A q : alive(c_list', q) <=> q = new \/ alive(c_list, q)
    BY <2>1, <2>3, ListInsert, ZenonT(30)
  <2>5. /\ new_stub(f) \in [id : Id \union {NULL}, invokations : 0 .. IdModulus - 1,
                            n_handles : {0, 1}, invokation_list : Seq(Invocation)]
        /\ new_stub(f).id = id(f) /\ new_stub(f).n_handles = 1
        /\ new_stub(f).invokation_list = << >>
    <3>1. << >> \in Seq(Invocation)
      OBVIOUS
    <3>2. 0 \in 0 .. IdModulus - 1 /\ 1 \in {0, 1}
      BY ConnectionAssumption
    <3>3. id(f) \in Id \union {NULL}
      BY <1>4, Zenon
    <3> QED
      BY <3>1, <3>2, <3>3, Zenon DEF new_stub
  <2>6. /\ stub'[new] = new_stub(f) /\ \A q \in Addr : q # new => stub'[q] = stub[q]
        /\ stub' \in [Addr -> [id : Id \union {NULL}, invokations : 0 .. IdModulus - 1,
                               n_handles : {0, 1}, invokation_list : Seq(Invocation)]]
    BY <2>1, <2>5, <1>0, Zenon DEF TypeOK
  <2>7. RegistryOK(c_map', c_list', stub_id')
    <3>1. RegistryOK(c_map, c_list, stub_id)
      BY <1>0, ClientRegistry, Zenon
    <3>2. stub_id'[new] = id(f) /\ \A q \in Addr : q # new => stub_id'[q] = stub_id[q]
      BY <2>5, <2>6, Zenon DEF stub_id
    <3> QED
      BY <3>1, <3>2, <2>1, <1>4, <1>10, RegistryInsert, ZenonT(30)
  <2>8. RegistryOK(s_map', s_list', skeleton_id')
    <3>1. RegistryOK(s_map, s_list, skeleton_id)
      BY <1>0, BothRegistries, Zenon
    <3> QED
      BY <3>1, <1>1, ZenonT(30)
  <2>9. /\ RegistriesAgree' /\ Distinct(c_list') /\ Distinct(s_list')
        /\ DOMAIN c_map' \subseteq Id /\ DOMAIN s_map' \subseteq Id
        /\ \A i \in DOMAIN c_map' : c_map'[i] \in Addr \union {NULL}
        /\ \A i \in DOMAIN s_map' : s_map'[i] \in Addr \union {NULL}
        /\ c_list' \in Seq(Addr) /\ s_list' \in Seq(Addr)
    <3>1. (RegistryOK(c_map, c_list, stub_id) /\ RegistryOK(s_map, s_list, skeleton_id))'
      BY <2>7, <2>8, Zenon
    <3>2. RegistriesRecovered'
      BY <3>1, FromRegistries, PTL
    <3> QED
      BY <3>2, Zenon DEF RegistriesRecovered
  <2>10. TypeOK'
    <3>1. handle' \in [Handle -> Addr \union {NULL}]
      BY <2>1, <1>8, Zenon
    <3> QED
      BY <3>1, <2>6, <2>9, <1>0, <1>1, <1>2, <1>3, ZenonT(30) DEF TypeOK
  <2>11. Registered'
    <3>1. \A i \in DOMAIN c_map' : c_map'[i] # NULL
      BY <2>2, <1>0, ConnectionAssumption, Zenon DEF Registered
    <3>2. \A q \in Addr : alive(c_list', q) => stub'[q].n_handles = 1
      BY <2>4, <2>5, <2>6, <1>0, ZenonT(30) DEF Registered
    <3> QED
      BY <3>1, <3>2, <2>9, <1>0, <1>1, ZenonT(30) DEF Registered, find
  <2>12. HandlesOwn'
    <3> SUFFICES ASSUME ~misused'
                 PROVE  /\ \A k \in Handle : handle'[k] # NULL => alive(c_list', handle'[k])
                        /\ \A g, k \in Handle : handle'[g] # NULL /\ handle'[g] = handle'[k] => g = k
      BY Zenon DEF HandlesOwn
    <3>1. /\ handle'[h] = new
          /\ \A k \in Handle : k # h => handle'[k] = handle[k]
      BY <2>1, <1>8, Zenon
    <3>2. \A k \in Handle : k # h => handle[k] = NULL \/ handle[k] # handle'[h]
      BY <1>3, Zenon
    <3>3. /\ \A k \in Handle : handle[k] # NULL => alive(c_list, handle[k])
          /\ \A g, k \in Handle : handle[g] # NULL /\ handle[g] = handle[k] => g = k
      BY <1>0, <1>3, Zenon DEF HandlesOwn
    <3> QED
      BY <3>1, <3>2, <3>3, <2>4, ZenonT(30)
  <2>13. \A i \in DOMAIN c_map : c_map[i] \in Addr /\ c_map[i] # new /\ c_map[i] # NULL
    BY <2>1, <1>0, ClientRegistry, ConnectionAssumption, ZenonT(30)
  <2>14. pending' = pending
    <3>1. ASSUME NEW i \in Id
          PROVE  invocations(i)' = invocations(i)
      <4>1. CASE i = id(f)
        <5>1. find(c_map, i) = NULL /\ find(c_map', i) = new /\ new # NULL
          BY <4>1, <2>2, <1>10, ConnectionAssumption, ZenonT(30) DEF find
        <5> QED
          BY <5>1, <2>5, <2>6, Zenon DEF invocations, find
      <4>2. CASE i # id(f) /\ i \in DOMAIN c_map
        <5>1. find(c_map', i) = c_map[i] /\ find(c_map, i) = c_map[i] /\ c_map[i] # NULL
          BY <4>2, <2>2, <2>13, Zenon DEF find
        <5>2. stub'[c_map[i]] = stub[c_map[i]]
          BY <4>2, <2>6, <2>13, Zenon
        <5> QED
          BY <5>1, <5>2, Zenon DEF invocations, find
      <4>3. CASE i # id(f) /\ i \notin DOMAIN c_map
        BY <4>3, <2>2, Zenon DEF invocations, find
      <4> QED
        BY <4>1, <4>2, <4>3, Zenon
    <3> QED
      BY <3>1, Zenon DEF pending
  <2>15. Flow'
    BY <2>14, <1>0, <1>1, <1>2, <1>3, <1>7, ZenonT(30) DEF Flow
  <2>16. Answering'
    <3> SUFFICES ASSUME c_pc = "callback"
                 PROVE  Answering'
      BY <1>2, Zenon DEF Answering
    <3>1. answering \in [rpc : Addr, at : Nat \ {0}, value : {result(v) : v \in 1 .. MaxCalls},
                         call : 1 .. MaxCalls]
      BY <1>0, Zenon DEF Answering
    <3>2. ASSUME ~misused
          PROVE  find(c_map', Head(c_rx).name) = answering.rpc /\ stub'[answering.rpc] = stub[answering.rpc]
      <4>1. answering.rpc = find(c_map, Head(c_rx).name) /\ answering.rpc # NULL
        BY <3>1, <3>2, <1>0, ConnectionAssumption, ZenonT(30) DEF Answering
      <4>2. Head(c_rx).name \in DOMAIN c_map /\ answering.rpc = c_map[Head(c_rx).name]
        BY <4>1, Zenon DEF find
      <4> QED
        BY <4>2, <2>2, <2>6, <2>13, ZenonT(30) DEF find
    <3> QED
      BY <3>1, <3>2, <1>0, <1>2, <1>3, Zenon DEF Answering, find
  <2> QED
    BY <2>9, <2>10, <2>11, <2>12, <2>15, <2>16, <1>6, ZenonT(30) DEF IInv
<1> QED
  BY <1>9, <1>10, ZenonT(30)

LEMMA DisconnectKeeps ==
    ASSUME IInv, NEW h \in Handle, ClientDisconnects(h)
    PROVE  IInv'
<1> DEFINE p == handle[h]
<1>0. /\ TypeOK /\ RegistriesAgree /\ Registered /\ HandlesOwn /\ Flow /\ Answering
      /\ FaultOnlyByMisuse
  BY Zenon DEF IInv
<1>1. /\ disconnect(h) /\ misused' = (misused \/ ~quiet(p)) /\ UNCHANGED s_vars
      /\ UNCHANGED <<s_map, s_list, skeleton_id, s_pointer, s_rx, s_tx, s_pc>>
  BY Zenon DEF ClientDisconnects, s_vars
<1>2. app_runs /\ p # NULL /\ p \in Addr /\ handle \in [Handle -> Addr \union {NULL}]
  BY <1>0, <1>1, Zenon DEF disconnect, TypeOK
<1>3. misused' \in BOOLEAN /\ (~misused' => ~misused /\ quiet(p)) /\ (misused => misused')
  BY <1>1, Zenon
<1>4. CASE ~alive(c_list, p)
  <2>1. c_fault
    BY <1>1, <1>4, Zenon DEF disconnect
  <2>2. misused
    BY <1>0, <1>2, <1>4, Zenon DEF HandlesOwn
  <2>3. misused' = TRUE
    BY <2>2, <1>3, Zenon
  <2> QED
    BY <2>1, <2>3, <1>1, FaultKeeps, ZenonT(30)
<1>5. CASE alive(c_list, p)
  <2> DEFINE i == stub[p].id
  <2>0. /\ stub' = [stub EXCEPT ![p].n_handles = @ - 1]
        /\ IF stub'[p].n_handles <= 0
             THEN /\ c_map' = map_after_remove(c_map, i)
                  /\ c_list' = list_after_remove(c_list, stub_id, i)
             ELSE UNCHANGED <<c_map, c_list>>
        /\ handle' = [handle EXCEPT ![h] = NULL]
        /\ UNCHANGED <<c_tx, c_rx, c_pc, answering, n_calls, requests, replies>>
    BY <1>1, <1>5, Zenon DEF disconnect, wires
  <2>1. stub[p].n_handles = 1
    BY <1>0, <1>2, <1>5, Zenon DEF Registered
  <2>2. stub \in [Addr -> [id : Id \union {NULL}, invokations : 0 .. IdModulus - 1,
                           n_handles : {0, 1}, invokation_list : Seq(Invocation)]]
    BY <1>0, Zenon DEF TypeOK
  <2>3. /\ stub'[p].n_handles = 0 /\ stub'[p].id = stub[p].id
        /\ stub'[p].invokation_list = stub[p].invokation_list
        /\ stub'[p] \in [id : Id \union {NULL}, invokations : 0 .. IdModulus - 1,
                         n_handles : {0, 1}, invokation_list : Seq(Invocation)]
        /\ \A q \in Addr : q # p => stub'[q] = stub[q]
    <3>1. stub'[p] = [stub[p] EXCEPT !.n_handles = 0]
      BY <2>0, <2>1, <2>2, <1>2
    <3> QED
      BY <3>1, <2>0, <2>2, <1>2
  <2>4. stub' \in [Addr -> [id : Id \union {NULL}, invokations : 0 .. IdModulus - 1,
                            n_handles : {0, 1}, invokation_list : Seq(Invocation)]]
    BY <2>0, <2>2, <2>3, Zenon
  <2>5. c_map' = map_after_remove(c_map, i) /\ c_list' = list_after_remove(c_list, stub_id, i)
    BY <2>0, <2>3
  <2>6. /\ i \in DOMAIN c_map /\ i \in Id /\ c_map[i] = p /\ stub_id[p] = i
        /\ RegistryOK(c_map, c_list, stub_id)
    BY <1>0, <1>2, <1>5, ClientRegistry, Zenon
  <2>7. stub_id' = stub_id
    BY <2>3, Zenon DEF stub_id
  <2>8. /\ RegistryOK(c_map', c_list', stub_id')
        /\ \A q : alive(c_list', q) <=> alive(c_list, q) /\ q # p
    <3>1. /\ RegistryOK(map_after_remove(c_map, stub_id[p]),
                        list_after_remove(c_list, stub_id, stub_id[p]), stub_id)
          /\ \A q : alive(list_after_remove(c_list, stub_id, stub_id[p]), q)
                       <=> alive(c_list, q) /\ q # p
      BY <2>6, <1>2, <1>5, RegistryRemove
    <3> QED
      BY <3>1, <2>5, <2>6, <2>7, Zenon
  <2>9. DOMAIN c_map' = DOMAIN c_map \ {i} /\ \A k \in DOMAIN c_map' : c_map'[k] = c_map[k]
    BY <2>5, Zenon DEF map_after_remove
  <2>10. /\ RegistriesAgree' /\ Distinct(c_list') /\ Distinct(s_list')
         /\ DOMAIN c_map' \subseteq Id /\ DOMAIN s_map' \subseteq Id
         /\ \A k \in DOMAIN c_map' : c_map'[k] \in Addr \union {NULL}
         /\ \A k \in DOMAIN s_map' : s_map'[k] \in Addr \union {NULL}
         /\ c_list' \in Seq(Addr) /\ s_list' \in Seq(Addr)
    <3>1. RegistryOK(s_map, s_list, skeleton_id)
      BY <1>0, BothRegistries, Zenon
    <3>2. (RegistryOK(c_map, c_list, stub_id) /\ RegistryOK(s_map, s_list, skeleton_id))'
      BY <3>1, <2>8, <1>1, Zenon
    <3>3. RegistriesRecovered'
      BY <3>2, FromRegistries, PTL
    <3> QED
      BY <3>3, Zenon DEF RegistriesRecovered
  <2> HIDE DEF p, i
  <2>11. TypeOK'
    <3>1. handle' \in [Handle -> Addr \union {NULL}]
      BY <2>0, <1>2, Zenon
    <3> QED
      BY <3>1, <2>0, <2>4, <2>10, <1>0, <1>1, <1>3, ZenonT(30) DEF TypeOK
  <2>12. Registered'
    <3>1. \A k \in DOMAIN c_map' : c_map'[k] # NULL
      BY <2>9, <1>0, Zenon DEF Registered
    <3>2. \A q \in Addr : alive(c_list', q) => stub'[q].n_handles = 1
      BY <2>3, <2>8, <1>0, Zenon DEF Registered
    <3> QED
      BY <3>1, <3>2, <2>10, <1>0, <1>1, ZenonT(30) DEF Registered, find
  <2>13. HandlesOwn'
    <3> SUFFICES ASSUME ~misused'
                 PROVE  /\ \A k \in Handle : handle'[k] # NULL => alive(c_list', handle'[k])
                        /\ \A g, k \in Handle : handle'[g] # NULL /\ handle'[g] = handle'[k] => g = k
      BY Zenon DEF HandlesOwn
    <3>1. handle'[h] = NULL /\ handle[h] = p /\ \A k \in Handle : k # h => handle'[k] = handle[k]
      BY <2>0, <1>2, Zenon DEF p
    <3>2. /\ \A k \in Handle : handle[k] # NULL => alive(c_list, handle[k])
          /\ \A g, k \in Handle : handle[g] # NULL /\ handle[g] = handle[k] => g = k
      BY <1>0, <1>3, Zenon DEF HandlesOwn
    <3> QED
      BY <3>1, <3>2, <2>8, Zenon
  <2>14. ASSUME quiet(p)
         PROVE  stub[p].invokation_list = << >>
    BY <2>14, <1>5, Zenon DEF quiet, p
  <2>15. \A k \in DOMAIN c_map : k # i => c_map[k] \in Addr /\ c_map[k] # p /\ c_map[k] # NULL
    BY <1>0, ClientRegistry, ConnectionAssumption, Zenon DEF i
  <2>16. ASSUME ~misused'
         PROVE  pending' = pending
    <3>0. stub[p].invokation_list = << >>
      BY <2>14, <2>16, <1>3, Zenon DEF p
    <3>1. ASSUME NEW k \in Id
          PROVE  invocations(k)' = invocations(k)
      <4>1. CASE k = i
        <5>1. find(c_map', k) = NULL /\ find(c_map, k) = p
          BY <4>1, <2>6, <2>9, Zenon DEF find
        <5> QED
          BY <5>1, <3>0, Zenon DEF invocations, find
      <4>2. CASE k # i /\ k \in DOMAIN c_map
        <5>1. find(c_map', k) = c_map[k] /\ find(c_map, k) = c_map[k] /\ c_map[k] # NULL
          BY <4>2, <2>9, <2>15, Zenon DEF find
        <5>2. stub'[c_map[k]] = stub[c_map[k]]
          BY <4>2, <2>3, <2>15, Zenon
        <5> QED
          BY <5>1, <5>2, Zenon DEF invocations, find
      <4>3. CASE k # i /\ k \notin DOMAIN c_map
        BY <4>3, <2>9, Zenon DEF invocations, find
      <4> QED
        BY <4>1, <4>2, <4>3, Zenon
    <3> QED
      BY <3>1, Zenon DEF pending
  <2>17. upstream' = upstream /\ downstream' = downstream
    BY <2>0, <1>1, Zenon DEF upstream, downstream
  <2>18. Flow'
    BY <2>0, <2>16, <2>17, <1>0, <1>1, <1>3, ZenonT(30) DEF Flow
  <2>19. Answering'
    <3> SUFFICES ASSUME c_pc = "callback"
                 PROVE  Answering'
      BY <2>0, Zenon DEF Answering
    <3>1. answering \in [rpc : Addr, at : Nat \ {0}, value : {result(v) : v \in 1 .. MaxCalls},
                         call : 1 .. MaxCalls]
      BY <1>0, Zenon DEF Answering
    <3>2. ASSUME ~misused'
          PROVE  find(c_map', Head(c_rx).name) = answering.rpc /\ stub'[answering.rpc] = stub[answering.rpc]
      <4>1. /\ answering.rpc = find(c_map, Head(c_rx).name) /\ answering.rpc # NULL
            /\ stub[answering.rpc].invokation_list # << >>
        BY <3>1, <3>2, <1>0, <1>3, ConnectionAssumption, Zenon DEF Answering
      <4>2. Head(c_rx).name \in DOMAIN c_map /\ answering.rpc = c_map[Head(c_rx).name]
        BY <4>1, Zenon DEF find
      <4>3. answering.rpc # p
        BY <4>1, <3>2, <2>14, <1>3, Zenon DEF p
      <4>4. Head(c_rx).name # i
        BY <4>2, <4>3, <2>6, Zenon
      <4>5. Head(c_rx).name \in DOMAIN c_map' /\ c_map'[Head(c_rx).name] = answering.rpc
        BY <4>2, <4>4, <2>9, Zenon
      <4> QED
        BY <4>3, <4>5, <3>1, <2>3, Zenon DEF find
    <3> QED
      BY <3>1, <3>2, <2>0, <1>0, <1>3, Zenon DEF Answering, find
  <2>20. FaultOnlyByMisuse'
    BY <2>0, <1>2, Zenon DEF FaultOnlyByMisuse, app_runs
  <2> QED
    BY <2>10, <2>11, <2>12, <2>13, <2>18, <2>19, <2>20, ZenonT(30) DEF IInv
<1> QED
  BY <1>4, <1>5, Zenon

-----------------------------------------------------------------------------
(* The callbacks of the client.                                            *)

\* the position found is that of the oldest invocation with the id
LEMMA MatchingFirst ==
    ASSUME NEW S, NEW list \in Seq(S), NEW x
    PROVE  /\ matching(list, x) \in 0..Len(list)
           /\ list # << >> /\ list[1].id = x => matching(list, x) = 1
<1> DEFINE same == {k \in 1..Len(list) : list[k].id = x}
<1>1. CASE same = {}
  <2>1. matching(list, x) = 0
    BY <1>1, Zenon DEF matching
  <2>2. Len(list) \in Nat /\ (list # << >> => 1 \in 1..Len(list))
    OBVIOUS
  <2>3. ~(list # << >> /\ list[1].id = x)
    BY <2>2, <1>1, Zenon
  <2> QED
    BY <2>1, <2>2, <2>3
<1>2. CASE same # {}
  <2>1. same \subseteq Nat /\ same # {}
    BY <1>2
  <2>2. \E k \in same : \A j \in same : k <= j
    <3> HIDE DEF same
    <3> QED
      BY <2>1, LeastElement, Zenon
  <2> DEFINE m == CHOOSE k \in same : \A j \in same : k <= j
  <2>3. matching(list, x) = m
    BY <1>2, Zenon DEF matching
  <2>4. m \in same /\ \A j \in same : m <= j
    <3> HIDE DEF same
    <3> QED
      BY <2>2, Zenon
  <2>5. ASSUME list # << >>, list[1].id = x
        PROVE  m = 1
    <3>1. 1 \in same
      BY <2>5
    <3>2. m <= 1 /\ m \in 1..Len(list)
      BY <3>1, <2>4, Zenon
    <3> HIDE DEF m
    <3> QED
      BY <3>2
  <2>6. m \in 1..Len(list)
    BY <2>4, Zenon
  <2> HIDE DEF m
  <2> QED
    BY <2>3, <2>5, <2>6
<1> QED
  BY <1>1, <1>2, Zenon

LEMMA FirstOffConcat ==
    ASSUME NEW S, NEW s \in Seq(S), NEW t \in Seq(S), NEW c \in Seq(S), FirstOff(s, t)
    PROVE  FirstOff(s \o c, t \o c) /\ (s \o c)[1] = s[1]
<1>1. /\ Len(s) \in Nat /\ Len(t) \in Nat /\ Len(c) \in Nat
      /\ Len(s) # 0 /\ Len(t) = Len(s) - 1 /\ \A k \in 1..Len(s) - 1 : t[k] = s[k + 1]
  <2>1. Len(s) \in Nat /\ Len(t) \in Nat /\ Len(c) \in Nat
    OBVIOUS
  <2>2. Len(s) # 0 /\ Len(t) = Len(s) - 1 /\ \A k \in 1..Len(s) - 1 : t[k] = s[k + 1]
    BY Zenon DEF FirstOff
  <2> QED
    BY <2>1, <2>2, Zenon
<1>2. /\ Len(s \o c) = Len(s) + Len(c)
      /\ \A k \in 1..Len(s) + Len(c) : (s \o c)[k] = IF k <= Len(s) THEN s[k] ELSE c[k - Len(s)]
  BY ConcatElements, Zenon
<1>3. /\ Len(t \o c) = Len(t) + Len(c)
      /\ \A k \in 1..Len(t) + Len(c) : (t \o c)[k] = IF k <= Len(t) THEN t[k] ELSE c[k - Len(t)]
  BY ConcatElements, Zenon
<1>4. ASSUME NEW k \in 1..Len(s \o c) - 1
      PROVE  (t \o c)[k] = (s \o c)[k + 1]
  <2>1. k \in 1..Len(t) + Len(c) /\ k + 1 \in 1..Len(s) + Len(c)
    BY <1>1, <1>2
  <2>2. CASE k <= Len(t)
    <3>1. k \in 1..Len(s) - 1 /\ k + 1 <= Len(s)
      BY <2>2, <1>1
    <3> QED
      BY <3>1, <2>1, <2>2, <1>1, <1>2, <1>3, Zenon
  <2>3. CASE ~(k <= Len(t))
    <3>1. ~(k + 1 <= Len(s)) /\ (k + 1) - Len(s) = k - Len(t)
      BY <2>3, <1>1
    <3>2. (t \o c)[k] = c[k - Len(t)]
      BY <2>1, <2>3, <1>3, Zenon
    <3>3. (s \o c)[k + 1] = c[(k + 1) - Len(s)]
      BY <3>1, <2>1, <1>2, Zenon
    <3> QED
      BY <3>1, <3>2, <3>3, Zenon
  <2> QED
    BY <2>2, <2>3, Zenon
<1>5. (s \o c)[1] = s[1]
  BY <1>1, <1>2
<1> QED
  BY <1>1, <1>2, <1>3, <1>4, <1>5 DEF FirstOff

\* the first queue of three gives its first message away
TakenFrom(a, b, c) ==
    FirstOff(a \o b \o c, Tail(a) \o b \o c) /\ (a \o b \o c)[1] = Head(a)

LEMMA HeadOff ==
    ASSUME NEW S, NEW a \in Seq(S), NEW b \in Seq(S), NEW d \in Seq(S), a # << >>
    PROVE  TakenFrom(a, b, d)
<1> DEFINE r == Tail(a)
           x == a \o b
           y == r \o b
<1>1. r \in Seq(S) /\ FirstOff(a, r) /\ a[1] = Head(a)
  BY DEF FirstOff
<1> HIDE DEF r
<1>2. FirstOff(x, y) /\ x[1] = a[1]
  BY <1>1, FirstOffConcat, ZenonT(30)
<1>3. x \in Seq(S) /\ y \in Seq(S)
  BY <1>1
<1> HIDE DEF x, y
<1>4. FirstOff(x \o d, y \o d) /\ (x \o d)[1] = x[1]
  BY <1>2, <1>3, FirstOffConcat, ZenonT(30)
<1> QED
  BY <1>1, <1>2, <1>4, Zenon DEF TakenFrom, x, y, r

LEMMA ReplyHead ==
    ASSUME TypeOK, c_rx # << >>
    PROVE  /\ FirstOff(downstream, Tail(c_rx) \o replies \o s_tx)
           /\ downstream[1] = Head(c_rx) /\ Len(downstream) # 0
           /\ Head(c_rx) \in Reply /\ Tail(c_rx) \in Seq(Reply)
<1>1. c_rx \in Seq(Reply) /\ replies \in Seq(Reply) /\ s_tx \in Seq(Reply)
  BY Zenon DEF TypeOK
<1>2. TakenFrom(c_rx, replies, s_tx)
  BY <1>1, HeadOff, Zenon
<1>3. FirstOff(downstream, Tail(c_rx) \o replies \o s_tx) /\ downstream[1] = Head(c_rx)
  BY <1>2, Zenon DEF TakenFrom, downstream
<1>4. Head(c_rx) \in Reply /\ Tail(c_rx) \in Seq(Reply)
  BY <1>1
<1> QED
  BY <1>3, <1>4, Zenon DEF FirstOff

LEMMA DispatchKeeps ==
    ASSUME IInv, c_dispatch, UNCHANGED <<s_vars, misused>>
    PROVE  IInv'
<1> DEFINE msg == Head(c_rx)
           rpc == find(c_map, msg.name)
           at == IF rpc = NULL THEN 0 ELSE matching(stub[rpc].invokation_list, msg.id)
<1>0. /\ TypeOK /\ RegistriesAgree /\ Registered /\ HandlesOwn /\ Flow /\ Answering
      /\ FaultOnlyByMisuse /\ UNCHANGED s_vars /\ misused' = misused
  BY Zenon DEF IInv
<1>1. c_rx # << >>
  BY Zenon DEF c_dispatch
<1>2. downstream[1] = msg /\ Len(downstream) # 0 /\ msg \in Reply
  BY <1>0, <1>1, ReplyHead, Zenon
<1>3. rpc # NULL => rpc \in Addr /\ stub[rpc].invokation_list \in Seq(Invocation)
  BY <1>0, Zenon DEF find, TypeOK
\* without misuse the oldest reply finds the oldest invocation
<1>4. ASSUME ~misused
      PROVE  /\ rpc # NULL /\ at = 1 /\ stub[rpc].invokation_list # << >>
             /\ stub[rpc].invokation_list[1] = [id |-> msg.id, call |-> answered(msg)]
  <2>1. InOrder(pending, upstream, downstream)
    BY <1>0, <1>4, Zenon DEF Flow
  <2>2. /\ pending \in [Id -> Seq(Invocation)]
        /\ upstream \in Seq(Request) /\ downstream \in Seq(Reply)
    BY <1>0, FlowTyped, Zenon
  <2>3. /\ msg.name \in Id /\ Len(pending[msg.name]) # 0
        /\ pending[msg.name][1] = [id |-> msg.id, call |-> answered(msg)]
    <3> HIDE DEF msg
    <3>1. /\ downstream[1].name \in Id /\ Len(pending[downstream[1].name]) # 0
          /\ pending[downstream[1].name][1]
                = [id |-> downstream[1].id, call |-> answered(downstream[1])]
      BY <2>1, <2>2, <1>2, OldestAnswered, ZenonT(30)
    <3> QED
      BY <3>1, <1>2, Zenon
  <2>4. pending[msg.name] = IF rpc = NULL THEN << >> ELSE stub[rpc].invokation_list
    BY <2>3, Zenon DEF pending, invocations
  <2> HIDE DEF msg, rpc
  <2>5. rpc # NULL /\ pending[msg.name] = stub[rpc].invokation_list
    BY <2>3, <2>4
  <2>6. /\ stub[rpc].invokation_list # << >>
        /\ stub[rpc].invokation_list[1] = [id |-> msg.id, call |-> answered(msg)]
    BY <2>3, <2>5
  <2>7. matching(stub[rpc].invokation_list, msg.id) = 1
    <3>1. stub[rpc].invokation_list[1].id = msg.id
      BY <2>6
    <3> QED
      BY <3>1, <2>5, <2>6, <1>3, MatchingFirst, ZenonT(30)
  <2> QED
    BY <2>5, <2>6, <2>7, Zenon
<1>5. CASE at = 0
  <2>1. c_fault
    BY <1>5, Zenon DEF c_dispatch
  <2>2. misused = TRUE
    <3>1. ~~misused
      BY <1>4, <1>5
    <3> QED
      BY <3>1, <1>0, ZenonT(30) DEF TypeOK
  <2> QED
    BY <2>1, <2>2, <1>0, FaultKeeps, ZenonT(30)
<1>6. CASE at # 0
  <2>1. /\ answering' = [rpc |-> rpc, at |-> at, value |-> msg.value,
                         call |-> stub[rpc].invokation_list[at].call]
        /\ c_pc' = "callback"
        /\ UNCHANGED <<c_map, c_list, stub, handle, c_tx, c_rx, n_calls, requests, replies>>
    BY <1>6, ZenonT(30) DEF c_dispatch, c_registry, wires
  <2>2. rpc \in Addr /\ stub[rpc].invokation_list \in Seq(Invocation)
    BY <1>3, <1>6, ZenonT(30)
  <2>3. at \in 1..Len(stub[rpc].invokation_list)
    <3>1. at = matching(stub[rpc].invokation_list, msg.id)
      BY <1>6, ZenonT(30)
    <3>2. at \in 0..Len(stub[rpc].invokation_list)
      BY <3>1, <2>2, MatchingFirst, ZenonT(30)
    <3> HIDE DEF at
    <3> QED
      BY <3>2, <2>2, <1>6
  <2>4. /\ at \in Nat \ {0} /\ stub[rpc].invokation_list[at] \in Invocation
        /\ stub[rpc].invokation_list[at].call \in 1 .. MaxCalls
        /\ msg.value \in {result(v) : v \in 1 .. MaxCalls}
    <3> HIDE DEF at, rpc, msg
    <3>1. at \in Nat \ {0} /\ stub[rpc].invokation_list[at] \in Invocation
      BY <2>2, <2>3
    <3> QED
      BY <3>1, <1>2, ZenonT(30) DEF Invocation, Reply
  <2>5. UNCHANGED <<s_map, s_list, skeleton_id, s_pointer, s_rx, s_tx, s_pc>>
    BY <1>0, ZenonT(30) DEF s_vars
  <2> HIDE DEF at, rpc
  <2>6. TypeOK'
    BY <2>1, <2>5, <1>0, ZenonT(30) DEF TypeOK
  <2>7. RegistriesAgree' /\ Registered'
    BY <2>1, <2>5, <1>0, SameObjects, ZenonT(30)
  <2>8. HandlesOwn'
    BY <2>1, <1>0 DEF HandlesOwn, alive
  <2>9. pending' = pending /\ upstream' = upstream /\ downstream' = downstream
    BY <2>1, <2>5, ZenonT(30) DEF pending, invocations, find, upstream, downstream
  <2>10. Flow'
    BY <2>1, <2>5, <2>9, <1>0 DEF Flow
  <2>11. /\ answering'.rpc = rpc /\ answering'.at = at /\ answering'.value = msg.value
         /\ answering'.call = stub[rpc].invokation_list[at].call
         /\ answering' \in [rpc : Addr, at : Nat \ {0}, value : {result(v) : v \in 1 .. MaxCalls},
                            call : 1 .. MaxCalls]
    BY <2>1, <2>2, <2>4, ZenonT(30)
  <2>12. ASSUME ~misused
         PROVE  /\ at = 1 /\ stub[rpc].invokation_list # << >>
                /\ stub[rpc].invokation_list[1] = [id |-> msg.id, call |-> answered(msg)]
                /\ answering'.call = answered(msg)
    <3>1. /\ at = 1 /\ stub[rpc].invokation_list # << >>
          /\ stub[rpc].invokation_list[1] = [id |-> msg.id, call |-> answered(msg)]
      BY <2>12, <1>4, ZenonT(30)
    <3>2. stub[rpc].invokation_list[1].call = answered(msg)
      BY <3>1
    <3> QED
      BY <3>1, <3>2, <2>11, ZenonT(30)
  <2>13. Answering'
    <3>1. find(c_map, msg.name) = rpc
      BY ZenonT(30) DEF rpc
    <3> QED
      BY <3>1, <2>1, <2>11, <2>12, <1>0, <1>1 DEF Answering, find
  <2>14. FaultOnlyByMisuse'
    BY <2>1, ZenonT(30) DEF FaultOnlyByMisuse
  <2> QED
    BY <2>6, <2>7, <2>8, <2>10, <2>13, <2>14, ZenonT(30) DEF IInv
<1> QED
  BY <1>5, <1>6, Zenon

LEMMA AnsweredKeeps ==
    ASSUME IInv, c_answered, UNCHANGED <<s_vars, misused>>
    PROVE  IInv'
<1> DEFINE p == answering.rpc
           at == answering.at
           list == stub[p].invokation_list
<1>0. /\ TypeOK /\ RegistriesAgree /\ Registered /\ HandlesOwn /\ Flow /\ Answering
      /\ FaultOnlyByMisuse /\ UNCHANGED s_vars /\ misused' = misused
  BY Zenon DEF IInv
<1>1. /\ c_pc = "callback" /\ c_rx # << >>
      /\ p \in Addr /\ at \in Nat \ {0} /\ answering.call \in 1 .. MaxCalls
  BY <1>0, ZenonT(30) DEF c_answered, Answering
<1>2. /\ downstream[1] = Head(c_rx) /\ Len(downstream) # 0 /\ Head(c_rx) \in Reply
      /\ FirstOff(downstream, Tail(c_rx) \o replies \o s_tx) /\ Tail(c_rx) \in Seq(Reply)
  BY <1>0, <1>1, ReplyHead, ZenonT(30)
<1>3. /\ stub \in [Addr -> [id : Id \union {NULL}, invokations : 0 .. IdModulus - 1,
                            n_handles : {0, 1}, invokation_list : Seq(Invocation)]]
      /\ list \in Seq(Invocation)
  BY <1>0, <1>1, ZenonT(30) DEF TypeOK
<1>4. ASSUME ~misused
      PROVE  /\ at = 1 /\ list # << >> /\ alive(c_list, p) /\ list[1].call = answering.call
             /\ stub[p].id = Head(c_rx).name
  <2>1. /\ at = 1 /\ list # << >> /\ p = find(c_map, Head(c_rx).name)
        /\ list[1] = [id |-> Head(c_rx).id, call |-> answering.call]
    BY <1>0, <1>1, <1>4, ZenonT(30) DEF Answering
  <2>2. Head(c_rx).name \in DOMAIN c_map /\ p = c_map[Head(c_rx).name]
    BY <2>1, <1>1, ConnectionAssumption, ZenonT(30) DEF find
  <2>3. alive(c_list, p) /\ stub[p].id = Head(c_rx).name
    BY <2>2, <1>0, ClientRegistry, ZenonT(30)
  <2>4. list[1].call = answering.call
    BY <2>1
  <2> QED
    BY <2>1, <2>3, <2>4, ZenonT(30)
<1>5. CASE ~(alive(c_list, p) /\ at <= Len(list) /\ list[at].call = answering.call)
  <2>1. c_fault
    BY <1>5, ZenonT(30) DEF c_answered
  <2>2. misused = TRUE
    <3>1. ~~misused
      BY <1>3, <1>4, <1>5
    <3> QED
      BY <3>1, <1>0, Zenon DEF TypeOK
  <2> QED
    BY <2>1, <2>2, <1>0, FaultKeeps, Zenon
<1>6. CASE alive(c_list, p) /\ at <= Len(list) /\ list[at].call = answering.call
  <2> DEFINE list2 == SubSeq(list, 1, at - 1) \o SubSeq(list, at + 1, Len(list))
  <2>1. /\ stub' = [stub EXCEPT ![p].invokation_list = list2]
        /\ c_rx' = Tail(c_rx) /\ c_pc' = "dispatch" /\ answering' = NULL
        /\ UNCHANGED <<c_map, c_list, handle, c_tx, n_calls, requests, replies>>
    BY <1>6, Zenon DEF c_answered, wires
  <2>2. UNCHANGED <<s_map, s_list, skeleton_id, s_pointer, s_rx, s_tx, s_pc>>
    BY <1>0, Zenon DEF s_vars
  <2>3. at \in 1..Len(list)
    <3> HIDE DEF at, list
    <3> QED
      BY <1>1, <1>3, <1>6
  <2>4. /\ list2 \in Seq(Invocation) /\ Len(list2) = Len(list) - 1
        /\ \A k \in 1..Len(list) - 1 : list2[k] = IF k < at THEN list[k] ELSE list[k + 1]
    <3> HIDE DEF at, list
    <3> QED
      BY <2>3, <1>3, RemoveAt, Zenon
  <2> HIDE DEF list2
  <2>5. /\ stub'[p].id = stub[p].id /\ stub'[p].n_handles = stub[p].n_handles
        /\ stub'[p].invokation_list = list2
        /\ \A q \in Addr : q # p => stub'[q] = stub[q]
    BY <2>1, <1>1, <1>3, ZenonT(30)
  <2>6. stub' \in [Addr -> [id : Id \union {NULL}, invokations : 0 .. IdModulus - 1,
                            n_handles : {0, 1}, invokation_list : Seq(Invocation)]]
    <3>1. stub'[p] = [id |-> stub[p].id, invokations |-> stub[p].invokations,
                      n_handles |-> stub[p].n_handles, invokation_list |-> list2]
      BY <2>1, <1>1, <1>3, ZenonT(30)
    <3>2. stub'[p] \in [id : Id \union {NULL}, invokations : 0 .. IdModulus - 1,
                        n_handles : {0, 1}, invokation_list : Seq(Invocation)]
      BY <3>1, <2>4, <1>1, <1>3
    <3> QED
      BY <3>2, <2>1, <2>5, <1>3, Zenon
  <2> HIDE DEF p, at, list
  <2>7. TypeOK'
    BY <2>1, <2>2, <2>6, <1>0, <1>2, ZenonT(30) DEF TypeOK
  <2>8. RegistriesAgree' /\ Registered'
    <3>1. \A q \in Addr : stub'[q].id = stub[q].id /\ stub'[q].n_handles = stub[q].n_handles
      BY <2>5, ZenonT(30)
    <3> QED
      BY <3>1, <2>1, <2>2, <1>0, SameObjects, ZenonT(30)
  <2>9. HandlesOwn'
    BY <2>1, <1>0 DEF HandlesOwn, alive
  <2>10. Flow'
    <3> SUFFICES ASSUME ~misused
                 PROVE  /\ InOrder(pending', upstream', downstream')
                        /\ Accounted(pending', upstream', downstream', s_map')
                        /\ Numbered(pending', n_calls')
      BY <1>0 DEF Flow
    <3>1. /\ pending[stub[p].id] = list /\ pending'[stub[p].id] = list2
          /\ \A j \in Id : j # stub[p].id => pending'[j] = pending[j]
      <4>1. /\ pending[stub[p].id] = stub[p].invokation_list
            /\ pending'[stub[p].id] = stub'[p].invokation_list
            /\ \A j \in Id : j # stub[p].id => pending'[j] = pending[j]
        BY <2>1, <2>5, <1>0, <1>1, <1>6, PendingAt, ZenonT(30)
      <4> QED
        BY <4>1, <2>5, ZenonT(30) DEF list
    <3>2. /\ at = 1 /\ list # << >> /\ stub[p].id = downstream[1].name
      BY <1>2, <1>4, ZenonT(30)
    <3>3. FirstOff(list, list2)
      <4>1. Len(list) # 0 /\ Len(list) \in Nat
        BY <3>2, <1>3
      <4> QED
        BY <4>1, <3>2, <2>4 DEF FirstOff
    <3>4. FirstOff(downstream, downstream')
      <4>1. downstream' = Tail(c_rx) \o replies \o s_tx
        BY <2>1, <2>2, ZenonT(30) DEF downstream
      <4> QED
        BY <4>1, <1>2, Zenon
    <3>5. Returned(pending, downstream, pending', downstream')
      <4>1. \A j \in Id \ {downstream[1].name} : pending'[j] = pending[j]
        BY <3>1, <3>2, ZenonT(30)
      <4>2. FirstOff(pending[downstream[1].name], pending'[downstream[1].name])
        BY <3>1, <3>2, <3>3, ZenonT(30)
      <4> QED
        BY <4>1, <4>2, <3>4, ZenonT(30) DEF Returned
    <3>6. InOrder(pending, upstream, downstream) /\ Accounted(pending, upstream, downstream, s_map)
          /\ Numbered(pending, n_calls)
      BY <1>0, ZenonT(30) DEF Flow
    <3>7. /\ pending \in [Id -> Seq(Invocation)]
          /\ upstream \in Seq(Request) /\ downstream \in Seq(Reply)
      BY <1>0, FlowTyped, ZenonT(30)
    <3>8. /\ InOrder(pending', upstream, downstream')
          /\ Accounted(pending', upstream, downstream', s_map) /\ Numbered(pending', n_calls)
      BY <3>5, <3>6, <3>7, AnswerFlows, Zenon
    <3>9. upstream' = upstream
      BY <2>1, <2>2, ZenonT(30) DEF upstream
    <3> QED
      BY <3>8, <3>9, <2>1, <2>2, ZenonT(30)
  <2>11. Answering' /\ FaultOnlyByMisuse'
    BY <2>1, Zenon DEF Answering, FaultOnlyByMisuse
  <2> QED
    BY <2>7, <2>8, <2>9, <2>10, <2>11, Zenon DEF IInv
<1> QED
  BY <1>5, <1>6, ZenonT(30)

-----------------------------------------------------------------------------
(* The server application and the dispatch of the requests.                *)

\* a step of the server that leaves its registry consistent and the flow in order
LEMMA ServerKeeps ==
    ASSUME IInv,
           UNCHANGED <<c_map, c_list, stub, handle, c_tx, c_rx, c_pc, answering, n_calls,
                       requests, replies, misused>>,
           RegistryOK(s_map', s_list', skeleton_id'),
           skeleton_id' \in [Addr -> Id \union {NULL}],
           s_pointer' \in [Function -> Addr \union {NULL, "none"}],
           \A f \in Function : s_pointer'[f] \in Addr => find(s_map', id(f)) = s_pointer'[f],
           s_rx' \in Seq(Request), s_tx' \in Seq(Reply),
           s_pc' \in {"app", "rx", "dispatch", "tx"},
           ~misused => /\ InOrder(pending, upstream', downstream')
                       /\ Accounted(pending, upstream', downstream', s_map')
    PROVE  IInv'
<1>0. /\ TypeOK /\ RegistriesAgree /\ Registered /\ HandlesOwn /\ Flow /\ Answering
      /\ FaultOnlyByMisuse
  BY ZenonT(30) DEF IInv
<1>1. RegistryOK(c_map, c_list, stub_id)'
  <2>1. RegistryOK(c_map, c_list, stub_id) /\ stub_id' = stub_id
    BY <1>0, BothRegistries, ZenonT(30) DEF stub_id
  <2> QED
    BY <2>1, ZenonT(30)
<1>2. (RegistryOK(c_map, c_list, stub_id) /\ RegistryOK(s_map, s_list, skeleton_id))'
  BY <1>1, Zenon
<1>3. RegistriesRecovered'
  BY <1>2, FromRegistries, PTL
<1>4. /\ RegistriesAgree' /\ Distinct(c_list') /\ Distinct(s_list')
      /\ DOMAIN s_map' \subseteq Id /\ \A i \in DOMAIN s_map' : s_map'[i] \in Addr \union {NULL}
      /\ s_list' \in Seq(Addr)
  BY <1>3, ZenonT(30) DEF RegistriesRecovered
<1>5. TypeOK'
  BY <1>0, <1>4, ZenonT(30) DEF TypeOK
<1>6. Registered'
  BY <1>0, <1>4, ZenonT(30) DEF Registered, alive
<1>7. HandlesOwn'
  BY <1>0, ZenonT(30) DEF HandlesOwn, alive
<1>8. pending' = pending
  BY ZenonT(30) DEF pending, invocations, find
<1>9. Flow'
  BY <1>0, <1>8, ZenonT(30) DEF Flow
<1>10. Answering' /\ FaultOnlyByMisuse'
  BY <1>0, ZenonT(30) DEF Answering, find, FaultOnlyByMisuse
<1> QED
  BY <1>4, <1>5, <1>6, <1>7, <1>9, <1>10, ZenonT(30) DEF IInv

\* the null pointers of the map stay, whatever connect() and disconnect() do
LEMMA NullsStay ==
    ASSUME NEW L, NEW U, NEW D, NEW map, NEW map2, Accounted(L, U, D, map),
           \A i \in Id : i \in DOMAIN map /\ map[i] = NULL => i \in DOMAIN map2 /\ map2[i] = NULL
    PROVE  Accounted(L, U, D, map2)
  BY Zenon DEF Accounted

LEMMA ServerConnectKeeps ==
    ASSUME IInv, NEW f \in Function, ServerConnects(f)
    PROVE  IInv'
<1>0. /\ TypeOK /\ RegistriesAgree /\ Registered /\ Flow
      /\ RegistryOK(s_map, s_list, skeleton_id)
  BY BothRegistries, Zenon DEF IInv
<1>1. /\ s_connect(f)
      /\ UNCHANGED <<c_map, c_list, stub, handle, c_tx, c_rx, c_pc, answering, n_calls, misused>>
  BY Zenon DEF ServerConnects, c_vars
<1>2. UNCHANGED <<s_rx, s_tx, s_pc, requests, replies>>
  BY <1>1, Zenon DEF s_connect, wires
<1>3. /\ skeleton_id \in [Addr -> Id \union {NULL}]
      /\ s_pointer \in [Function -> Addr \union {NULL, "none"}]
      /\ s_rx \in Seq(Request) /\ s_tx \in Seq(Reply) /\ s_pc \in {"app", "rx", "dispatch", "tx"}
      /\ \A i \in DOMAIN s_map : s_map[i] \in Addr \union {NULL}
  BY <1>0, Zenon DEF TypeOK
<1>4. upstream' = upstream /\ downstream' = downstream
  BY <1>1, <1>2, ZenonT(30) DEF upstream, downstream
<1>5. ~misused => /\ InOrder(pending, upstream, downstream)
                  /\ Accounted(pending, upstream, downstream, s_map)
  BY <1>0, Zenon DEF Flow
<1>6. id(f) \in Id /\ \A g \in Function : g # f => id(g) # id(f)
  BY Zenon DEF Id, id
<1>7. \A g \in Function : s_pointer[g] \in Addr => find(s_map, id(g)) = s_pointer[g]
  BY <1>0, ZenonT(30) DEF Registered
<1>8. CASE id(f) \in DOMAIN s_map
  <2>1. /\ s_pointer' = [s_pointer EXCEPT ![f] = s_map[id(f)]]
        /\ UNCHANGED <<s_map, s_list, skeleton_id>>
    BY <1>1, <1>8, ZenonT(30) DEF s_connect
  <2>2. s_pointer' \in [Function -> Addr \union {NULL, "none"}]
    BY <2>1, <1>3, <1>8, ZenonT(30)
  <2>3. ASSUME NEW g \in Function, s_pointer'[g] \in Addr
        PROVE  find(s_map', id(g)) = s_pointer'[g]
    <3>1. CASE g = f
      BY <3>1, <2>1, <1>3, <1>8, ZenonT(30) DEF find
    <3>2. CASE g # f
      <4>1. s_pointer'[g] = s_pointer[g]
        BY <3>2, <2>1, <1>3, ZenonT(30)
      <4> QED
        BY <4>1, <2>1, <2>3, <1>7, ZenonT(30)
    <3> QED
      BY <3>1, <3>2, ZenonT(30)
  <2>4. RegistryOK(s_map', s_list', skeleton_id')
    BY <2>1, <1>0, Zenon
  <2> QED
    BY <2>1, <2>2, <2>3, <2>4, <1>1, <1>2, <1>3, <1>4, <1>5, ServerKeeps, ZenonT(30)
<1>9. CASE id(f) \notin DOMAIN s_map
  <2>1. PICK p \in Addr :
          /\ ~alive(s_list, p)
          /\ s_map' = map_after_insert(s_map, id(f), p)
          /\ s_list' = list_after_insert(s_list, p)
          /\ skeleton_id' = [skeleton_id EXCEPT ![p] = id(f)]
          /\ s_pointer' = [s_pointer EXCEPT ![f] = p]
    BY <1>1, <1>9, ZenonT(30) DEF s_connect
  <2>2. skeleton_id'[p] = id(f) /\ \A q \in Addr : q # p => skeleton_id'[q] = skeleton_id[q]
    BY <2>1, <1>3, Zenon
  <2>3. RegistryOK(s_map', s_list', skeleton_id')
    <3>1. RegistryOK(map_after_insert(s_map, id(f), p), list_after_insert(s_list, p), skeleton_id')
      BY <2>1, <2>2, <1>0, <1>6, <1>9, RegistryInsert, ZenonT(30)
    <3> QED
      BY <3>1, <2>1, Zenon
  <2>4. /\ skeleton_id' \in [Addr -> Id \union {NULL}]
        /\ s_pointer' \in [Function -> Addr \union {NULL, "none"}]
    BY <2>1, <1>3, <1>6, ZenonT(30)
  <2>5. /\ DOMAIN s_map' = DOMAIN s_map \union {id(f)} /\ s_map'[id(f)] = p
        /\ \A i \in DOMAIN s_map : s_map'[i] = s_map[i]
    BY <2>1, <1>9, Zenon DEF map_after_insert
  <2>6. ASSUME NEW g \in Function, s_pointer'[g] \in Addr
        PROVE  find(s_map', id(g)) = s_pointer'[g]
    <3>1. CASE g = f
      BY <3>1, <2>1, <2>5, <1>3, Zenon DEF find
    <3>2. CASE g # f
      <4>1. s_pointer'[g] = s_pointer[g]
        BY <3>2, <2>1, <1>3, Zenon
      <4>2. id(g) \in DOMAIN s_map /\ s_map[id(g)] = s_pointer[g]
        BY <4>1, <2>6, <1>7, ConnectionAssumption, ZenonT(30) DEF find
      <4> QED
        BY <4>1, <4>2, <2>5, Zenon DEF find
    <3> QED
      BY <3>1, <3>2, Zenon
  <2>7. ~misused => Accounted(pending, upstream, downstream, s_map')
    <3>1. \A i \in Id : i \in DOMAIN s_map /\ s_map[i] = NULL
                          => i \in DOMAIN s_map' /\ s_map'[i] = NULL
      BY <2>5, Zenon
    <3> QED
      BY <3>1, <1>5, NullsStay, Zenon
  <2> QED
    BY <2>3, <2>4, <2>6, <2>7, <1>1, <1>2, <1>3, <1>4, <1>5, ServerKeeps, ZenonT(30)
<1> QED
  BY <1>8, <1>9, Zenon

LEMMA ServerDisconnectKeeps ==
    ASSUME IInv, NEW f \in Function, ServerDisconnects(f)
    PROVE  IInv'
<1> DEFINE p == s_pointer[f]
<1>0. /\ TypeOK /\ RegistriesAgree /\ Registered /\ Flow
      /\ RegistryOK(s_map, s_list, skeleton_id)
  BY BothRegistries, Zenon DEF IInv
<1>1. /\ UNCHANGED <<c_map, c_list, stub, handle, c_tx, c_rx, c_pc, answering, n_calls, misused>>
      /\ UNCHANGED <<skeleton_id, s_rx, s_tx, s_pc, requests, replies>>
      /\ p \in Addr /\ s_pointer' = [s_pointer EXCEPT ![f] = "none"]
      /\ s_map' = map_after_remove(s_map, skeleton_id[p])
      /\ s_list' = list_after_remove(s_list, skeleton_id, skeleton_id[p])
  BY Zenon DEF ServerDisconnects, s_disconnect, c_vars, wires
<1>2. /\ skeleton_id \in [Addr -> Id \union {NULL}]
      /\ s_pointer \in [Function -> Addr \union {NULL, "none"}]
      /\ s_rx \in Seq(Request) /\ s_tx \in Seq(Reply) /\ s_pc \in {"app", "rx", "dispatch", "tx"}
  BY <1>0, Zenon DEF TypeOK
<1>3. upstream' = upstream /\ downstream' = downstream
  BY <1>1, Zenon DEF upstream, downstream
<1>4. ~misused => /\ InOrder(pending, upstream, downstream)
                  /\ Accounted(pending, upstream, downstream, s_map)
  BY <1>0, Zenon DEF Flow
<1>5. \A g \in Function : s_pointer[g] \in Addr => find(s_map, id(g)) = s_pointer[g]
  BY <1>0, Zenon DEF Registered
<1>6. id(f) \in DOMAIN s_map /\ s_map[id(f)] = p /\ p # NULL
  BY <1>1, <1>5, ConnectionAssumption, Zenon DEF find
<1>7. alive(s_list, p) /\ skeleton_id[p] = id(f)
  BY <1>0, <1>6, ZenonT(30) DEF RegistryOK
<1>8. RegistryOK(s_map', s_list', skeleton_id')
  <2>1. RegistryOK(map_after_remove(s_map, skeleton_id[p]),
                   list_after_remove(s_list, skeleton_id, skeleton_id[p]), skeleton_id)
    BY <1>0, <1>1, <1>7, RegistryRemove, ZenonT(30)
  <2> QED
    BY <2>1, <1>1, Zenon
<1>9. DOMAIN s_map' = DOMAIN s_map \ {id(f)} /\ \A i \in DOMAIN s_map' : s_map'[i] = s_map[i]
  BY <1>1, <1>7, ZenonT(30) DEF map_after_remove
<1>10. s_pointer' \in [Function -> Addr \union {NULL, "none"}]
  BY <1>1, <1>2, ZenonT(30)
<1>11. ASSUME NEW g \in Function, s_pointer'[g] \in Addr
       PROVE  find(s_map', id(g)) = s_pointer'[g]
  <2>1. g # f /\ s_pointer'[g] = s_pointer[g]
    BY <1>1, <1>2, <1>11, ConnectionAssumption, ZenonT(30)
  <2>2. id(g) # id(f)
    BY <2>1, ZenonT(30) DEF id
  <2>3. id(g) \in DOMAIN s_map /\ s_map[id(g)] = s_pointer[g]
    BY <2>1, <1>5, <1>11, ConnectionAssumption, ZenonT(30) DEF find
  <2> QED
    BY <2>1, <2>2, <2>3, <1>9, ZenonT(30) DEF find
<1>12. ~misused => Accounted(pending, upstream, downstream, s_map')
  <2>1. \A i \in Id : i \in DOMAIN s_map /\ s_map[i] = NULL
                        => i \in DOMAIN s_map' /\ s_map'[i] = NULL
    BY <1>6, <1>9, ZenonT(30)
  <2> QED
    BY <2>1, <1>4, NullsStay, ZenonT(30)
<1> QED
  BY <1>1, <1>2, <1>3, <1>4, <1>8, <1>10, <1>11, <1>12, ServerKeeps, ZenonT(30)

LEMMA ServerDispatchKeeps ==
    ASSUME IInv, s_dispatch, UNCHANGED <<c_vars, misused>>
    PROVE  IInv'
<1> DEFINE msg == Head(s_rx)
           rpc == find(s_map, msg.name)
           reply == [msg EXCEPT !.value = result(msg.value)]
<1>0. /\ TypeOK /\ RegistriesAgree /\ Registered /\ Flow
      /\ RegistryOK(s_map, s_list, skeleton_id)
  BY BothRegistries, Zenon DEF IInv
<1>1. /\ UNCHANGED <<c_map, c_list, stub, handle, c_tx, c_rx, c_pc, answering, n_calls, misused>>
      /\ UNCHANGED <<s_list, skeleton_id, s_pointer, s_pc, requests, replies>>
      /\ s_rx # << >> /\ s_rx' = Tail(s_rx)
      /\ s_map' = map_after_get(s_map, msg.name)
      /\ s_tx' = IF rpc = NULL THEN s_tx ELSE Append(s_tx, reply)
  BY ZenonT(30) DEF s_dispatch, c_vars, wires
<1>2. /\ skeleton_id \in [Addr -> Id \union {NULL}]
      /\ s_pointer \in [Function -> Addr \union {NULL, "none"}]
      /\ s_rx \in Seq(Request) /\ requests \in Seq(Request) /\ c_tx \in Seq(Request)
      /\ c_rx \in Seq(Reply) /\ replies \in Seq(Reply) /\ s_tx \in Seq(Reply)
      /\ s_pc \in {"app", "rx", "dispatch", "tx"}
  BY <1>0, Zenon DEF TypeOK
<1>3. msg \in Request /\ Tail(s_rx) \in Seq(Request)
  BY <1>1, <1>2
<1>4. /\ reply \in Reply /\ reply.name = msg.name /\ reply.id = msg.id
      /\ answered(reply) = msg.value
  <2> HIDE DEF msg
  <2>1. reply = [name |-> msg.name, id |-> msg.id, value |-> result(msg.value)]
    BY <1>3 DEF Request
  <2> HIDE DEF reply
  <2>2. /\ reply.name = msg.name /\ reply.id = msg.id /\ reply.value = result(msg.value)
        /\ msg.name \in Id /\ msg.id \in 0 .. IdModulus - 1 /\ msg.value \in 1 .. MaxCalls
    BY <2>1, <1>3, ZenonT(30) DEF Request
  <2>3. reply \in Reply
    BY <2>1, <2>2, ZenonT(30) DEF Reply
  <2>4. answered(reply) = msg.value
    BY <2>2 DEF answered, result
  <2> QED
    BY <2>2, <2>3, <2>4, Zenon
<1>5. msg.name \in Id
  BY <1>3, Zenon DEF Request
<1> HIDE DEF reply, msg
<1>6. /\ RegistryOK(map_after_get(s_map, msg.name), s_list, skeleton_id)
      /\ \A k : find(map_after_get(s_map, msg.name), k) = find(s_map, k)
      /\ DOMAIN map_after_get(s_map, msg.name) = DOMAIN s_map \union {msg.name}
  BY <1>0, <1>5, RegistryGet, ZenonT(30)
<1>7. /\ RegistryOK(s_map', s_list', skeleton_id')
      /\ \A k : find(s_map', k) = find(s_map, k)
      /\ DOMAIN s_map' = DOMAIN s_map \union {msg.name}
  BY <1>1, <1>6, ZenonT(30)
<1>8. s_tx' \in Seq(Reply)
  BY <1>1, <1>2, <1>4
<1>9. \A g \in Function : s_pointer'[g] \in Addr => find(s_map', id(g)) = s_pointer'[g]
  BY <1>0, <1>1, <1>7, Zenon DEF Registered
<1>10. FirstOff(upstream, upstream') /\ upstream[1] = msg
  <2>1. TakenFrom(s_rx, requests, c_tx)
    BY <1>1, <1>2, HeadOff, ZenonT(30)
  <2>2. upstream' = Tail(s_rx) \o requests \o c_tx
    BY <1>1, Zenon DEF upstream
  <2> QED
    BY <2>1, <2>2, ZenonT(30) DEF TakenFrom, upstream, msg
<1>11. Dispatched(upstream, downstream, s_map, upstream', downstream', s_map')
  <2>1. \A i \in Id : i \in DOMAIN s_map /\ s_map[i] = NULL
                        => i \in DOMAIN s_map' /\ s_map'[i] = NULL
    BY <1>7, ZenonT(30) DEF find
  <2>2. CASE rpc = NULL
    <3>1. downstream' = downstream
      BY <2>2, <1>1, ZenonT(30) DEF downstream
    <3>2. upstream[1].name \in DOMAIN s_map' /\ s_map'[upstream[1].name] = NULL
      BY <2>2, <1>7, <1>10, ZenonT(30) DEF find
    <3> QED
      BY <3>1, <3>2, <2>1, <1>10, ZenonT(30) DEF Dispatched
  <2>3. CASE rpc # NULL
    <3>1. LastOn(downstream, downstream', reply)
      <4>1. c_rx \o replies \in Seq(Reply)
        BY <1>2
      <4> DEFINE a == c_rx \o replies
      <4> HIDE DEF a
      <4>2. LastOn(a \o s_tx, a \o Append(s_tx, reply), reply)
        BY <4>1, <1>2, <1>4, AppendLast, Zenon DEF a
      <4>3. downstream' = a \o Append(s_tx, reply) /\ downstream = a \o s_tx
        BY <2>3, <1>1, ZenonT(30) DEF downstream, a
      <4> QED
        BY <4>2, <4>3, ZenonT(30)
    <3>2. ~(upstream[1].name \in DOMAIN s_map /\ s_map[upstream[1].name] = NULL)
      BY <2>3, <1>10, ZenonT(30) DEF find
    <3>3. /\ Len(downstream') = Len(downstream) + 1
          /\ \A k \in 1..Len(downstream) : downstream'[k] = downstream[k]
          /\ downstream'[Len(downstream) + 1] = reply
      BY <3>1, ZenonT(30) DEF LastOn
    <3> QED
      BY <3>2, <3>3, <2>1, <1>4, <1>10, ZenonT(30) DEF Dispatched
  <2> QED
    BY <2>2, <2>3, Zenon
<1>12. ~misused => /\ InOrder(pending, upstream', downstream')
                   /\ Accounted(pending, upstream', downstream', s_map')
  <2>1. /\ pending \in [Id -> Seq(Invocation)]
        /\ upstream \in Seq(Request) /\ downstream \in Seq(Reply)
    BY <1>0, FlowTyped, ZenonT(30)
  <2>2. ~misused => /\ InOrder(pending, upstream, downstream)
                    /\ Accounted(pending, upstream, downstream, s_map)
    BY <1>0, ZenonT(30) DEF Flow
  <2> QED
    BY <2>1, <2>2, <1>11, DispatchFlows, ZenonT(30)
<1> QED
  BY <1>1, <1>2, <1>3, <1>7, <1>8, <1>9, <1>12, ServerKeeps, ZenonT(30)

-----------------------------------------------------------------------------
(* The invariant is inductive, and what it implies.                        *)

LEMMA StutterKeeps ==
    ASSUME IInv, UNCHANGED rpc_vars
    PROVE  IInv'
<1> USE DEF rpc_vars, c_vars, s_vars, wires
<1>1. /\ TypeOK /\ UNCHANGED <<c_tx, requests, s_rx, c_rx, replies, s_tx, c_pc, s_pc, answering>>
      /\ UNCHANGED <<c_map, c_list, stub, handle, n_calls,
                     s_map, s_list, skeleton_id, s_pointer, misused>>
  BY ZenonT(30) DEF IInv
<1>2. s_pc' \in {"app", "rx", "dispatch", "tx"}
  BY <1>1, ZenonT(30) DEF TypeOK
<1> QED
  BY <1>1, <1>2, Unmoved, UnmovedDown, MoveKeeps, ZenonT(30)

LEMMA NextIInv == IInv /\ [Next]_rpc_vars => IInv'
<1> SUFFICES ASSUME IInv, [Next]_rpc_vars
             PROVE  IInv'
  BY Zenon
<1>1. ASSUME NEW h \in Handle, NEW f \in Function, ClientConnects(h, f)
      PROVE  IInv'
  BY <1>1, ConnectKeeps, ZenonT(30)
<1>2. ASSUME NEW h \in Handle, ClientDisconnects(h)
      PROVE  IInv'
  BY <1>2, DisconnectKeeps, ZenonT(30)
<1>3. ASSUME NEW h \in Handle, ClientCalls(h)
      PROVE  IInv'
  BY <1>3, CallKeeps, ZenonT(30)
<1>4. CASE ClientLoops
  <2>1. UNCHANGED <<s_vars, misused>>
    BY <1>4, ZenonT(30) DEF ClientLoops
  <2>2. CASE c_doLoop \/ c_send \/ c_tx_expired \/ c_receive \/ c_rx_expired \/ c_dispatched
    BY <2>1, <2>2, ClientMoves, ZenonT(30)
  <2>3. CASE c_dispatch
    BY <2>1, <2>3, DispatchKeeps, ZenonT(30)
  <2>4. CASE c_answered
    BY <2>1, <2>4, AnsweredKeeps, ZenonT(30)
  <2> QED
    BY <2>2, <2>3, <2>4, <1>4, ZenonT(30) DEF ClientLoops, c_loop
<1>5. ASSUME NEW f \in Function, ServerConnects(f)
      PROVE  IInv'
  BY <1>5, ServerConnectKeeps, Zenon
<1>6. ASSUME NEW f \in Function, ServerDisconnects(f)
      PROVE  IInv'
  BY <1>6, ServerDisconnectKeeps, Zenon
<1>7. CASE ServerLoops
  <2>1. UNCHANGED <<c_vars, misused>>
    BY <1>7, Zenon DEF ServerLoops
  <2>2. CASE s_doLoop \/ s_receive \/ s_rx_expired \/ s_dispatched \/ s_send \/ s_tx_expired
    BY <2>1, <2>2, ServerMoves, ZenonT(30)
  <2>3. CASE s_dispatch
    BY <2>1, <2>3, ServerDispatchKeeps, Zenon
  <2> QED
    BY <2>2, <2>3, <1>7, ZenonT(30) DEF ServerLoops, s_loop
<1>8. CASE UNCHANGED rpc_vars
  BY <1>8, StutterKeeps, Zenon
<1> QED
  BY <1>1, <1>2, <1>3, <1>4, <1>5, <1>6, <1>7, <1>8, ZenonT(30) DEF Next

\* The inductive invariant of the client, the server and the wires between them
\* holds in every reachable state of Rpc.
THEOREM RpcInvariant == Spec => []IInv
  BY InitIInv, NextIInv, PTL DEF Spec

LEMMA FlowOrdered == IInv => PendingInOrder
<1> SUFFICES ASSUME IInv, ~misused
             PROVE  PendingInOrder
  BY Zenon DEF PendingInOrder
<1>1. /\ pending \in [Id -> Seq(Invocation)]
      /\ upstream \in Seq(Request) /\ downstream \in Seq(Reply)
  BY FlowTyped, Zenon DEF IInv
<1>2. InOrder(pending, upstream, downstream)
  BY Zenon DEF IInv, Flow
<1>3. \A i \in Id : pending[i] = invocations(i)
  BY Zenon DEF pending
<1>4. /\ \A n \in 1..Len(upstream) : upstream[n].name \in Id
      /\ \A n \in 1..Len(downstream) : downstream[n].name \in Id
  <2>1. ASSUME NEW n \in 1..Len(upstream)
        PROVE  upstream[n].name \in Id
    <3>1. upstream[n] \in Request
      BY <1>1
    <3> QED
      BY <3>1, Zenon DEF Request
  <2>2. ASSUME NEW n \in 1..Len(downstream)
        PROVE  downstream[n].name \in Id
    <3>1. downstream[n] \in Reply
      BY <1>1
    <3> QED
      BY <3>1, Zenon DEF Reply
  <2> QED
    BY <2>1, <2>2, Zenon
<1>5. \A n \in 1..Len(upstream) : awaited(upstream[n], upstream[n].value)
  BY <1>2, <1>3, <1>4, ZenonT(30) DEF InOrder, Awaited, awaited
<1>6. \A n \in 1..Len(downstream) : awaited(downstream[n], answered(downstream[n]))
  BY <1>2, <1>3, <1>4, ZenonT(30) DEF InOrder, Awaited, awaited
<1>7. \A i \in Id : \A j, k \in 1..Len(invocations(i)) : j < k =>
          /\ invocations(i)[j].call < invocations(i)[k].call
          /\ replying(i, invocations(i)[k].call) => replying(i, invocations(i)[j].call)
          /\ requesting(i, invocations(i)[j].call) => requesting(i, invocations(i)[k].call)
  <2>1. ASSUME NEW i \in Id, NEW j \in 1..Len(pending[i]), NEW k \in 1..Len(pending[i]), j < k
        PROVE  /\ pending[i][j].call < pending[i][k].call
               /\ replying(i, pending[i][k].call) => replying(i, pending[i][j].call)
               /\ requesting(i, pending[i][j].call) => requesting(i, pending[i][k].call)
    <3>1. /\ pending[i][j].call < pending[i][k].call
          /\ Replying(downstream, i, pending[i][k].call) => Replying(downstream, i, pending[i][j].call)
          /\ Requesting(upstream, i, pending[i][j].call) => Requesting(upstream, i, pending[i][k].call)
      BY <2>1, <1>2, ZenonT(30) DEF InOrder
    <3>2. \A call : /\ replying(i, call) <=> Replying(downstream, i, call)
                    /\ requesting(i, call) <=> Requesting(upstream, i, call)
      BY Zenon DEF Replying, replying, Requesting, requesting
    <3> QED
      BY <3>1, <3>2, ZenonT(30)
  <2> QED
    BY <2>1, <1>3, ZenonT(30)
<1> QED
  BY <1>2, <1>5, <1>6, <1>7, ZenonT(30) DEF InOrder, PendingInOrder

LEMMA AnsweringItsCall == IInv => CallbackGetsItsResult
<1> SUFFICES ASSUME IInv, c_pc = "callback", ~misused
             PROVE  answering.value = result(answering.call)
  BY Zenon DEF CallbackGetsItsResult
<1>1. /\ c_rx # << >> /\ answering.value = Head(c_rx).value
      /\ answered(Head(c_rx)) = answering.call
  BY ZenonT(30) DEF IInv, Answering
<1>2. Head(c_rx) \in Reply
  BY <1>1 DEF IInv, TypeOK
<1>3. PICK v \in 1 .. MaxCalls : Head(c_rx).value = result(v)
  BY <1>2, Zenon DEF Reply
<1>4. answered(Head(c_rx)) = v
  BY <1>3 DEF answered, result
<1> QED
  BY <1>1, <1>3, <1>4, ZenonT(30)

\* Every variable of client, server and wires keeps its type, and the buffer of
\* requests never holds more than one message above its limit.
THEOREM RpcTypes == Spec => []TypeOK
  BY RpcInvariant, PTL DEF IInv

\* insert(), get() and remove() of both registries keep the map and the list in
\* agreement, whatever the applications connect and disconnect, misuse included.
THEOREM RpcRegistriesAgree == Spec => []RegistriesAgree
  BY RpcInvariant, PTL DEF IInv

\* The client dereferences no null and no freed Stub and no missing invocation
\* unless the application has shared a handle or disconnected a busy one.
THEOREM RpcFaultOnlyByMisuse == Spec => []FaultOnlyByMisuse
  BY RpcInvariant, PTL DEF IInv

\* Requests, replies and pending invocations stay in the order of the calls,
\* through both dispatches, for any number of calls and any width of the ids.
THEOREM RpcPendingInOrder == Spec => []PendingInOrder
<1>1. IInv => PendingInOrder
  BY FlowOrdered, ZenonT(30)
<1> QED
  BY <1>1, RpcInvariant, PTL

\* c_dispatch pairs a reply with the oldest invocation that has its id, and that
\* is the very call the reply answers, however often the ids have come round.
THEOREM RpcCallbackGetsItsResult == Spec => []CallbackGetsItsResult
<1>1. IInv => CallbackGetsItsResult
  BY AnsweringItsCall, Zenon
<1> QED
  BY <1>1, RpcInvariant, PTL

\* A client application that holds one handle for a function and disconnects it
\* only when its calls are answered never brings doLoop() to a fault.
THEOREM DisciplineSuffices ==
    ASSUME OneHandle, Quiet
    PROVE  Spec => [](c_pc # "fault")
<1>1. Init => ~misused
  BY Zenon DEF Init
<1>2. ~misused /\ [Next]_rpc_vars => ~misused'
  <2> SUFFICES ASSUME ~misused, [Next]_rpc_vars
               PROVE  ~misused'
    BY Zenon
  <2>1. ASSUME NEW h \in Handle, NEW f \in Function, ClientConnects(h, f)
        PROVE  ~misused'
    BY <2>1, Zenon DEF ClientConnects
  <2>2. ASSUME NEW h \in Handle, ClientDisconnects(h)
        PROVE  ~misused'
    BY <2>2, Zenon DEF ClientDisconnects
  <2>3. CASE UNCHANGED misused
    BY <2>3, Zenon
  <2> QED
    BY <2>1, <2>2, <2>3, Zenon
    DEF Next, ClientCalls, ClientLoops, ServerConnects, ServerDisconnects, ServerLoops, rpc_vars
<1>3. IInv /\ ~misused => c_pc # "fault"
  BY Zenon DEF IInv, FaultOnlyByMisuse
<1> QED
  BY <1>1, <1>2, <1>3, RpcInvariant, PTL DEF Spec
=============================================================================
