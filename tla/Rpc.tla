---------------------------------- MODULE Rpc ----------------------------------
(***************************************************************************)
(* One client and one server, each running its loop, with the applications *)
(* on top of them.                                                         *)
(***************************************************************************)
EXTENDS RpcClient, RpcServer

CONSTANTS OneHandle,     \* TRUE: one handle at a time for a function
          Quiet          \* TRUE: a handle is disconnected only when the
                         \* calls of its function have been answered

VARIABLE misused         \* whether the client application has once departed
                         \* from what OneHandle and Quiet ask

rpc_vars == <<c_vars, s_vars, wires, misused>>

Init == /\ c_Init /\ s_Init
        /\ requests = << >> /\ replies = << >>
        /\ misused = FALSE

quiet(p) == alive(c_list, p) => stub[p].invokation_list = << >>

ClientConnects(h, f) ==
    LET shared == \E g \in Handle \ {h} : handle[g] # NULL /\ handle[g] = handle'[h]
    IN  /\ connect(h, f)
        /\ OneHandle => ~shared
        /\ misused' = (misused \/ shared)
        /\ UNCHANGED s_vars

ClientDisconnects(h) ==
    /\ disconnect(h)
    /\ Quiet => quiet(handle[h])
    /\ misused' = (misused \/ ~quiet(handle[h]))
    /\ UNCHANGED s_vars

ClientCalls(h) == asyncRPC(h) /\ UNCHANGED <<s_vars, misused>>

ClientLoops == c_loop /\ UNCHANGED <<s_vars, misused>>

ServerConnects(f) == s_connect(f) /\ UNCHANGED <<c_vars, misused>>

ServerDisconnects(f) == s_disconnect(f) /\ UNCHANGED <<c_vars, misused>>

ServerLoops == s_loop /\ UNCHANGED <<c_vars, misused>>

Next ==
    \/ \E h \in Handle : \/ \E f \in Function : ClientConnects(h, f)
                         \/ ClientDisconnects(h)
                         \/ ClientCalls(h)
    \/ ClientLoops
    \/ \E f \in Function : ServerConnects(f) \/ ServerDisconnects(f)
    \/ ServerLoops

Spec == Init /\ [][Next]_rpc_vars

-------------------------------------------------------------------------------
(* Properties.                                                             *)

Id == {id(f) : f \in Function}
Invocation == [id : 0 .. IdModulus - 1, call : 1 .. MaxCalls]
Request == [name : Id, id : 0 .. IdModulus - 1, value : 1 .. MaxCalls]
Reply == [name : Id, id : 0 .. IdModulus - 1, value : {result(v) : v \in 1 .. MaxCalls}]

TypeOK ==
    /\ DOMAIN c_map \subseteq Id /\ DOMAIN s_map \subseteq Id
    /\ \A i \in DOMAIN c_map : c_map[i] \in Addr \union {NULL}
    /\ \A i \in DOMAIN s_map : s_map[i] \in Addr \union {NULL}
    /\ c_list \in Seq(Addr) /\ s_list \in Seq(Addr)
    /\ stub \in [Addr -> [id : Id \union {NULL}, invokations : 0 .. IdModulus - 1,
                          n_handles : {0, 1}, invokation_list : Seq(Invocation)]]
    /\ skeleton_id \in [Addr -> Id \union {NULL}]
    /\ handle \in [Handle -> Addr \union {NULL}]
    /\ s_pointer \in [Function -> Addr \union {NULL, "none"}]
    /\ c_tx \in Seq(Request) /\ requests \in Seq(Request) /\ s_rx \in Seq(Request)
    /\ c_rx \in Seq(Reply) /\ replies \in Seq(Reply) /\ s_tx \in Seq(Reply)
    /\ Len(c_tx) <= MAX_CLIENT_MSG_BUFFER_SIZE + 1
    /\ c_pc \in {"app", "tx", "rx", "dispatch", "callback", "fault"}
    /\ s_pc \in {"app", "rx", "dispatch", "tx"}
    /\ n_calls \in 0 .. MaxCalls /\ misused \in BOOLEAN

\* In each registry the map and the list name the same objects: every pointer
\* of the map that is not null is to an object in the list, under its id, and
\* every object in the list is found under its id.
RegistriesAgree ==
    /\ \A i \in DOMAIN c_map : c_map[i] # NULL =>
          alive(c_list, c_map[i]) /\ stub[c_map[i]].id = i
    /\ \A n \in 1..Len(c_list) : find(c_map, stub[c_list[n]].id) = c_list[n]
    /\ \A i \in DOMAIN s_map : s_map[i] # NULL =>
          alive(s_list, s_map[i]) /\ skeleton_id[s_map[i]] = i
    /\ \A n \in 1..Len(s_list) : find(s_map, skeleton_id[s_list[n]]) = s_list[n]

\* doLoop(), asyncRPC() and disconnect() of the client dereference no null and
\* no freed Stub and no missing invocation, as long as the application holds
\* one handle for a function and disconnects it when no call is pending.
FaultOnlyByMisuse == c_pc = "fault" => misused

\* A callback is given the result of the very call it was passed with, although
\* the ids that pair them are 16-bit numbers that come round again.
CallbackGetsItsResult ==
    c_pc = "callback" => misused \/ answering.value = result(answering.call)

\* the calls of a function that the client waits for, oldest first
invocations(i) ==
    LET p == find(c_map, i) IN IF p = NULL THEN << >> ELSE stub[p].invokation_list

\* the requests on their way to the dispatch of the server, and the replies on
\* their way to that of the client; the call a reply answers
upstream == s_rx \o requests \o c_tx
downstream == c_rx \o replies \o s_tx
answered(reply) == reply.value[2]

awaited(msg, call) ==
    \E k \in 1..Len(invocations(msg.name)) :
        invocations(msg.name)[k] = [id |-> msg.id, call |-> call]
requesting(i, call) ==
    \E n \in 1..Len(upstream) : upstream[n].name = i /\ upstream[n].value = call
replying(i, call) ==
    \E n \in 1..Len(downstream) : downstream[n].name = i /\ answered(downstream[n]) = call

\* Without misuse every message under way belongs to a pending invocation with
\* its id, requests and replies keep the order of the calls, and the pending
\* invocations of a function begin with those whose replies are on the way and
\* end with those whose requests are on the way; those between were dropped by a
\* server that did not know the function.
PendingInOrder ==
    ~misused =>
        /\ \A n \in 1..Len(upstream) : awaited(upstream[n], upstream[n].value)
        /\ \A n \in 1..Len(downstream) : awaited(downstream[n], answered(downstream[n]))
        /\ \A m, n \in 1..Len(upstream) : m < n => upstream[m].value < upstream[n].value
        /\ \A m, n \in 1..Len(downstream) :
              m < n => answered(downstream[m]) < answered(downstream[n])
        /\ \A m \in 1..Len(downstream), n \in 1..Len(upstream) :
              answered(downstream[m]) < upstream[n].value
        /\ \A i \in Id : \A j, k \in 1..Len(invocations(i)) : j < k =>
              /\ invocations(i)[j].call < invocations(i)[k].call
              /\ replying(i, invocations(i)[k].call) => replying(i, invocations(i)[j].call)
              /\ requesting(i, invocations(i)[j].call) => requesting(i, invocations(i)[k].call)

\* "insert rpc or get its pointer if already present": connect() of the server
\* never hands the application a null pointer for a function.
ConnectRegisters == \A f \in Function : s_pointer[f] # NULL

\* A connected handle points to a Stub that is alive.
HandlesLive == \A h \in Handle : handle[h] # NULL => alive(c_list, handle[h])

-------------------------------------------------------------------------------
(* Liveness.  Both loops are called again and again, and in each phase of  *)
(* a loop there is time for at least one message that is ready.            *)

Fairness ==
    /\ WF_rpc_vars(ClientLoops) /\ WF_rpc_vars(ServerLoops)
    /\ SF_rpc_vars(c_send /\ UNCHANGED <<s_vars, misused>>)
    /\ SF_rpc_vars(c_receive /\ UNCHANGED <<s_vars, misused>>)
    /\ SF_rpc_vars(s_send /\ UNCHANGED <<c_vars, misused>>)
    /\ SF_rpc_vars(s_receive /\ UNCHANGED <<c_vars, misused>>)

FairSpec == Spec /\ Fairness

registered(f) == find(s_map, id(f)) # NULL
pending_call(f, n) ==
    LET p == find(c_map, id(f))
    IN  p # NULL /\ \E k \in 1..Len(stub[p].invokation_list) :
                       stub[p].invokation_list[k].call = n

\* A pending call of a function that stays registered at the server gets its
\* callback, whichever time-outs end the phases of the two loops.
CallsAnswered ==
    \A f \in Function : \A n \in 1..MaxCalls :
        [](pending_call(f, n) /\ []registered(f) => <>~pending_call(f, n))
===============================================================================
