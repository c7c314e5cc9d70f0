------------------------------- MODULE RpcClient -------------------------------
(***************************************************************************)
(* RpcClient: doLoop() sends requests until a time-out, receives replies   *)
(* until a time-out, and dispatches all it received to the callbacks of    *)
(* the calls they answer.  The application connects, disconnects and calls *)
(* between two calls of doLoop() and from inside a callback.               *)
(***************************************************************************)
EXTENDS Connection

CONSTANTS Handle,                        \* the RpcHandle objects
          MAX_CLIENT_MSG_BUFFER_SIZE

ASSUME ClientAssumption == MAX_CLIENT_MSG_BUFFER_SIZE \in Nat

VARIABLES
    c_map, c_list,       \* the registry
    stub,                \* the Stub at each address
    handle,              \* m_stub of each RpcHandle
    c_tx, c_rx,          \* tx_msg_buffer and rx_msg_buffer
    c_pc,                \* "app", the "tx", "rx" or "dispatch" part of doLoop(),
                         \* inside a "callback", or "fault": undefined behaviour
    answering,           \* in a callback: stub, list position, call and value
    n_calls              \* invocations accepted so far; numbers the calls

c_registry == <<c_map, c_list, stub, handle>>
c_vars == <<c_map, c_list, stub, handle, c_tx, c_rx, c_pc, answering, n_calls>>

\* a Stub as connect() builds it
new_stub(f) == [id |-> id(f), invokations |-> 0, n_handles |-> 1, invokation_list |-> << >>]

stub_id == [p \in Addr |-> stub[p].id]

c_Init ==
    /\ c_map = << >> /\ c_list = << >>
    /\ stub = [p \in Addr |-> [id |-> NULL, invokations |-> 0, n_handles |-> 0,
                               invokation_list |-> << >>]]
    /\ handle = [h \in Handle |-> NULL]
    /\ c_tx = << >> /\ c_rx = << >>
    /\ c_pc = "app" /\ answering = NULL /\ n_calls = 0

app_runs == c_pc \in {"app", "callback"}

c_fault == /\ c_pc' = "fault"
           /\ UNCHANGED <<c_registry, c_tx, c_rx, answering, n_calls, wires>>

\* connect() looks the bare name up, insert() the id
connect(h, f) ==
    /\ app_runs /\ handle[h] = NULL
    /\ LET p == find(c_map, <<f>>)
       IN  IF p # NULL
             THEN /\ stub' = [stub EXCEPT ![p].n_handles = @ + 1]
                  /\ handle' = [handle EXCEPT ![h] = p]
                  /\ UNCHANGED <<c_map, c_list>>
           ELSE IF id(f) \in DOMAIN c_map
             THEN /\ handle' = [handle EXCEPT ![h] = c_map[id(f)]]
                  /\ UNCHANGED <<c_map, c_list, stub>>
           ELSE \E new \in {q \in Addr : ~alive(c_list, q)} :
                  /\ c_map' = map_after_insert(c_map, id(f), new)
                  /\ c_list' = list_after_insert(c_list, new)
                  /\ stub' = [stub EXCEPT ![new] = new_stub(f)]
                  /\ handle' = [handle EXCEPT ![h] = new]
    /\ UNCHANGED <<c_tx, c_rx, c_pc, answering, n_calls, wires>>

disconnect(h) ==
    LET p == handle[h] IN
    /\ app_runs /\ p # NULL
    /\ \/ /\ alive(c_list, p)
          /\ stub' = [stub EXCEPT ![p].n_handles = @ - 1]
          /\ IF stub'[p].n_handles <= 0
               THEN /\ c_map' = map_after_remove(c_map, stub[p].id)
                    /\ c_list' = list_after_remove(c_list, stub_id, stub[p].id)
               ELSE UNCHANGED <<c_map, c_list>>
          /\ handle' = [handle EXCEPT ![h] = NULL]
          /\ UNCHANGED <<c_tx, c_rx, c_pc, answering, n_calls, wires>>
       \/ ~alive(c_list, p) /\ c_fault

\* mutant of tx_msg_full: never full
tx_msg_full_never == FALSE

tx_msg_full == Len(c_tx) > MAX_CLIENT_MSG_BUFFER_SIZE

\* mutant of asyncRPC: the message is marshalled before the new id is set
asyncRPC_stale_id(h) ==
    LET p == handle[h] IN
    /\ app_runs /\ p # NULL /\ ~tx_msg_full /\ n_calls < MaxCalls
    /\ alive(c_list, p)
    /\ LET call == n_calls + 1
           new_id == (stub[p].invokations + 1) % IdModulus
       IN  /\ stub' = [stub EXCEPT
                 ![p].invokations = new_id,
                 ![p].invokation_list = Append(@, [id |-> new_id, call |-> call])]
           /\ c_tx' = Append(c_tx, [name |-> stub[p].id, id |-> stub[p].invokations,
                                    value |-> call])
           /\ n_calls' = call
    /\ UNCHANGED <<c_map, c_list, handle, c_rx, c_pc, answering, wires>>

\* asyncRPC() on a handle that is connected, when it returns true; the
\* arguments are known by the number of the call
asyncRPC(h) ==
    LET p == handle[h] IN
    /\ app_runs /\ p # NULL /\ ~tx_msg_full /\ n_calls < MaxCalls
    /\ \/ /\ alive(c_list, p)
          /\ LET call == n_calls + 1
                 new_id == (stub[p].invokations + 1) % IdModulus
             IN  /\ stub' = [stub EXCEPT
                       ![p].invokations = new_id,
                       ![p].invokation_list = Append(@, [id |-> new_id, call |-> call])]
                 /\ c_tx' = Append(c_tx, [name |-> stub[p].id, id |-> new_id, value |-> call])
                 /\ n_calls' = call
          /\ UNCHANGED <<c_map, c_list, handle, c_rx, c_pc, answering, wires>>
       \/ ~alive(c_list, p) /\ c_fault

-------------------------------------------------------------------------------
(* doLoop()                                                                *)

c_doLoop ==
    /\ c_pc = "app"
    /\ c_pc' = "tx"
    /\ UNCHANGED <<c_registry, c_tx, c_rx, answering, n_calls, wires>>

\* mutant of c_send: the message sent is not popped
c_send_no_pop ==
    /\ c_pc = "tx" /\ c_tx # << >> /\ Len(requests) < WireCapacity
    /\ requests' = Append(requests, Head(c_tx))
    /\ UNCHANGED <<c_registry, c_tx, c_rx, c_pc, answering, n_calls, replies>>

c_send ==
    /\ c_pc = "tx" /\ c_tx # << >> /\ Len(requests) < WireCapacity
    /\ requests' = Append(requests, Head(c_tx))
    /\ c_tx' = Tail(c_tx)
    /\ UNCHANGED <<c_registry, c_rx, c_pc, answering, n_calls, replies>>

\* the buffer is empty or the time-out has expired
c_tx_expired ==
    /\ c_pc = "tx"
    /\ c_pc' = "rx"
    /\ UNCHANGED <<c_registry, c_tx, c_rx, answering, n_calls, wires>>

c_receive ==
    /\ c_pc = "rx" /\ replies # << >>
    /\ c_rx' = Append(c_rx, Head(replies))
    /\ replies' = Tail(replies)
    /\ UNCHANGED <<c_registry, c_tx, c_pc, answering, n_calls, requests>>

c_rx_expired ==
    /\ c_pc = "rx"
    /\ c_pc' = "dispatch"
    /\ UNCHANGED <<c_registry, c_tx, c_rx, answering, n_calls, wires>>

\* mutant of matching: the latest call with this id
matching_last(list, msg_id) ==
    LET same == {i \in 1..Len(list) : list[i].id = msg_id}
    IN  IF same = {} THEN 0 ELSE CHOOSE i \in same : \A j \in same : j <= i

\* position in an invokation_list of the oldest call with this id, or 0
matching(list, msg_id) ==
    LET same == {i \in 1..Len(list) : list[i].id = msg_id}
    IN  IF same = {} THEN 0 ELSE CHOOSE i \in same : \A j \in same : i <= j

\* unmarshall_and_dispatch() up to the callback; get() may return a null
\* pointer and the search may reach the end of the list
c_dispatch ==
    /\ c_pc = "dispatch" /\ c_rx # << >>
    /\ LET msg == Head(c_rx)
           rpc == find(c_map, msg.name)
           at == IF rpc = NULL THEN 0 ELSE matching(stub[rpc].invokation_list, msg.id)
       IN  \/ /\ at # 0
              /\ answering' = [rpc |-> rpc, at |-> at, value |-> msg.value,
                               call |-> stub[rpc].invokation_list[at].call]
              /\ c_pc' = "callback"
              /\ UNCHANGED <<c_registry, c_tx, c_rx, n_calls, wires>>
           \/ at = 0 /\ c_fault

\* the callback returns: erase_after() and pop()
c_answered ==
    /\ c_pc = "callback"
    /\ LET p == answering.rpc
           at == answering.at
           list == stub[p].invokation_list
       IN  \/ /\ alive(c_list, p) /\ at <= Len(list) /\ list[at].call = answering.call
              /\ stub' = [stub EXCEPT ![p].invokation_list =
                             SubSeq(list, 1, at - 1) \o SubSeq(list, at + 1, Len(list))]
              /\ c_rx' = Tail(c_rx)
              /\ c_pc' = "dispatch"
              /\ answering' = NULL
              /\ UNCHANGED <<c_map, c_list, handle, c_tx, n_calls, wires>>
           \/ /\ ~(alive(c_list, p) /\ at <= Len(list) /\ list[at].call = answering.call)
              /\ c_fault

c_dispatched ==
    /\ c_pc = "dispatch" /\ c_rx = << >>
    /\ c_pc' = "app"
    /\ UNCHANGED <<c_registry, c_tx, c_rx, answering, n_calls, wires>>

c_loop == \/ c_doLoop \/ c_send \/ c_tx_expired \/ c_receive \/ c_rx_expired
          \/ c_dispatch \/ c_answered \/ c_dispatched
===============================================================================
