------------------------------- MODULE RpcServer -------------------------------
(***************************************************************************)
(* RpcServer: doLoop() receives requests until a time-out, dispatches all  *)
(* it received, and sends replies until a time-out.  Between two calls of  *)
(* doLoop() the application connects and disconnects functions.            *)
(***************************************************************************)
EXTENDS Connection

VARIABLES
    s_map, s_list,       \* the registry
    skeleton_id,         \* id of the Skeleton at each address
    s_pointer,           \* what connect(f) returned; "none" when not connected
    s_rx, s_tx,          \* rx_msg_buffer and tx_msg_buffer
    s_pc                 \* "app", or the "rx", "dispatch" or "tx" part of doLoop()

s_registry == <<s_map, s_list, skeleton_id, s_pointer>>
s_vars == <<s_map, s_list, skeleton_id, s_pointer, s_rx, s_tx, s_pc>>

s_Init ==
    /\ s_map = << >> /\ s_list = << >>
    /\ skeleton_id = [p \in Addr |-> NULL]
    /\ s_pointer = [f \in Function |-> "none"]
    /\ s_rx = << >> /\ s_tx = << >> /\ s_pc = "app"

s_connect(f) ==
    /\ s_pc = "app"
    /\ IF id(f) \in DOMAIN s_map
         THEN /\ s_pointer' = [s_pointer EXCEPT ![f] = s_map[id(f)]]
              /\ UNCHANGED <<s_map, s_list, skeleton_id>>
         ELSE \E p \in {q \in Addr : ~alive(s_list, q)} :
              /\ s_map' = map_after_insert(s_map, id(f), p)
              /\ s_list' = list_after_insert(s_list, p)
              /\ skeleton_id' = [skeleton_id EXCEPT ![p] = id(f)]
              /\ s_pointer' = [s_pointer EXCEPT ![f] = p]
    /\ UNCHANGED <<s_rx, s_tx, s_pc, wires>>

\* the application drops the pointer it has disconnected
s_disconnect(f) ==
    /\ s_pc = "app" /\ s_pointer[f] \in Addr
    /\ s_map' = map_after_remove(s_map, skeleton_id[s_pointer[f]])
    /\ s_list' = list_after_remove(s_list, skeleton_id, skeleton_id[s_pointer[f]])
    /\ s_pointer' = [s_pointer EXCEPT ![f] = "none"]
    /\ UNCHANGED <<skeleton_id, s_rx, s_tx, s_pc, wires>>

s_doLoop ==
    /\ s_pc = "app"
    /\ s_pc' = "rx"
    /\ UNCHANGED <<s_registry, s_rx, s_tx, wires>>

s_receive ==
    /\ s_pc = "rx" /\ requests # << >>
    /\ s_rx' = Append(s_rx, Head(requests))
    /\ requests' = Tail(requests)
    /\ UNCHANGED <<s_registry, s_tx, s_pc, replies>>

s_rx_expired ==
    /\ s_pc = "rx"
    /\ s_pc' = "dispatch"
    /\ UNCHANGED <<s_registry, s_rx, s_tx, wires>>

\* mutant of s_dispatch: only the first request of a batch is dispatched
s_dispatch_once ==
    /\ s_pc = "dispatch" /\ s_rx # << >>
    /\ LET msg == Head(s_rx)
           rpc == find(s_map, msg.name)
       IN  /\ s_map' = map_after_get(s_map, msg.name)
           /\ s_tx' = IF rpc = NULL THEN s_tx
                      ELSE Append(s_tx, [msg EXCEPT !.value = result(msg.value)])
    /\ s_rx' = << >>
    /\ UNCHANGED <<s_list, skeleton_id, s_pointer, s_pc, wires>>

\* a request for a function that is not registered is dropped without a reply
s_dispatch ==
    /\ s_pc = "dispatch" /\ s_rx # << >>
    /\ LET msg == Head(s_rx)
           rpc == find(s_map, msg.name)
       IN  /\ s_map' = map_after_get(s_map, msg.name)
           /\ s_tx' = IF rpc = NULL THEN s_tx
                      ELSE Append(s_tx, [msg EXCEPT !.value = result(msg.value)])
    /\ s_rx' = Tail(s_rx)
    /\ UNCHANGED <<s_list, skeleton_id, s_pointer, s_pc, wires>>

s_dispatched ==
    /\ s_pc = "dispatch" /\ s_rx = << >>
    /\ s_pc' = "tx"
    /\ UNCHANGED <<s_registry, s_rx, s_tx, wires>>

s_send ==
    /\ s_pc = "tx" /\ s_tx # << >> /\ Len(replies) < WireCapacity
    /\ replies' = Append(replies, Head(s_tx))
    /\ s_tx' = Tail(s_tx)
    /\ UNCHANGED <<s_registry, s_rx, s_pc, requests>>

\* the buffer is empty or the time-out has expired
s_tx_expired ==
    /\ s_pc = "tx"
    /\ s_pc' = "app"
    /\ UNCHANGED <<s_registry, s_rx, s_tx, wires>>

s_loop == \/ s_doLoop \/ s_receive \/ s_rx_expired \/ s_dispatch
          \/ s_dispatched \/ s_send \/ s_tx_expired
===============================================================================
