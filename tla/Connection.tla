------------------------------ MODULE Connection ------------------------------
(***************************************************************************)
(* The connection between one client and one server, as their loops see    *)
(* it: in each direction a bounded first-in first-out queue of messages.   *)
(* send() appends a message when its last byte has been written, receive() *)
(* takes one when its last byte has been read.                             *)
(***************************************************************************)
EXTENDS Registry

CONSTANTS
    Function,        \* the remote functions
    Addr,            \* addresses of Stub and Skeleton objects
    WireCapacity,    \* messages a direction of the connection holds
    IdModulus,       \* 2^16: invocation ids are uint16_t
    MaxCalls         \* bound on the invocations accepted

ASSUME ConnectionAssumption ==
    /\ NULL \notin Addr /\ "none" \notin Addr
    /\ WireCapacity \in Nat \ {0}
    /\ IdModulus \in Nat \ {0}
    /\ MaxCalls \in Nat

VARIABLES requests,  \* client to server
          replies    \* server to client

wires == <<requests, replies>>

\* the id under which a function is registered: return type, name, arguments
id(f) == <<f, "signature">>

\* what the function returns to the call with these arguments
result(value) == <<"result_of", value>>
===============================================================================
