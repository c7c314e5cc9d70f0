--------------------------------- MODULE MCRpc ---------------------------------
(* Rpc with two functions, handles and addresses, which may be exchanged   *)
(* freely: nothing in the code orders them.                                *)
EXTENDS Rpc, TLC

CONSTANTS f1, f2, h1, h2, p1, p2

TwoFunctions == {f1, f2}
OneFunction == {f1}
TwoHandles == {h1, h2}
TwoAddr == {p1, p2}

Symmetric == Permutations(TwoFunctions) \union Permutations(TwoHandles)
                \union Permutations(TwoAddr)

\* behaviours are followed up to a fault of the client
UpToFault == c_pc # "fault"
===============================================================================
