------------------------------- MODULE Registry -------------------------------
(***************************************************************************)
(* FunctionsRegistry: a hash map from the id of a function to the address  *)
(* of its Stub or Skeleton, and a list that owns these objects.  An object *)
(* is alive while it is in the list.  The operators give the map and the   *)
(* list after a call; the client and the server each keep their own.       *)
(***************************************************************************)
EXTENDS Naturals, Sequences

CONSTANT NULL

find(map, id) == IF id \in DOMAIN map THEN map[id] ELSE NULL

\* get(): functions_map[name] enters a null pointer under a name it lacks
map_after_get(map, id) == [k \in DOMAIN map \union {id} |-> find(map, k)]

\* insert() of an object at address p, when the map has no such id
map_after_insert(map, id, p) ==
    [k \in DOMAIN map \union {id} |-> IF k = id THEN p ELSE map[k]]
list_after_insert(list, p) == <<p>> \o list

\* mutant of list_after_remove: whichever object is first in the list goes
list_after_remove_head(list, id_of, id) == Tail(list)

\* remove() of the object with this id: the map entry and the first object of
\* the list that has the id; id_of gives the id of each object
map_after_remove(map, id) == [k \in DOMAIN map \ {id} |-> map[k]]
list_after_remove(list, id_of, id) ==
    LET with_id == {i \in 1..Len(list) : id_of[list[i]] = id}
    IN  IF with_id = {} THEN list
        ELSE LET first == CHOOSE i \in with_id : \A j \in with_id : i <= j
             IN  SubSeq(list, 1, first - 1) \o SubSeq(list, first + 1, Len(list))

alive(list, p) == \E i \in 1..Len(list) : list[i] = p
===============================================================================
