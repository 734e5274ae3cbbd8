--------------------------- MODULE WriteOnceStore ---------------------------
(***************************************************************************)
(* What a backup share promises its readers: under each name there is      *)
(* nothing, or the whole recording of one call, for good; and none of the  *)
(* items in Once is there twice.                                           *)
(***************************************************************************)
CONSTANTS Item, Once, Name, Nothing

VARIABLE store

Init == store = [n \in Name |-> Nothing]

Put(n, c) ==
    /\ store[n] = Nothing
    /\ c \in Once => \A m \in Name : store[m] # c
    /\ store' = [store EXCEPT ![n] = c]

Next == \E n \in Name, c \in Item : Put(n, c)

Spec == Init /\ [][Next]_store
=============================================================================
