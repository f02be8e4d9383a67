---------------------------- MODULE ChunkedSweep ----------------------------
(***************************************************************************)
(* What the deletion loop of collect_garbage promises about the order in   *)
(* which it takes the dead nodes: pieces that may be committed one by one. *)
(* GcDelete claims its chunks by the same IsNextChunk; DeletionOrder, the  *)
(* code's queue and cursor, is shown to implement this specification.      *)
(***************************************************************************)
EXTENDS StoreGraph

CONSTANT Node

VARIABLES
    refs,   \* the reference graph
    dead,   \* the nodes to delete
    bound,  \* the most nodes a chunk of the acyclic part may have
    todo    \* the dead nodes beyond the last chunk

Init ==
    /\ refs \in [Node -> SUBSET Node]
    /\ dead \in SUBSET Node
    /\ bound \in Nat \ {0}
    /\ todo = dead

TakeChunk ==
    /\ \E chunk \in SUBSET todo :
         /\ IsNextChunk(refs, dead, todo, bound, chunk)
         /\ todo' = todo \ chunk
    /\ UNCHANGED <<refs, dead, bound>>

Spec == Init /\ [][TakeChunk]_<<refs, dead, bound, todo>>
===============================================================================
