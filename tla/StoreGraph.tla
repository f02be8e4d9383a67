------------------------------ MODULE StoreGraph ------------------------------
(***************************************************************************)
(* The reference graph of the Nix store as the collector sees it: a        *)
(* function E from nodes to the set of nodes they reference.  In the code  *)
(* this is the StoreGraph CSR of crates/common/src/db.rs, an immutable     *)
(* snapshot shared through an Arc once load_graph has returned.            *)
(*                                                                         *)
(* The closure is stated as the least set that contains the roots and is   *)
(* closed under E, without recursion, so that the proof system can reason  *)
(* about it; ClosureWalk shows that the code's worklist computes it.       *)
(***************************************************************************)

EXTENDS FiniteSets, Naturals

\* refs(node) never leaves S.
IsClosed(E, S) == \A n \in S : E[n] \subseteq S

\* compute_closure(roots): the nodes every closed superset of the roots has.
Closure(E, roots) ==
    { n \in DOMAIN E :
        \A C \in SUBSET DOMAIN E : roots \subseteq C /\ IsClosed(E, C) => n \in C }

\* What is reachable from a single node, for every node.
ReachFrom(E) == [n \in DOMAIN E |-> Closure(E, {n})]

\* The nodes of S that reference n, n itself left out (the code's dead_ref).
Referrers(E, S, n) == { r \in S \ {n} : n \in E[r] }

\* No node outside the set is a referrer, within S, of one inside it.
TakesReferrersFirst(E, S, chunk) == \A n \in chunk : Referrers(E, S, n) \subseteq chunk

(***************************************************************************)
(* The nodes that never reach in-degree 0 when the dead subgraph is peeled *)
(* referrer by referrer: the largest set whose members all keep a referrer *)
(* in it, that is, the cycles and what hangs below them.                   *)
(***************************************************************************)
CyclicTail(E, dead) ==
    UNION { S \in SUBSET dead : \A n \in S : Referrers(E, S, n) # {} }

(***************************************************************************)
(* The pieces the deletion loop cuts the dead nodes into: at most max      *)
(* nodes of the acyclic part, then the cyclic tail as a whole.             *)
(***************************************************************************)
ChunkWithin(E, dead, todo, max, chunk) ==
    LET tail == CyclicTail(E, dead) IN
    /\ chunk \subseteq todo
    /\ chunk # {}
    /\ IF todo \subseteq tail
       THEN chunk = todo
       ELSE chunk \cap tail = {} /\ Cardinality(chunk) <= max

\* Mutants: no order at all; an order that lets the bound cut the tail.
ChunkInAnyOrder(E, dead, todo, max, chunk) == ChunkWithin(E, dead, todo, max, chunk)
ChunkCutsTail(E, dead, todo, max, chunk) ==
    chunk \subseteq todo /\ chunk # {} /\ Cardinality(chunk) <= max

\* A piece of the referrer-first order that starts where the cursor is, todo
\* being what lies beyond it.
IsNextChunk(E, dead, todo, max, chunk) ==
    /\ ChunkWithin(E, dead, todo, max, chunk)
    /\ TakesReferrersFirst(E, todo, chunk)
===============================================================================
