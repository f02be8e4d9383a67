----------------------------- MODULE ClosureWalk -----------------------------
(***************************************************************************)
(* StoreGraph::compute_closure as the worklist loop it is: mark the roots, *)
(* then pop a node, mark and push its unmarked references, until the stack *)
(* is empty.  A node is marked before it is pushed, so the stack never     *)
(* holds a node twice and is modelled as a set; the order of popping is    *)
(* left open (the code pops the newest).                                   *)
(***************************************************************************)
EXTENDS StoreGraph

CONSTANT Node

ASSUME NodeFinite == IsFiniteSet(Node)

VARIABLES edge,   \* the CSR graph, fixed for the whole walk
          roots,  \* the argument of the call
          alive,  \* the nodes marked so far
          stack   \* marked nodes whose references are still to be scanned

vars == <<edge, roots, alive, stack>>

TypeOK ==
    /\ edge \in [Node -> SUBSET Node]
    /\ roots \subseteq Node
    /\ alive \subseteq Node
    /\ stack \subseteq Node

Init ==
    /\ edge \in [Node -> SUBSET Node]
    /\ roots \in SUBSET Node
    /\ alive = roots
    /\ stack = roots

\* Mutants: a marked reference is not pushed; a marked one is pushed again.
PopForgetsPush(n) ==
    /\ n \in stack
    /\ alive' = alive \cup edge[n]
    /\ stack' = stack \ {n}
    /\ UNCHANGED <<edge, roots>>
PopIgnoresMarks(n) ==
    /\ n \in stack
    /\ alive' = alive \cup edge[n]
    /\ stack' = (stack \ {n}) \cup edge[n]
    /\ UNCHANGED <<edge, roots>>

\* One turn of the while loop.
Pop(n) ==
    /\ n \in stack
    /\ LET new == edge[n] \ alive IN
         /\ alive' = alive \cup new
         /\ stack' = (stack \ {n}) \cup new
    /\ UNCHANGED <<edge, roots>>

Returned == stack = {} /\ UNCHANGED vars

Next == (\E n \in Node : Pop(n)) \/ Returned

Spec == Init /\ [][Next]_vars /\ WF_vars(\E n \in Node : Pop(n))

-------------------------------------------------------------------------------
(***************************************************************************)
(* What the walk keeps true on the way: a marked node that is no longer on *)
(* the stack has all its references marked, and only reachable nodes are   *)
(* ever marked.                                                            *)
(***************************************************************************)
ScannedIsClosed == \A n \in alive \ stack : edge[n] \subseteq alive
OnlyReachable   == alive \subseteq Closure(edge, roots)
WalkInv == TypeOK /\ stack \subseteq alive /\ roots \subseteq alive
                  /\ ScannedIsClosed /\ OnlyReachable

\* When compute_closure returns, it has marked exactly the nodes reachable
\* from the roots: a missing one would be deleted while live, an extra one
\* would never be collected.
WalkIsClosure == stack = {} => alive = Closure(edge, roots)
===============================================================================
