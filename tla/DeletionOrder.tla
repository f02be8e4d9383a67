---------------------------- MODULE DeletionOrder ----------------------------
(***************************************************************************)
(* The order in which collect_garbage deletes: Kahn's algorithm over the   *)
(* dead part of the CSR graph (gc.rs, "Referrer-first deletion order"),    *)
(* and the loop that cuts the order into chunks under --chunk-size and     *)
(* --max-freed.                                                            *)
(*                                                                         *)
(* The CSR arrays may list an edge more than once: a reference that is     *)
(* also the deriver, or a deriver that DerivationOutputs names too, is     *)
(* pushed by each edge query of load_graph.  mult is that multiplicity.    *)
(***************************************************************************)
EXTENDS StoreGraph, SequencesExt

CONSTANTS
    N,          \* graph nodes are 1..N, in index order
    MaxMult,    \* bound on how often the CSR lists an edge
    ChunkSize,  \* the values of --chunk-size looked at
    MaxFreed,   \* the values of --max-freed looked at, Top for none
    Size,       \* narSize of each node
    Top         \* stands for u64::MAX, where additions saturate

ASSUME OrderAssumption ==
    /\ N \in Nat /\ MaxMult \in Nat /\ Top \in Nat
    /\ ChunkSize \subseteq Nat
    /\ MaxFreed \subseteq 0..Top
    /\ Size \in [1..N -> 0..Top]

Node == 1..N

VARIABLES
    mult,        \* how often the CSR lists each edge
    alive,       \* the closure of the roots
    maxChunk,    \* chunk_size, at least 1
    maxFreed,    \* max
    pc,          \* where the deletion code is
    inDegree,    \* in_degree
    order,       \* order
    head,        \* nodes of order scanned so far
    acyclicLen,  \* acyclic_len
    cursor,      \* nodes of order taken into chunks so far
    chunk,       \* the chunk being put together
    estimated,   \* its narSizes
    freed        \* bytes_freed

input     == <<mult, alive, maxChunk, maxFreed>>
orderVars == <<inDegree, order, head, acyclicLen>>
chunkVars == <<cursor, chunk, estimated, freed>>
vars == <<input, pc, orderVars, chunkVars>>

-------------------------------------------------------------------------------
Edge == [n \in Node |-> { m \in Node : mult[n][m] > 0 }]
Dead == Node \ alive

\* Dead nodes come in the order of dead_indices, by index.
InIndexOrder(S) ==
    [i \in 1..Cardinality(S) |-> CHOOSE m \in S : Cardinality({ k \in S : k <= m }) = i]

\* Mutant: a node that references itself waits for itself.
DeadRefToSelf(n, m) == m \notin alive

\* dead_ref: references to oneself and to live nodes do not count.
DeadRef(n, m) == m # n /\ m \notin alive

Listed(n, m) == IF DeadRef(n, m) THEN mult[n][m] ELSE 0

\* Mutant: referrers are counted, not edges.
ReferrersOf(S, m) == Cardinality({ n \in S : Listed(n, m) > 0 })

\* The sum of w over S, no value above max: each value is so many units to count.
Total(w, max, S) == Cardinality({ u \in S \X (1..max) : u[2] <= w[u[1]] })

\* How often the nodes of S list m.
ListedBy(S, m) == Total([n \in Node |-> Listed(n, m)], MaxMult, S)

Init ==
    /\ mult \in { f \in [Node -> [Node -> 0..MaxMult]] : \A n \in Node : f[n][n] <= 1 }
    /\ \E roots \in SUBSET Node : alive = Closure(Edge, roots)
    /\ \E size \in ChunkSize : maxChunk = IF size = 0 THEN 1 ELSE size
    /\ maxFreed \in MaxFreed
    /\ pc = "count"
    /\ inDegree = [m \in Node |-> 0]
    /\ order = <<>> /\ head = 0 /\ acyclicLen = 0
    /\ cursor = 0 /\ chunk = <<>> /\ estimated = 0 /\ freed = 0

-------------------------------------------------------------------------------
(* Kahn's algorithm.                                                       *)

\* The dead referrers of every dead node are counted; the nodes without one
\* open the queue.
CountReferrers ==
    /\ pc = "count"
    /\ inDegree' = [m \in Node |-> ListedBy(Dead, m)]
    /\ order' = InIndexOrder({ m \in Dead : inDegree'[m] = 0 })
    /\ pc' = "peel"
    /\ UNCHANGED <<input, head, acyclicLen, chunkVars>>

\* The next node of the queue leaves; what it was the last referrer of joins
\* the queue, in the order in which the CSR lists it.
Peel ==
    /\ pc = "peel"
    /\ head < Len(order)
    /\ LET node  == order[head + 1]
           freeNow == { m \in Node : Listed(node, m) > 0 /\ inDegree'[m] = 0 }
       IN /\ inDegree' = [m \in Node |-> inDegree[m] - Listed(node, m)]
          /\ \E joining \in SetToSeqs(freeNow) : order' = order \o joining
    /\ head' = head + 1
    /\ UNCHANGED <<input, pc, acyclicLen, chunkVars>>

\* The queue is empty: the nodes it never reached follow in index order.
AppendTail ==
    /\ pc = "peel"
    /\ head = Len(order)
    /\ acyclicLen' = Len(order)
    /\ order' = order \o InIndexOrder({ m \in Dead : inDegree[m] # 0 })
    /\ pc' = "loop"
    /\ UNCHANGED <<input, inDegree, head, chunkVars>>

-------------------------------------------------------------------------------
(* The chunk loop.                                                         *)

TakeAll == cursor - Len(chunk) >= acyclicLen

\* Mutant: the budget is not looked at before a chunk is begun.
BeginRegardless ==
    /\ pc = "loop"
    /\ cursor < Len(order)
    /\ chunk' = <<>> /\ estimated' = 0
    /\ pc' = "take"
    /\ UNCHANGED <<input, orderVars, cursor, freed>>

BeginChunk ==
    /\ pc = "loop"
    /\ cursor < Len(order)
    /\ freed < maxFreed
    /\ chunk' = <<>> /\ estimated' = 0
    /\ pc' = "take"
    /\ UNCHANGED <<input, orderVars, cursor, freed>>

\* Mutants of the while condition: the estimate is not looked at; the tail is cut
\* like the rest; the boundary to the tail is not noticed.
FitsOverBudget == cursor < Len(order) /\ (TakeAll \/ (cursor < acyclicLen /\ Len(chunk) < maxChunk))
FitsCutTail == cursor < Len(order) /\ estimated < maxFreed - freed /\ Len(chunk) < maxChunk
FitsAcrossTail ==
    cursor < Len(order) /\ (TakeAll \/ (estimated < maxFreed - freed /\ Len(chunk) < maxChunk))

\* The while condition: a chunk of the acyclic part ends at the boundary to the
\* tail, at its estimate or at its length; the tail is taken whole.
Fits ==
    /\ cursor < Len(order)
    /\ \/ TakeAll
       \/ cursor < acyclicLen /\ estimated < maxFreed - freed /\ Len(chunk) < maxChunk

Take ==
    /\ pc = "take"
    /\ Fits
    /\ LET node == order[cursor + 1] IN
         /\ chunk' = Append(chunk, node)
         /\ estimated' = Min({Top, estimated + Size[node]})
    /\ cursor' = cursor + 1
    /\ UNCHANGED <<input, pc, orderVars, freed>>

\* The chunk is deleted; what that frees need not match the narSizes.  An empty
\* chunk would end the loop.
EndChunk ==
    /\ pc = "take"
    /\ ~Fits
    /\ freed' \in freed..Top
    /\ chunk' = <<>> /\ estimated' = 0
    /\ pc' = IF chunk = <<>> THEN "done" ELSE "loop"
    /\ UNCHANGED <<input, orderVars, cursor>>

Stop ==
    /\ pc = "loop"
    /\ cursor = Len(order) \/ freed >= maxFreed
    /\ pc' = "done"
    /\ UNCHANGED <<input, orderVars, chunkVars>>

Done == pc = "done" /\ UNCHANGED vars

Next == CountReferrers \/ Peel \/ AppendTail \/ BeginChunk \/ Take \/ EndChunk \/ Stop \/ Done

Spec == Init /\ [][Next]_vars

-------------------------------------------------------------------------------
Taken(k) == ToSet(SubSeq(order, 1, k))

TypeOK ==
    /\ mult \in [Node -> [Node -> 0..MaxMult]]
    /\ alive \subseteq Node
    /\ maxChunk \in Nat \ {0} /\ maxFreed \in 0..Top
    /\ pc \in {"count", "peel", "loop", "take", "done"}
    /\ inDegree \in [Node -> Nat]
    /\ order \in Seq(Dead) /\ IsInjective(order)
    /\ head \in 0..Len(order) /\ acyclicLen \in 0..Len(order) /\ cursor \in 0..Len(order)
    /\ chunk = SubSeq(order, cursor - Len(chunk) + 1, cursor)
    /\ estimated \in 0..Top /\ freed \in 0..Top

\* The comment above the algorithm: "still-valid paths never reference an
\* already-deleted one".  Every node of the acyclic part comes after all its dead
\* referrers, the rest is exactly what keeps itself alive, and nothing is lost
\* or listed twice.
ReferrersFirst ==
    pc \in {"loop", "take", "done"} =>
        /\ Taken(Len(order)) = Dead
        /\ Dead \ Taken(acyclicLen) = CyclicTail(Edge, Dead)
        /\ \A i \in 1..acyclicLen : Referrers(Edge, Dead, order[i]) \subseteq Taken(i - 1)

\* A chunk of the acyclic part runs past what --max-freed leaves by one path at
\* most: without its last path the estimate is still below it.
BudgetKept ==
    pc = "take" /\ chunk # <<>> /\ ~TakeAll =>
        Total(Size, Top, ToSet(Front(chunk))) < maxFreed - freed

\* A chunk that is begun gets at least one node, so the loop's
\* chunk.is_empty() exit is never what ends it.
ChunkNeverEmpty == pc = "take" /\ chunk = <<>> => Fits

\* The queue and the cursor implement the chunked sweep: a chunk may be
\* committed on its own, and cycles go whole.
Sweep == INSTANCE ChunkedSweep WITH
    refs  <- Edge,
    dead  <- Dead,
    bound <- maxChunk,
    todo  <- Dead \ Taken(cursor - Len(chunk))

SweepSpec == Sweep!Spec
===============================================================================
