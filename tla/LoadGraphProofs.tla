---------------------------- MODULE LoadGraphProofs ----------------------------
(***************************************************************************)
(* compute_closure is right for every graph and every set of roots, and so *)
(* is load_graph, whose arrays it walks: for every database, in whatever   *)
(* order SQLite returns the rows, whatever Nix commits in between.         *)
(***************************************************************************)
EXTENDS LoadGraph, FiniteSetTheorems, FunctionTheorems, TLAPS

(***************************************************************************)
(* Closures.                                                               *)
(***************************************************************************)
LEMMA ClosureType ==
    ASSUME NEW N, NEW E \in [N -> SUBSET N], NEW R
    PROVE  Closure(E, R) \subseteq N
  BY DEF Closure

LEMMA ClosureHasRoots ==
    ASSUME NEW N, NEW E \in [N -> SUBSET N], NEW R \in SUBSET N
    PROVE  R \subseteq Closure(E, R)
  BY DEF Closure

LEMMA ClosureIsClosed ==
    ASSUME NEW N, NEW E \in [N -> SUBSET N], NEW R
    PROVE  IsClosed(E, Closure(E, R))
<1> SUFFICES ASSUME NEW n \in Closure(E, R), NEW m \in E[n],
                    NEW C \in SUBSET N, R \subseteq C, IsClosed(E, C)
             PROVE  m \in C
  BY ClosureType DEF Closure, IsClosed
<1>1. n \in C
  BY DEF Closure
<1> QED
  BY <1>1 DEF IsClosed

LEMMA ClosureIsLeast ==
    ASSUME NEW N, NEW E \in [N -> SUBSET N], NEW R,
           NEW C \in SUBSET N, R \subseteq C, IsClosed(E, C)
    PROVE  Closure(E, R) \subseteq C
  BY DEF Closure

\* Nodes without edges, in or out, make no difference to a closure.
LEMMA ClosureOfPart ==
    ASSUME NEW N, NEW V \in SUBSET N, NEW F \in [V -> SUBSET V],
           NEW E \in [N -> SUBSET N],
           \A n \in N : E[n] = IF n \in V THEN F[n] ELSE {},
           NEW R \in SUBSET V
    PROVE  Closure(E, R) = Closure(F, R)
<1>1. /\ Closure(F, R) \in SUBSET V /\ R \subseteq Closure(F, R)
      /\ IsClosed(F, Closure(F, R))
  BY ClosureType, ClosureHasRoots, ClosureIsClosed
<1>2. IsClosed(E, Closure(F, R))
  BY <1>1 DEF IsClosed
<1>3. Closure(E, R) \subseteq Closure(F, R)
  BY <1>1, <1>2, ClosureIsLeast
<1>4. /\ R \subseteq Closure(E, R) \cap V
      /\ IsClosed(E, Closure(E, R))
  BY ClosureHasRoots, ClosureIsClosed
<1>5. IsClosed(F, Closure(E, R) \cap V)
  BY <1>4 DEF IsClosed
<1>6. Closure(F, R) \subseteq Closure(E, R) \cap V
  BY <1>4, <1>5, ClosureIsLeast
<1> QED
  BY <1>3, <1>6

(***************************************************************************)
(* The walk.                                                               *)
(***************************************************************************)
LEMMA PopKeepsWalkInv == ASSUME WalkInv, NEW n \in Node, Pop(n) PROVE WalkInv'
<1> USE DEF WalkInv
<1>1. /\ edge' = edge /\ roots' = roots
      /\ alive' = alive \cup edge[n]
      /\ stack' = (stack \ {n}) \cup (edge[n] \ alive)
      /\ n \in stack
  BY DEF Pop
<1>2. TypeOK' /\ (stack \subseteq alive)' /\ (roots \subseteq alive)'
  BY <1>1 DEF TypeOK
<1>3. ScannedIsClosed'
  BY <1>1 DEF ScannedIsClosed
<1>4. OnlyReachable'
  <2>1. n \in Closure(edge, roots)
    BY <1>1 DEF OnlyReachable
  <2>2. edge[n] \subseteq Closure(edge, roots)
    BY <2>1, ClosureIsClosed DEF IsClosed, TypeOK
  <2> QED
    BY <1>1, <2>2 DEF OnlyReachable
<1> QED
  BY <1>2, <1>3, <1>4

LEMMA WalkStutters == ASSUME WalkInv, UNCHANGED vars PROVE WalkInv'
  BY DEF WalkInv, vars, TypeOK, ScannedIsClosed, OnlyReachable

\* The walk begins with its roots marked and nothing else.
LEMMA WalkBegins ==
    ASSUME edge \in [Node -> SUBSET Node], roots \in SUBSET Node, alive = roots, stack = roots
    PROVE  WalkInv
<1>1. roots \subseteq Closure(edge, roots)
  BY ClosureHasRoots
<1> QED
  BY <1>1 DEF WalkInv, TypeOK, ScannedIsClosed, OnlyReachable

\* Whatever is marked is reachable, and nothing marked is forgotten: the walk's
\* inductive invariant.
LEMMA WalkInvInductive == Spec => []WalkInv
<1>1. Init => WalkInv
  BY WalkBegins DEF Init
<1>2. WalkInv /\ [Next]_vars => WalkInv'
  BY PopKeepsWalkInv, WalkStutters DEF Next, Returned
<1> QED
  BY <1>1, <1>2, PTL DEF Spec

LEMMA EmptyStackIsClosure == WalkInv => WalkIsClosure
<1> SUFFICES ASSUME WalkInv, stack = {} PROVE alive = Closure(edge, roots)
  BY DEF WalkIsClosure
<1>1. IsClosed(edge, alive)
  BY DEF WalkInv, ScannedIsClosed, IsClosed
<1>2. Closure(edge, roots) \subseteq alive
  BY <1>1, ClosureIsLeast DEF WalkInv, TypeOK
<1> QED
  BY <1>2 DEF WalkInv, OnlyReachable

\* compute_closure returns the nodes reachable from its roots, no more and no
\* fewer, in whatever order it pops them.
THEOREM WalkComputesClosure == Spec => []WalkIsClosure
  BY EmptyStackIsClosure, WalkInvInductive, PTL

(***************************************************************************)
(* The CSR arrays: a counting sort of the edges by their first node.       *)
(***************************************************************************)
EdgesTyped == edges \in Seq((1..Len(paths)) \X (1..Len(paths))) /\ Len(paths) \in Nat

Place(e) == RefOffset(edges[e][1]) + Cardinality({ f \in 1..e : edges[f][1] = edges[e][1] })

\* The edges that go before e in the arrays, and e.
UpTo(e) == { f \in DOMAIN edges : \/ edges[f][1] < edges[e][1]
                                  \/ edges[f][1] = edges[e][1] /\ f <= e }
Below(i) == { k \in DOMAIN edges : edges[k][1] < i }

LEMMA EdgeFacts ==
    ASSUME EdgesTyped
    PROVE  /\ Len(edges) \in Nat /\ DOMAIN edges = 1..Len(edges)
           /\ IsFiniteSet(DOMAIN edges) /\ Cardinality(DOMAIN edges) = Len(edges)
           /\ \A k \in DOMAIN edges : /\ edges[k] \in (1..Len(paths)) \X (1..Len(paths))
                                      /\ edges[k][1] \in Nat /\ edges[k][2] \in 1..Len(paths)
<1>1. Len(edges) \in Nat /\ DOMAIN edges = 1..Len(edges)
  BY DEF EdgesTyped
<1>2. \A k \in 1..Len(edges) : edges[k] \in (1..Len(paths)) \X (1..Len(paths))
  BY DEF EdgesTyped
<1>3. IsFiniteSet(DOMAIN edges) /\ Cardinality(DOMAIN edges) = Len(edges)
  <2>1. 1 \in Int /\ Len(edges) \in Int
    BY <1>1
  <2>2. IsFiniteSet(1..Len(edges)) /\ Cardinality(1..Len(edges)) = IF 1 > Len(edges) THEN 0 ELSE Len(edges) - 1 + 1
    BY <2>1, FS_Interval
  <2> QED
    BY <1>1, <2>2
<1>4. \A x \in (1..Len(paths)) \X (1..Len(paths)) : x[1] \in Nat /\ x[2] \in 1..Len(paths)
  OBVIOUS
<1> QED
  BY <1>1, <1>2, <1>3, <1>4

LEMMA OffsetFacts ==
    ASSUME EdgesTyped, NEW i
    PROVE  /\ IsFiniteSet(Below(i)) /\ RefOffset(i) = Cardinality(Below(i))
           /\ RefOffset(i) \in Nat /\ RefOffset(i) <= Len(edges)
<1>1. Below(i) \subseteq DOMAIN edges
  BY DEF Below
<1>2. IsFiniteSet(Below(i)) /\ Cardinality(Below(i)) <= Len(edges)
  BY <1>1, EdgeFacts, FS_Subset
<1> QED
  BY <1>2, FS_CardinalityType DEF RefOffset, Below

LEMMA PlaceIsRank ==
    ASSUME EdgesTyped, NEW e \in DOMAIN edges
    PROVE  /\ IsFiniteSet(UpTo(e)) /\ Place(e) = Cardinality(UpTo(e))
           /\ Place(e) \in 1..Len(edges)
<1> DEFINE A == Below(edges[e][1])
           B == { f \in 1..e : edges[f][1] = edges[e][1] }
<1>1. /\ Len(edges) \in Nat /\ DOMAIN edges = 1..Len(edges)
      /\ IsFiniteSet(DOMAIN edges) /\ Cardinality(DOMAIN edges) = Len(edges)
      /\ \A k \in DOMAIN edges : edges[k][1] \in Nat
  BY EdgeFacts
<1>2. A \cap B = {}
  BY <1>1 DEF Below
<1>3. B = { f \in DOMAIN edges : edges[f][1] = edges[e][1] /\ f <= e }
  BY <1>1
<1>4. UpTo(e) = A \cup B
  BY <1>3 DEF UpTo, Below
<1>5. UpTo(e) \in SUBSET DOMAIN edges /\ A \in SUBSET DOMAIN edges /\ B \in SUBSET DOMAIN edges
  BY <1>3 DEF UpTo, Below
<1>6. e \in UpTo(e)
  BY <1>1 DEF UpTo
<1> HIDE DEF A, B
<1>7. /\ IsFiniteSet(UpTo(e)) /\ IsFiniteSet(A) /\ IsFiniteSet(B)
      /\ Cardinality(UpTo(e)) <= Len(edges)
  BY <1>1, <1>5, FS_Subset
<1>8. /\ Cardinality(A) \in Nat /\ Cardinality(B) \in Nat /\ Cardinality(UpTo(e)) \in Nat
      /\ Cardinality(UpTo(e)) # 0
  BY <1>6, <1>7, FS_CardinalityType, FS_EmptySet
<1>9. Cardinality(A \cup B) = Cardinality(A) + Cardinality(B) - Cardinality(A \cap B)
  BY <1>7, FS_Union
<1>10. Cardinality(A \cap B) = 0
  BY <1>2, FS_EmptySet
<1>11. Place(e) = Cardinality(A) + Cardinality(B)
  BY OffsetFacts DEF Place, A, B
<1> QED
  BY <1>1, <1>4, <1>7, <1>8, <1>9, <1>10, <1>11

\* The one of two edges that comes first has the smaller place.
LEMMA PlacesDiffer ==
    ASSUME EdgesTyped, NEW a \in DOMAIN edges, NEW b \in DOMAIN edges, a # b
    PROVE  Place(a) # Place(b)
<1>1. /\ DOMAIN edges \subseteq Nat
      /\ \A k \in DOMAIN edges : edges[k][1] \in Nat
  BY EdgeFacts
<1>2. ASSUME NEW x \in DOMAIN edges, NEW y \in DOMAIN edges,
             edges[x][1] < edges[y][1] \/ (edges[x][1] = edges[y][1] /\ x < y)
      PROVE  Place(x) # Place(y)
  <2>1. y \notin UpTo(x) /\ y \in UpTo(y)
    BY <1>1, <1>2 DEF UpTo
  <2>2. ASSUME NEW f \in UpTo(x) PROVE f \in UpTo(y)
    <3>1. /\ f \in DOMAIN edges /\ f \in Nat /\ x \in Nat /\ y \in Nat
          /\ edges[f][1] \in Nat /\ edges[x][1] \in Nat /\ edges[y][1] \in Nat
      BY <1>1 DEF UpTo
    <3>2. edges[f][1] < edges[x][1] \/ (edges[f][1] = edges[x][1] /\ f <= x)
      BY DEF UpTo
    <3>3. edges[f][1] < edges[y][1] \/ (edges[f][1] = edges[y][1] /\ f <= y)
      BY <1>2, <3>1, <3>2
    <3> QED
      BY <3>1, <3>3 DEF UpTo
  <2>3. UpTo(x) \in SUBSET UpTo(y) /\ UpTo(x) # UpTo(y)
    BY <2>1, <2>2
  <2>4. Cardinality(UpTo(x)) # Cardinality(UpTo(y))
    BY <2>3, PlaceIsRank, FS_Subset
  <2> QED
    BY <2>4, PlaceIsRank
<1>3. \/ edges[a][1] < edges[b][1] \/ (edges[a][1] = edges[b][1] /\ a < b)
      \/ edges[b][1] < edges[a][1] \/ (edges[b][1] = edges[a][1] /\ b < a)
  BY <1>1
<1> QED
  BY <1>2, <1>3

\* Every place of the targets array is taken by one edge.
LEMMA PlacesFilled ==
    ASSUME EdgesTyped
    PROVE  \A j \in 1..Len(edges) : \E e \in DOMAIN edges : Place(e) = j
<1> DEFINE D == DOMAIN edges
           P == 1..Len(edges)
           place == [e \in D |-> Place(e)]
<1>1. IsFiniteSet(D) /\ Cardinality(D) = Len(edges) /\ D = P
  BY EdgeFacts
<1>2. place \in [D -> P]
  BY PlaceIsRank
<1>3. \A a, b \in D : place[a] = place[b] => a = b
  BY PlacesDiffer
<1> HIDE DEF D, P
<1>4. place \in Injection(D, P)
  BY <1>2, <1>3, Fun_IsInj
<1>5. place \in Surjection(D, P)
  BY <1>1, <1>4, FS_Injection
<1>6. \A j \in P : \E e \in D : place[e] = j
  BY <1>5 DEF Surjection
<1> QED
  BY <1>6 DEF D, P

\* The slice of the targets array that belongs to a node has the targets of its edges.
LEMMA RefsOfIsTargets ==
    ASSUME EdgesTyped, NEW i \in Nat
    PROVE  RefsOf(i) = { edges[k][2] : k \in { e \in DOMAIN edges : edges[e][1] = i } }
<1>1. /\ Len(edges) \in Nat /\ DOMAIN edges = 1..Len(edges)
      /\ \A k \in DOMAIN edges : edges[k][1] \in Nat
  BY EdgeFacts
<1> DEFINE slice == (RefOffset(i) + 1)..RefOffset(i + 1)
<1>2. /\ RefOffset(i) \in Nat /\ RefOffset(i + 1) \in Nat /\ RefOffset(i + 1) <= Len(edges)
  BY OffsetFacts
<1>3. slice \subseteq 1..Len(edges)
  BY <1>1, <1>2
\* An edge is in the slice of its first node and in no other.
<1>4. ASSUME NEW e \in DOMAIN edges
      PROVE  Place(e) \in slice <=> edges[e][1] = i
  <2>1. Place(e) = Cardinality(UpTo(e)) /\ IsFiniteSet(UpTo(e)) /\ Place(e) \in Nat
    BY <1>1, PlaceIsRank
  <2>2. \A k : RefOffset(k) = Cardinality(Below(k)) /\ IsFiniteSet(Below(k))
    BY OffsetFacts
  <2>3. CASE edges[e][1] < i
    <3>1. UpTo(e) \subseteq Below(i)
      <4> SUFFICES ASSUME NEW f \in UpTo(e) PROVE f \in Below(i)
        OBVIOUS
      <4>1. f \in DOMAIN edges /\ edges[f][1] \in Nat /\ edges[e][1] \in Nat /\ edges[f][1] <= edges[e][1]
        BY <1>1 DEF UpTo
      <4>2. edges[f][1] < i
        BY <2>3, <4>1
      <4> QED
        BY <4>1, <4>2 DEF Below
    <3>2. Place(e) <= RefOffset(i)
      BY <2>1, <2>2, <3>1, FS_Subset
    <3> QED
      BY <1>2, <2>1, <2>3, <3>2
  <2>4. CASE edges[e][1] = i
    <3>1. Below(i) \subseteq UpTo(e) /\ e \in UpTo(e) /\ e \notin Below(i)
      BY <1>1, <2>4 DEF UpTo, Below
    <3>2. Cardinality(Below(i)) <= Cardinality(UpTo(e)) /\ Cardinality(Below(i)) # Cardinality(UpTo(e))
      BY <2>1, <2>2, <3>1, FS_Subset
    <3>3. UpTo(e) \subseteq Below(i + 1)
      BY <1>1, <2>4 DEF UpTo, Below
    <3>4. Cardinality(UpTo(e)) <= Cardinality(Below(i + 1))
      BY <2>2, <3>3, FS_Subset
    <3> QED
      BY <1>2, <2>1, <2>2, <2>4, <3>2, <3>4
  <2>5. CASE i < edges[e][1]
    <3>1. Below(i + 1) \subseteq UpTo(e) /\ e \in UpTo(e) /\ e \notin Below(i + 1)
      <4>1. \A f \in DOMAIN edges : edges[f][1] < i + 1 => edges[f][1] < edges[e][1]
        BY <1>1, <2>5
      <4>2. ~(edges[e][1] < i + 1) /\ e <= e
        BY <1>1, <2>5
      <4> QED
        BY <4>1, <4>2 DEF UpTo, Below
    <3>2. /\ Cardinality(Below(i + 1)) <= Cardinality(UpTo(e))
          /\ Cardinality(Below(i + 1)) # Cardinality(UpTo(e))
      BY <2>1, <2>2, <3>1, FS_Subset
    <3> QED
      BY <1>2, <2>1, <2>2, <2>5, <3>2
  <2> QED
    BY <1>1, <2>3, <2>4, <2>5
<1>5. ASSUME NEW j \in slice
      PROVE  \E e \in DOMAIN edges : Place(e) = j /\ edges[e][1] = i /\ RefTargets[j] = edges[e][2]
  <2> DEFINE k == CHOOSE e \in DOMAIN edges : j = Place(e)
  <2>1. j \in 1..Len(edges)
    BY <1>3
  <2>2. k \in DOMAIN edges /\ j = Place(k)
    BY <2>1, PlacesFilled
  <2>3. RefTargets[j] = edges[k][2]
    BY <2>1 DEF RefTargets, Place
  <2> HIDE DEF k
  <2> QED
    BY <1>4, <2>2, <2>3
<1>6. ASSUME NEW e \in DOMAIN edges, edges[e][1] = i
      PROVE  \E j \in slice : RefTargets[j] = edges[e][2]
  <2>1. Place(e) \in slice
    BY <1>4, <1>6
  <2>2. PICK f \in DOMAIN edges : Place(f) = Place(e) /\ RefTargets[Place(e)] = edges[f][2]
    BY <1>5, <2>1
  <2>3. f = e
    BY <2>2, PlacesDiffer
  <2> QED
    BY <2>1, <2>2, <2>3
<1>7. RefsOf(i) = { RefTargets[j] : j \in slice }
  BY DEF RefsOf
<1> HIDE DEF slice
<1> QED
  BY <1>5, <1>6, <1>7

(***************************************************************************)
(* The loading.                                                            *)
(***************************************************************************)
Rows == [ refs     |-> snap.refs,
          derivers |-> IF settings.derivations THEN ByDeriver ELSE {},
          outputs  |-> IF settings.outputs THEN ValidOutputs(snap.outputs) ELSE {},
          drvs     |-> IF settings.outputs THEN Swap(ByDeriver) ELSE {},
          trace    |-> IF settings.outputs THEN snap.trace ELSE {} ]

\* The rows of the queries that are done.
Queried ==
    CASE pc = "refs"     -> {}
      [] pc = "derivers" -> Rows.refs
      [] pc = "outputs"  -> Rows.refs \cup Rows.derivers
      [] pc = "drvs"     -> Rows.refs \cup Rows.derivers \cup Rows.outputs
      [] pc = "trace"    -> Rows.refs \cup Rows.derivers \cup Rows.outputs \cup Rows.drvs
      [] OTHER           -> Rows.refs \cup Rows.derivers \cup Rows.outputs \cup Rows.drvs
                              \cup Rows.trace

ValidPairs == snap.valid \X snap.valid

\* The edges read so far, as pairs of paths.
EdgesRead == { <<paths[edges[k][1]], paths[edges[k][2]]>> : k \in DOMAIN edges }

\* The graph Nix's rules make of the snapshot.
KeptOf == [p \in snap.valid |-> { q \in snap.valid : Keeps(p, q) }]

LoadingInv ==
    /\ Consistent(db)
    /\ settings \in [derivations : BOOLEAN, outputs : BOOLEAN]
    /\ pc \in {"nodes", "refs", "derivers", "outputs", "drvs", "trace", "csr", "walk", "done"}
    /\ pc = "nodes" => paths = <<>> /\ edges = <<>>
    /\ pc # "nodes" =>
         /\ Consistent(snap)
         /\ paths \in SetToSeqs(snap.valid)
         /\ EdgesTyped
         /\ EdgesRead = Queried \cap ValidPairs
    /\ pc \in {"walk", "done"} =>
         /\ roots \subseteq snap.valid
         /\ \A n \in Node : edge[n] = IF n \in snap.valid THEN KeptOf[n] ELSE {}
    /\ pc = "done" => stack = {}

IInv == LoadingInv /\ WalkInv

\* The columns hold what they are declared to.
LEMMA ConsistentPairs ==
    ASSUME NEW d, Consistent(d)
    PROVE  /\ d.valid \in SUBSET Node /\ IsFiniteSet(d.valid)
           /\ d.refs \in SUBSET Pairs /\ d.outputs \in SUBSET Pairs /\ d.trace \in SUBSET Pairs
           /\ d.refs \subseteq d.valid \X d.valid
           /\ d.deriver \in [d.valid -> Node \cup {NoDeriver}]
<1>1. d.valid \in SUBSET Node
  BY DEF Consistent
<1>2. IsFiniteSet(d.valid)
  BY <1>1, NodeFinite, FS_Subset
<1> QED
  BY <1>1, <1>2 DEF Consistent, Pairs

\* A listing of a finite set, by positions.
LEMMA ListingFacts ==
    ASSUME NEW S, IsFiniteSet(S), NEW s \in SetToSeqs(S)
    PROVE  /\ s \in Seq(S) /\ Len(s) \in Nat /\ DOMAIN s = 1..Len(s)
           /\ \A i \in DOMAIN s : s[i] \in S
           /\ \A i, j \in DOMAIN s : s[i] = s[j] => i = j
           /\ \A m \in S : \E i \in DOMAIN s : s[i] = m
<1> DEFINE D == 1..Cardinality(S)
<1>1. Cardinality(S) \in Nat
  BY FS_CardinalityType
<1>2. s \in [D -> S] /\ \A i, j \in D : s[i] = s[j] => i = j
  BY DEF SetToSeqs
<1>3. s \in Seq(S) /\ Len(s) = Cardinality(S) /\ DOMAIN s = D
  BY <1>1, <1>2
<1>4. Cardinality(D) = Cardinality(S) /\ IsFiniteSet(D)
  BY <1>1, FS_Interval
<1>5. s \in Injection(D, S)
  BY <1>2, Fun_IsInj
<1>6. s \in Surjection(D, S)
  <2> HIDE DEF D
  <2> QED
    BY <1>4, <1>5, FS_Injection
<1>7. \A m \in S : \E i \in D : s[i] = m
  BY <1>6 DEF Surjection
<1> QED
  BY <1>1, <1>2, <1>3, <1>7

\* A path of the snapshot has its index.
LEMMA IndexFacts ==
    ASSUME Consistent(snap), paths \in SetToSeqs(snap.valid), NEW p
    PROVE  /\ IsNode(p) <=> p \in snap.valid
           /\ IsNode(p) => Index(p) \in 1..Len(paths) /\ paths[Index(p)] = p
           /\ \A i \in 1..Len(paths) : paths[i] \in snap.valid /\ Index(paths[i]) = i
           /\ Len(paths) \in Nat /\ DOMAIN paths = 1..Len(paths)
<1>1. /\ Len(paths) \in Nat /\ DOMAIN paths = 1..Len(paths)
      /\ \A i \in DOMAIN paths : paths[i] \in snap.valid
      /\ \A i, j \in DOMAIN paths : paths[i] = paths[j] => i = j
      /\ \A m \in snap.valid : \E i \in DOMAIN paths : paths[i] = m
  BY ConsistentPairs, ListingFacts
<1>2. IsNode(p) <=> p \in snap.valid
  BY <1>1 DEF IsNode
<1>3. IsNode(p) => Index(p) \in 1..Len(paths) /\ paths[Index(p)] = p
  BY <1>1 DEF IsNode, Index
<1>4. \A i \in 1..Len(paths) : paths[i] \in snap.valid /\ Index(paths[i]) = i
  BY <1>1 DEF Index
<1> QED
  BY <1>1, <1>2, <1>3, <1>4

LEMMA JoinedSeqs ==
    ASSUME NEW S, NEW s \in Seq(S), NEW t \in Seq(S)
    PROVE  /\ s \o t \in Seq(S) /\ DOMAIN (s \o t) = 1..(Len(s) + Len(t))
           /\ \A k \in 1..Len(s) : (s \o t)[k] = s[k]
           /\ \A k \in 1..Len(t) : (s \o t)[Len(s) + k] = t[k]
<1>1. /\ s \o t \in Seq(S) /\ Len(s \o t) = Len(s) + Len(t)
      /\ Len(s) \in Nat /\ Len(t) \in Nat
      /\ \A i \in 1..(Len(s) + Len(t)) :
            (s \o t)[i] = IF i <= Len(s) THEN s[i] ELSE t[i - Len(s)]
  OBVIOUS
<1>2. DOMAIN (s \o t) = 1..(Len(s) + Len(t))
  BY <1>1
<1>3. \A k \in 1..Len(s) : (s \o t)[k] = s[k]
  BY <1>1
<1>4. ASSUME NEW k \in 1..Len(t) PROVE (s \o t)[Len(s) + k] = t[k]
  <2>1. Len(s) + k \in 1..(Len(s) + Len(t)) /\ ~(Len(s) + k <= Len(s)) /\ Len(s) + k - Len(s) = k
    BY <1>1
  <2> QED
    BY <1>1, <2>1
<1> QED
  BY <1>1, <1>2, <1>3, <1>4

(***************************************************************************)
(* A query adds its rows, and nothing else.                                *)
(***************************************************************************)
LEMMA AddedEdges ==
    ASSUME Consistent(snap), paths \in SetToSeqs(snap.valid), EdgesTyped,
           NEW rows \in SUBSET Pairs, AddEdges(rows), paths' = paths
    PROVE  EdgesTyped' /\ EdgesRead' = EdgesRead \cup (rows \cap ValidPairs)
<1> DEFINE known == { r \in rows : IsNode(r[1]) /\ IsNode(r[2]) }
           list  == Listed(known)
           new   == [k \in DOMAIN list |-> <<Index(list[k][1]), Index(list[k][2])>>]
           Idx   == 1..Len(paths)
<1>1. known = rows \cap ValidPairs
  <2>1. \A r \in rows : r = <<r[1], r[2]>>
    BY DEF Pairs
  <2>2. \A r \in rows : r \in ValidPairs <=> r[1] \in snap.valid /\ r[2] \in snap.valid
    BY <2>1 DEF ValidPairs
  <2> QED
    BY <2>2, IndexFacts
<1>2. IsFiniteSet(known)
  <2>1. IsFiniteSet(Pairs)
    BY NodeFinite, FS_Product DEF Pairs
  <2> QED
    BY <2>1, FS_Subset
<1>3. list \in SetToSeqs(known)
  <2>1. known \in (SUBSET Node) \cup (SUBSET Pairs)
    OBVIOUS
  <2>2. \A T \in (SUBSET Node) \cup (SUBSET Pairs) : Listed(T) \in SetToSeqs(T)
    BY ListedAssumption
  <2> HIDE DEF known
  <2> QED
    BY <2>1, <2>2
<1> HIDE DEF known
<1>4. /\ list \in Seq(known) /\ Len(list) \in Nat /\ DOMAIN list = 1..Len(list)
      /\ \A k \in DOMAIN list : list[k] \in known
      /\ \A r \in known : \E k \in DOMAIN list : list[k] = r
  BY <1>2, <1>3, ListingFacts
<1>5. ASSUME NEW r \in known
      PROVE  /\ IsNode(r[1]) /\ IsNode(r[2]) /\ r = <<r[1], r[2]>>
             /\ Index(r[1]) \in Idx /\ Index(r[2]) \in Idx
             /\ paths[Index(r[1])] = r[1] /\ paths[Index(r[2])] = r[2]
  <2>1. IsNode(r[1]) /\ IsNode(r[2]) /\ r = <<r[1], r[2]>>
    BY DEF known, Pairs
  <2> QED
    BY <2>1, IndexFacts
<1> HIDE DEF list
<1>6. new \in Seq(Idx \X Idx) /\ Len(new) = Len(list) /\ DOMAIN new = 1..Len(list)
  BY <1>4, <1>5
<1>7. \A k \in 1..Len(list) : new[k] = <<Index(list[k][1]), Index(list[k][2])>>
  BY <1>4
<1>8. edges' = edges \o new
  BY DEF AddEdges, list, known
<1> HIDE DEF new
<1>9. edges \in Seq(Idx \X Idx) /\ Len(edges) \in Nat /\ DOMAIN edges = 1..Len(edges)
  BY DEF EdgesTyped
<1>10. /\ edges' \in Seq(Idx \X Idx) /\ DOMAIN edges' = 1..(Len(edges) + Len(list))
       /\ \A k \in 1..Len(edges) : edges'[k] = edges[k]
       /\ \A k \in 1..Len(list) : edges'[Len(edges) + k] = new[k]
  <2>1. new \in Seq(Idx \X Idx) /\ Len(new) = Len(list)
    BY <1>6
  <2> DEFINE S == Idx \X Idx
             u == edges \o new
  <2>2. edges \in Seq(S) /\ new \in Seq(S)
    BY <1>9, <2>1
  <2> HIDE DEF S
  <2>3. /\ u \in Seq(S) /\ DOMAIN u = 1..(Len(edges) + Len(new))
        /\ \A k \in 1..Len(edges) : u[k] = edges[k]
        /\ \A k \in 1..Len(new) : u[Len(edges) + k] = new[k]
    BY <2>2, JoinedSeqs
  <2> HIDE DEF u
  <2>4. edges' = u
    BY <1>8 DEF u
  <2> QED
    BY <2>1, <2>3, <2>4 DEF S
<1>11. EdgesTyped'
  BY <1>10 DEF EdgesTyped
<1> DEFINE pair(e) == <<paths[e[1]], paths[e[2]]>>
<1>12. \A k \in 1..Len(list) : pair(new[k]) = list[k]
  BY <1>4, <1>5, <1>7
<1>13. EdgesRead' = { pair(edges'[k]) : k \in 1..(Len(edges) + Len(list)) }
  BY <1>10 DEF EdgesRead
<1>14. EdgesRead = { pair(edges[k]) : k \in 1..Len(edges) }
  BY <1>9 DEF EdgesRead
<1>15. known = { pair(new[k]) : k \in 1..Len(list) }
  BY <1>4, <1>12
<1> HIDE DEF pair
<1>16. \A k \in 1..Len(edges) : k \in 1..(Len(edges) + Len(list))
  BY <1>4, <1>9
<1>17. \A k \in 1..Len(list) : Len(edges) + k \in 1..(Len(edges) + Len(list))
  BY <1>4, <1>9
<1>18. \A k \in 1..(Len(edges) + Len(list)) :
          k \in 1..Len(edges) \/ \E j \in 1..Len(list) : k = Len(edges) + j
  <2> SUFFICES ASSUME NEW k \in 1..(Len(edges) + Len(list)), k \notin 1..Len(edges)
               PROVE  \E j \in 1..Len(list) : k = Len(edges) + j
    OBVIOUS
  <2>1. k - Len(edges) \in 1..Len(list) /\ k = Len(edges) + (k - Len(edges))
    BY <1>4, <1>9
  <2> QED
    BY <2>1
<1>19. EdgesRead' = EdgesRead \cup known
  <2>1. \A k \in 1..Len(edges) : pair(edges[k]) \in EdgesRead'
    BY <1>10, <1>13, <1>16
  <2>2. \A k \in 1..Len(list) : pair(new[k]) \in EdgesRead'
    BY <1>10, <1>13, <1>17
  <2>3. EdgesRead \cup known \subseteq EdgesRead'
    BY <1>14, <1>15, <2>1, <2>2
  <2>4. ASSUME NEW k \in 1..(Len(edges) + Len(list))
        PROVE  pair(edges'[k]) \in EdgesRead \cup known
    <3>1. CASE k \in 1..Len(edges)
      BY <1>10, <1>14, <3>1
    <3>2. ASSUME NEW j \in 1..Len(list), k = Len(edges) + j
          PROVE  pair(edges'[k]) \in EdgesRead \cup known
      <4>1. edges'[k] = new[j]
        BY <1>10, <3>2
      <4> QED
        BY <1>15, <4>1
    <3> QED
      BY <1>18, <3>1, <3>2
  <2> QED
    BY <1>13, <2>3, <2>4
<1> QED
  BY <1>1, <1>11, <1>19

(***************************************************************************)
(* The steps.                                                              *)
(***************************************************************************)
LEMMA SnapshotFrame ==
    ASSUME pc # "nodes", pc' # "nodes", UNCHANGED <<snap, settings>>
    PROVE  /\ Rows' = Rows /\ ValidPairs' = ValidPairs /\ KeptOf' = KeptOf
           /\ Consistent(snap)' = Consistent(snap)
<1>1. Visible' = snap /\ Visible = snap
  BY DEF Visible
<1>2. ByDeriver' = ByDeriver
  BY <1>1 DEF ByDeriver
<1>3. ValidOutputs(snap.outputs)' = ValidOutputs(snap.outputs)
  BY <1>1 DEF ValidOutputs
<1>4. Swap(ByDeriver)' = Swap(ByDeriver)
  BY <1>2 DEF Swap
<1>5. Rows' = Rows
  BY <1>2, <1>3, <1>4 DEF Rows
<1>6. KeptOf' = KeptOf
  BY DEF KeptOf, Keeps
<1> QED
  BY <1>5, <1>6 DEF ValidPairs, Consistent

LEMMA LoadInitInv == LoadInit => IInv
<1> SUFFICES ASSUME LoadInit PROVE IInv
  OBVIOUS
<1>1. WalkInv
  BY WalkBegins DEF LoadInit
<1>2. LoadingInv
  BY DEF LoadInit, LoadingInv
<1> QED
  BY <1>1, <1>2 DEF IInv

LEMMA NodesStep == ASSUME IInv, LoadNodes PROVE IInv'
<1>1. /\ pc = "nodes" /\ pc' = "refs" /\ snap' = db
      /\ paths' = Listed(db.valid)
      /\ UNCHANGED <<db, settings, edges, commits, vars>>
  BY DEF LoadNodes, Visible
<1>2. Consistent(db) /\ edges = <<>> /\ settings \in [derivations : BOOLEAN, outputs : BOOLEAN]
  BY <1>1 DEF IInv, LoadingInv
<1>3. paths' \in SetToSeqs(db.valid)
  BY <1>1, <1>2, ConsistentPairs, ListedAssumption
<1>4. paths' \in Seq(db.valid)
  BY <1>2, <1>3, ConsistentPairs, ListingFacts
<1>5. EdgesTyped'
  <2>1. Len(paths') \in Nat
    BY <1>4
  <2>2. edges' = <<>>
    BY <1>1, <1>2
  <2> QED
    BY <2>1, <2>2 DEF EdgesTyped
<1>6. EdgesRead' = {} /\ Queried' = {}
  BY <1>1, <1>2 DEF EdgesRead, Queried
<1>7. LoadingInv'
  BY <1>1, <1>2, <1>3, <1>5, <1>6 DEF LoadingInv
<1> QED
  BY <1>1, <1>7, WalkStutters DEF IInv

\* The five queries ask for pairs of paths.
LEMMA RowsArePairs ==
    ASSUME Consistent(snap), pc # "nodes"
    PROVE  /\ Visible = snap /\ Visible.refs \in SUBSET Pairs /\ ByDeriver \in SUBSET Pairs
           /\ ValidOutputs(Visible.outputs) \in SUBSET Pairs
           /\ Swap(ByDeriver) \in SUBSET Pairs /\ Visible.trace \in SUBSET Pairs
<1>1. Visible = snap
  BY DEF Visible
<1>2. ByDeriver \in SUBSET Pairs
  BY DEF ByDeriver
<1>3. Swap(ByDeriver) \in SUBSET Pairs
  BY <1>2 DEF Swap, Pairs
<1> QED
  BY <1>1, <1>2, <1>3, ConsistentPairs DEF ValidOutputs

LEMMA QueryStep ==
    ASSUME IInv, NEW here, NEW next, NEW wanted \in BOOLEAN, NEW rows \in SUBSET Pairs,
           here \in {"refs", "derivers", "outputs", "drvs", "trace"},
           next \in {"derivers", "outputs", "drvs", "trace", "csr"},
           Query(here, next, wanted, rows),
           Queried' = Queried \cup (IF wanted THEN rows ELSE {})
    PROVE  IInv'
<1>1. /\ pc = here /\ pc' = next /\ pc # "nodes" /\ pc' # "nodes"
      /\ IF wanted THEN AddEdges(rows) ELSE UNCHANGED edges
      /\ UNCHANGED <<db, snap, settings, paths, commits, vars>>
  BY DEF Query
<1>2. /\ Consistent(db) /\ Consistent(snap) /\ paths \in SetToSeqs(snap.valid) /\ EdgesTyped
      /\ EdgesRead = Queried \cap ValidPairs
      /\ settings \in [derivations : BOOLEAN, outputs : BOOLEAN]
  BY <1>1 DEF IInv, LoadingInv
<1>3. EdgesTyped' /\ EdgesRead' = EdgesRead \cup ((IF wanted THEN rows ELSE {}) \cap ValidPairs)
  <2>1. CASE wanted
    BY <1>1, <1>2, <2>1, AddedEdges
  <2>2. CASE ~wanted
    BY <1>1, <1>2, <2>2 DEF EdgesTyped, EdgesRead
  <2> QED
    BY <2>1, <2>2
<1>4. ValidPairs' = ValidPairs
  BY <1>1 DEF ValidPairs
<1>5. EdgesRead' = Queried' \cap ValidPairs'
  BY <1>2, <1>3, <1>4
<1>6. LoadingInv'
  BY <1>1, <1>2, <1>3, <1>5 DEF LoadingInv
<1> QED
  BY <1>1, <1>6, WalkStutters DEF IInv

LEMMA EdgesStep == ASSUME IInv, LoadEdges PROVE IInv'
<1>1. /\ pc \in {"refs", "derivers", "outputs", "drvs", "trace"}
      /\ pc' \in {"derivers", "outputs", "drvs", "trace", "csr"}
      /\ UNCHANGED <<snap, settings>>
  BY DEF LoadEdges, Query
<1>2. Consistent(snap) /\ settings.derivations \in BOOLEAN /\ settings.outputs \in BOOLEAN
  BY <1>1 DEF IInv, LoadingInv
<1>3. /\ Visible = snap /\ Visible.refs \in SUBSET Pairs /\ ByDeriver \in SUBSET Pairs
      /\ ValidOutputs(Visible.outputs) \in SUBSET Pairs
      /\ Swap(ByDeriver) \in SUBSET Pairs /\ Visible.trace \in SUBSET Pairs
  BY <1>1, <1>2, RowsArePairs
<1>4. Rows' = Rows
  BY <1>1, SnapshotFrame
<1>5. CASE Query("refs", "derivers", TRUE, Visible.refs)
  <2>1. pc = "refs" /\ pc' = "derivers"
    BY <1>5 DEF Query
  <2>2. Queried' = Queried \cup Visible.refs
    BY <1>3, <1>4, <2>1 DEF Queried, Rows
  <2> QED
    BY <1>3, <1>5, <2>2, QueryStep
<1>6. CASE Query("derivers", "outputs", settings.derivations, ByDeriver)
  <2>1. pc = "derivers" /\ pc' = "outputs"
    BY <1>6 DEF Query
  <2>2. Queried' = Queried \cup (IF settings.derivations THEN ByDeriver ELSE {})
    BY <1>4, <2>1 DEF Queried, Rows
  <2> QED
    BY <1>2, <1>3, <1>6, <2>2, QueryStep
<1>7. CASE Query("outputs", "drvs", settings.outputs, ValidOutputs(Visible.outputs))
  <2>1. pc = "outputs" /\ pc' = "drvs"
    BY <1>7 DEF Query
  <2>2. Queried' = Queried \cup (IF settings.outputs THEN ValidOutputs(Visible.outputs) ELSE {})
    BY <1>3, <1>4, <2>1 DEF Queried, Rows
  <2> QED
    BY <1>2, <1>3, <1>7, <2>2, QueryStep
<1>8. CASE Query("drvs", "trace", settings.outputs, Swap(ByDeriver))
  <2>1. pc = "drvs" /\ pc' = "trace"
    BY <1>8 DEF Query
  <2>2. Queried' = Queried \cup (IF settings.outputs THEN Swap(ByDeriver) ELSE {})
    BY <1>4, <2>1 DEF Queried, Rows
  <2> QED
    BY <1>2, <1>3, <1>8, <2>2, QueryStep
<1>9. CASE Query("trace", "csr", settings.outputs, Visible.trace)
  <2>1. pc = "trace" /\ pc' = "csr"
    BY <1>9 DEF Query
  <2>2. Queried' = Queried \cup (IF settings.outputs THEN Visible.trace ELSE {})
    BY <1>3, <1>4, <2>1 DEF Queried, Rows
  <2> QED
    BY <1>2, <1>3, <1>9, <2>2, QueryStep
<1> QED
  BY <1>5, <1>6, <1>7, <1>8, <1>9 DEF LoadEdges

\* The five queries give a valid path the edges that Nix's rules give it.
LEMMA QueriesAreRules ==
    ASSUME Consistent(snap), pc = "csr", settings \in [derivations : BOOLEAN, outputs : BOOLEAN],
           NEW p \in snap.valid, NEW q \in snap.valid
    PROVE  <<p, q>> \in Queried <=> Keeps(p, q)
<1>1. Visible = snap
  BY DEF Visible
<1>2. p \in Node /\ q \in Node
  BY ConsistentPairs
<1>3. /\ <<p, q>> \in ByDeriver <=> snap.deriver[p] = q
      /\ <<q, p>> \in ByDeriver <=> snap.deriver[q] = p
  BY <1>1, <1>2 DEF ByDeriver, Pairs
<1>4. <<p, q>> \in Swap(ByDeriver) <=> <<q, p>> \in ByDeriver
  <2>1. \A r \in ByDeriver : r = <<r[1], r[2]>>
    BY DEF ByDeriver, Pairs
  <2> QED
    BY <2>1 DEF Swap
<1>5. <<p, q>> \in ValidOutputs(snap.outputs) <=> <<p, q>> \in snap.outputs
  BY <1>1 DEF ValidOutputs
<1>6. <<p, q>> \in Queried <=>
         \/ <<p, q>> \in snap.refs
         \/ settings.derivations /\ <<p, q>> \in ByDeriver
         \/ settings.outputs /\ <<p, q>> \in ValidOutputs(snap.outputs)
         \/ settings.outputs /\ <<p, q>> \in Swap(ByDeriver)
         \/ settings.outputs /\ <<p, q>> \in snap.trace
  BY DEF Queried, Rows
<1> QED
  BY <1>3, <1>4, <1>5, <1>6 DEF Keeps

LEMMA CallStep == ASSUME IInv, CallClosure PROVE IInv'
<1>1. /\ pc = "csr" /\ pc' = "walk"
      /\ edge' = [n \in Node |-> IF IsNode(n) THEN { paths[i] : i \in RefsOf(Index(n)) } ELSE {}]
      /\ roots' \in SUBSET { paths[i] : i \in DOMAIN paths }
      /\ alive' = roots' /\ stack' = roots'
      /\ UNCHANGED <<db, snap, settings, paths, edges, commits>>
  BY DEF CallClosure
<1>2. /\ Consistent(db) /\ Consistent(snap) /\ paths \in SetToSeqs(snap.valid) /\ EdgesTyped
      /\ EdgesRead = Queried \cap ValidPairs
      /\ settings \in [derivations : BOOLEAN, outputs : BOOLEAN]
  BY <1>1 DEF IInv, LoadingInv
<1>3. ASSUME NEW n \in snap.valid
      PROVE  { paths[i] : i \in RefsOf(Index(n)) } = KeptOf[n]
  <2>1. /\ Index(n) \in 1..Len(paths) /\ paths[Index(n)] = n /\ Len(paths) \in Nat
        /\ \A i \in 1..Len(paths) : paths[i] \in snap.valid /\ Index(paths[i]) = i
    BY <1>2, IndexFacts
  <2>2. Index(n) \in Nat
    BY <2>1
  <2> DEFINE out == { e \in DOMAIN edges : edges[e][1] = Index(n) }
  <2>3. RefsOf(Index(n)) = { edges[k][2] : k \in out }
    BY <1>2, <2>2, RefsOfIsTargets
  <2>4. \A k \in DOMAIN edges : edges[k][1] \in 1..Len(paths) /\ edges[k][2] \in 1..Len(paths)
    <3>1. \A k \in DOMAIN edges : edges[k] \in (1..Len(paths)) \X (1..Len(paths))
      BY <1>2, EdgeFacts
    <3> QED
      BY <3>1
  <2>5. \A k \in DOMAIN edges : k \in out <=> paths[edges[k][1]] = n
    BY <2>1, <2>4
  <2>6. ASSUME NEW k \in out
        PROVE  paths[edges[k][2]] \in snap.valid /\ Keeps(n, paths[edges[k][2]])
    <3>1. <<n, paths[edges[k][2]]>> \in EdgesRead
      BY <2>5 DEF EdgesRead
    <3>2. paths[edges[k][2]] \in snap.valid
      BY <2>1, <2>4
    <3> QED
      BY <1>1, <1>2, <3>1, <3>2, QueriesAreRules
  <2>7. ASSUME NEW q \in snap.valid, Keeps(n, q)
        PROVE  \E k \in out : paths[edges[k][2]] = q
    <3>1. <<n, q>> \in EdgesRead
      BY <1>1, <1>2, <2>7, QueriesAreRules DEF ValidPairs
    <3>2. PICK k \in DOMAIN edges : <<paths[edges[k][1]], paths[edges[k][2]]>> = <<n, q>>
      BY <3>1 DEF EdgesRead
    <3> QED
      BY <2>5, <3>2
  <2> HIDE DEF out
  <2>8. { paths[i] : i \in RefsOf(Index(n)) } = { q \in snap.valid : Keeps(n, q) }
    BY <2>3, <2>6, <2>7
  <2> QED
    BY <2>8 DEF KeptOf
<1>4. \A n \in Node : edge'[n] = IF n \in snap.valid THEN KeptOf[n] ELSE {}
  <2> SUFFICES ASSUME NEW n \in Node
               PROVE  edge'[n] = IF n \in snap.valid THEN KeptOf[n] ELSE {}
    OBVIOUS
  <2>1. IsNode(n) <=> n \in snap.valid
    BY <1>2, IndexFacts
  <2> QED
    BY <1>1, <1>3, <2>1
<1>5. snap.valid \in SUBSET Node
  BY <1>2, ConsistentPairs
<1>6. edge' \in [Node -> SUBSET Node]
  <2>1. \A n \in snap.valid : KeptOf[n] \in SUBSET Node
    BY <1>5 DEF KeptOf
  <2>2. \A n \in Node : edge'[n] \in SUBSET Node
    BY <1>4, <2>1
  <2>3. edge' = [n \in Node |-> edge'[n]]
    BY <1>1
  <2> QED
    BY <2>2, <2>3
<1>7. roots' \subseteq snap.valid /\ roots' \in SUBSET Node
  BY <1>1, <1>2, <1>5, IndexFacts
<1>8. WalkInv'
  <2>1. roots' \subseteq Closure(edge', roots')
    BY <1>6, <1>7, ClosureHasRoots
  <2> QED
    BY <1>1, <1>6, <1>7, <2>1 DEF WalkInv, TypeOK, ScannedIsClosed, OnlyReachable
<1>9. LoadingInv'
  <2>1. EdgesTyped' /\ EdgesRead' = EdgesRead
    BY <1>1, <1>2 DEF EdgesTyped, EdgesRead
  <2>2. /\ Rows' = Rows /\ ValidPairs' = ValidPairs /\ KeptOf' = KeptOf
    BY <1>1, SnapshotFrame
  <2>3. Queried' = Queried
    BY <1>1, <2>2 DEF Queried
  <2> QED
    BY <1>1, <1>2, <1>4, <1>7, <2>1, <2>2, <2>3 DEF LoadingInv
<1> QED
  BY <1>8, <1>9 DEF IInv

\* Once the graph is built only the walk and Nix move.
LEMMA BuiltFrame ==
    ASSUME LoadingInv, pc \in {"walk", "done"}, pc' \in {"walk", "done"},
           UNCHANGED <<db, snap, settings, paths, edges, edge, roots>>,
           pc' = "done" => stack' = {}
    PROVE  LoadingInv'
<1>1. EdgesTyped' = EdgesTyped /\ EdgesRead' = EdgesRead
  BY DEF EdgesTyped, EdgesRead
<1>2. Rows' = Rows /\ ValidPairs' = ValidPairs /\ KeptOf' = KeptOf
  BY SnapshotFrame
<1>3. Queried' = Queried
  BY <1>2 DEF Queried
<1> QED
  BY <1>1, <1>2, <1>3 DEF LoadingInv

LEMMA WalkStep == ASSUME IInv, Walk PROVE IInv'
<1>1. PICK n \in Node : Pop(n)
  BY DEF Walk
<1>2. pc = "walk" /\ UNCHANGED <<db, snap, settings, pc, paths, edges, edge, roots>>
  BY <1>1 DEF Walk, loadVars, Pop
<1> QED
  BY <1>1, <1>2, PopKeepsWalkInv, BuiltFrame DEF IInv

LEMMA ReturnStep == ASSUME IInv, Return PROVE IInv'
<1>1. /\ pc = "walk" /\ pc' = "done" /\ stack = {}
      /\ UNCHANGED <<db, snap, settings, paths, edges, edge, roots, alive, stack>>
  BY DEF Return, vars
<1> QED
  BY <1>1, WalkStutters, BuiltFrame DEF IInv, vars

\* Nix commits consistent databases.
LEMMA CommitsConsistent ==
    ASSUME Consistent(db), NEW p \in Node, Register(p) \/ Invalidate(p)
    PROVE  Consistent(db')
<1>1. /\ DOMAIN db = {"valid", "refs", "deriver", "outputs", "trace"}
      /\ db.valid \subseteq Node
      /\ db.refs \subseteq db.valid \X db.valid
      /\ db.deriver \in [db.valid -> Node \cup {NoDeriver}]
      /\ db.outputs \subseteq db.valid \X Node
      /\ db.trace \subseteq Pairs
  BY DEF Consistent
<1>2. CASE Register(p)
  <2>1. PICK R \in SUBSET (db.valid \cup {p}), v \in Node \cup {NoDeriver} :
          db' = [db EXCEPT !.valid = @ \cup {p}, !.refs = @ \cup ({p} \X R),
                           !.deriver = [q \in db.valid \cup {p} |-> IF q = p THEN v ELSE @[q]]]
    BY <1>2 DEF Register
  <2>2. /\ DOMAIN db' = DOMAIN db
        /\ db'.valid = db.valid \cup {p} /\ db'.refs = db.refs \cup ({p} \X R)
        /\ db'.deriver = [q \in db.valid \cup {p} |-> IF q = p THEN v ELSE db.deriver[q]]
        /\ db'.outputs = db.outputs /\ db'.trace = db.trace
    BY <1>1, <2>1
  <2>3. db'.refs \subseteq db'.valid \X db'.valid
    BY <1>1, <2>2
  <2>4. db'.deriver \in [db'.valid -> Node \cup {NoDeriver}]
    BY <1>1, <2>2
  <2> QED
    BY <1>1, <2>2, <2>3, <2>4 DEF Consistent
<1>3. CASE Invalidate(p)
  <2>1. /\ \A r \in db.refs : r[2] = p => r[1] = p
        /\ db' = [db EXCEPT !.valid = @ \ {p},
                            !.refs = { r \in @ : r[1] # p },
                            !.deriver = [q \in db.valid \ {p} |-> @[q]],
                            !.outputs = { r \in @ : r[1] # p }]
    BY <1>3 DEF Invalidate
  <2>2. /\ DOMAIN db' = DOMAIN db
        /\ db'.valid = db.valid \ {p} /\ db'.refs = { r \in db.refs : r[1] # p }
        /\ db'.deriver = [q \in db.valid \ {p} |-> db.deriver[q]]
        /\ db'.outputs = { r \in db.outputs : r[1] # p } /\ db'.trace = db.trace
    BY <1>1, <2>1
  <2>3. db'.refs \subseteq db'.valid \X db'.valid
    BY <1>1, <2>1, <2>2
  <2>4. db'.deriver \in [db'.valid -> Node \cup {NoDeriver}]
    BY <1>1, <2>2
  <2>5. db'.outputs \subseteq db'.valid \X Node
    BY <1>1, <2>2
  <2> QED
    BY <1>1, <2>2, <2>3, <2>4, <2>5 DEF Consistent
<1> QED
  BY <1>2, <1>3

LEMMA CommitStep == ASSUME IInv, Commit PROVE IInv'
<1>1. /\ pc \notin {"walk", "done"}
      /\ UNCHANGED <<snap, settings, pc, paths, edges, vars>>
  BY DEF Commit
<1>2. Consistent(db')
  BY CommitsConsistent DEF Commit, IInv, LoadingInv
<1>3. LoadingInv'
  <2>1. CASE pc = "nodes"
    BY <1>1, <1>2, <2>1 DEF IInv, LoadingInv
  <2>2. CASE pc # "nodes"
    <3>1. EdgesTyped' = EdgesTyped /\ EdgesRead' = EdgesRead
      BY <1>1 DEF EdgesTyped, EdgesRead
    <3>2. Rows' = Rows /\ ValidPairs' = ValidPairs
      BY <1>1, <2>2, SnapshotFrame
    <3>3. Queried' = Queried
      BY <1>1, <3>2 DEF Queried
    <3> QED
      BY <1>1, <1>2, <2>2, <3>1, <3>2, <3>3 DEF IInv, LoadingInv
  <2> QED
    BY <2>1, <2>2
<1> QED
  BY <1>1, <1>3, WalkStutters DEF IInv

LEMMA LoadStutters == ASSUME IInv, UNCHANGED allVars PROVE IInv'
<1>1. UNCHANGED <<db, snap, settings, pc, paths, edges, vars>>
  BY DEF allVars, loadVars
<1>2. EdgesTyped' = EdgesTyped /\ EdgesRead' = EdgesRead
  BY <1>1 DEF EdgesTyped, EdgesRead
<1>3. Visible' = Visible
  BY <1>1 DEF Visible
<1>4. Rows' = Rows
  BY <1>1, <1>3 DEF Rows, ByDeriver, Swap, ValidOutputs
<1>5. Queried' = Queried /\ ValidPairs' = ValidPairs /\ KeptOf' = KeptOf
  BY <1>1, <1>4 DEF Queried, ValidPairs, KeptOf, Keeps
<1>6. LoadingInv'
  BY <1>1, <1>2, <1>5 DEF IInv, LoadingInv, vars
<1> QED
  BY <1>1, <1>6, WalkStutters DEF IInv

\* What load_graph has read is what its queries asked of one committed state, and
\* what the walk has marked is reachable in it.
THEOREM LoadingInvariant == LoadSpec => []IInv
<1>1. LoadInit => IInv
  BY LoadInitInv
<1>2. ASSUME IInv, [LoadNext]_allVars PROVE IInv'
  <2>1. CASE LoadNodes BY <1>2, <2>1, NodesStep
  <2>2. CASE LoadEdges BY <1>2, <2>2, EdgesStep
  <2>3. CASE CallClosure BY <1>2, <2>3, CallStep
  <2>4. CASE Walk BY <1>2, <2>4, WalkStep
  <2>5. CASE Return BY <1>2, <2>5, ReturnStep
  <2>6. CASE Commit BY <1>2, <2>6, CommitStep
  <2>7. CASE UNCHANGED allVars BY <1>2, <2>7, LoadStutters
  <2> QED
    BY <1>2, <2>1, <2>2, <2>3, <2>4, <2>5, <2>6, <2>7 DEF LoadNext
<1> QED
  BY <1>1, <1>2, PTL DEF LoadSpec

\* What the collector takes for alive is what Nix would keep of one committed state of
\* the database: for every store, every setting of keep-derivations and
\* keep-outputs, in whatever order SQLite returns the rows.
THEOREM AliveIsWhatNixKeeps == LoadSpec => []AliveAsNixKeeps
<1>1. ASSUME IInv, pc = "done" PROVE alive = Closure(KeptOf, roots)
  <2>1. /\ Consistent(snap) /\ roots \in SUBSET snap.valid /\ stack = {}
        /\ \A n \in Node : edge[n] = IF n \in snap.valid THEN KeptOf[n] ELSE {}
        /\ edge \in [Node -> SUBSET Node]
    BY <1>1 DEF IInv, LoadingInv, WalkInv, TypeOK
  <2>2. snap.valid \in SUBSET Node
    BY <2>1, ConsistentPairs
  <2>3. KeptOf \in [snap.valid -> SUBSET snap.valid]
    BY DEF KeptOf
  <2>4. alive = Closure(edge, roots)
    BY <1>1, <2>1, EmptyStackIsClosure DEF IInv, WalkIsClosure
  <2> DEFINE K == KeptOf
  <2>5. /\ snap.valid \in SUBSET Node /\ K \in [snap.valid -> SUBSET snap.valid]
        /\ edge \in [Node -> SUBSET Node] /\ roots \in SUBSET snap.valid
        /\ \A n \in Node : edge[n] = IF n \in snap.valid THEN K[n] ELSE {}
    BY <2>1, <2>2, <2>3
  <2> HIDE DEF K
  <2>6. Closure(edge, roots) = Closure(K, roots)
    BY <2>5, ClosureOfPart
  <2> QED
    BY <2>4, <2>6 DEF K
<1>2. IInv => AliveAsNixKeeps
  BY <1>1 DEF AliveAsNixKeeps, KeptOf
<1> QED
  BY <1>2, LoadingInvariant, PTL

\* The walk over the arrays that load_graph built marks what is reachable in them.
THEOREM LoadedWalkIsClosure == LoadSpec => []WalkIsClosure
<1>1. IInv => WalkIsClosure
  BY EmptyStackIsClosure DEF IInv
<1> QED
  BY <1>1, LoadingInvariant, PTL
===============================================================================
