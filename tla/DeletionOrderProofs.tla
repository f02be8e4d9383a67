------------------------- MODULE DeletionOrderProofs -------------------------
(***************************************************************************)
(* Kahn's algorithm and the chunk loop are right for every graph, every    *)
(* multiplicity of its edges, every --chunk-size and every --max-freed,    *)
(* and they implement ChunkedSweep.                                        *)
(***************************************************************************)
EXTENDS DeletionOrder, FiniteSetTheorems, FunctionTheorems, TLAPS

(***************************************************************************)
(* Sums as counts of units.                                                *)
(***************************************************************************)
Units(w, max, S) == { u \in S \X (1..max) : u[2] <= w[u[1]] }

LEMMA TotalIsCount ==
    ASSUME NEW S, NEW max, NEW w
    PROVE  Total(w, max, S) = Cardinality(Units(w, max, S))
  BY DEF Total, Units

LEMMA UnitsFinite ==
    ASSUME NEW S, IsFiniteSet(S), NEW max \in Nat, NEW w
    PROVE  /\ IsFiniteSet(Units(w, max, S))
           /\ Total(w, max, S) \in Nat
<1>1. IsFiniteSet(1..max)
  BY FS_Interval
<1>2. IsFiniteSet(S \X (1..max))
  BY <1>1, FS_Product
<1>3. IsFiniteSet(Units(w, max, S))
  BY <1>2, FS_Subset DEF Units
<1> QED
  BY <1>3, TotalIsCount, FS_CardinalityType

\* The units of one element are as many as its value.
LEMMA TotalOfOne ==
    ASSUME NEW n, NEW max \in Nat, NEW w, w[n] \in 0..max
    PROVE  Cardinality(Units(w, max, {n})) = w[n]
<1> DEFINE U == Units(w, max, {n})
           f == [k \in 1..w[n] |-> <<n, k>>]
<1>1. f \in [1..w[n] -> U]
  BY DEF Units
<1>2. \A a, b \in 1..w[n] : f[a] = f[b] => a = b
  OBVIOUS
<1>3. ASSUME NEW u \in U PROVE \E k \in 1..w[n] : f[k] = u
  <2>1. u[1] = n /\ u[2] \in 1..w[n] /\ u = <<u[1], u[2]>>
    BY <1>3 DEF Units
  <2> QED
    BY <2>1
<1>4. f \in Bijection(1..w[n], U)
  BY <1>1, <1>2, <1>3, Fun_IsBij
<1>5. ExistsBijection(1..w[n], U)
  BY <1>4 DEF ExistsBijection
<1> HIDE DEF U, f
<1> QED
  BY <1>5, FS_CountingElements DEF U

\* A sum without one of its terms.
LEMMA TotalWithout ==
    ASSUME NEW S, IsFiniteSet(S), NEW max \in Nat, NEW w,
           NEW n \in S, w[n] \in 0..max
    PROVE  Total(w, max, S) = Total(w, max, S \ {n}) + w[n]
<1> DEFINE A == Units(w, max, S \ {n})
           B == Units(w, max, {n})
<1>1. Units(w, max, S) = A \cup B /\ A \cap B = {}
  BY DEF Units
<1>2. IsFiniteSet(A) /\ IsFiniteSet(B)
  BY UnitsFinite, FS_RemoveElement, FS_Singleton
<1>3. Cardinality(A \cup B) = Cardinality(A) + Cardinality(B) - Cardinality(A \cap B)
  BY <1>2, FS_Union
<1>4. Cardinality(A \cap B) = 0
  BY <1>1, FS_EmptySet
<1>5. Cardinality(B) = w[n]
  BY TotalOfOne
<1>6. Cardinality(A) \in Nat /\ w[n] \in Nat
  BY <1>2, FS_CardinalityType
<1>7. Total(w, max, S) = Cardinality(A \cup B) /\ Total(w, max, S \ {n}) = Cardinality(A)
  BY <1>1, TotalIsCount
<1> HIDE DEF A, B
<1> QED
  BY <1>3, <1>4, <1>5, <1>6, <1>7

\* A sum is zero when its terms are.
LEMMA TotalZero ==
    ASSUME NEW S, IsFiniteSet(S), NEW max \in Nat, NEW w,
           \A n \in S : w[n] \in 0..max
    PROVE  Total(w, max, S) = 0 <=> \A n \in S : w[n] = 0
<1>1. Total(w, max, S) = 0 <=> Units(w, max, S) = {}
  BY UnitsFinite, TotalIsCount, FS_EmptySet
<1>2. ASSUME NEW n \in S, w[n] # 0 PROVE <<n, w[n]>> \in Units(w, max, S)
  BY <1>2 DEF Units
<1>3. (\A n \in S : w[n] = 0) => Units(w, max, S) = {}
  BY DEF Units
<1> QED
  BY <1>1, <1>2, <1>3

(***************************************************************************)
(* Sequences that list a set.                                              *)
(***************************************************************************)
LEMMA ListingFacts ==
    ASSUME NEW S, IsFiniteSet(S), NEW s \in SetToSeqs(S)
    PROVE  /\ s \in Seq(S)
           /\ Len(s) = Cardinality(S) /\ Len(s) \in Nat
           /\ \A i, j \in 1..Len(s) : s[i] = s[j] => i = j
           /\ \A m \in S : \E i \in 1..Len(s) : s[i] = m
<1> DEFINE D == 1..Cardinality(S)
<1>1. Cardinality(S) \in Nat
  BY FS_CardinalityType
<1>2. s \in [D -> S] /\ \A i, j \in D : s[i] = s[j] => i = j
  BY DEF SetToSeqs
<1>3. s \in Seq(S) /\ Len(s) = Cardinality(S)
  BY <1>1, <1>2
<1>4. Cardinality(D) = Cardinality(S)
  BY <1>1, FS_Interval
<1>5. s \in Injection(D, S)
  BY <1>2, Fun_IsInj
<1>6. s \in Surjection(D, S)
  <2> HIDE DEF D
  <2> QED
    BY <1>4, <1>5, FS_Injection
<1>7. \A m \in S : \E i \in D : s[i] = m
  BY <1>6 DEF Surjection
<1> QED
  BY <1>1, <1>2, <1>3, <1>7

LEMMA NodeFinite == \A S \in SUBSET Node : IsFiniteSet(S)
<1>1. IsFiniteSet(Node)
  BY OrderAssumption, FS_Interval DEF Node
<1> QED
  BY <1>1, FS_Subset

LEMMA IndexOrderLists ==
    ASSUME NEW S \in SUBSET Node
    PROVE  InIndexOrder(S) \in SetToSeqs(S)
<1> DEFINE c == Cardinality(S)
           Below(m) == { k \in S : k <= m }
           rank == [m \in S |-> Cardinality(Below(m))]
<1>1. IsFiniteSet(S) /\ c \in Nat /\ S \subseteq Nat
  BY NodeFinite, FS_CardinalityType, OrderAssumption DEF Node
<1>2. ASSUME NEW m \in S PROVE IsFiniteSet(Below(m)) /\ rank[m] \in 1..c
  <2>1. Below(m) \subseteq S /\ m \in Below(m)
    BY <1>1
  <2>2. IsFiniteSet(Below(m)) /\ Cardinality(Below(m)) <= c
    BY <1>1, <2>1, FS_Subset
  <2>3. Cardinality(Below(m)) \in Nat /\ Cardinality(Below(m)) # 0
    BY <2>1, <2>2, FS_CardinalityType, FS_EmptySet
  <2> HIDE DEF Below
  <2> QED
    BY <1>1, <2>2, <2>3
<1>3. ASSUME NEW a \in S, NEW b \in S, a < b PROVE rank[a] # rank[b]
  <2>1. Below(a) \in SUBSET Below(b) /\ b \in Below(b) \ Below(a)
    <3>1. a \in Int /\ b \in Int /\ \A k \in S : k \in Int
      BY <1>1
    <3>2. \A k \in S : k <= a => k <= b
      BY <1>3, <3>1
    <3>3. b <= b /\ ~(b <= a)
      BY <1>3, <3>1
    <3> QED
      BY <3>2, <3>3
  <2>2. Cardinality(Below(a)) # Cardinality(Below(b))
    BY <1>2, <2>1, FS_Subset
  <2> HIDE DEF Below
  <2> QED
    BY <2>2
<1>4. \A a, b \in S : rank[a] = rank[b] => a = b
  BY <1>1, <1>3
<1>5. rank \in [S -> 1..c]
  BY <1>2
<1>6. IsFiniteSet(1..c) /\ Cardinality(1..c) = c
  BY <1>1, FS_Interval
<1>7. rank \in Injection(S, 1..c)
  BY <1>4, <1>5, Fun_IsInj
<1>8. rank \in Surjection(S, 1..c)
  BY <1>6, <1>7, FS_Injection
<1>9. \A i \in 1..c : \E m \in S : rank[m] = i
  BY <1>8 DEF Surjection
<1> DEFINE s == InIndexOrder(S)
<1>10. ASSUME NEW i \in 1..c PROVE s[i] \in S /\ rank[s[i]] = i
  BY <1>9 DEF InIndexOrder
<1>11. s \in [1..c -> S]
  <2>1. s = [i \in 1..c |-> s[i]]
    BY DEF InIndexOrder
  <2> QED
    BY <1>10, <2>1
<1>12. \A i, j \in 1..c : i # j => s[i] # s[j]
  BY <1>10
<1> QED
  BY <1>11, <1>12 DEF SetToSeqs

(***************************************************************************)
(* The queue as positions.                                                 *)
(***************************************************************************)
Before(s, k) == { s[i] : i \in 1..k }

LEMMA ToSetIs ==
    ASSUME NEW S, NEW s \in Seq(S), NEW j \in Nat, NEW k \in 0..Len(s), j <= k
    PROVE  ToSet(SubSeq(s, j + 1, k)) = { s[i] : i \in (j + 1)..k }
<1> DEFINE q == SubSeq(s, j + 1, k)
<1>1. /\ q \in Seq(S) /\ Len(q) = k - j
      /\ \A i \in 1..(k - j) : q[i] = s[j + i]
  OBVIOUS
<1>2. DOMAIN q = 1..(k - j)
  BY <1>1
<1> HIDE DEF q
<1>3. ASSUME NEW i \in (j + 1)..k PROVE i - j \in 1..(k - j) /\ q[i - j] = s[i]
  BY <1>1, <1>3
<1>4. ASSUME NEW i \in 1..(k - j) PROVE j + i \in (j + 1)..k
  BY <1>4
<1>5. ToSet(q) = { q[i] : i \in 1..(k - j) }
  BY <1>2 DEF ToSet
<1>6. \A i \in 1..(k - j) : q[i] = s[j + i] /\ j + i \in (j + 1)..k
  BY <1>1, <1>4
<1>7. ToSet(q) \subseteq { s[i] : i \in (j + 1)..k }
  BY <1>5, <1>6
<1>8. ASSUME NEW i \in (j + 1)..k PROVE s[i] \in ToSet(q)
  <2>1. i - j \in 1..(k - j) /\ q[i - j] = s[i]
    BY <1>3
  <2> QED
    BY <1>5, <2>1
<1>9. { s[i] : i \in (j + 1)..k } \subseteq ToSet(q)
  BY <1>8
<1> QED
  BY <1>7, <1>9 DEF q

LEMMA TakenIs ==
    ASSUME NEW S, NEW s \in Seq(S), NEW k \in 0..Len(s)
    PROVE  ToSet(SubSeq(s, 1, k)) = Before(s, k)
<1>1. 0 \in Nat /\ 0 <= k
  OBVIOUS
<1>2. ToSet(SubSeq(s, 0 + 1, k)) = { s[i] : i \in (0 + 1)..k }
  BY <1>1, ToSetIs
<1>3. 0 + 1 = 1
  OBVIOUS
<1> QED
  BY <1>2, <1>3 DEF Before

\* A listing of other elements is appended.
LEMMA JoinFacts ==
    ASSUME NEW S, NEW s \in Seq(S), IsInjective(s),
           NEW J \in SUBSET S, IsFiniteSet(J), NEW t \in SetToSeqs(J),
           Before(s, Len(s)) \cap J = {}
    PROVE  /\ s \o t \in Seq(S) /\ IsInjective(s \o t)
           /\ Len(s \o t) \in Nat /\ Len(s \o t) >= Len(s)
           /\ \A i \in 1..Len(s) : (s \o t)[i] = s[i]
           /\ \A i \in 1..Len(s \o t) : i > Len(s) => (s \o t)[i] \in J
           /\ Before(s \o t, Len(s \o t)) = Before(s, Len(s)) \cup J
           /\ \A k \in 0..Len(s) : Before(s \o t, k) = Before(s, k)
<1>1. /\ t \in Seq(J) /\ Len(t) \in Nat
      /\ \A i, j \in 1..Len(t) : t[i] = t[j] => i = j
      /\ \A m \in J : \E i \in 1..Len(t) : t[i] = m
  BY ListingFacts
<1>2. t \in Seq(S)
  BY <1>1
<1>3. /\ s \o t \in Seq(S) /\ Len(s \o t) = Len(s) + Len(t) /\ Len(s) \in Nat
      /\ \A i \in 1..(Len(s) + Len(t)) :
            (s \o t)[i] = IF i <= Len(s) THEN s[i] ELSE t[i - Len(s)]
  BY <1>2
<1> DEFINE u == s \o t
<1>4. /\ \A i \in 1..Len(s) : u[i] = s[i]
      /\ \A i \in 1..Len(t) : u[Len(s) + i] = t[i]
  BY <1>1, <1>3
<1>5. \A i \in 1..Len(u) : i > Len(s) => i - Len(s) \in 1..Len(t) /\ u[i] = t[i - Len(s)] /\ u[i] \in J
  BY <1>1, <1>3
<1>6. \A i \in 1..Len(s) : u[i] \notin J
  BY <1>4 DEF Before
<1>7. \A k \in 0..Len(s) : Before(u, k) = Before(s, k)
  BY <1>3, <1>4 DEF Before
<1>8. Before(u, Len(u)) = Before(s, Len(s)) \cup J
  <2>1. \A i \in 1..Len(s) : i \in 1..Len(u) /\ u[i] = s[i]
    BY <1>1, <1>3, <1>4
  <2>2. \A i \in 1..Len(t) : Len(s) + i \in 1..Len(u) /\ u[Len(s) + i] = t[i]
    BY <1>1, <1>3, <1>4
  <2>3. \A i \in 1..Len(u) : i \in 1..Len(s) \/ u[i] \in J
    BY <1>3, <1>5
  <2>4. \A x \in J : \E i \in 1..Len(u) : u[i] = x
    BY <1>1, <2>2
  <2> HIDE DEF u
  <2> QED
    BY <2>1, <2>3, <2>4 DEF Before
<1>9. \A i, j \in 1..Len(u) : u[i] = u[j] => i = j
  <2> SUFFICES ASSUME NEW i \in 1..Len(u), NEW j \in 1..Len(u), u[i] = u[j] PROVE i = j
    OBVIOUS
  <2>1. CASE i <= Len(s) /\ j <= Len(s)
    BY <1>3, <1>4, <2>1 DEF IsInjective
  <2>2. CASE i > Len(s) /\ j > Len(s)
    <3>1. i - Len(s) = j - Len(s)
      BY <1>1, <1>5, <2>2
    <3> QED
      BY <1>3, <3>1
  <2>3. CASE ~(i <= Len(s) <=> j <= Len(s))
    BY <1>3, <1>5, <1>6, <2>3
  <2> QED
    BY <1>3, <2>1, <2>2, <2>3
<1>10. IsInjective(u)
  BY <1>3, <1>9 DEF IsInjective
<1> QED
  BY <1>1, <1>3, <1>4, <1>5, <1>7, <1>8, <1>10

(***************************************************************************)
(* Referrers and how often they are listed.                                *)
(***************************************************************************)
LEMMA ListedFacts ==
    ASSUME TypeOK, NEW S \in SUBSET Node, NEW m \in Node
    PROVE  /\ \A n \in Node : Listed(n, m) \in 0..MaxMult /\ Listed(n, m) \in Nat
           /\ ListedBy(S, m) \in Nat
           /\ \A n \in S : ListedBy(S, m) = ListedBy(S \ {n}, m) + Listed(n, m)
           /\ ListedBy(S, m) = 0 <=> \A n \in S : Listed(n, m) = 0
<1> DEFINE w == [n \in Node |-> Listed(n, m)]
<1>1. \A n \in Node : Listed(n, m) \in 0..MaxMult /\ Listed(n, m) \in Nat
  BY OrderAssumption DEF TypeOK, Listed
<1>2. IsFiniteSet(S) /\ MaxMult \in Nat
  BY NodeFinite, OrderAssumption
<1>3. \A n \in Node : w[n] = Listed(n, m)
  OBVIOUS
<1>4. \A T : ListedBy(T, m) = Total(w, MaxMult, T)
  BY DEF ListedBy
<1> HIDE DEF w
<1>5. Total(w, MaxMult, S) \in Nat
  BY <1>2, UnitsFinite
<1>6. \A n \in S : Total(w, MaxMult, S) = Total(w, MaxMult, S \ {n}) + w[n]
  BY <1>1, <1>2, <1>3, TotalWithout
<1>7. Total(w, MaxMult, S) = 0 <=> \A n \in S : w[n] = 0
  BY <1>1, <1>2, <1>3, TotalZero
<1> QED
  BY <1>1, <1>3, <1>4, <1>5, <1>6, <1>7

\* A dead node that is listed by another dead one has it for a referrer.
LEMMA ListedReferrer ==
    ASSUME TypeOK, NEW n \in Dead, NEW m \in Node
    PROVE  /\ Listed(n, m) > 0 => m \in Dead
           /\ m \in Dead => (Listed(n, m) > 0 <=> n \in Referrers(Edge, Dead, m))
  BY OrderAssumption DEF TypeOK, Listed, DeadRef, Dead, Referrers, Edge

\* A dead node nobody in S lists any more has no referrer there.
LEMMA NoReferrerLeft ==
    ASSUME TypeOK, NEW S \in SUBSET Dead, NEW m \in Dead
    PROVE  ListedBy(S, m) = 0 <=> Referrers(Edge, Dead, m) \cap S = {}
<1>1. S \subseteq Node /\ m \in Node /\ Referrers(Edge, Dead, m) \subseteq Dead
  BY DEF Dead, Referrers
<1>2. \A n \in S : Listed(n, m) = 0 <=> n \notin Referrers(Edge, Dead, m)
  <2> SUFFICES ASSUME NEW n \in S PROVE Listed(n, m) = 0 <=> n \notin Referrers(Edge, Dead, m)
    OBVIOUS
  <2>1. Listed(n, m) \in Nat
    BY <1>1, ListedFacts
  <2>2. Listed(n, m) > 0 <=> n \in Referrers(Edge, Dead, m)
    BY <1>1, ListedReferrer
  <2> QED
    BY <2>1, <2>2
<1> QED
  BY <1>1, <1>2, ListedFacts

(***************************************************************************)
(* The inductive invariant.                                                *)
(***************************************************************************)
InOrder(s, k) == \A i \in 1..k : Referrers(Edge, Dead, s[i]) \subseteq Before(s, i - 1)

\* What of the queue has been scanned is what inDegree no longer counts; the queue
\* has every node whose referrers have all been scanned.
PeelInv ==
    /\ pc = "count" => order = <<>> /\ head = 0
    /\ pc = "peel" =>
         /\ \A m \in Node : inDegree[m] = ListedBy(Dead \ Before(order, head), m)
         /\ Before(order, Len(order)) = { m \in Dead : inDegree[m] = 0 }
         /\ InOrder(order, Len(order))
    /\ pc \in {"loop", "take", "done"} =>
         /\ Before(order, Len(order)) = Dead
         /\ Dead \ Before(order, acyclicLen) = CyclicTail(Edge, Dead)
         /\ InOrder(order, acyclicLen)

\* A chunk stays on one side of the boundary to the tail, and within the bounds.
ChunkInv ==
    /\ pc \in {"count", "peel"} => cursor = 0
    /\ Len(chunk) \in 0..cursor
    /\ pc # "take" => chunk = <<>>
    /\ pc = "take" =>
         /\ freed < maxFreed
         /\ chunk = <<>> => cursor < Len(order)
         /\ estimated = Min({Top, Total(Size, Top, ToSet(chunk))})
         /\ TakeAll \/ (cursor <= acyclicLen /\ Len(chunk) <= maxChunk)
    /\ BudgetKept

IInv == TypeOK /\ PeelInv /\ ChunkInv

\* The input is what it was.
LEMMA InputFrame ==
    ASSUME UNCHANGED input
    PROVE  /\ Dead' = Dead /\ Edge' = Edge
           /\ \A S, m : Total([n \in Node |-> Listed(n, m)'], MaxMult, S) = ListedBy(S, m)
<1>1. mult' = mult /\ alive' = alive
  BY DEF input
<1>2. \A n, m : Listed(n, m)' = Listed(n, m)
  BY <1>1 DEF Listed, DeadRef
<1>3. \A m : [n \in Node |-> Listed(n, m)'] = [n \in Node |-> Listed(n, m)]
  BY <1>2
<1> QED
  BY <1>1, <1>3 DEF Dead, Edge, ListedBy

\* While the order is put together nothing has been taken.
LEMMA NoChunkYet ==
    ASSUME TypeOK', chunk' = <<>>, cursor' = 0, pc' # "take"
    PROVE  ChunkInv'
  BY DEF ChunkInv, BudgetKept

LEMMA InitInv == Init => IInv
<1> SUFFICES ASSUME Init PROVE IInv
  OBVIOUS
<1> USE OrderAssumption
<1>1. alive \subseteq Node
  <2>1. DOMAIN Edge = Node
    BY DEF Edge
  <2> QED
    BY <2>1 DEF Init, Closure
<1>2. mult \in [Node -> [Node -> 0..MaxMult]]
  BY DEF Init
<1>3. maxChunk \in Nat \ {0} /\ maxFreed \in 0..Top
  BY DEF Init
<1>4. inDegree \in [Node -> Nat] /\ order \in Seq(Dead) /\ IsInjective(order) /\ Len(order) = 0
  BY DEF Init, IsInjective
<1>5. chunk = SubSeq(order, cursor - Len(chunk) + 1, cursor)
  BY DEF Init
<1>6. /\ head \in 0..Len(order) /\ acyclicLen \in 0..Len(order) /\ cursor \in 0..Len(order)
      /\ estimated \in 0..Top /\ freed \in 0..Top
      /\ pc \in {"count", "peel", "loop", "take", "done"}
  BY <1>4 DEF Init
<1>7. TypeOK
  BY <1>1, <1>2, <1>3, <1>4, <1>5, <1>6 DEF TypeOK
<1>8. PeelInv /\ ChunkInv
  BY DEF Init, PeelInv, ChunkInv, BudgetKept
<1> QED
  BY <1>7, <1>8 DEF IInv

(***************************************************************************)
(* The referrers are counted.                                              *)
(***************************************************************************)
LEMMA CountStep == ASSUME IInv, CountReferrers PROVE IInv'
<1> USE OrderAssumption DEF IInv
<1> DEFINE L == { m \in Dead : inDegree'[m] = 0 }
<1>1. /\ pc = "count" /\ pc' = "peel" /\ order' = InIndexOrder(L)
      /\ inDegree' = [m \in Node |-> ListedBy(Dead, m)]
      /\ UNCHANGED <<input, head, acyclicLen, chunkVars>>
  BY DEF CountReferrers
<1>2. /\ L \in SUBSET Dead /\ L \in SUBSET Node /\ Dead \in SUBSET Node /\ IsFiniteSet(L)
      /\ Dead' = Dead /\ Edge' = Edge
      /\ head = 0 /\ cursor = 0 /\ chunk = <<>> /\ order = <<>>
  BY <1>1, NodeFinite, InputFrame DEF Dead, PeelInv, ChunkInv
<1>3. inDegree' \in [Node -> Nat]
  BY <1>1, <1>2, ListedFacts
<1> HIDE DEF L
<1>4. order' \in SetToSeqs(L)
  BY <1>1, <1>2, IndexOrderLists
<1>5. /\ order' \in Seq(L) /\ Len(order') \in Nat
      /\ \A i, j \in 1..Len(order') : order'[i] = order'[j] => i = j
      /\ \A m \in L : \E i \in 1..Len(order') : order'[i] = m
  BY <1>2, <1>4, ListingFacts
<1>6. order' \in Seq(Dead) /\ IsInjective(order')
  BY <1>2, <1>5 DEF IsInjective
<1>7. TypeOK'
  <2>1. acyclicLen = 0
    BY <1>2 DEF TypeOK
  <2> QED
    BY <1>1, <1>2, <1>3, <1>5, <1>6, <2>1 DEF TypeOK, input, chunkVars
<1>8. PeelInv'
  <2>1. Before(order', 0) = {}
    BY DEF Before
  <2>2. \A m \in Node : inDegree'[m] = ListedBy(Dead \ Before(order', 0), m)
    BY <1>1, <2>1
  <2>3. Before(order', Len(order')) = L
    BY <1>5 DEF Before
  <2>4. ASSUME NEW m \in L PROVE Referrers(Edge, Dead, m) = {}
    <3>1. m \in Dead /\ m \in Node /\ ListedBy(Dead, m) = 0
      BY <1>1, <1>2 DEF L
    <3>2. Referrers(Edge, Dead, m) \cap Dead = {}
      BY <3>1, NoReferrerLeft
    <3> QED
      BY <3>2 DEF Referrers
  <2>5. \A i \in 1..Len(order') : Referrers(Edge, Dead, order'[i]) = {}
    BY <1>5, <2>4
  <2> QED
    <3>1. \A m \in Node :
            inDegree'[m] = Total([n \in Node |-> Listed(n, m)'], MaxMult, Dead' \ Before(order', head'))
      BY <1>1, <1>2, <2>2, InputFrame
    <3>2. Before(order', Len(order')) = { m \in Dead' : inDegree'[m] = 0 }
      BY <1>2, <2>3 DEF L
    <3>3. \A i \in 1..Len(order') : Referrers(Edge', Dead', order'[i]) \subseteq Before(order', i - 1)
      BY <1>2, <2>5
    <3> QED
      BY <1>1, <3>1, <3>2, <3>3 DEF PeelInv, InOrder, ListedBy
<1>9. ChunkInv'
  BY <1>1, <1>2, <1>7, NoChunkYet DEF chunkVars
<1> QED
  BY <1>7, <1>8, <1>9

(***************************************************************************)
(* The next node of the queue leaves.                                      *)
(***************************************************************************)
LEMMA PeelStep == ASSUME IInv, Peel PROVE IInv'
<1> USE OrderAssumption DEF IInv
<1> DEFINE node == order[head + 1]
           R == Dead \ Before(order, head)
           F == { m \in Node : Listed(node, m) > 0 /\ inDegree'[m] = 0 }
<1>1. /\ pc = "peel" /\ head < Len(order) /\ head' = head + 1 /\ pc' = pc
      /\ inDegree' = [m \in Node |-> inDegree[m] - Listed(node, m)]
      /\ UNCHANGED <<input, acyclicLen, chunkVars>>
  BY DEF Peel
<1>2. PICK joining \in SetToSeqs(F) : order' = order \o joining
  BY DEF Peel
<1>3. /\ order \in Seq(Dead) /\ IsInjective(order) /\ Len(order) \in Nat
      /\ head \in Nat /\ head + 1 \in 1..Len(order)
      /\ Dead \in SUBSET Node /\ Dead' = Dead /\ Edge' = Edge
  <2>1. order \in Seq(Dead) /\ IsInjective(order) /\ head \in 0..Len(order)
    BY DEF TypeOK
  <2>2. Len(order) \in Nat
    BY <2>1
  <2>3. head \in Nat /\ head + 1 \in 1..Len(order)
    BY <1>1, <2>1, <2>2
  <2>4. Dead \in SUBSET Node
    BY DEF Dead
  <2>5. Dead' = Dead /\ Edge' = Edge
    BY <1>1, InputFrame
  <2> QED
    BY <2>1, <2>2, <2>3, <2>4, <2>5
<1>4. /\ node \in Dead /\ node \in R
      /\ Before(order, head + 1) = Before(order, head) \cup {node}
  <2>1. \A i \in 1..head : i \in 1..Len(order) /\ order[i] # node
    BY <1>3 DEF IsInjective
  <2>2. node \notin Before(order, head)
    BY <2>1 DEF Before
  <2>3. 1..(head + 1) = (1..head) \cup {head + 1}
    BY <1>3
  <2>4. Before(order, head + 1) = Before(order, head) \cup {node}
    BY <2>3 DEF Before
  <2> QED
    BY <1>3, <2>2, <2>4
<1>5. R \in SUBSET Dead /\ R \in SUBSET Node /\ R \ {node} = Dead \ Before(order, head + 1)
  BY <1>3, <1>4
<1>6. \A m \in Node : inDegree[m] = ListedBy(R, m)
  BY <1>1 DEF PeelInv
<1>7. Before(order, Len(order)) = { m \in Dead : inDegree[m] = 0 } /\ InOrder(order, Len(order))
  BY <1>1 DEF PeelInv
<1> HIDE DEF node, R
<1>8. ASSUME NEW m \in Node
      PROVE  /\ Listed(node, m) \in Nat
             /\ inDegree[m] = ListedBy(R \ {node}, m) + Listed(node, m)
             /\ inDegree'[m] = ListedBy(R \ {node}, m) /\ inDegree'[m] \in Nat
  <2>1. ListedBy(R, m) = ListedBy(R \ {node}, m) + Listed(node, m) /\ Listed(node, m) \in Nat
    BY <1>3, <1>4, <1>5, ListedFacts
  <2>2. ListedBy(R \ {node}, m) \in Nat
    BY <1>5, ListedFacts
  <2> QED
    BY <1>1, <1>6, <2>1, <2>2
<1>9. /\ F \in SUBSET Dead /\ IsFiniteSet(F)
      /\ Before(order, Len(order)) \cap F = {}
      /\ Before(order, Len(order)) \cup F = { m \in Dead : inDegree'[m] = 0 }
  <2>1. \A m \in F : m \in Dead /\ inDegree[m] # 0
    BY <1>4, <1>8, ListedReferrer
  <2>2. \A m \in Dead : inDegree'[m] = 0 <=> inDegree[m] = 0 \/ m \in F
    BY <1>3, <1>8
  <2>3. F \in SUBSET Node
    OBVIOUS
  <2>4. IsFiniteSet(F)
    BY <2>3, NodeFinite
  <2> HIDE DEF F
  <2> QED
    BY <1>7, <2>1, <2>2, <2>4
<1> HIDE DEF F
<1>10. /\ order' \in Seq(Dead) /\ IsInjective(order')
       /\ Len(order') \in Nat /\ Len(order') >= Len(order)
       /\ \A i \in 1..Len(order) : order'[i] = order[i]
       /\ \A i \in 1..Len(order') : i > Len(order) => order'[i] \in F
       /\ Before(order', Len(order')) = Before(order, Len(order)) \cup F
       /\ \A k \in 0..Len(order) : Before(order', k) = Before(order, k)
  <2> DEFINE u == order \o joining
  <2>1. /\ u \in Seq(Dead) /\ IsInjective(u)
        /\ Len(u) \in Nat /\ Len(u) >= Len(order)
        /\ \A i \in 1..Len(order) : u[i] = order[i]
        /\ \A i \in 1..Len(u) : i > Len(order) => u[i] \in F
        /\ Before(u, Len(u)) = Before(order, Len(order)) \cup F
        /\ \A k \in 0..Len(order) : Before(u, k) = Before(order, k)
    <3>1. /\ order \in Seq(Dead) /\ IsInjective(order)
          /\ F \in SUBSET Dead /\ IsFiniteSet(F) /\ joining \in SetToSeqs(F)
          /\ Before(order, Len(order)) \cap F = {}
      BY <1>2, <1>3, <1>9
    <3> QED
      BY <3>1, JoinFacts
  <2>2. order' = u
    BY <1>2
  <2> HIDE DEF u
  <2> QED
    BY <2>1, <2>2
<1>11. cursor = 0 /\ chunk = <<>>
  BY <1>1 DEF ChunkInv
<1>12. TypeOK'
  <2>1. inDegree' \in [Node -> Nat]
    BY <1>1, <1>8
  <2>2. head' \in 0..Len(order') /\ acyclicLen' \in 0..Len(order') /\ cursor' \in 0..Len(order')
    <3>1. head + 1 \in 0..Len(order')
      BY <1>3, <1>10
    <3>2. acyclicLen \in 0..Len(order')
      BY <1>3, <1>10 DEF TypeOK
    <3>3. 0 \in 0..Len(order') /\ acyclicLen' = acyclicLen /\ cursor' = 0
      BY <1>1, <1>10, <1>11 DEF chunkVars
    <3> QED
      BY <1>1, <3>1, <3>2, <3>3
  <2>3. chunk' = SubSeq(order', cursor' - Len(chunk') + 1, cursor')
    BY <1>1, <1>11 DEF chunkVars
  <2> QED
    BY <1>1, <1>3, <1>10, <2>1, <2>2, <2>3 DEF TypeOK, input, chunkVars
<1>13. PeelInv'
  <2>1. \A m \in Node : inDegree'[m] = ListedBy(Dead \ Before(order', head'), m)
    <3>1. Before(order', head + 1) = Before(order, head + 1)
      BY <1>3, <1>10
    <3> QED
      BY <1>1, <1>5, <1>8, <3>1
  <2>2. \A m \in Node :
          inDegree'[m] = Total([n \in Node |-> Listed(n, m)'], MaxMult, Dead' \ Before(order', head'))
    BY <1>1, <1>3, <2>1, InputFrame
  <2>3. ASSUME NEW i \in 1..Len(order')
        PROVE  Referrers(Edge, Dead, order'[i]) \subseteq Before(order', i - 1)
    <3>1. CASE i <= Len(order)
      <4>1. i \in 1..Len(order) /\ i - 1 \in 0..Len(order)
        BY <1>3, <3>1
      <4> QED
        BY <1>7, <1>10, <4>1 DEF InOrder
    <3>2. CASE i > Len(order)
      <4>1. order'[i] \in F /\ order'[i] \in Dead /\ order'[i] \in Node /\ inDegree'[order'[i]] = 0
        BY <1>3, <1>9, <1>10, <3>2
      <4>2. Referrers(Edge, Dead, order'[i]) \cap (R \ {node}) = {}
        BY <1>5, <1>8, <4>1, NoReferrerLeft
      <4>3. Referrers(Edge, Dead, order'[i]) \subseteq Before(order', head + 1)
        BY <1>3, <1>5, <1>10, <4>2 DEF Referrers
      <4>4. 1..(head + 1) \subseteq 1..(i - 1)
        BY <1>3, <3>2
      <4> QED
        BY <4>3, <4>4 DEF Before
    <3> QED
      BY <1>3, <3>1, <3>2
  <2> QED
    BY <1>1, <1>3, <1>9, <1>10, <2>2, <2>3 DEF PeelInv, InOrder, ListedBy
<1>14. ChunkInv'
  BY <1>1, <1>11, <1>12, NoChunkYet DEF chunkVars
<1> QED
  BY <1>12, <1>13, <1>14

(***************************************************************************)
(* The queue is empty.                                                     *)
(***************************************************************************)
LEMMA LeastNat ==
    ASSUME NEW T \in SUBSET Nat, T # {}
    PROVE  \E i \in T : \A j \in T : i <= j
<1>1. PICK i \in T : \A j \in T : ~ (<<j, i>> \in OpToRel(<, Nat))
  BY WFMin, NatLessThanWellFounded
<1>2. \A j \in T : ~(j < i)
  BY <1>1 DEF OpToRel
<1> QED
  BY <1>2

\* What keeps itself alive is never reached: its first node in the queue would
\* have a referrer before it.
LEMMA QueueHasNoCycle ==
    ASSUME NEW k \in Nat, InOrder(order, k),
           NEW S \in SUBSET Dead, \A n \in S : Referrers(Edge, S, n) # {}
    PROVE  S \cap Before(order, k) = {}
<1> SUFFICES ASSUME NEW x \in S, x \in Before(order, k) PROVE FALSE
  OBVIOUS
<1> DEFINE T == { i \in 1..k : order[i] \in S }
<1>1. T \in SUBSET Nat /\ T # {}
  BY DEF Before
<1>2. PICK i \in T : \A j \in T : i <= j
  BY <1>1, LeastNat
<1>3. i \in 1..k /\ order[i] \in S
  OBVIOUS
<1>4. PICK r \in S : r \in Referrers(Edge, S, order[i])
  BY <1>3 DEF Referrers
<1>5. r \in Before(order, i - 1)
  BY <1>3, <1>4 DEF InOrder, Referrers
<1>6. PICK j \in 1..(i - 1) : order[j] = r
  BY <1>5 DEF Before
<1>7. j \in T /\ j < i
  BY <1>3, <1>6
<1> QED
  BY <1>2, <1>3, <1>6, <1>7

LEMMA TailStep == ASSUME IInv, AppendTail PROVE IInv'
<1> USE OrderAssumption DEF IInv
<1> DEFINE Rest == { m \in Dead : inDegree[m] # 0 }
           done == Before(order, Len(order))
<1>1. /\ pc = "peel" /\ head = Len(order) /\ pc' = "loop"
      /\ acyclicLen' = Len(order) /\ order' = order \o InIndexOrder(Rest)
      /\ UNCHANGED <<input, inDegree, head, chunkVars>>
  BY DEF AppendTail
<1>2. /\ order \in Seq(Dead) /\ IsInjective(order) /\ Len(order) \in Nat
      /\ Dead \in SUBSET Node
  BY DEF TypeOK, Dead
<1>3. Dead' = Dead /\ Edge' = Edge
  BY <1>1, InputFrame
<1>4. /\ \A m \in Node : inDegree[m] = ListedBy(Dead \ done, m)
      /\ done = { m \in Dead : inDegree[m] = 0 }
      /\ InOrder(order, Len(order))
  BY <1>1 DEF PeelInv
<1>5. Rest = Dead \ done /\ Rest \in SUBSET Dead /\ Rest \in SUBSET Node /\ done \cap Rest = {}
  BY <1>2, <1>4
<1>6. IsFiniteSet(Rest) /\ InIndexOrder(Rest) \in SetToSeqs(Rest)
  BY <1>5, NodeFinite, IndexOrderLists
<1> HIDE DEF Rest, done
<1>7. /\ order' \in Seq(Dead) /\ IsInjective(order')
      /\ Len(order') \in Nat /\ Len(order') >= Len(order)
      /\ \A i \in 1..Len(order) : order'[i] = order[i]
      /\ Before(order', Len(order')) = done \cup Rest
      /\ \A k \in 0..Len(order) : Before(order', k) = Before(order, k)
  <2> DEFINE t == InIndexOrder(Rest)
             u == order \o t
  <2> HIDE DEF t
  <2>1. t \in SetToSeqs(Rest) /\ Before(order, Len(order)) \cap Rest = {}
    BY <1>5, <1>6 DEF t, done
  <2>2. /\ u \in Seq(Dead) /\ IsInjective(u)
        /\ Len(u) \in Nat /\ Len(u) >= Len(order)
        /\ \A i \in 1..Len(order) : u[i] = order[i]
        /\ Before(u, Len(u)) = Before(order, Len(order)) \cup Rest
        /\ \A k \in 0..Len(order) : Before(u, k) = Before(order, k)
    BY <1>2, <1>5, <1>6, <2>1, JoinFacts
  <2>3. order' = u
    BY <1>1 DEF t
  <2> HIDE DEF u
  <2> QED
    BY <2>2, <2>3 DEF done
<1>8. cursor = 0 /\ chunk = <<>>
  BY <1>1 DEF ChunkInv
<1>9. TypeOK'
  <2>1. head' \in 0..Len(order') /\ acyclicLen' \in 0..Len(order') /\ cursor' \in 0..Len(order')
    BY <1>1, <1>2, <1>7, <1>8 DEF chunkVars
  <2>2. chunk' = SubSeq(order', cursor' - Len(chunk') + 1, cursor')
    BY <1>1, <1>8 DEF chunkVars
  <2> QED
    BY <1>1, <1>3, <1>7, <2>1, <2>2 DEF TypeOK, input, chunkVars
<1>10. Rest = CyclicTail(Edge, Dead)
  <2>1. ASSUME NEW n \in Rest PROVE Referrers(Edge, Rest, n) # {}
    <3>1. n \in Dead /\ n \in Node /\ ListedBy(Rest, n) # 0
      BY <1>4, <1>5, <2>1 DEF Rest
    <3>2. Referrers(Edge, Dead, n) \cap Rest # {}
      BY <1>5, <3>1, NoReferrerLeft
    <3> QED
      BY <3>2 DEF Referrers
  <2>2. Rest \subseteq CyclicTail(Edge, Dead)
    BY <1>5, <2>1 DEF CyclicTail
  <2>3. ASSUME NEW S \in SUBSET Dead, \A n \in S : Referrers(Edge, S, n) # {}
        PROVE  S \subseteq Rest
    BY <1>2, <1>4, <1>5, <2>3, QueueHasNoCycle DEF done
  <2> QED
    BY <2>2, <2>3 DEF CyclicTail
<1>11. PeelInv'
  <2>1. Before(order', Len(order')) = Dead'
    BY <1>3, <1>4, <1>5, <1>7
  <2>2. Dead' \ Before(order', acyclicLen') = CyclicTail(Edge', Dead')
    <3>1. Len(order) \in 0..Len(order)
      BY <1>2
    <3>2. Before(order', Len(order)) = done
      BY <1>7, <3>1 DEF done
    <3> QED
      BY <1>1, <1>3, <1>5, <1>10, <3>2
  <2>3. \A i \in 1..acyclicLen' : Referrers(Edge', Dead', order'[i]) \subseteq Before(order', i - 1)
    <3> SUFFICES ASSUME NEW i \in 1..Len(order)
                 PROVE  Referrers(Edge, Dead, order'[i]) \subseteq Before(order', i - 1)
      BY <1>1, <1>3
    <3>1. i - 1 \in 0..Len(order)
      BY <1>2
    <3> QED
      BY <1>4, <1>7, <3>1 DEF InOrder
  <2> QED
    BY <1>1, <2>1, <2>2, <2>3 DEF PeelInv, InOrder
<1>12. ChunkInv'
  BY <1>1, <1>8, <1>9, NoChunkYet DEF chunkVars
<1> QED
  BY <1>9, <1>11, <1>12

(***************************************************************************)
(* The chunk loop.                                                         *)
(***************************************************************************)
LEMMA MinOfTwo ==
    ASSUME NEW a \in Nat, NEW b \in Nat
    PROVE  Min({a, b}) = IF a <= b THEN a ELSE b
  BY DEF Min

\* The chunk is a stretch of the order that ends at the cursor.
LEMMA ChunkFacts ==
    ASSUME TypeOK, Len(chunk) \in 0..cursor
    PROVE  /\ order \in Seq(Dead) /\ IsInjective(order) /\ Len(order) \in Nat
           /\ cursor \in 0..Len(order) /\ acyclicLen \in 0..Len(order)
           /\ cursor - Len(chunk) \in 0..cursor
           /\ chunk \in Seq(Dead)
           /\ ToSet(chunk) = { order[i] : i \in (cursor - Len(chunk) + 1)..cursor }
           /\ ToSet(chunk) \in SUBSET Dead /\ Dead \in SUBSET Node
           /\ IsFiniteSet(ToSet(chunk))
<1> DEFINE start == cursor - Len(chunk)
<1>1. /\ order \in Seq(Dead) /\ IsInjective(order) /\ Len(order) \in Nat
      /\ cursor \in 0..Len(order) /\ acyclicLen \in 0..Len(order)
      /\ chunk = SubSeq(order, start + 1, cursor)
  BY DEF TypeOK
<1>2. start \in 0..cursor /\ start \in Nat /\ start <= cursor
  BY <1>1
<1> HIDE DEF start
<1>3. chunk \in Seq(Dead)
  BY <1>1, <1>2
<1>4. ToSet(chunk) = { order[i] : i \in (start + 1)..cursor }
  <2>1. order \in Seq(Dead) /\ cursor \in 0..Len(order)
    BY <1>1
  <2>2. start \in Nat /\ start <= cursor
    BY <1>2
  <2>3. ToSet(SubSeq(order, start + 1, cursor)) = { order[i] : i \in (start + 1)..cursor }
    BY <2>1, <2>2, ToSetIs
  <2> QED
    BY <1>1, <2>3
<1>5. \A i \in (start + 1)..cursor : order[i] \in Dead
  BY <1>1, <1>2
<1>6. ToSet(chunk) \in SUBSET Dead /\ Dead \in SUBSET Node
  BY <1>4, <1>5 DEF Dead
<1>7. IsFiniteSet(ToSet(chunk))
  BY <1>6, NodeFinite
<1> QED
  BY <1>1, <1>2, <1>3, <1>4, <1>6, <1>7 DEF start

LEMMA OrderFrame ==
    ASSUME PeelInv, UNCHANGED <<input, orderVars>>,
           pc \in {"loop", "take", "done"}, pc' \in {"loop", "take", "done"}
    PROVE  PeelInv'
<1>1. order' = order /\ acyclicLen' = acyclicLen /\ Dead' = Dead /\ Edge' = Edge
  BY InputFrame DEF orderVars
<1> QED
  BY <1>1 DEF PeelInv, InOrder

LEMMA BeginStep == ASSUME IInv, BeginChunk PROVE IInv'
<1> USE OrderAssumption DEF IInv
<1>1. /\ pc = "loop" /\ pc' = "take" /\ cursor < Len(order) /\ freed < maxFreed
      /\ chunk' = <<>> /\ estimated' = 0
      /\ UNCHANGED <<input, orderVars, cursor, freed>>
  BY DEF BeginChunk
<1>2. PeelInv'
  BY <1>1, OrderFrame
<1>3. Dead' = Dead
  BY <1>1, InputFrame
<1>4. TypeOK'
  <2>1. chunk' = SubSeq(order', cursor' - Len(chunk') + 1, cursor')
    BY <1>1 DEF TypeOK, orderVars
  <2> QED
    BY <1>1, <1>3, <2>1 DEF TypeOK, input, orderVars
<1>5. ChunkInv'
  <2>1. ToSet(<<>>) = {}
    BY DEF ToSet
  <2>2. Total(Size, Top, {}) = 0
    BY FS_EmptySet, TotalZero
  <2>3. estimated' = Min({Top, Total(Size, Top, ToSet(chunk'))})
    <3>1. Min({Top, 0}) = 0
      BY MinOfTwo
    <3> QED
      BY <1>1, <2>1, <2>2, <3>1
  <2>4. cursor' \in Nat /\ acyclicLen' \in Nat /\ maxChunk' \in Nat \ {0} /\ Len(chunk') = 0
    BY <1>1, <1>4 DEF TypeOK
  <2>5. TakeAll' \/ (cursor' <= acyclicLen' /\ Len(chunk') <= maxChunk')
    <3>1. TakeAll' <=> cursor' - Len(chunk') >= acyclicLen'
      BY DEF TakeAll
    <3>2. cursor' - Len(chunk') >= acyclicLen' \/ cursor' <= acyclicLen'
      <4>1. \A i, j \in Nat : i - 0 >= j \/ i <= j
        OBVIOUS
      <4> QED
        BY <2>4, <4>1
    <3>3. Len(chunk') <= maxChunk'
      BY <2>4
    <3> QED
      BY <3>1, <3>2, <3>3
  <2> QED
    BY <1>1, <2>3, <2>4, <2>5 DEF ChunkInv, BudgetKept, input, orderVars
<1> QED
  BY <1>2, <1>4, <1>5

\* The stretch grows by the node at the cursor.
LEMMA StretchGrows ==
    ASSUME NEW S, NEW s \in Seq(S), NEW j \in Nat, NEW k \in Nat, j <= k, k < Len(s)
    PROVE  SubSeq(s, j + 1, k + 1) = Append(SubSeq(s, j + 1, k), s[k + 1])
  OBVIOUS

LEMMA FrontOfAppend ==
    ASSUME NEW S, NEW s \in Seq(S), NEW e \in S
    PROVE  Front(Append(s, e)) = s /\ ToSet(Append(s, e)) = ToSet(s) \cup {e}
<1>1. Front(Append(s, e)) = s
  BY DEF Front
<1>2. DOMAIN s = 1..Len(s) /\ DOMAIN Append(s, e) = 1..(Len(s) + 1) /\ Len(s) \in Nat
  OBVIOUS
<1>3. /\ \A i \in 1..Len(s) : Append(s, e)[i] = s[i]
      /\ Append(s, e)[Len(s) + 1] = e
  OBVIOUS
<1>4. 1..(Len(s) + 1) = (1..Len(s)) \cup {Len(s) + 1}
  BY <1>2
<1>5. ToSet(Append(s, e)) = ToSet(s) \cup {e}
  BY <1>2, <1>3, <1>4 DEF ToSet
<1> QED
  BY <1>1, <1>5

LEMMA TakeStep == ASSUME IInv, Take PROVE IInv'
<1> USE OrderAssumption DEF IInv
<1> DEFINE node == order[cursor + 1]
           start == cursor - Len(chunk)
           sum == Total(Size, Top, ToSet(chunk))
<1>1. /\ pc = "take" /\ pc' = "take" /\ Fits
      /\ chunk' = Append(chunk, node)
      /\ estimated' = Min({Top, estimated + Size[node]})
      /\ cursor' = cursor + 1
      /\ UNCHANGED <<input, pc, orderVars, freed>>
  BY DEF Take
<1>2. Len(chunk) \in 0..cursor /\ cursor < Len(order)
  BY <1>1 DEF ChunkInv, Fits
<1>3. /\ order \in Seq(Dead) /\ IsInjective(order) /\ Len(order) \in Nat
      /\ cursor \in 0..Len(order) /\ acyclicLen \in 0..Len(order)
      /\ start \in 0..cursor /\ chunk \in Seq(Dead)
      /\ ToSet(chunk) = { order[i] : i \in (start + 1)..cursor }
      /\ ToSet(chunk) \in SUBSET Dead /\ Dead \in SUBSET Node
      /\ IsFiniteSet(ToSet(chunk))
  BY <1>2, ChunkFacts
<1>4. chunk = SubSeq(order, start + 1, cursor)
  BY DEF TypeOK
<1>5. node \in Dead /\ node \in Node /\ node \notin ToSet(chunk)
  <2>1. cursor + 1 \in 1..Len(order)
    BY <1>2, <1>3
  <2>2. \A i \in (start + 1)..cursor : i \in 1..Len(order) /\ i # cursor + 1
    BY <1>3
  <2> QED
    BY <1>3, <2>1, <2>2 DEF IsInjective
<1>6. Dead' = Dead
  BY <1>1, InputFrame
<1>7. Len(chunk') = Len(chunk) + 1 /\ Len(chunk) \in Nat /\ chunk' # <<>>
  BY <1>1, <1>3, <1>5
<1>8. cursor' - Len(chunk') = start
  BY <1>1, <1>3, <1>7
<1>9. Front(chunk') = chunk /\ ToSet(chunk') = ToSet(chunk) \cup {node}
  BY <1>1, <1>3, <1>5, FrontOfAppend
<1>10. sum \in Nat /\ Total(Size, Top, ToSet(chunk')) = sum + Size[node]
  <2>1. ToSet(chunk') \ {node} = ToSet(chunk) /\ node \in ToSet(chunk')
    BY <1>5, <1>9
  <2>2. IsFiniteSet(ToSet(chunk'))
    <3>1. ToSet(chunk') \in SUBSET Node
      BY <1>3, <1>5, <1>9
    <3> QED
      BY <3>1, NodeFinite
  <2>3. Size[node] \in 0..Top /\ Top \in Nat
    BY <1>5 DEF Node
  <2>4. sum \in Nat
    BY <1>3, <2>3, UnitsFinite
  <2> HIDE DEF node
  <2>5. Total(Size, Top, ToSet(chunk')) = Total(Size, Top, ToSet(chunk') \ {node}) + Size[node]
    BY <2>1, <2>2, <2>3, TotalWithout
  <2> QED
    BY <2>1, <2>4, <2>5
<1>11. estimated = Min({Top, sum})
  BY <1>1 DEF ChunkInv
<1>12. Size[node] \in 0..Top /\ estimated \in 0..Top /\ maxFreed \in 0..Top /\ freed \in 0..Top
  BY <1>5 DEF TypeOK, Node
<1> HIDE DEF node, start, sum
<1>13. estimated' = Min({Top, sum + Size[node]}) /\ estimated' \in 0..Top
  <2>1. estimated = IF Top <= sum THEN Top ELSE sum
    BY <1>10, <1>11, MinOfTwo
  <2>2. estimated' = IF Top <= estimated + Size[node] THEN Top ELSE estimated + Size[node]
    BY <1>1, <1>12, MinOfTwo
  <2>3. Min({Top, sum + Size[node]}) = IF Top <= sum + Size[node] THEN Top ELSE sum + Size[node]
    BY <1>10, <1>12, MinOfTwo
  <2> QED
    BY <1>10, <1>12, <2>1, <2>2, <2>3
<1>14. PeelInv'
  BY <1>1, OrderFrame
<1>15. TypeOK'
  <2>1. start \in Nat /\ cursor \in Nat /\ start <= cursor
    BY <1>3
  <2>2. chunk' = SubSeq(order, start + 1, cursor + 1)
    BY <1>1, <1>2, <1>3, <1>4, <2>1, StretchGrows DEF node
  <2>3. cursor + 1 \in 0..Len(order)
    BY <1>2, <1>3
  <2> QED
    BY <1>1, <1>6, <1>8, <1>13, <2>2, <2>3 DEF TypeOK, input, orderVars
<1>16. BudgetKept'
  <2>1. CASE TakeAll
    <3>1. TakeAll'
      BY <1>1, <1>8, <2>1 DEF TakeAll, start, orderVars
    <3> QED
      BY <3>1 DEF BudgetKept
  <2>2. CASE ~TakeAll
    <3>1. estimated < maxFreed - freed
      BY <1>1, <2>2 DEF Fits
    <3>2. estimated = IF Top <= sum THEN Top ELSE sum
      BY <1>10, <1>11, MinOfTwo
    <3>3. sum < maxFreed - freed
      BY <1>10, <1>12, <3>1, <3>2
    <3>4. Total(Size, Top, ToSet(Front(chunk'))) = sum
      BY <1>9 DEF sum
    <3> QED
      BY <1>1, <3>3, <3>4 DEF BudgetKept, input
  <2> QED
    BY <2>1, <2>2
<1>17. ChunkInv'
  <2>1. Len(chunk') \in 0..cursor'
    BY <1>1, <1>2, <1>3, <1>7
  <2>2. TakeAll' \/ (cursor' <= acyclicLen' /\ Len(chunk') <= maxChunk')
    <3>1. CASE TakeAll
      BY <1>1, <1>8, <3>1 DEF TakeAll, start, orderVars
    <3>2. CASE cursor < acyclicLen /\ Len(chunk) < maxChunk
      <4>1. maxChunk \in Nat
        BY DEF TypeOK
      <4> QED
        BY <1>1, <1>3, <1>7, <3>2, <4>1 DEF input, orderVars
    <3> QED
      BY <1>1, <3>1, <3>2 DEF Fits
  <2>3. freed' < maxFreed'
    BY <1>1 DEF ChunkInv, input
  <2> QED
    BY <1>1, <1>7, <1>10, <1>13, <1>16, <2>1, <2>2, <2>3 DEF ChunkInv
<1> QED
  BY <1>14, <1>15, <1>17

LEMMA EndStep == ASSUME IInv, EndChunk PROVE IInv'
<1> USE OrderAssumption DEF IInv
<1>1. /\ pc = "take" /\ pc' \in {"loop", "done"} /\ freed' \in freed..Top
      /\ chunk' = <<>> /\ estimated' = 0
      /\ UNCHANGED <<input, orderVars, cursor>>
  BY DEF EndChunk
<1>2. PeelInv'
  BY <1>1, OrderFrame
<1>3. Dead' = Dead
  BY <1>1, InputFrame
<1>4. TypeOK'
  <2>1. chunk' = SubSeq(order', cursor' - Len(chunk') + 1, cursor')
    BY <1>1 DEF TypeOK, orderVars
  <2>2. freed' \in 0..Top
    BY <1>1 DEF TypeOK
  <2> QED
    BY <1>1, <1>3, <2>1, <2>2 DEF TypeOK, input, orderVars
<1>5. ChunkInv'
  <2>1. Len(chunk') \in 0..cursor'
    BY <1>1, <1>4 DEF TypeOK
  <2> QED
    BY <1>1, <2>1 DEF ChunkInv, BudgetKept
<1> QED
  BY <1>2, <1>4, <1>5

LEMMA StopStep == ASSUME IInv, Stop PROVE IInv'
<1> USE DEF IInv
<1>1. /\ pc = "loop" /\ pc' = "done" /\ UNCHANGED <<input, orderVars, chunkVars>>
  BY DEF Stop
<1>2. PeelInv'
  BY <1>1, OrderFrame
<1>3. Dead' = Dead
  BY <1>1, InputFrame
<1>4. TypeOK'
  BY <1>1, <1>3 DEF TypeOK, input, orderVars, chunkVars
<1>5. ChunkInv'
  BY <1>1 DEF ChunkInv, BudgetKept, chunkVars
<1> QED
  BY <1>2, <1>4, <1>5

LEMMA StutterStep == ASSUME IInv, UNCHANGED vars PROVE IInv'
<1> USE DEF IInv
<1>1. UNCHANGED <<input, pc, orderVars, chunkVars>>
  BY DEF vars
<1>2. Dead' = Dead /\ Edge' = Edge /\ \A S, m : ListedBy(S, m) = Total([n \in Node |-> Listed(n, m)'], MaxMult, S)
  BY <1>1, InputFrame
<1>3. TypeOK'
  BY <1>1, <1>2 DEF TypeOK, input, orderVars, chunkVars
<1>4. PeelInv'
  <2>1. \A m \in Node : pc = "peel" =>
          inDegree'[m] = Total([n \in Node |-> Listed(n, m)'], MaxMult, Dead' \ Before(order', head'))
    BY <1>1, <1>2 DEF PeelInv, orderVars
  <2>2. order' = order /\ acyclicLen' = acyclicLen /\ inDegree' = inDegree /\ head' = head /\ pc' = pc
    BY <1>1 DEF orderVars
  <2> QED
    BY <1>2, <2>1, <2>2 DEF PeelInv, InOrder, ListedBy
<1>5. ChunkInv'
  <2>1. /\ pc' = pc /\ cursor' = cursor /\ chunk' = chunk /\ estimated' = estimated /\ freed' = freed
        /\ order' = order /\ acyclicLen' = acyclicLen /\ maxFreed' = maxFreed /\ maxChunk' = maxChunk
    BY <1>1 DEF input, orderVars, chunkVars
  <2> QED
    BY <2>1 DEF ChunkInv, BudgetKept, TakeAll
<1> QED
  BY <1>3, <1>4, <1>5

LEMMA IInvNext == ASSUME IInv, [Next]_vars PROVE IInv'
<1>1. CASE CountReferrers BY <1>1, CountStep
<1>2. CASE Peel BY <1>2, PeelStep
<1>3. CASE AppendTail BY <1>3, TailStep
<1>4. CASE BeginChunk BY <1>4, BeginStep
<1>5. CASE Take BY <1>5, TakeStep
<1>6. CASE EndChunk BY <1>6, EndStep
<1>7. CASE Stop BY <1>7, StopStep
<1>8. CASE Done BY <1>8, StutterStep DEF Done
<1>9. CASE UNCHANGED vars BY <1>9, StutterStep
<1> QED
  BY <1>1, <1>2, <1>3, <1>4, <1>5, <1>6, <1>7, <1>8, <1>9 DEF Next

(***************************************************************************)
(* The theorems.                                                           *)
(***************************************************************************)

\* The queue, its counters and the cursor keep the invariant the properties
\* below follow from.
THEOREM OrderInvariant == Spec => []IInv
<1>1. Init => IInv
  BY InitInv
<1>2. IInv /\ [Next]_vars => IInv'
  BY IInvNext
<1> QED
  BY <1>1, <1>2, PTL DEF Spec

\* Every variable of the deletion code has the values it is meant to have; in_degree
\* never goes below zero, no dead node is queued twice, and the chunk is what
\* the cursor went over last.
THEOREM OrderTypes == Spec => []TypeOK
<1>1. IInv => TypeOK
  BY DEF IInv
<1> QED
  BY <1>1, OrderInvariant, PTL

LEMMA TakenIsBefore ==
    ASSUME TypeOK, NEW k \in 0..Len(order)
    PROVE  Taken(k) = Before(order, k)
<1>1. order \in Seq(Dead)
  BY DEF TypeOK
<1> QED
  BY <1>1, TakenIs DEF Taken

\* Kahn's algorithm puts every dead node of the acyclic part after all its dead
\* referrers, leaves for the tail exactly what keeps itself alive, and loses no
\* dead node.
THEOREM ReferrersComeFirst == Spec => []ReferrersFirst
<1>1. ASSUME IInv, pc \in {"loop", "take", "done"}
      PROVE  /\ Taken(Len(order)) = Dead
             /\ Dead \ Taken(acyclicLen) = CyclicTail(Edge, Dead)
             /\ \A i \in 1..acyclicLen : Referrers(Edge, Dead, order[i]) \subseteq Taken(i - 1)
  <2>1. /\ TypeOK /\ Len(order) \in Nat /\ acyclicLen \in 0..Len(order)
        /\ Before(order, Len(order)) = Dead
        /\ Dead \ Before(order, acyclicLen) = CyclicTail(Edge, Dead)
        /\ InOrder(order, acyclicLen)
    BY <1>1 DEF IInv, TypeOK, PeelInv
  <2>2. Taken(Len(order)) = Dead /\ Dead \ Taken(acyclicLen) = CyclicTail(Edge, Dead)
    BY <2>1, TakenIsBefore
  <2>3. ASSUME NEW i \in 1..acyclicLen
        PROVE  Referrers(Edge, Dead, order[i]) \subseteq Taken(i - 1)
    <3>1. i - 1 \in 0..Len(order)
      BY <2>1
    <3> QED
      BY <2>1, <3>1, TakenIsBefore DEF InOrder
  <2> QED
    BY <2>2, <2>3
<1>2. IInv => ReferrersFirst
  BY <1>1 DEF ReferrersFirst
<1> QED
  BY <1>2, OrderInvariant, PTL

\* A chunk of the acyclic part exceeds what --max-freed leaves by one path at most,
\* whatever the narSizes, saturation at u64::MAX included.
THEOREM BudgetIsKept == Spec => []BudgetKept
<1>1. IInv => BudgetKept
  BY DEF IInv, ChunkInv
<1> QED
  BY <1>1, OrderInvariant, PTL

\* A chunk the loop begins is never empty, so that the loop ends only at the end of
\* the order or at the budget.
THEOREM ChunksAreNeverEmpty == Spec => []ChunkNeverEmpty
<1>1. ASSUME IInv, pc = "take", chunk = <<>> PROVE Fits
  <2>1. /\ freed < maxFreed /\ cursor < Len(order)
        /\ estimated = Min({Top, Total(Size, Top, ToSet(chunk))})
        /\ TakeAll \/ (cursor <= acyclicLen /\ Len(chunk) <= maxChunk)
    BY <1>1 DEF IInv, ChunkInv
  <2>2. ToSet(chunk) = {}
    BY <1>1 DEF ToSet
  <2>3. Total(Size, Top, {}) = 0 /\ Min({Top, 0}) = 0
    BY FS_EmptySet, TotalZero, MinOfTwo, OrderAssumption
  <2>4. estimated = 0
    BY <2>1, <2>2, <2>3
  <2>5. /\ maxFreed \in Nat /\ freed \in Nat /\ maxChunk \in Nat \ {0}
        /\ cursor \in Nat /\ acyclicLen \in Nat /\ Len(chunk) = 0
    BY <1>1, OrderAssumption DEF IInv, TypeOK
  <2>6. 0 < maxFreed - freed /\ Len(chunk) < maxChunk
    BY <2>1, <2>5
  <2>7. CASE TakeAll
    BY <2>1, <2>7 DEF Fits
  <2>8. CASE cursor < acyclicLen
    BY <2>1, <2>4, <2>6, <2>8 DEF Fits
  <2>9. TakeAll \/ cursor < acyclicLen
    <3>1. TakeAll <=> cursor - Len(chunk) >= acyclicLen
      BY DEF TakeAll
    <3>2. \A i, j \in Nat : i - 0 >= j \/ i < j
      OBVIOUS
    <3> QED
      BY <2>5, <3>1, <3>2
  <2> QED
    BY <2>7, <2>8, <2>9
<1>2. IInv => ChunkNeverEmpty
  BY <1>1 DEF ChunkNeverEmpty
<1> QED
  BY <1>2, OrderInvariant, PTL

(***************************************************************************)
(* The refinement.                                                         *)
(***************************************************************************)
Start == cursor - Len(chunk)
Todo  == Dead \ Taken(Start)

LEMMA StartFacts ==
    ASSUME IInv
    PROVE  /\ Start \in 0..cursor /\ Start \in 0..Len(order) /\ cursor \in 0..Len(order)
           /\ Taken(Start) = Before(order, Start)
           /\ Taken(cursor) = Taken(Start) \cup ToSet(chunk)
           /\ Taken(Start) \cap ToSet(chunk) = {}
<1>1. TypeOK /\ Len(chunk) \in 0..cursor
  BY DEF IInv, ChunkInv
<1>2. /\ order \in Seq(Dead) /\ IsInjective(order) /\ Len(order) \in Nat
      /\ cursor \in 0..Len(order) /\ Start \in 0..cursor
      /\ ToSet(chunk) = { order[i] : i \in (Start + 1)..cursor }
  BY <1>1, ChunkFacts DEF Start
<1>3. Start \in 0..Len(order)
  BY <1>2
<1>4. Taken(Start) = Before(order, Start) /\ Taken(cursor) = Before(order, cursor)
  BY <1>1, <1>2, <1>3, TakenIsBefore
<1>5. 1..cursor = (1..Start) \cup ((Start + 1)..cursor)
  BY <1>2
<1>6. Before(order, cursor) = Before(order, Start) \cup ToSet(chunk)
  BY <1>2, <1>5 DEF Before
<1>7. \A i \in 1..Start, j \in (Start + 1)..cursor : order[i] # order[j]
  <2> SUFFICES ASSUME NEW i \in 1..Start, NEW j \in (Start + 1)..cursor PROVE order[i] # order[j]
    OBVIOUS
  <2>1. i \in 1..Len(order) /\ j \in 1..Len(order) /\ i # j
    BY <1>2
  <2> QED
    BY <1>2, <2>1 DEF IsInjective
<1>8. Before(order, Start) \cap ToSet(chunk) = {}
  BY <1>2, <1>7 DEF Before
<1> QED
  BY <1>2, <1>3, <1>4, <1>6, <1>8

LEMMA BeforeGrows ==
    ASSUME NEW s, NEW j \in Nat, NEW k \in Nat, j <= k
    PROVE  Before(s, j) \subseteq Before(s, k)
<1>1. 1..j \subseteq 1..k
  OBVIOUS
<1> QED
  BY <1>1 DEF Before

\* A set listed by a sequence has no more elements than the sequence.
LEMMA NoMoreThanListed ==
    ASSUME NEW S, NEW s \in Seq(S)
    PROVE  Cardinality(ToSet(s)) <= Len(s)
<1> DEFINE D == 1..Len(s)
<1>1. Len(s) \in Nat /\ DOMAIN s = D
  OBVIOUS
<1>2. ToSet(s) = { s[i] : i \in D }
  BY <1>1 DEF ToSet
<1>3. s \in [D -> ToSet(s)]
  BY <1>1, <1>2
<1>4. s \in Surjection(D, ToSet(s))
  BY <1>2, <1>3 DEF Surjection
<1>5. IsFiniteSet(D) /\ Cardinality(D) = Len(s)
  BY <1>1, FS_Interval
<1> HIDE DEF D
<1>6. Cardinality(ToSet(s)) <= Cardinality(D)
  BY <1>4, <1>5, FS_Surjection
<1> QED
  BY <1>5, <1>6

\* The chunk that is deleted is the whole tail, or a stretch of the acyclic part.
LEMMA ChunkAtEnd ==
    ASSUME IInv, EndChunk, chunk # <<>>
    PROVE  IsNextChunk(Edge, Dead, Todo, maxChunk, ToSet(chunk))
<1> DEFINE C == ToSet(chunk)
           tail == CyclicTail(Edge, Dead)
<1>1. /\ TypeOK /\ Len(chunk) \in 0..cursor /\ ~Fits
      /\ Before(order, Len(order)) = Dead
      /\ tail = Dead \ Before(order, acyclicLen)
      /\ InOrder(order, acyclicLen)
      /\ TakeAll \/ (cursor <= acyclicLen /\ Len(chunk) <= maxChunk)
  BY DEF IInv, ChunkInv, PeelInv, EndChunk
<1>2. /\ Len(order) \in Nat /\ acyclicLen \in 0..Len(order) /\ cursor \in 0..Len(order)
      /\ chunk \in Seq(Dead)
      /\ C = { order[i] : i \in (Start + 1)..cursor } /\ C \in SUBSET Dead
  BY <1>1, ChunkFacts DEF Start
<1>3. /\ Start \in 0..cursor /\ Start \in 0..Len(order)
      /\ Todo = Dead \ Before(order, Start)
      /\ Before(order, cursor) = Before(order, Start) \cup C
      /\ Before(order, Start) \cap C = {}
  BY <1>1, <1>2, StartFacts, TakenIsBefore DEF Todo
<1>4. C \subseteq Todo
  BY <1>2, <1>3
<1>5. C # {} /\ Start < cursor
  <2>1. Len(chunk) # 0
    BY <1>2
  <2>2. Start + 1 \in (Start + 1)..cursor /\ Start < cursor
    BY <1>1, <1>2, <2>1 DEF Start
  <2> QED
    BY <1>2, <2>2
<1>6. TakeAll <=> Start >= acyclicLen
  BY DEF TakeAll, Start
<1> HIDE DEF C, tail
<1>7. CASE TakeAll
  <2>1. cursor = Len(order)
    BY <1>1, <1>2, <1>7 DEF Fits
  <2>2. C = Todo
    BY <1>1, <1>3, <1>4, <2>1
  <2>3. Before(order, acyclicLen) \subseteq Before(order, Start)
    BY <1>2, <1>3, <1>6, <1>7, BeforeGrows
  <2>4. Todo \subseteq tail
    BY <1>1, <1>3, <2>3
  <2>5. TakesReferrersFirst(Edge, Todo, C)
    BY <2>2 DEF TakesReferrersFirst, Referrers
  <2> QED
    BY <1>4, <1>5, <2>2, <2>4, <2>5 DEF IsNextChunk, ChunkWithin, C, tail
<1>8. CASE ~TakeAll
  <2>1. cursor <= acyclicLen /\ Len(chunk) <= maxChunk
    BY <1>1, <1>8
  <2>2. Before(order, cursor) \subseteq Before(order, acyclicLen)
    BY <1>2, <2>1, BeforeGrows
  <2>3. C \cap tail = {}
    BY <1>1, <1>3, <2>2
  <2>4. ~(Todo \subseteq tail)
    BY <1>4, <1>5, <2>3
  <2>5. Cardinality(C) <= maxChunk
    <3>1. Cardinality(C) <= Len(chunk)
      BY <1>2, NoMoreThanListed DEF C
    <3>2. Cardinality(C) \in Nat /\ Len(chunk) \in Nat /\ maxChunk \in Nat
      <4>1. C \in SUBSET Node
        BY <1>2 DEF Dead
      <4> QED
        BY <1>1, <1>2, <4>1, NodeFinite, FS_CardinalityType DEF TypeOK
    <3> QED
      BY <2>1, <3>1, <3>2
  <2>6. ASSUME NEW n \in C, NEW r \in Referrers(Edge, Todo, n)
        PROVE  r \in C
    <3>1. PICK i \in (Start + 1)..cursor : n = order[i]
      BY <1>2, <2>6
    <3>2. r \in Todo /\ r \in Referrers(Edge, Dead, n)
      BY <1>3 DEF Referrers
    <3>3. i \in 1..acyclicLen /\ i - 1 \in Nat /\ i - 1 <= cursor /\ cursor \in Nat
      BY <1>2, <1>3, <2>1
    <3>4. r \in Before(order, i - 1)
      BY <1>1, <3>1, <3>2, <3>3 DEF InOrder
    <3>5. r \in Before(order, cursor)
      BY <3>3, <3>4, BeforeGrows
    <3> QED
      BY <1>3, <3>2, <3>5
  <2> QED
    BY <1>4, <1>5, <2>3, <2>4, <2>5, <2>6 DEF IsNextChunk, ChunkWithin, TakesReferrersFirst, C, tail
<1> QED
  BY <1>7, <1>8

LEMMA SweepInit == Init => Sweep!Init
<1> SUFFICES ASSUME Init PROVE Sweep!Init
  OBVIOUS
<1>1. TypeOK /\ cursor = 0 /\ chunk = <<>>
  BY InitInv DEF IInv, Init
<1>2. Edge \in [Node -> SUBSET Node] /\ Dead \in SUBSET Node /\ maxChunk \in Nat \ {0}
  BY <1>1 DEF TypeOK, Edge, Dead
<1>3. Taken(cursor - Len(chunk)) = {}
  <2>1. cursor - Len(chunk) = 0 /\ 0 \in 0..Len(order)
    <3>1. Len(<<>>) = 0 /\ 0 - 0 = 0
      OBVIOUS
    <3>2. Len(order) \in Nat
      BY <1>1 DEF TypeOK
    <3>3. cursor = 0 /\ Len(chunk) = 0
      BY <1>1, <3>1
    <3>4. 0 \in 0..Len(order)
      BY <3>2
    <3> QED
      BY <3>1, <3>3, <3>4
  <2> QED
    BY <1>1, <2>1, TakenIsBefore DEF Before
<1> QED
  BY <1>2, <1>3 DEF Sweep!Init

\* An instance has its own name for the library's definition, which is the same.
LEMMA SameCount == \A S : Sweep!Cardinality(S) = Cardinality(S)
  BY DEF Cardinality, Sweep!Cardinality

\* The two specifications claim chunks by the same operator.
LEMMA SameChunks ==
    ASSUME NEW E, NEW dead, NEW todo, NEW max, NEW c
    PROVE  IsNextChunk(E, dead, todo, max, c) <=> Sweep!IsNextChunk(E, dead, todo, max, c)
<1>1. \A S, n : Referrers(E, S, n) = Sweep!Referrers(E, S, n)
  BY DEF Referrers, Sweep!Referrers
<1>2. TakesReferrersFirst(E, todo, c) <=> Sweep!TakesReferrersFirst(E, todo, c)
  BY <1>1 DEF TakesReferrersFirst, Sweep!TakesReferrersFirst
<1>3. CyclicTail(E, dead) = Sweep!CyclicTail(E, dead)
  BY <1>1 DEF CyclicTail, Sweep!CyclicTail
<1>4. ChunkWithin(E, dead, todo, max, c) <=> Sweep!ChunkWithin(E, dead, todo, max, c)
  <2> DEFINE tail == CyclicTail(E, dead)
             sweepTail == Sweep!CyclicTail(E, dead)
  <2>1. tail = sweepTail
    BY <1>3
  <2>2. ChunkWithin(E, dead, todo, max, c)
          <=> /\ c \subseteq todo /\ c # {}
              /\ IF todo \subseteq tail THEN c = todo ELSE c \cap tail = {} /\ Cardinality(c) <= max
    BY DEF ChunkWithin
  <2>3. Sweep!ChunkWithin(E, dead, todo, max, c)
          <=> /\ c \subseteq todo /\ c # {}
              /\ IF todo \subseteq sweepTail
                 THEN c = todo ELSE c \cap sweepTail = {} /\ Cardinality(c) <= max
    BY SameCount DEF Sweep!ChunkWithin
  <2> HIDE DEF tail, sweepTail
  <2> QED
    BY <2>1, <2>2, <2>3
<1> QED
  BY <1>2, <1>4 DEF IsNextChunk, Sweep!IsNextChunk

\* What has been taken is of the past: a longer order begins as it did.
LEMMA SweepStep ==
    ASSUME IInv, IInv', [Next]_vars
    PROVE  [Sweep!TakeChunk]_<<Edge, Dead, maxChunk, Todo>>
<1>1. Todo' = Dead' \ Taken(Start)'
  BY DEF Todo
<1>2. Edge' = Edge /\ Dead' = Dead /\ maxChunk' = maxChunk
  <2>1. UNCHANGED input
    BY DEF Next, CountReferrers, Peel, AppendTail, BeginChunk, Take, EndChunk, Stop, Done, vars
  <2> QED
    BY <2>1, InputFrame DEF input
<1>3. ASSUME order' = order, Start' = Start PROVE Todo' = Todo
  BY <1>1, <1>2, <1>3 DEF Taken, Todo
<1>4. ASSUME cursor = 0, chunk = <<>>, cursor' = 0, chunk' = <<>> PROVE Todo' = Todo
  <2>1. Start = 0 /\ Start' = 0
    <3>1. Len(<<>>) = 0 /\ 0 - 0 = 0
      OBVIOUS
    <3> QED
      BY <1>4, <3>1 DEF Start
  <2>2. SubSeq(order, 1, 0) = <<>> /\ SubSeq(order', 1, 0) = <<>>
    BY DEF IInv, TypeOK
  <2> QED
    BY <1>1, <1>2, <2>1, <2>2 DEF Taken, Todo
<1>5. CASE CountReferrers \/ Peel \/ AppendTail
  <2>1. pc \in {"count", "peel"} /\ UNCHANGED chunkVars
    BY <1>5 DEF CountReferrers, Peel, AppendTail
  <2>2. cursor = 0 /\ chunk = <<>>
    BY <2>1 DEF IInv, ChunkInv
  <2> QED
    BY <1>2, <1>4, <2>1, <2>2 DEF chunkVars
<1>6. CASE Take
  <2>1. order' = order /\ cursor' = cursor + 1 /\ chunk' = Append(chunk, order[cursor + 1])
    BY <1>6 DEF Take, orderVars
  <2>2. chunk \in Seq(Dead) /\ cursor \in Nat
    BY ChunkFacts DEF IInv, ChunkInv
  <2>3. Len(chunk') = Len(chunk) + 1 /\ Len(chunk) \in Nat
    BY <2>1, <2>2
  <2>4. Start' = Start
    BY <2>1, <2>2, <2>3 DEF Start
  <2> QED
    BY <1>2, <1>3, <2>1, <2>4
<1>7. CASE BeginChunk \/ Stop \/ Done \/ UNCHANGED vars \/ (EndChunk /\ chunk = <<>>)
  <2>1. order' = order /\ cursor' = cursor
    BY <1>7 DEF BeginChunk, Stop, Done, EndChunk, vars, orderVars, chunkVars
  <2>2. chunk' = chunk
    BY <1>7 DEF BeginChunk, Stop, Done, EndChunk, vars, chunkVars, IInv, ChunkInv
  <2>3. Start' = Start
    BY <2>1, <2>2 DEF Start
  <2> QED
    BY <1>2, <1>3, <2>1, <2>3
<1>8. CASE EndChunk /\ chunk # <<>>
  <2>1. IsNextChunk(Edge, Dead, Todo, maxChunk, ToSet(chunk))
    BY <1>8, ChunkAtEnd
  <2>2. order' = order /\ Start' = cursor
    <3>1. order' = order /\ cursor' = cursor /\ chunk' = <<>> /\ cursor \in Nat
      BY <1>8 DEF EndChunk, orderVars, IInv, TypeOK
    <3> QED
      BY <3>1 DEF Start
  <2>3. Todo' = Todo \ ToSet(chunk)
    <3>1. Taken(Start)' = Taken(cursor)
      BY <2>2 DEF Taken
    <3> QED
      BY <1>1, <1>2, <3>1, StartFacts DEF Todo
  <2>4. ToSet(chunk) \in SUBSET Todo
    BY <2>1 DEF IsNextChunk, ChunkWithin
  <2>5. Sweep!TakeChunk
    <3>1. \E c \in SUBSET Todo : IsNextChunk(Edge, Dead, Todo, maxChunk, c) /\ Todo' = Todo \ c
      BY <2>1, <2>3, <2>4
    <3>2. \A c : IsNextChunk(Edge, Dead, Todo, maxChunk, c)
                  => Sweep!IsNextChunk(Edge, Dead, Todo, maxChunk, c)
      BY SameChunks
    <3> QED
      BY <1>2, <3>1, <3>2 DEF Sweep!TakeChunk, Todo, Start
  <2> QED
    BY <2>5
<1> QED
  BY <1>5, <1>6, <1>7, <1>8 DEF Next

\* The queue and the cursor implement the chunked sweep: every chunk that is deleted
\* can be committed on its own, no still-valid path referencing a deleted one,
\* it has no more paths than --chunk-size allows, and the tail goes whole.
THEOREM OrderImplementsSweep == Spec => SweepSpec
<1>1. Init => Sweep!Init
  BY SweepInit
<1>2. IInv /\ IInv' /\ [Next]_vars => [Sweep!TakeChunk]_<<Edge, Dead, maxChunk, Dead \ Taken(cursor - Len(chunk))>>
  BY SweepStep DEF Todo, Start
<1> QED
  BY <1>1, <1>2, OrderInvariant, PTL DEF Spec, SweepSpec, Sweep!Spec
===============================================================================
