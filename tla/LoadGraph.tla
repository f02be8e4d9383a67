------------------------------- MODULE LoadGraph -------------------------------
(***************************************************************************)
(* NixDb::load_graph (db.rs): the rows of ValidPaths and up to five edge   *)
(* queries, one after the other in one read transaction, the CSR arrays    *)
(* built from them, and compute_closure on the result (ClosureWalk).  Nix  *)
(* commits other transactions in between.                                  *)
(*                                                                         *)
(* Node is the set of store paths.  A row's id is not modelled: Refs and   *)
(* DerivationOutputs rows go with the ValidPaths row they belong to        *)
(* (ON DELETE CASCADE), derivers and build traces are joined by path.      *)
(***************************************************************************)
EXTENDS ClosureWalk, SequencesExt

CONSTANTS
    NoDeriver,
    MaxCommits,
    Listed(_)   \* the rows of a result in the order SQLite returns them

Pairs == Node \X Node

ASSUME ListedAssumption ==
    \A rows \in (SUBSET Node) \cup (SUBSET Pairs) : Listed(rows) \in SetToSeqs(rows)

VARIABLES
    db,        \* the database, as committed
    snap,      \* what the read transaction sees
    settings,  \* keep_derivations and keep_outputs
    pc,        \* the next step of load_graph
    paths,     \* nodes by index, first index 1
    edges,     \* the edges read so far, as pairs of indices
    commits    \* Nix's transactions so far

loadVars == <<db, snap, settings, pc, paths, edges, commits>>
allVars  == <<loadVars, vars>>

\* A database Nix may have committed: closed under references, no row of an output
\* map without its derivation.
Consistent(d) ==
    /\ DOMAIN d = {"valid", "refs", "deriver", "outputs", "trace"}
    /\ d.valid \subseteq Node
    /\ d.refs \subseteq d.valid \X d.valid
    /\ d.deriver \in [d.valid -> Node \cup {NoDeriver}]
    /\ d.outputs \subseteq d.valid \X Node
    /\ d.trace \subseteq Pairs

LoadInit ==
    /\ settings \in [derivations : BOOLEAN, outputs : BOOLEAN]
    /\ Consistent(db)
    /\ snap = db
    /\ pc = "nodes" /\ paths = <<>> /\ edges = <<>> /\ commits = 0
    /\ edge = [n \in Node |-> {}] /\ roots = {} /\ alive = {} /\ stack = {}

-------------------------------------------------------------------------------
\* Mutant: every query sees what is committed by then.
VisibleLatest == db

\* The transaction's snapshot is taken by its first read.
Visible == IF pc = "nodes" THEN db ELSE snap

Index(p) == CHOOSE i \in DOMAIN paths : paths[i] = p
IsNode(p) == \E i \in DOMAIN paths : paths[i] = p

\* The rows of a query, those without a node left out.
AddEdges(rows) ==
    LET known == Listed({ r \in rows : IsNode(r[1]) /\ IsNode(r[2]) }) IN
    edges' = edges \o [k \in DOMAIN known |-> <<Index(known[k][1]), Index(known[k][2])>>]

LoadNodes ==
    /\ pc = "nodes"
    /\ snap' = Visible
    /\ paths' = Listed(Visible.valid)
    /\ pc' = "refs"
    /\ UNCHANGED <<db, settings, edges, commits, vars>>

Query(here, next, wanted, rows) ==
    /\ pc = here
    /\ IF wanted THEN AddEdges(rows) ELSE UNCHANGED edges
    /\ pc' = next
    /\ UNCHANGED <<db, snap, settings, paths, commits, vars>>

\* Every valid path with its deriver, if that is valid too.
ByDeriver == { r \in Pairs : /\ r[1] \in Visible.valid /\ r[2] \in Visible.valid
                             /\ Visible.deriver[r[1]] = r[2] }

Swap(rows) == { <<r[2], r[1]>> : r \in rows }

ValidOutputs(rows) == { r \in rows : r[2] \in Visible.valid }

\* Mutant: the output map is taken for a list of derivers.
LoadEdgesPinned ==
    \/ Query("refs", "derivers", TRUE, Visible.refs)
    \/ Query("derivers", "outputs", settings.derivations, ByDeriver \cup Swap(Visible.outputs))
    \/ Query("outputs", "drvs", settings.outputs, ValidOutputs(Visible.outputs))
    \/ Query("drvs", "trace", settings.outputs, Swap(ByDeriver))
    \/ Query("trace", "csr", settings.outputs, Visible.trace)

LoadEdges ==
    \/ Query("refs", "derivers", TRUE, Visible.refs)
    \/ Query("derivers", "outputs", settings.derivations, ByDeriver)
    \/ Query("outputs", "drvs", settings.outputs, ValidOutputs(Visible.outputs))
    \/ Query("drvs", "trace", settings.outputs, Swap(ByDeriver))
    \/ Query("trace", "csr", settings.outputs, Visible.trace)

\* ref_offsets: where a node's targets begin; the last one is the number of edges.
RefOffset(i) == Cardinality({ k \in DOMAIN edges : edges[k][1] < i })

\* ref_targets: the edges in the order of their first node.
RefTargets ==
    [ j \in 1..Len(edges) |->
        LET k == CHOOSE e \in DOMAIN edges :
                   j = RefOffset(edges[e][1])
                       + Cardinality({ f \in 1..e : edges[f][1] = edges[e][1] })
        IN edges[k][2] ]

\* refs(node).
RefsOf(i) == { RefTargets[j] : j \in (RefOffset(i) + 1)..RefOffset(i + 1) }

\* The arrays are built, and compute_closure is called with some roots.
CallClosure ==
    /\ pc = "csr"
    /\ edge' = [n \in Node |-> IF IsNode(n) THEN { paths[i] : i \in RefsOf(Index(n)) } ELSE {}]
    /\ roots' \in SUBSET { paths[i] : i \in DOMAIN paths }
    /\ alive' = roots' /\ stack' = roots'
    /\ pc' = "walk"
    /\ UNCHANGED <<db, snap, settings, paths, edges, commits>>

Walk == /\ pc = "walk"
        /\ \E n \in Node : Pop(n)
        /\ UNCHANGED loadVars

Return == /\ pc = "walk" /\ stack = {}
          /\ pc' = "done"
          /\ UNCHANGED <<db, snap, settings, paths, edges, commits, vars>>

-------------------------------------------------------------------------------
(* Nix.                                                                    *)

\* A path is registered with its references and its deriver.
Register(p) ==
    /\ p \notin db.valid
    /\ \E R \in SUBSET (db.valid \cup {p}), v \in Node \cup {NoDeriver} :
         db' = [db EXCEPT !.valid = @ \cup {p}, !.refs = @ \cup ({p} \X R),
                          !.deriver = [q \in db.valid \cup {p} |-> IF q = p THEN v ELSE @[q]]]

\* A path nobody references is invalidated; what hangs on its row goes with it.
Invalidate(p) ==
    /\ p \in db.valid
    /\ \A r \in db.refs : r[2] = p => r[1] = p
    /\ db' = [db EXCEPT !.valid = @ \ {p},
                        !.refs = { r \in @ : r[1] # p },
                        !.deriver = [q \in db.valid \ {p} |-> @[q]],
                        !.outputs = { r \in @ : r[1] # p }]

Commit == /\ commits < MaxCommits /\ pc \notin {"walk", "done"}
          /\ commits' = commits + 1
          /\ \E p \in Node : Register(p) \/ Invalidate(p)
          /\ UNCHANGED <<snap, settings, pc, paths, edges, vars>>

LoadNext == \/ LoadNodes \/ LoadEdges \/ CallClosure \/ Walk \/ Return \/ Commit
            \/ pc = "done" /\ UNCHANGED allVars

LoadFairness ==
    WF_allVars(LoadNodes \/ LoadEdges \/ CallClosure \/ Walk \/ Return)

LoadSpec == LoadInit /\ [][LoadNext]_allVars /\ LoadFairness

-------------------------------------------------------------------------------
(***************************************************************************)
(* What Nix keeps alive for an alive path, from the comment on the edge    *)
(* directions: its references; with keep-derivations the deriver its row   *)
(* names, and no other derivation; with keep-outputs the valid outputs of  *)
(* a derivation, by any of the three maps.                                 *)
(***************************************************************************)
Keeps(p, q) ==
    \/ <<p, q>> \in snap.refs
    \/ settings.derivations /\ snap.deriver[p] = q
    \/ settings.outputs /\ (\/ <<p, q>> \in snap.outputs \cup snap.trace
                            \/ snap.deriver[q] = p)

\* What the collector takes for alive is what Nix would keep of one committed state
\* of the database, neither more nor less, whatever is committed meanwhile.
AliveAsNixKeeps ==
    pc = "done" =>
        alive = Closure([p \in snap.valid |-> { q \in snap.valid : Keeps(p, q) }], roots)

\* load_graph and the walk end, on cyclic graphs too.
LoadReturns == <>(pc = "done")
===============================================================================
