------------------------------- MODULE GcDelete -------------------------------
(***************************************************************************)
(* The deletion phase of collect_garbage (crates/gc/src/gc.rs) running     *)
(* against the gc-socket's handler threads and against builders: claim a   *)
(* chunk of dead paths in the LiveSet, delete its rows from the database,  *)
(* unlink it in parallel, then the entries on disk that have no row, then  *)
(* tear the socket down.                                                   *)
(*                                                                         *)
(* The model starts where the closure of the roots is known and the disk   *)
(* has been scanned.  The collector holds gc.lock throughout, so nothing   *)
(* else deletes and builders learn of new roots only through the socket.   *)
(***************************************************************************)
EXTENDS GcSocket

CONSTANTS
    Refs,       \* the references each path is registered with
    TmpDir,     \* names of tmp-* build directories, guarded by flock
    Goal,       \* what each builder may ask for
    MaxChunk,   \* --chunk-size
    HasBudget   \* --max-freed or --ensure-free was given

ASSUME StoreAssumption ==
    /\ Refs \in [Path -> SUBSET Path]
    /\ \A n \in Node : Refs[n] \subseteq Edge[n]
    /\ TmpDir \subseteq Path \ Node
    /\ Goal \in [Client -> SUBSET (Path \ TmpDir)]
    /\ MaxChunk \in Nat \ {0}
    /\ HasBudget \in BOOLEAN

VARIABLES
    dbValid,   \* names with a ValidPaths row
    onDisk,    \* names with an entry in the store directory
    alive,     \* compute_closure of the roots
    todo,      \* dead nodes beyond the loop's cursor
    claimed,   \* nodes of the current chunk not yet through end_delete_node
    skipped,   \* nodes of the current chunk that were protected
    unlinked,  \* names whose delete_store_path call has returned
    unknown,   \* unknown_on_disk names not yet taken up
    toCheck,   \* those of them still to be looked up in the database
    gcPc,      \* where the collector is
    outcome,   \* how it left the deletion loop
    tmpLock,   \* who holds a build directory's flock
    held,      \* roots a builder may rely on: acked, or scanned before
    uses,      \* held paths a builder found valid and builds upon
    building,  \* held paths a builder has written and not yet registered
    unbacked   \* history: rows registered on references nothing keeps

chunkVars   == <<todo, claimed, skipped>>
scanVars    == <<unknown, toCheck>>
loopVars    == <<alive, chunkVars, unlinked, scanVars, gcPc, outcome>>
builderVars == <<held, uses, building, unbacked>>
worldVars   == <<dbValid, onDisk, tmpLock, builderVars>>
vars == <<socketVars, loopVars, worldVars>>

GcState == {"chunk", "prune", "invalidate", "unlink", "recheck", "unknown",
            "drop", "done", "crashed"}

TypeOK ==
    /\ SocketTypeOK
    /\ dbValid \subseteq Path
    /\ onDisk \subseteq Path
    /\ alive \subseteq Node
    /\ todo \subseteq Node
    /\ claimed \subseteq Node
    /\ skipped \subseteq Node
    /\ unlinked \subseteq Path
    /\ unknown \subseteq Path
    /\ toCheck \subseteq Path
    /\ gcPc \in GcState
    /\ outcome \in {"none", "all", "stopped", "error"}
    /\ tmpLock \in [TmpDir -> {"free", "builder", "gc"}]
    /\ held \in [Client -> SUBSET Path]
    /\ uses \in [Client -> SUBSET Path]
    /\ building \in [Client -> SUBSET Path]
    /\ unbacked \subseteq Path

-------------------------------------------------------------------------------
(* What a builder relies on.                                               *)

\* A path and everything it needs at run time.
RefReach == ReachFrom(Refs)

\* The inputs builder c has: what it uses, with its references.
Inputs(c) == UNION { RefReach[p] : p \in uses[c] }

-------------------------------------------------------------------------------
(***************************************************************************)
(* The store as the startup leaves it: every snapshot row is there and on  *)
(* disk, and so are the rows registered since the snapshot (fresh).  Their *)
(* builders may have gone before the temp roots were read, so what a fresh *)
(* row references may be dead (the run gc_startup_fresh); such rows are    *)
(* recorded as unbacked.  A root that is held is live, or has no row in    *)
(* the snapshot and is either not to be deleted or protected by name: a    *)
(* root in a file that read_dir did not yield (see GcStartup) is not       *)
(* one the collector answers for, and is not counted as held.              *)
(***************************************************************************)
Init ==
    /\ \E roots \in SUBSET Node : alive = Closure(Edge, roots)
    /\ todo = Node \ alive
    /\ \E fresh \in SUBSET (Path \ (Node \cup TmpDir)) :
         /\ \A p \in fresh : Refs[p] \subseteq Node \cup fresh
         /\ dbValid = Node \cup fresh
         /\ unbacked = { p \in fresh : ~(RefReach[p] \subseteq alive \cup fresh) }
    /\ onDisk \in { D \in SUBSET Path : dbValid \subseteq D }
    /\ unknown \in SUBSET (onDisk \ Node)
    /\ \E early \in SUBSET (Path \ (Node \cup TmpDir)) : SocketInit(early)
    /\ held \in [Client -> SUBSET Path]
    /\ \A c \in Client :
         held[c] \subseteq Goal[c] \cap (alive \cup protectedUnknown \cup (Path \ (Node \cup unknown)))
    /\ uses = [c \in Client |-> {}]
    /\ building = [c \in Client |-> {}]
    /\ tmpLock \in [TmpDir -> {"free", "builder"}]
    /\ \A t \in TmpDir : tmpLock[t] = "builder" => t \in onDisk
    /\ claimed = {} /\ skipped = {} /\ unlinked = {} /\ toCheck = {}
    /\ gcPc = "chunk" /\ outcome = "none"

-------------------------------------------------------------------------------
(* The chunk loop.                                                         *)

ClaimChunk ==
    /\ gcPc = "chunk"
    /\ \E chunk \in SUBSET todo :
         /\ IsNextChunk(Edge, Node \ alive, todo, MaxChunk, chunk)
         /\ ClaimNodes(chunk)
         /\ claimed' = chunk \ protected
         /\ skipped' = chunk \cap protected
         /\ todo' = todo \ chunk
    /\ gcPc' = "prune"
    /\ UNCHANGED <<markVars, pendingUnknown, connVars, alive, unlinked, scanVars,
                   outcome, worldVars>>

\* freed_so_far >= max, at the head of the loop or after it.
StopEarly ==
    /\ HasBudget
    /\ gcPc = "chunk"
    /\ gcPc' = "drop"
    /\ outcome' = "stopped"
    /\ UNCHANGED <<socketVars, alive, chunkVars, unlinked, scanVars, worldVars>>

\* The closures of the skipped nodes are given back.
Prune ==
    /\ gcPc = "prune"
    /\ LET keepOut == Closure(Edge, skipped) IN
         /\ claimed' = claimed \ keepOut
         /\ EndDeleteNodes(claimed \cap keepOut)
    /\ skipped' = {}
    /\ gcPc' = "invalidate"
    /\ UNCHANGED <<markVars, pendingUnknown, callVars, alive, todo, unlinked, scanVars,
                   outcome, worldVars>>

\* Mutant: the rows stay until after the unlink.
InvalidateNothing ==
    /\ gcPc = "invalidate"
    /\ gcPc' = "unlink"
    /\ UNCHANGED <<socketVars, alive, chunkVars, unlinked, scanVars, outcome,
                   worldVars>>

\* invalidate_ids: the rows and their reference edges go in one transaction.
Invalidate ==
    /\ gcPc = "invalidate"
    /\ dbValid' = dbValid \ claimed
    /\ gcPc' = "unlink"
    /\ UNCHANGED <<socketVars, alive, chunkVars, unlinked, scanVars, outcome, onDisk,
                   builderVars, tmpLock>>

\* The transaction is rolled back and `?` leaves collect_garbage with the
\* chunk still pending.
InvalidateFails ==
    /\ gcPc = "invalidate"
    /\ gcPc' = "drop"
    /\ outcome' = "error"
    /\ UNCHANGED <<socketVars, alive, chunkVars, unlinked, scanVars, worldVars>>

\* delete_store_path, which may leave the path behind.
Unlink(n) ==
    /\ gcPc = "unlink"
    /\ n \in claimed \ unlinked
    /\ unlinked' = unlinked \cup {n}
    /\ onDisk' \in {onDisk \ {n}, onDisk}
    /\ UNCHANGED <<socketVars, alive, chunkVars, scanVars, gcPc, outcome, dbValid,
                   builderVars, tmpLock>>

EndDelete(n) ==
    /\ gcPc = "unlink"
    /\ n \in claimed \cap unlinked
    /\ EndDeleteNodes({n})
    /\ claimed' = claimed \ {n}
    /\ unlinked' = unlinked \ {n}
    /\ UNCHANGED <<markVars, pendingUnknown, callVars, alive, todo, skipped, scanVars,
                   gcPc, outcome, worldVars>>

\* The parallel for_each has returned.
ChunkEnd ==
    /\ gcPc = "unlink"
    /\ claimed = {}
    /\ gcPc' = "chunk"
    /\ UNCHANGED <<socketVars, alive, chunkVars, unlinked, scanVars, outcome,
                   worldVars>>

-------------------------------------------------------------------------------
(* The entries on disk without a row.                                      *)

LeaveLoop(names) ==
    /\ gcPc = "chunk"
    /\ gcPc' = "recheck"
    /\ toCheck' = names
    /\ UNCHANGED <<socketVars, alive, chunkVars, unlinked, unknown, outcome, worldVars>>

\* Mutants: no name is looked up again; the order stops at the cyclic tail.
ChunksDoneNoRecheck   == todo = {} /\ LeaveLoop({})
ChunksDoneWithoutTail == todo \subseteq CyclicTail(Edge, Node \ alive) /\ LeaveLoop(unknown)

\* The cursor is at the end: every scanned name is to be looked up again.
ChunksDone == todo = {} /\ LeaveLoop(unknown)

\* is_valid_path of one name: a valid one is spared, and so is one whose
\* lookup fails.
Recheck(p) ==
    /\ gcPc = "recheck"
    /\ p \in toCheck
    /\ toCheck' = toCheck \ {p}
    /\ \/ unknown' = unknown \ ({p} \cap dbValid)
       \/ unknown' = unknown \ {p}
    /\ UNCHANGED <<socketVars, alive, chunkVars, unlinked, gcPc, outcome, worldVars>>

RecheckDone ==
    /\ gcPc = "recheck"
    /\ toCheck = {}
    /\ gcPc' = "unknown"
    /\ UNCHANGED <<socketVars, alive, chunkVars, unlinked, scanVars, outcome,
                   worldVars>>

BeginUnknown(p) ==
    /\ gcPc = "unknown"
    /\ p \in unknown
    /\ unknown' = unknown \ {p}
    /\ TryBeginDeleteUnknown(p)
    /\ UNCHANGED <<markVars, pendingNodes, connVars, alive, chunkVars, unlinked,
                   toCheck, gcPc, outcome, worldVars>>

\* try_lock_dir succeeds.
LockTmp(t) ==
    /\ gcPc = "unknown"
    /\ t \in (pendingUnknown \cap onDisk) \ unlinked
    /\ tmpLock[t] = "free"
    /\ tmpLock' = [tmpLock EXCEPT ![t] = "gc"]
    /\ UNCHANGED <<socketVars, loopVars, dbValid, onDisk, builderVars>>

\* A builder holds the directory, or removed it between the stat and the open.
SkipTmp(t) ==
    /\ gcPc = "unknown"
    /\ t \in pendingUnknown \ unlinked
    /\ tmpLock[t] = "builder" \/ (tmpLock[t] = "free" /\ t \notin onDisk)
    /\ EndDeleteUnknown(t)
    /\ UNCHANGED <<markVars, pendingNodes, callVars, loopVars, worldVars>>

\* Mutant: a build directory is unlinked like any other entry.
UnlinkRegardless(p) ==
    /\ gcPc = "unknown"
    /\ p \in pendingUnknown \ unlinked
    /\ unlinked' = unlinked \cup {p}
    /\ onDisk' \in {onDisk \ {p}, onDisk}
    /\ UNCHANGED <<socketVars, alive, chunkVars, scanVars, gcPc, outcome, dbValid,
                   builderVars, tmpLock>>

\* A tmp-* directory is unlinked under its lock, or is no longer there.
UnlinkUnknown(p) ==
    /\ gcPc = "unknown"
    /\ p \in pendingUnknown \ unlinked
    /\ p \in TmpDir => tmpLock[p] = "gc" \/ p \notin onDisk
    /\ unlinked' = unlinked \cup {p}
    /\ onDisk' \in {onDisk \ {p}, onDisk}
    /\ UNCHANGED <<socketVars, alive, chunkVars, scanVars, gcPc, outcome, dbValid,
                   builderVars, tmpLock>>

\* end_delete_unknown, then the lock guard goes out of scope.
EndUnknown(p) ==
    /\ gcPc = "unknown"
    /\ p \in pendingUnknown \cap unlinked
    /\ EndDeleteUnknown(p)
    /\ unlinked' = unlinked \ {p}
    /\ tmpLock' = [t \in TmpDir |-> IF t = p /\ tmpLock[t] = "gc" THEN "free" ELSE tmpLock[t]]
    /\ UNCHANGED <<markVars, pendingNodes, callVars, alive, chunkVars, scanVars, gcPc,
                   outcome, dbValid, onDisk, builderVars>>

UnknownDone ==
    /\ gcPc = "unknown"
    /\ unknown = {} /\ pendingUnknown = {}
    /\ gcPc' = "drop"
    /\ outcome' = "all"
    /\ UNCHANGED <<socketVars, alive, chunkVars, unlinked, scanVars, worldVars>>

-------------------------------------------------------------------------------
(* The socket goes before the lock, when collect_garbage's locals drop.    *)

DropSocket ==
    /\ gcPc = "drop"
    /\ \/ CloseListener \/ Cancel \/ \E c \in Client : ShutDown(c)
    /\ UNCHANGED <<loopVars, worldVars>>

Return ==
    /\ gcPc = "drop"
    /\ Joined
    /\ gcPc' = "done"
    /\ UNCHANGED <<alive, chunkVars, unlinked, scanVars, outcome, worldVars>>

\* The process dies: its threads, its sockets, its memory and its flocks go
\* with it.
Crash ==
    /\ gcPc \notin {"done", "crashed"}
    /\ gcPc' = "crashed"
    /\ outcome' = "none"
    /\ SocketGone
    /\ alive' = {} /\ todo' = {} /\ claimed' = {} /\ skipped' = {}
    /\ unlinked' = {} /\ unknown' = {} /\ toCheck' = {}
    /\ tmpLock' = [t \in TmpDir |-> IF tmpLock[t] = "gc" THEN "free" ELSE tmpLock[t]]
    /\ UNCHANGED <<dbValid, onDisk, builderVars>>

-------------------------------------------------------------------------------
(* The handler threads.                                                    *)

Connect(c) ==
    /\ Accept(c)
    /\ UNCHANGED <<loopVars, worldVars>>

Request(c) ==
    /\ \E p \in Goal[c] \ held[c] : ReadLine(c, p)
    /\ UNCHANGED <<loopVars, worldVars>>

Wake(c) ==
    /\ WakeUp(c)
    /\ UNCHANGED <<markVars, pendingNodes, pendingUnknown, callVars, loopVars, worldVars>>

\* From the ack on, the builder counts on the path.
Ack(c) ==
    /\ AckDelivered(c)
    /\ held' = [held EXCEPT ![c] = @ \cup {want[c]}]
    /\ UNCHANGED <<markVars, pendingNodes, pendingUnknown, loopVars,
                   dbValid, onDisk, tmpLock, uses, building, unbacked>>

AckLost(c) ==
    /\ AckFails(c)
    /\ UNCHANGED <<markVars, pendingNodes, pendingUnknown, loopVars, worldVars>>

Hangup(c) ==
    /\ Eof(c)
    /\ UNCHANGED <<markVars, pendingNodes, pendingUnknown, loopVars, worldVars>>

-------------------------------------------------------------------------------
(* Builders: Nix processes, modelled as they use the protocol.             *)

\* A held path is found valid: the builder will not build it again.
Use(c, p) ==
    /\ p \in held[c] \cap dbValid
    /\ uses' = [uses EXCEPT ![c] = @ \cup {p}]
    /\ UNCHANGED <<socketVars, loopVars, dbValid, onDisk, tmpLock, held, building, unbacked>>

\* A held path that is not valid is built anew from the builder's inputs; Nix's
\* lock on the output path keeps other builders off it.
Write(c, p) ==
    /\ p \in held[c] \ dbValid
    /\ \A d \in Client : p \notin building[d]
    /\ Refs[p] \subseteq Inputs(c) \cup {p}
    /\ onDisk' = onDisk \cup {p}
    /\ building' = [building EXCEPT ![c] = @ \cup {p}]
    /\ UNCHANGED <<socketVars, loopVars, dbValid, tmpLock, held, uses, unbacked>>

\* The row goes in with its references.  What is built upon an unbacked row is
\* no better backed than that row.
Register(c, p) ==
    /\ p \in building[c]
    /\ dbValid' = dbValid \cup {p}
    /\ unbacked' = unbacked \cup { q \in {p} : uses[c] \cap unbacked # {} }
    /\ building' = [building EXCEPT ![c] = @ \ {p}]
    /\ UNCHANGED <<socketVars, loopVars, onDisk, tmpLock, held, uses>>

\* The builder ends, its temp roots with it.
Exit(c) ==
    /\ handler[c] = "closed"
    /\ held[c] # {}
    /\ held' = [held EXCEPT ![c] = {}]
    /\ uses' = [uses EXCEPT ![c] = {}]
    /\ building' = [building EXCEPT ![c] = {}]
    /\ UNCHANGED <<socketVars, loopVars, dbValid, onDisk, tmpLock, unbacked>>

\* A build directory made before the scan is locked by its builder...
TakeTmp(t) ==
    /\ t \in onDisk
    /\ tmpLock[t] = "free"
    /\ tmpLock' = [tmpLock EXCEPT ![t] = "builder"]
    /\ UNCHANGED <<socketVars, loopVars, dbValid, onDisk, builderVars>>

\* ... and removed, or left behind, when the build is over.
ReleaseTmp(t) ==
    /\ tmpLock[t] = "builder"
    /\ tmpLock' = [tmpLock EXCEPT ![t] = "free"]
    /\ onDisk' \in {onDisk \ {t}, onDisk}
    /\ UNCHANGED <<socketVars, loopVars, dbValid, builderVars>>

-------------------------------------------------------------------------------
Collect ==
    \/ ClaimChunk \/ StopEarly \/ Prune \/ Invalidate \/ InvalidateFails
    \/ \E n \in Node : Unlink(n) \/ EndDelete(n)
    \/ ChunkEnd \/ ChunksDone
    \/ \E p \in Path : Recheck(p) \/ BeginUnknown(p) \/ UnlinkUnknown(p) \/ EndUnknown(p)
    \/ \E t \in TmpDir : LockTmp(t) \/ SkipTmp(t)
    \/ RecheckDone \/ UnknownDone \/ DropSocket \/ Return

Serve(c) == Connect(c) \/ Request(c) \/ Wake(c) \/ Ack(c) \/ AckLost(c) \/ Hangup(c)

Build(c) == (\E p \in Path : Use(c, p) \/ Write(c, p) \/ Register(c, p)) \/ Exit(c)

\* The run is over and the builders have gone.
Ended ==
    /\ gcPc \in {"done", "crashed"}
    /\ UNCHANGED vars

Next ==
    \/ Collect
    \/ Crash
    \/ \E c \in Client : Serve(c) \/ Build(c)
    \/ \E t \in TmpDir : TakeTmp(t) \/ ReleaseTmp(t)
    \/ Ended

(***************************************************************************)
(* The collector's thread and its rayon workers keep running; a handler    *)
(* that was notified runs, one whose protect() returned writes its ack,    *)
(* and one whose stream Drop shut down sees the end of file.  Builders owe *)
(* nothing.                                                                *)
(***************************************************************************)
Fairness ==
    /\ WF_vars(Collect)
    /\ \A c \in Client : /\ WF_vars(Wake(c))
                         /\ WF_vars(Ack(c) \/ AckLost(c))
                         /\ WF_vars(Hangup(c) /\ c \in shut)

Spec == Init /\ [][Next]_vars

FairSpec == Spec /\ Fairness

-------------------------------------------------------------------------------
(* Safety.                                                                 *)

\* A row never outlives its path: rows are deleted before the unlink, and a
\* path registered behind the snapshot is not unlinked as unknown.
NoDanglingRows == dbValid \subseteq onDisk

\* A valid path's references are valid, after every chunk, after an error
\* and after a crash: chunks go referrer first and cycles go whole.  The
\* exceptions are the rows registered behind the snapshot on references that
\* nothing kept alive, and the rows built upon those.
RefsClosed == \A p \in dbValid \ unbacked : Refs[p] \subseteq dbValid

\* What a builder found valid after its ack stays complete, with all it
\* references, for as long as the builder lives, unless it was unbacked then.
UsesIntact ==
    \A c \in Client : \A p \in uses[c] \ unbacked : RefReach[p] \subseteq dbValid \cap onDisk

\* An output being written after the ack is never unlinked under the builder.
BuildKept == \A c \in Client : building[c] \subseteq onDisk

\* A locked build directory survives the sweep of unknown entries.
HeldTmpDirKept == \A t \in TmpDir : tmpLock[t] = "builder" => t \in onDisk

\* A sweep that was not cut short leaves no dead row behind.
CollectsAll ==
    gcPc = "done" /\ outcome = "all" => dbValid \cap Node \subseteq alive \cup protected

\* No wakeup is lost: a handler asleep in protect() has something left to wait
\* for, and its wait was not cancelled.
SleepersHaveCause ==
    \A c \in Client : handler[c] = "asleep" => Conflict(want[c], waitFor[c]) /\ ~cancelled

\* claim_nodes takes a whole chunk in one critical section and protect() marks
\* whole closures, so nothing claimed is ever below something skipped.
PruneIsIdle == gcPc = "prune" => Closure(Edge, skipped) \cap claimed = {}

\* The promise of the ack, as crates/gc/tests/socket_concurrency.rs puts it:
\* nothing in the closure of an acked path is unlinked from then on.
AckedNeverUnlinked ==
    [][\A c \in Client : \A p \in held[c] :
          onDisk \cap (ProtectSet(p) \cup {p}) \subseteq onDisk']_vars

-------------------------------------------------------------------------------
(* Liveness.                                                               *)

\* No protect() sleeps for ever: every deletion it waits for ends and notifies,
\* and teardown releases the rest.
RequestsAnswered ==
    \A c \in Client : handler[c] \in {"asleep", "woken"} ~> handler[c] \notin {"asleep", "woken"}

\* The run ends, the socket and the lock with it.
GcEnds == <>(gcPc \in {"done", "crashed"})

-------------------------------------------------------------------------------
(***************************************************************************)
(* The inductive invariant, in its named parts.  The idea: the nodes out   *)
(* of the collector's reach (Kept) are closed under references, and every  *)
(* valid row is either kept with all it needs, or still in the collector's *)
(* hands with none of its referrers left behind.  Unbacked rows are kept,  *)
(* but not what they need, and no other row comes to need them.            *)
(***************************************************************************)

\* What the current chunk will unlink.
Doomed == IF gcPc \in {"prune", "invalidate", "unlink"} THEN claimed ELSE {}

\* The nodes this run will not delete any more.
Kept == IF gcPc = "crashed" THEN Node ELSE alive \cup (protected \ Doomed)

\* A path whose ack would be truthful now.
Safe(p) == IF p \in Node
           THEN Reach[p] \subseteq Kept
           ELSE p \notin pendingUnknown /\ (p \in unknown => p \in protectedUnknown)

\* Valid paths the collector leaves alone.
Good == { p \in dbValid : p \in Node => Safe(p) }

LoopInv ==
    /\ pendingNodes = claimed
    /\ gcPc \in {"chunk", "recheck", "unknown"} => claimed = {}
    /\ gcPc \in {"recheck", "unknown"} \/ outcome = "all" => todo = {} /\ claimed = {}
    /\ IsClosed(Edge, alive) /\ IsClosed(Edge, protected)
    /\ (todo \cup claimed) \cap alive = {}
    /\ todo \cap claimed = {}
    /\ cancelled => gcPc \in {"drop", "done"}

\* No node waits behind a claimed one that it references.
OrderInv == gcPc \in {"prune", "invalidate"} =>
                \A n \in claimed : Referrers(Edge, todo, n) = {}

UnknownInv ==
    /\ unknown \cap Node = {} /\ pendingUnknown \cap (Node \cup dbValid) = {}
    /\ protectedUnknown \cap Node = {}
    /\ gcPc # "unknown" => pendingUnknown = {}
    /\ gcPc = "recheck" => toCheck \subseteq unknown
    /\ gcPc \in {"recheck", "unknown"} =>
         (unknown \cap dbValid) \ protectedUnknown \subseteq toCheck
    /\ gcPc = "unknown" => toCheck = {}

\* A protect() in progress has marked its closure and knows what it waits for.
Marked(c) ==
    /\ want[c] \in Goal[c]
    /\ IF want[c] \in Node
       THEN /\ Reach[want[c]] \subseteq protected
            /\ Reach[want[c]] \cap Doomed \subseteq waitFor[c]
       ELSE want[c] \in protectedUnknown
    /\ handler[c] = "ack" => Safe(want[c])

WaitInv == \A c \in Client : handler[c] \in {"asleep", "woken", "ack"} => Marked(c)

BuilderInv == \A c \in Client :
    /\ held[c] \subseteq Goal[c]
    /\ \A p \in held[c] : Safe(p)
    /\ uses[c] \subseteq Good
    /\ building[c] \subseteq held[c] \cap onDisk
    /\ \A p \in building[c] : Refs[p] \subseteq Inputs(c) \cup {p}

\* What is being built has no row yet, and one builder.
BuildInv == \A c \in Client :
    /\ building[c] \cap dbValid = {}
    /\ \A d \in Client \ {c} : building[c] \cap building[d] = {}

RowInv ==
    /\ dbValid \cap TmpDir = {}
    /\ \A p \in dbValid \cap Node : p \in todo \cup claimed \/ Safe(p)
    /\ \A p \in dbValid \ (Node \cup unbacked) : \A r \in Refs[p] \cap Node : Safe(r)
    /\ gcPc = "unlink" => claimed \cap dbValid = {}

\* The rows that lack something stay out of the others' references.
BackedInv ==
    /\ unbacked \subseteq Good
    /\ \A p \in dbValid \ unbacked : Refs[p] \cap unbacked = {}

IInv == /\ TypeOK /\ LoopInv /\ OrderInv /\ UnknownInv /\ WaitInv
        /\ BuilderInv /\ BuildInv /\ RowInv /\ BackedInv
        /\ NoDanglingRows /\ RefsClosed /\ HeldTmpDirKept /\ PruneIsIdle
===============================================================================
