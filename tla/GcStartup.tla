------------------------------- MODULE GcStartup -------------------------------
(***************************************************************************)
(* collect_garbage from the lock to the first deletion (gc.rs), against    *)
(* the builders' side of the protocol (TempRoots::add in temp_roots.rs):   *)
(* gc.lock, the early gc-socket, the graph snapshot, the swap to the real  *)
(* socket, the root scans and the scan of the store directory.  Builders   *)
(* add roots, build, register and exit all the while.                      *)
(*                                                                         *)
(* GcDelete starts where this module is "ready".  Nothing is being deleted *)
(* yet, so protect() never waits and is one step.                          *)
(***************************************************************************)
EXTENDS StoreGraph

CONSTANTS
    Path,     \* the store basenames
    Refs,     \* the references each path is registered with
    GcRoot,   \* what gcroots and profiles point to
    Builder,  \* processes with a temproots file
    Goal,     \* the roots each may add
    LockOf,   \* the name of a path's .lock file, which shares its hash part
    NoPath    \* no add() in progress

ASSUME StartupAssumption ==
    /\ IsFiniteSet(Path) /\ IsFiniteSet(Builder)
    /\ Refs \in [Path -> SUBSET Path]
    /\ GcRoot \subseteq Path
    /\ Goal \in [Builder -> SUBSET Path]
    /\ DOMAIN LockOf \subseteq Path
    /\ \A p \in DOMAIN LockOf : LockOf[p] \notin Path
    /\ NoPath \notin Path

LockFile == { LockOf[p] : p \in DOMAIN LockOf }
Name == Path \cup LockFile

VARIABLES
    gcPc,              \* where the collector is
    node,              \* the rows of the graph snapshot
    earlyRoots,        \* what the early server was sent
    protected,         \* nodes the real server flagged
    protectedUnknown,  \* names outside the graph it must not delete
    roots,             \* nodes found to be roots
    toRead,            \* builders whose temproots file is still to be read
    unlisted,          \* builders whose file an error of read_dir hid
    tempRoots,         \* temp_root_basenames and temp_root_hashes
    alive,             \* compute_closure of the roots
    toVisit,           \* names read_dir has not come to
    unknown,           \* unknown_on_disk
    dbValid,           \* names with a ValidPaths row
    onDisk,            \* names with an entry in the store directory
    up,                \* builders that live and hold their file's flock
    file,              \* what each temproots file lists
    conn,              \* the server a builder's socket is connected to
    step,              \* where a builder's add() is
    adding,            \* its argument
    locks,             \* paths whose .lock file a builder holds
    before             \* roots listed when gc.lock was taken

serverVars == <<earlyRoots, protected, protectedUnknown>>
scanVars   == <<roots, toRead, unlisted, tempRoots, alive, toVisit, unknown>>
gcVars     == <<gcPc, node, serverVars, scanVars, before>>
addVars    == <<file, conn, step, adding>>
builderVars == <<up, addVars, locks>>
worldVars  == <<dbValid, onDisk>>
vars == <<gcVars, worldVars, builderVars>>

GcState == {"idle", "locked", "early", "loaded", "dropped", "replay", "roots", "temp",
            "closure", "scan", "ready", "gone"}

TypeOK ==
    /\ gcPc \in GcState
    /\ node \subseteq Path /\ roots \subseteq node /\ alive \subseteq node
    /\ earlyRoots \subseteq Path /\ tempRoots \subseteq Path
    /\ protected \subseteq node /\ protectedUnknown \subseteq Path \ node
    /\ toRead \subseteq Builder /\ unlisted \subseteq Builder /\ toVisit \subseteq Name
    /\ unknown \subseteq Name \ node
    /\ dbValid \subseteq Path /\ onDisk \subseteq Name
    /\ up \subseteq Builder
    /\ file \in [Builder -> SUBSET Path]
    /\ conn \in [Builder -> {"none", "early", "real"}]
    /\ step \in [Builder -> {"idle", "try", "sent", "recorded", "write"}]
    /\ adding \in [Builder -> Path \cup {NoPath}]
    /\ locks \in [Builder -> SUBSET DOMAIN LockOf]
    /\ before \in [Builder -> SUBSET Path]

-------------------------------------------------------------------------------
\* The snapshot's graph: references between rows of the snapshot.
Edge == [n \in node |-> Refs[n] \cap node]

Reach == ReachFrom(Edge)

RefReach == ReachFrom(Refs)

\* The roots a living builder's add() has returned for.
Held(c) == IF c \in up THEN file[c] ELSE {}

LockFree == gcPc \in {"idle", "gone"}

\* The server a builder finds when it connects.
Serving == IF gcPc \in {"early", "loaded"} THEN "early"
           ELSE IF gcPc \in {"replay", "roots", "temp", "closure", "scan", "ready"} THEN "real"
           ELSE "none"

\* The server's end of every connection is closed: add() starts over.
Disconnect ==
    /\ conn' = [c \in Builder |-> "none"]
    /\ step' = [c \in Builder |-> IF step[c] \in {"sent", "recorded"} THEN "try" ELSE step[c]]

Init ==
    /\ gcPc = "idle"
    /\ node = {} /\ earlyRoots = {} /\ protected = {} /\ protectedUnknown = {}
    /\ roots = {} /\ toRead = {} /\ unlisted = {} /\ tempRoots = {} /\ alive = {}
    /\ toVisit = {} /\ unknown = {}
    /\ dbValid \in { V \in SUBSET Path : \A p \in V : Refs[p] \subseteq V }
    /\ onDisk \in { D \in SUBSET Name : dbValid \subseteq D }
    /\ up = Builder
    /\ file \in [Builder -> SUBSET Path] /\ \A c \in Builder : file[c] \subseteq Goal[c]
    /\ conn = [c \in Builder |-> "none"]
    /\ step = [c \in Builder |-> "idle"] /\ adding = [c \in Builder |-> NoPath]
    /\ locks = [c \in Builder |-> {}]
    /\ before = [c \in Builder |-> {}]

-------------------------------------------------------------------------------
(* The collector.                                                          *)

\* acquire_gc_lock.
Lock ==
    /\ gcPc = "idle"
    /\ gcPc' = "locked"
    /\ before' = file
    /\ UNCHANGED <<node, serverVars, scanVars, worldVars, builderVars>>

\* The early server, on an empty graph.
StartEarly ==
    /\ gcPc = "locked"
    /\ gcPc' = "early"
    /\ UNCHANGED <<node, serverVars, scanVars, before, worldVars, builderVars>>

\* load_graph reads one snapshot of the database.
LoadGraph ==
    /\ gcPc = "early"
    /\ node' = dbValid
    /\ gcPc' = "loaded"
    /\ UNCHANGED <<serverVars, scanVars, before, worldVars, builderVars>>

\* Mutant: the connections are left open.
DropEarlyLeavesStreams ==
    /\ gcPc = "loaded"
    /\ gcPc' = "dropped"
    /\ UNCHANGED <<node, serverVars, scanVars, before, worldVars, builderVars>>

\* drop(early_socket): the handlers are joined, what was not acked is retried.
DropEarly ==
    /\ gcPc = "loaded"
    /\ Disconnect
    /\ gcPc' = "dropped"
    /\ UNCHANGED <<node, serverVars, scanVars, before, worldVars, up, file, adding, locks>>

\* protected_unknown_snapshot, then the real server on the snapshot.
StartReal ==
    /\ gcPc = "dropped"
    /\ gcPc' = "replay"
    /\ UNCHANGED <<node, serverVars, scanVars, before, worldVars, builderVars>>

\* Mutants: names outside the graph are forgotten; every name becomes a root.
ReplayKnownOnly ==
    /\ gcPc = "replay"
    /\ roots' = earlyRoots \cap node
    /\ gcPc' = "roots"
    /\ UNCHANGED <<node, serverVars, toRead, unlisted, tempRoots, alive, toVisit, unknown, before,
                   worldVars, builderVars>>
ReplayAllAsRoots ==
    /\ gcPc = "replay"
    /\ roots' = earlyRoots
    /\ gcPc' = "roots"
    /\ UNCHANGED <<node, serverVars, toRead, unlisted, tempRoots, alive, toVisit, unknown, before,
                   worldVars, builderVars>>

\* The early roots are replayed: nodes become roots, other names stay protected.
Replay ==
    /\ gcPc = "replay"
    /\ roots' = earlyRoots \cap node
    /\ protectedUnknown' = protectedUnknown \cup (earlyRoots \ node)
    /\ gcPc' = "roots"
    /\ UNCHANGED <<node, earlyRoots, protected, toRead, unlisted, tempRoots, alive, toVisit,
                   unknown, before, worldVars, builderVars>>

FindRoots ==
    /\ gcPc = "roots"
    /\ roots' = roots \cup (GcRoot \cap node)
    /\ toRead' = Builder
    /\ gcPc' = "temp"
    /\ UNCHANGED <<node, serverVars, unlisted, tempRoots, alive, toVisit, unknown, before,
                   worldVars, builderVars>>

\* find_temp_roots takes up a file: a dead owner's is ignored.
ReadTempFile(c) ==
    /\ gcPc = "temp"
    /\ c \in toRead
    /\ toRead' = toRead \ {c}
    /\ LET found == IF c \in up THEN file[c] ELSE {} IN
         /\ roots' = roots \cup (found \cap node)
         /\ tempRoots' = tempRoots \cup found
    /\ UNCHANGED <<gcPc, node, serverVars, unlisted, alive, toVisit, unknown, before,
                   worldVars, builderVars>>

\* An error of read_dir, or of one of its entries, is dropped: the files it hides
\* are not read and the collection goes on.
MissTempFile(c) ==
    /\ gcPc = "temp"
    /\ c \in toRead
    /\ toRead' = toRead \ {c}
    /\ unlisted' = unlisted \cup {c}
    /\ UNCHANGED <<gcPc, node, serverVars, roots, tempRoots, alive, toVisit, unknown, before,
                   worldVars, builderVars>>

TempRootsRead ==
    /\ gcPc = "temp"
    /\ toRead = {}
    /\ gcPc' = "closure"
    /\ UNCHANGED <<node, serverVars, scanVars, before, worldVars, builderVars>>

ComputeClosure ==
    /\ gcPc = "closure"
    /\ alive' = Closure(Edge, roots)
    /\ toVisit' = Name
    /\ gcPc' = "scan"
    /\ UNCHANGED <<node, serverVars, roots, toRead, unlisted, tempRoots, unknown, before,
                   worldVars, builderVars>>

\* Mutant: the hash part is not compared, the name is.
ActiveByName(n) == n \in tempRoots

\* The entry is a temp root or shares one's hash part.
Active(n) == \E p \in tempRoots : n = p \/ (p \in DOMAIN LockOf /\ n = LockOf[p])

\* The scan of the store directory comes to a name.
Visit(n) ==
    /\ gcPc = "scan"
    /\ n \in toVisit
    /\ toVisit' = toVisit \ {n}
    /\ unknown' = IF n \in onDisk \ node /\ ~Active(n) THEN unknown \cup {n} ELSE unknown
    /\ UNCHANGED <<gcPc, node, serverVars, roots, toRead, unlisted, tempRoots, alive, before,
                   worldVars, builderVars>>

\* The end of the directory; here too an error hides the rest of it.
DiskScanned ==
    /\ gcPc = "scan"
    /\ toVisit' = {}
    /\ gcPc' = "ready"
    /\ UNCHANGED <<node, serverVars, roots, toRead, unlisted, tempRoots, alive, unknown, before,
                   worldVars, builderVars>>

\* An error return, a crash, or the end of the run: sockets, lock and memory go.
Leave ==
    /\ ~LockFree
    /\ Disconnect
    /\ gcPc' = "gone"
    /\ node' = {} /\ earlyRoots' = {} /\ protected' = {} /\ protectedUnknown' = {}
    /\ roots' = {} /\ toRead' = {} /\ unlisted' = {} /\ tempRoots' = {} /\ alive' = {}
    /\ toVisit' = {} /\ unknown' = {}
    /\ before' = [c \in Builder |-> {}]
    /\ UNCHANGED <<worldVars, up, file, adding, locks>>

-------------------------------------------------------------------------------
(* The servers' handlers.                                                  *)

\* A root is received: the early server notes the name, the real one marks its
\* closure.
Record(c) ==
    /\ step[c] = "sent"
    /\ conn[c] # "none"
    /\ LET p == adding[c] IN
       \/ /\ conn[c] = "early"
          /\ earlyRoots' = earlyRoots \cup {p}
          /\ UNCHANGED <<protected, protectedUnknown>>
       \/ /\ conn[c] = "real"
          /\ protected' = protected \cup (IF p \in node THEN Reach[p] ELSE {})
          /\ protectedUnknown' = protectedUnknown \cup ({p} \ node)
          /\ UNCHANGED earlyRoots
    /\ step' = [step EXCEPT ![c] = "recorded"]
    /\ UNCHANGED <<gcPc, node, scanVars, before, worldVars, up, file, conn, adding, locks>>

-------------------------------------------------------------------------------
(* TempRoots::add.                                                         *)

BeginAdd(c, p) ==
    /\ c \in up
    /\ step[c] = "idle"
    /\ p \in Goal[c] \ file[c]
    /\ step' = [step EXCEPT ![c] = "try"]
    /\ adding' = [adding EXCEPT ![c] = p]
    /\ UNCHANGED <<gcVars, worldVars, up, file, conn, locks>>

\* write_root, and add() returns.
WriteRoot(c) ==
    /\ file' = [file EXCEPT ![c] = @ \cup {adding[c]}]
    /\ step' = [step EXCEPT ![c] = "idle"]
    /\ adding' = [adding EXCEPT ![c] = NoPath]
    /\ UNCHANGED <<gcVars, worldVars, up, conn, locks>>

\* The shared lock is had at once and kept across the write.
AddLocked(c) ==
    /\ step[c] = "try"
    /\ LockFree
    /\ WriteRoot(c)

\* notify_gc connects unless it still has a connection, and sends the root.
Send(c) ==
    /\ step[c] = "try"
    /\ ~LockFree
    /\ conn[c] # "none" \/ Serving # "none"
    /\ conn' = [conn EXCEPT ![c] = IF @ = "none" THEN Serving ELSE @]
    /\ step' = [step EXCEPT ![c] = "sent"]
    /\ UNCHANGED <<gcVars, worldVars, up, file, adding, locks>>

ReceiveAck(c) ==
    /\ step[c] = "recorded"
    /\ step' = [step EXCEPT ![c] = "write"]
    /\ UNCHANGED <<gcVars, worldVars, up, file, conn, adding, locks>>

AddAcked(c) ==
    /\ step[c] = "write"
    /\ WriteRoot(c)

-------------------------------------------------------------------------------
(* Builders: Nix processes, as far as the startup can tell.                *)

\* The lock file of an output is made, or an old one taken.
TakeLock(c, p) ==
    /\ c \in up
    /\ p \in Held(c) \cap DOMAIN LockOf
    /\ \A d \in Builder : p \notin locks[d]
    /\ locks' = [locks EXCEPT ![c] = @ \cup {p}]
    /\ onDisk' = onDisk \cup {LockOf[p]}
    /\ UNCHANGED <<gcVars, dbValid, up, addVars>>

\* A held output that is not valid is built from valid held inputs.
Write(c, p) ==
    /\ c \in up
    /\ p \in Held(c) \ dbValid
    /\ p \in DOMAIN LockOf => p \in locks[c]
    /\ onDisk' = onDisk \cup {p}
    /\ UNCHANGED <<gcVars, dbValid, builderVars>>

Register(c, p) ==
    /\ c \in up
    /\ p \in (Held(c) \cap onDisk) \ dbValid
    /\ p \in DOMAIN LockOf => p \in locks[c]
    /\ Refs[p] \subseteq {p} \cup UNION { RefReach[q] : q \in Held(c) \cap dbValid }
    /\ dbValid' = dbValid \cup {p}
    /\ UNCHANGED <<gcVars, onDisk, builderVars>>

\* The process ends; its file stays behind, unlocked.
Exit(c) ==
    /\ c \in up
    /\ up' = up \ {c}
    /\ locks' = [locks EXCEPT ![c] = {}]
    /\ conn' = [conn EXCEPT ![c] = "none"]
    /\ step' = [step EXCEPT ![c] = "idle"]
    /\ adding' = [adding EXCEPT ![c] = NoPath]
    /\ UNCHANGED <<gcVars, worldVars, file>>

-------------------------------------------------------------------------------
Collect ==
    \/ Lock \/ StartEarly \/ LoadGraph \/ DropEarly \/ StartReal \/ Replay \/ FindRoots
    \/ \E c \in Builder : ReadTempFile(c) \/ MissTempFile(c)
    \/ TempRootsRead \/ ComputeClosure
    \/ \E n \in Name : Visit(n)
    \/ DiskScanned

Add(c) == AddLocked(c) \/ Send(c) \/ ReceiveAck(c) \/ AddAcked(c)

Build(c) == \/ \E p \in Path : BeginAdd(c, p) \/ TakeLock(c, p) \/ Write(c, p) \/ Register(c, p)
            \/ Exit(c)

Next ==
    \/ Collect \/ Leave
    \/ \E c \in Builder : Record(c) \/ Add(c) \/ Build(c)
    \/ gcPc = "gone" /\ UNCHANGED vars

Spec == Init /\ [][Next]_vars

-------------------------------------------------------------------------------
\* Out of the deletion phase's reach.
Safe(p) == IF p \in node
           THEN Reach[p] \subseteq alive \cup protected
           ELSE p \in unknown => p \in protectedUnknown

\* The roots of a living builder that the collector has had a chance to see: all
\* it sent, and those of its file from before the lock if read_dir yielded it.
Seen(c) == IF c \in unlisted THEN Held(c) \ before[c] ELSE Held(c)

\* The comment on TempRoots::add, for a single collection: when the deletion
\* starts, every root a living builder has from before the lock, from the early
\* server or from the real one is out of its reach.  A file that an error of
\* read_dir hid costs that builder its roots from before the lock, not what it
\* sent, and no other builder anything; the comment in find_temp_roots, that an
\* error that "hides live roots" fails the collection, the code does not keep.
HeldRootsCovered ==
    gcPc = "ready" => \A c \in Builder : \A p \in Seen(c) : Safe(p)

\* The lock file that goes with a root from before the lock is not taken for
\* garbage while the builder holds it, if read_dir yielded the builder's file.
ListedLocksKept ==
    gcPc = "ready" =>
        \A c \in Builder \ unlisted : \A p \in locks[c] \cap before[c] : LockOf[p] \notin unknown

\* A builder that waits for an ack waits for a server that runs: a swap of the
\* servers or the end of the run sends it round add()'s loop.
WaitsForServer ==
    \A c \in Builder : step[c] \in {"sent", "recorded"} => conn[c] = Serving /\ Serving # "none"

(***************************************************************************)
(* The comment on the deletion order, "still-valid paths never reference   *)
(* an already-deleted one", asks this of the startup: what a valid path    *)
(* outside the snapshot references must not be dead.  Here for collections *)
(* that have read every temproots file.                                    *)
(***************************************************************************)
FreshRefsCovered ==
    gcPc = "ready" /\ unlisted = {} =>
        \A p \in dbValid \ node : Refs[p] \cap node \subseteq alive \cup protected

\* The comment on temp_root_hashes: "the unknown-on-disk scan must not delete a
\* lock file another builder currently holds".  Here for builders whose file was
\* listed.
HeldLocksKept ==
    gcPc = "ready" => \A c \in Builder \ unlisted : \A p \in locks[c] : LockOf[p] \notin unknown

-------------------------------------------------------------------------------
(***************************************************************************)
(* The inductive invariant: every root of a living builder is accounted    *)
(* for somewhere, in a file that is still to be read or that an error of   *)
(* read_dir hid, with the early server, or with the real one, and each     *)
(* hand-over keeps the account.                                            *)
(***************************************************************************)
RealServes == gcPc \in {"replay", "roots", "temp", "closure", "scan", "ready"}
Replayed   == gcPc \in {"roots", "temp", "closure", "scan", "ready"}
Scanning   == gcPc \in {"scan", "ready"}

\* What a server was sent.
Acked(p) ==
    \/ p \in earlyRoots
    \/ RealServes /\ IF p \in node THEN Reach[p] \subseteq protected ELSE p \in protectedUnknown

\* The state of the collector before a phase has run.
PhaseInv ==
    /\ gcPc \in {"idle", "locked", "early"} => roots = {} /\ alive = {} /\ protected = {}
    /\ ~RealServes => protected = {} /\ protectedUnknown = {}
    /\ ~Scanning => unknown = {}
    /\ gcPc = "idle" => \A c \in Builder : step[c] # "write"

\* Every root of a living builder is accounted for.
AccountInv ==
    ~LockFree => \A c \in Builder :
        /\ before[c] \subseteq file[c]
        /\ \A p \in file[c] \ before[c] : Acked(p)
        /\ step[c] \in {"recorded", "write"} => Acked(adding[c])

ReplayInv == Replayed => /\ earlyRoots \cap node \subseteq roots
                         /\ earlyRoots \ node \subseteq protectedUnknown

ReadInv ==
    /\ gcPc \in {"temp", "closure", "scan", "ready"} =>
         \A c \in up \ (toRead \cup unlisted) :
            before[c] \subseteq tempRoots /\ before[c] \cap node \subseteq roots
    /\ gcPc \in {"closure", "scan", "ready"} => toRead = {}

ScanInv ==
    /\ Scanning => roots \subseteq alive /\ IsClosed(Edge, alive)
    /\ \A n \in unknown : ~Active(n)

ConnInv == \A c \in Builder :
    /\ conn[c] \in {"none", Serving}
    /\ step[c] # "idle" => adding[c] \in Path
    /\ c \notin up => locks[c] = {}

StartInv == /\ TypeOK /\ PhaseInv /\ AccountInv /\ ReplayInv /\ ReadInv /\ ScanInv /\ ConnInv
            /\ WaitsForServer
===============================================================================
