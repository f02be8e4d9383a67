----------------------------- MODULE TempRootsFile -----------------------------
(***************************************************************************)
(* The files temproots/<pid> over successive collections: create, add and  *)
(* notify_gc of temp_roots.rs against find_temp_roots of roots.rs.  Names  *)
(* and inodes are apart, since a name may be removed and made anew between *)
(* two calls of a scan, and flock belongs to the inode.  Processes die and *)
(* their pids come back; collectors end, fail and crash.                   *)
(***************************************************************************)
EXTENDS Naturals, FiniteSets

CONSTANTS
    Pid,      \* the pids, each with one process at a time
    Path,     \* the roots
    Inode,    \* the inodes of temproots
    NoInode,  \* a name without a file, or no open file
    NoPid,    \* no holder of a flock, no file being visited
    Gc,       \* the collector as a holder of a flock
    MaxRuns   \* how many collections start

ASSUME TempRootsAssumption ==
    /\ NoInode \notin Inode
    /\ NoPid \notin Pid /\ Gc \notin Pid /\ Gc # NoPid
    /\ MaxRuns \in Nat

VARIABLES
    name,     \* the inode each temproots/<pid> names
    listed,   \* the roots an inode lists
    marked,   \* inodes with the collector's "d"
    owner,    \* who holds an inode's exclusive flock
    state,    \* where each process is
    fd,       \* its file
    adding,   \* the argument of its add()
    conn,     \* its end of the gc-socket
    gcPc,     \* where the collector is
    toVisit,  \* names read_dir still yields
    unlisted, \* names that were there and an error of read_dir hid
    visiting, \* the name in hand
    gcFd,     \* the file in hand
    found,    \* the roots find_temp_roots has read
    noted,    \* the roots this collector has acked
    runs,     \* collections started
    before    \* what a process's file listed when gc.lock was taken, if it had its name

fsVars   == <<name, listed, marked, owner>>
procVars == <<state, fd, adding, conn>>
scanVars == <<toVisit, unlisted, visiting, gcFd, found>>
gcVars   == <<gcPc, scanVars, noted, runs, before>>
vars == <<fsVars, procVars, gcVars>>

Creating == {"remove", "open", "lock", "check"}
Adding   == {"try", "locked", "sent", "acked", "write"}
State    == {"dead", "idle"} \cup Creating \cup Adding

TypeOK ==
    /\ name \in [Pid -> Inode \cup {NoInode}]
    /\ listed \in [Inode -> SUBSET Path]
    /\ marked \subseteq Inode
    /\ owner \in [Inode -> Pid \cup {Gc, NoPid}]
    /\ state \in [Pid -> State]
    /\ fd \in [Pid -> Inode \cup {NoInode}]
    /\ adding \in [Pid -> SUBSET Path]
    /\ conn \in [Pid -> {"none", "up", "shut"}]
    /\ gcPc \in {"idle", "locked", "list", "scan", "try", "unlink", "mark", "read", "sweep"}
    /\ toVisit \subseteq Pid /\ unlisted \subseteq Pid
    /\ visiting \in Pid \cup {NoPid}
    /\ gcFd \in Inode \cup {NoInode}
    /\ found \subseteq Path /\ noted \subseteq Path
    /\ runs \in 0..MaxRuns
    /\ before \in [Pid -> SUBSET Path]

-------------------------------------------------------------------------------
\* An inode nobody names or has open may be used again.
Free(i) == /\ \A p \in Pid : name[p] # i /\ fd[p] # i
           /\ gcFd # i

FreshInode == CHOOSE i \in Inode : Free(i)

\* Past create(): the file is this process's for the rest of its life.
Created(p) == state[p] \in {"idle"} \cup Adding

\* gc.lock is held exclusively from Lock to Leave, and by add() shared.
Collecting == gcPc # "idle"
Serving    == gcPc \notin {"idle", "locked"}

\* A process that died leaves its file behind.
Init ==
    /\ name \in [Pid -> Inode \cup {NoInode}]
    /\ \A p, q \in Pid : p # q /\ name[p] = name[q] => name[p] = NoInode
    /\ listed \in [Inode -> SUBSET Path]
    /\ \A i \in Inode : listed[i] # {} => \E p \in Pid : name[p] = i
    /\ marked = {}
    /\ owner = [i \in Inode |-> NoPid]
    /\ state = [p \in Pid |-> "dead"] /\ fd = [p \in Pid |-> NoInode]
    /\ adding = [p \in Pid |-> {}] /\ conn = [p \in Pid |-> "none"]
    /\ gcPc = "idle" /\ toVisit = {} /\ unlisted = {} /\ visiting = NoPid /\ gcFd = NoInode
    /\ found = {} /\ noted = {} /\ runs = 0
    /\ before = [p \in Pid |-> {}]

-------------------------------------------------------------------------------
(* TempRoots::create.                                                      *)

Goto(p, s) == state' = [state EXCEPT ![p] = s]

Start(p) ==
    /\ state[p] = "dead"
    /\ Goto(p, "remove")
    /\ UNCHANGED <<fsVars, fd, adding, conn, gcVars>>

\* Whatever has the name is stale: no two live processes share a pid.
RemoveOld(p) ==
    /\ state[p] = "remove"
    /\ name' = [name EXCEPT ![p] = NoInode]
    /\ Goto(p, "open")
    /\ UNCHANGED <<listed, marked, owner, fd, adding, conn, gcVars>>

\* O_CREAT without O_TRUNC.
Open(p) ==
    /\ state[p] = "open"
    /\ \/ /\ name[p] # NoInode
          /\ fd' = [fd EXCEPT ![p] = name[p]]
          /\ UNCHANGED <<name, listed, marked>>
       \/ /\ name[p] = NoInode
          /\ \E i \in Inode : Free(i)
          /\ name' = [name EXCEPT ![p] = FreshInode] /\ fd' = [fd EXCEPT ![p] = FreshInode]
          /\ listed' = [listed EXCEPT ![FreshInode] = {}]
          /\ marked' = marked \ {FreshInode}
    /\ Goto(p, "lock")
    /\ UNCHANGED <<owner, adding, conn, gcVars>>

FlockFile(p) ==
    /\ state[p] = "lock"
    /\ owner[fd[p]] = NoPid
    /\ owner' = [owner EXCEPT ![fd[p]] = p]
    /\ Goto(p, "check")
    /\ UNCHANGED <<name, listed, marked, fd, adding, conn, gcVars>>

\* Mutant: the length is not looked at.
CheckSkipped(p) ==
    /\ state[p] = "check"
    /\ Goto(p, "idle")
    /\ UNCHANGED <<fsVars, fd, adding, conn, gcVars>>

\* A file with content was marked by a collector: once more on a fresh inode.
CheckEmpty(p) ==
    /\ state[p] = "check"
    /\ IF fd[p] \notin marked /\ listed[fd[p]] = {}
       THEN Goto(p, "idle") /\ UNCHANGED <<owner, fd>>
       ELSE /\ Goto(p, "remove")
            /\ owner' = [owner EXCEPT ![fd[p]] = NoPid]
            /\ fd' = [fd EXCEPT ![p] = NoInode]
    /\ UNCHANGED <<name, listed, marked, adding, conn, gcVars>>

-------------------------------------------------------------------------------
(* TempRoots::add.                                                         *)

BeginAdd(p, r) ==
    /\ state[p] = "idle"
    /\ r \notin listed[fd[p]]
    /\ adding' = [adding EXCEPT ![p] = {r}]
    /\ Goto(p, "try")
    /\ UNCHANGED <<fsVars, fd, conn, gcVars>>

LockShared(p) ==
    /\ state[p] = "try"
    /\ ~Collecting
    /\ Goto(p, "locked")
    /\ UNCHANGED <<fsVars, fd, adding, conn, gcVars>>

\* write_root, under the shared lock or after the ack, and add() returns.
WriteRoot(p) ==
    /\ state[p] \in {"locked", "write"}
    /\ listed' = [listed EXCEPT ![fd[p]] = @ \cup adding[p]]
    /\ adding' = [adding EXCEPT ![p] = {}]
    /\ Goto(p, "idle")
    /\ UNCHANGED <<name, marked, owner, fd, conn, gcVars>>

\* The lock is a collector's: connect, unless there is a connection, and send.
Send(p) ==
    /\ state[p] = "try"
    /\ Collecting
    /\ conn[p] = "up" \/ (conn[p] = "none" /\ Serving)
    /\ conn' = [conn EXCEPT ![p] = "up"]
    /\ Goto(p, "sent")
    /\ UNCHANGED <<fsVars, fd, adding, gcVars>>

\* Mutant: the connection is kept though it is gone.
GoneKeepsSocket(p) ==
    /\ state[p] \in {"try", "sent"}
    /\ conn[p] = "shut" /\ Collecting
    /\ Goto(p, "try")
    /\ UNCHANGED <<fsVars, fd, adding, conn, gcVars>>

\* A send or read on a connection whose collector has gone: start over.
Gone(p) ==
    /\ state[p] = "sent" \/ (state[p] = "try" /\ Collecting)
    /\ conn[p] = "shut"
    /\ conn' = [conn EXCEPT ![p] = "none"]
    /\ Goto(p, "try")
    /\ UNCHANGED <<fsVars, fd, adding, gcVars>>

\* The server notes the root and acks; an ack once written can be read.
Record(p) ==
    /\ state[p] = "sent"
    /\ conn[p] = "up"
    /\ noted' = noted \cup adding[p]
    /\ Goto(p, "acked")
    /\ UNCHANGED <<fsVars, fd, adding, conn, gcPc, scanVars, runs, before>>

ReceiveAck(p) ==
    /\ state[p] = "acked"
    /\ Goto(p, "write")
    /\ UNCHANGED <<fsVars, fd, adding, conn, gcVars>>

\* The process ends anywhere: its flock goes, its file stays.
Exit(p) ==
    /\ state[p] # "dead"
    /\ Goto(p, "dead")
    /\ owner' = [i \in Inode |-> IF owner[i] = p THEN NoPid ELSE owner[i]]
    /\ fd' = [fd EXCEPT ![p] = NoInode]
    /\ adding' = [adding EXCEPT ![p] = {}]
    /\ conn' = [conn EXCEPT ![p] = "none"]
    /\ before' = [before EXCEPT ![p] = {}]
    /\ UNCHANGED <<name, listed, marked, gcPc, scanVars, noted, runs>>

-------------------------------------------------------------------------------
(* The collector.                                                          *)

Listed(p) == IF Created(p) THEN listed[fd[p]] ELSE {}

Lock ==
    /\ gcPc = "idle"
    /\ runs < MaxRuns
    /\ \A p \in Pid : state[p] # "locked"
    /\ runs' = runs + 1
    /\ before' = [p \in Pid |-> IF name[p] = fd[p] THEN Listed(p) ELSE {}]
    /\ gcPc' = "locked"
    /\ UNCHANGED <<fsVars, procVars, scanVars, noted>>

Serve ==
    /\ gcPc = "locked"
    /\ gcPc' = "list"
    /\ UNCHANGED <<fsVars, procVars, scanVars, noted, runs, before>>

Yield(S) ==
    /\ gcPc = "list"
    /\ toVisit' = S
    /\ unlisted' = { p \in Pid : name[p] # NoInode } \ S
    /\ gcPc' = "scan"
    /\ UNCHANGED <<fsVars, procVars, visiting, gcFd, found, noted, runs, before>>

\* read_dir yields the names that are there, and may yield later ones.
List == \E S \in SUBSET Pid : Yield(S) /\ unlisted' = {}

\* temproots cannot be opened, or reading it fails on the way: the error is
\* dropped and the collection goes on with the names it got.
ListCutShort == \E S \in SUBSET Pid : Yield(S) /\ unlisted' # {}

\* A file that is gone by now is skipped.
OpenListed(p) ==
    /\ gcPc = "scan"
    /\ p \in toVisit
    /\ toVisit' = toVisit \ {p}
    /\ IF name[p] = NoInode
       THEN UNCHANGED <<gcPc, visiting, gcFd>>
       ELSE visiting' = p /\ gcFd' = name[p] /\ gcPc' = "try"
    /\ UNCHANGED <<fsVars, procVars, unlisted, found, noted, runs, before>>

\* Mutant: the owner's flock is not waited for, nor looked at.
TryFlockRegardless ==
    /\ gcPc = "try"
    /\ gcPc' = "unlink"
    /\ UNCHANGED <<fsVars, procVars, scanVars, noted, runs, before>>

\* The owner holds the flock while it lives: had, the file is stale.
TryFlock ==
    /\ gcPc = "try"
    /\ IF owner[gcFd] = NoPid
       THEN owner' = [owner EXCEPT ![gcFd] = Gc] /\ gcPc' = "unlink"
       ELSE gcPc' = "read" /\ UNCHANGED owner
    /\ UNCHANGED <<name, listed, marked, procVars, scanVars, noted, runs, before>>

\* remove_file goes by the name, whatever it names by now.
UnlinkStale ==
    /\ gcPc = "unlink"
    /\ name' = [name EXCEPT ![visiting] = NoInode]
    /\ gcPc' = "mark"
    /\ UNCHANGED <<listed, marked, owner, procVars, scanVars, noted, runs, before>>

\* Mutant: the marker is written by name.
MarkByName ==
    /\ gcPc = "mark"
    /\ marked' = marked \cup {name[visiting]}
    /\ owner' = [owner EXCEPT ![gcFd] = NoPid]
    /\ visiting' = NoPid /\ gcFd' = NoInode
    /\ gcPc' = "scan"
    /\ UNCHANGED <<name, listed, procVars, toVisit, unlisted, found, noted, runs, before>>

\* The marker goes to the open file; its flock is released after it.
MarkStale ==
    /\ gcPc = "mark"
    /\ marked' = marked \cup {gcFd}
    /\ owner' = [owner EXCEPT ![gcFd] = NoPid]
    /\ visiting' = NoPid /\ gcFd' = NoInode
    /\ gcPc' = "scan"
    /\ UNCHANGED <<name, listed, procVars, toVisit, unlisted, found, noted, runs, before>>

\* fs::read goes by the name too; without a file it fails (AbortScan).
ReadListed ==
    /\ gcPc = "read"
    /\ name[visiting] # NoInode
    /\ found' = found \cup listed[name[visiting]]
    /\ visiting' = NoPid /\ gcFd' = NoInode
    /\ gcPc' = "scan"
    /\ UNCHANGED <<fsVars, procVars, toVisit, unlisted, noted, runs, before>>

\* The roots are known: what is neither found nor noted may be deleted.
BeginSweep ==
    /\ gcPc = "scan"
    /\ toVisit = {}
    /\ gcPc' = "sweep"
    /\ UNCHANGED <<fsVars, procVars, scanVars, noted, runs, before>>

\* The end of the collection, an error return or a crash: sockets and locks go.
Leave ==
    /\ Collecting
    /\ gcPc' = "idle"
    /\ toVisit' = {} /\ unlisted' = {} /\ visiting' = NoPid /\ gcFd' = NoInode
    /\ found' = {} /\ noted' = {}
    /\ owner' = [i \in Inode |-> IF owner[i] = Gc THEN NoPid ELSE owner[i]]
    /\ conn' = [p \in Pid |-> IF conn[p] = "up" THEN "shut" ELSE conn[p]]
    /\ before' = [p \in Pid |-> {}]
    /\ UNCHANGED <<name, listed, marked, state, fd, adding, runs>>

\* A file that vanished under the scan fails the collection.
AbortScan ==
    /\ gcPc = "read"
    /\ name[visiting] = NoInode
    /\ Leave

-------------------------------------------------------------------------------
Create(p) == RemoveOld(p) \/ Open(p) \/ FlockFile(p) \/ CheckEmpty(p)
Add(p)    == LockShared(p) \/ WriteRoot(p) \/ Send(p) \/ Gone(p) \/ ReceiveAck(p)
Scan      == \/ Serve \/ List \/ ListCutShort \/ (\E p \in Pid : OpenListed(p)) \/ TryFlock \/ UnlinkStale
             \/ MarkStale \/ ReadListed \/ AbortScan \/ BeginSweep

Next ==
    \/ \E p \in Pid : \/ Start(p) \/ Create(p) \/ Add(p) \/ Record(p) \/ Exit(p)
                      \/ \E r \in Path : BeginAdd(p, r)
    \/ Lock \/ Scan \/ Leave

Spec == Init /\ [][Next]_vars

(***************************************************************************)
(* Processes, handlers and the scan keep going.  A sweep may take for ever *)
(* and no process has to exit.                                             *)
(***************************************************************************)
FairSpec == /\ Spec
            /\ WF_vars(Scan)
            /\ \A p \in Pid : WF_vars(Create(p)) /\ WF_vars(Add(p)) /\ WF_vars(Record(p))

-------------------------------------------------------------------------------
\* The marker protocol of create() and find_temp_roots: a process never keeps a
\* file that a collector marked, and nobody else has its flock.
CreatedFileUnmarked ==
    \A p \in Pid : Created(p) => owner[fd[p]] = p /\ fd[p] \notin marked

\* A file that had its name and listed roots when the lock was taken keeps the name
\* as long as its owner lives, and the scan has read those roots when the sweep
\* starts, unless an error of read_dir hid that very name: whatever happens to
\* other processes' files, and errors on them, hides no roots of this one.
ListedRootsFound ==
    \A p \in Pid : before[p] # {} =>
        /\ name[p] = fd[p]
        /\ gcPc = "sweep" /\ p \notin unlisted => before[p] \subseteq found

\* The loop of add(): it returns, over the lock or over the socket of whichever
\* collector is there, also if that collector never ends.
AddReturns ==
    \A p \in Pid : state[p] \in Adding ~> state[p] \notin Adding

\* The comment on add(): "After this returns, no GC will delete the path while
\* this process lives."  Here only for a process whose file has kept its name and
\* was listed.
AddedRootsKept ==
    gcPc = "sweep" =>
        \A p \in Pid \ unlisted : name[p] = fd[p] => Listed(p) \subseteq found \cup noted
===============================================================================
