-------------------------- MODULE TempRootsFileProofs --------------------------
(***************************************************************************)
(* The marker protocol of the temproots files and the scan, for any number *)
(* of processes, roots, inodes and collections, over deaths and crashes.   *)
(*                                                                         *)
(* The argument: a file is marked under its flock only, and a process goes *)
(* on with a file only if it got the flock before any collector could have *)
(* marked it; so a collector that has a flock never has a living process's *)
(* file in hand, and what it unlinks and marks is stale.                   *)
(***************************************************************************)
EXTENDS TempRootsFile, TLAPS

OnInode == {"lock", "check", "idle"} \cup Adding
InHand  == {"try", "unlink", "mark", "read"}

\* Who has which file open and locked.
HolderInv ==
    /\ \A p \in Pid : IF state[p] \in OnInode THEN fd[p] \in Inode ELSE fd[p] = NoInode
    /\ IF gcPc \in InHand THEN gcFd \in Inode /\ visiting \in Pid
                          ELSE gcFd = NoInode /\ visiting = NoPid
    /\ \A i \in Inode, p \in Pid : owner[i] = p => fd[p] = i
    /\ \A p \in Pid : state[p] = "check" \/ Created(p) => owner[fd[p]] = p
    /\ gcPc \in {"unlink", "mark"} => owner[gcFd] = Gc
    /\ \A p \in Pid : Created(p) => fd[p] \notin marked

\* The file of a process that had roots in it when gc.lock was taken is still to
\* be visited, hidden by an error of read_dir, in hand and not stale, or read.
ScanInv ==
    \A p \in Pid : before[p] # {} =>
        /\ Created(p) /\ name[p] = fd[p] /\ before[p] \subseteq listed[fd[p]]
        /\ visiting = p => gcFd = fd[p]
        /\ gcPc \in {"scan", "sweep"} \cup InHand =>
              p \in toVisit \/ p \in unlisted \/ visiting = p \/ before[p] \subseteq found
        /\ gcPc = "sweep" => toVisit = {}

FileInv == TypeOK /\ HolderInv /\ ScanInv

LEMMA FreshFacts ==
    ASSUME \E i \in Inode : Free(i)
    PROVE  FreshInode \in Inode /\ Free(FreshInode)
  BY DEF FreshInode

LEMMA InitFile == Init => FileInv
<1> USE TempRootsAssumption
<1>1. Init => TypeOK
  BY DEF Init, TypeOK, State, Creating, Adding
<1>2. Init => HolderInv
  BY DEF Init, HolderInv, OnInode, InHand, Created, Adding
<1>3. Init => ScanInv
  BY DEF Init, ScanInv
<1> QED
  BY <1>1, <1>2, <1>3 DEF FileInv

-------------------------------------------------------------------------------
(* The steps of a process.                                                 *)

Step(p) == Start(p) \/ Create(p) \/ Add(p) \/ Record(p) \/ Exit(p) \/ \E r \in Path : BeginAdd(p, r)

LEMMA ProcessType ==
    ASSUME FileInv, NEW p \in Pid, Step(p)
    PROVE  TypeOK'
<1> USE TempRootsAssumption
        DEF FileInv, TypeOK, State, Creating, Adding, Goto, fsVars, procVars, scanVars, gcVars
<1>1. CASE Start(p) \/ RemoveOld(p) \/ FlockFile(p) \/ CheckEmpty(p)
  BY <1>1 DEF Start, RemoveOld, FlockFile, CheckEmpty, HolderInv, OnInode
<1>2. CASE Open(p)
  BY <1>2, FreshFacts DEF Open
<1>3. CASE LockShared(p) \/ WriteRoot(p)
  BY <1>3 DEF LockShared, WriteRoot, HolderInv, OnInode
<1>4. CASE Send(p) \/ Gone(p) \/ ReceiveAck(p) \/ Record(p)
  BY <1>4 DEF Send, Gone, ReceiveAck, Record
<1>5. CASE Exit(p)
  BY <1>5 DEF Exit
<1>6. ASSUME NEW r \in Path, BeginAdd(p, r) PROVE TypeOK'
  BY <1>6 DEF BeginAdd
<1> QED
  BY <1>1, <1>2, <1>3, <1>4, <1>5, <1>6 DEF Step, Create, Add

LEMMA ProcessHolder ==
    ASSUME FileInv, NEW p \in Pid, Step(p)
    PROVE  HolderInv'
<1> USE TempRootsAssumption
        DEF FileInv, TypeOK, HolderInv, OnInode, InHand, Adding, Created, Goto, fsVars, procVars,
            scanVars, gcVars
<1>1. CASE Start(p) \/ RemoveOld(p)
  BY <1>1 DEF Start, RemoveOld
<1>2. CASE Open(p)
  <2>1. CASE name[p] # NoInode
    BY <1>2, <2>1 DEF Open
  <2>2. CASE name[p] = NoInode
    BY <1>2, <2>2, FreshFacts DEF Open, Free
  <2> QED
    BY <2>1, <2>2
<1>3. CASE FlockFile(p)
  BY <1>3 DEF FlockFile
<1>4. CASE CheckEmpty(p)
  BY <1>4 DEF CheckEmpty
<1>5. CASE LockShared(p) \/ WriteRoot(p)
  BY <1>5 DEF LockShared, WriteRoot
<1>6. CASE Send(p) \/ Gone(p) \/ ReceiveAck(p) \/ Record(p)
  BY <1>6 DEF Send, Gone, ReceiveAck, Record
<1>7. CASE Exit(p)
  BY <1>7 DEF Exit
<1>8. ASSUME NEW r \in Path, BeginAdd(p, r) PROVE HolderInv'
  BY <1>8 DEF BeginAdd
<1> QED
  BY <1>1, <1>2, <1>3, <1>4, <1>5, <1>6, <1>7, <1>8 DEF Step, Create, Add

LEMMA ProcessScan ==
    ASSUME FileInv, NEW p \in Pid, Step(p)
    PROVE  ScanInv'
<1> USE TempRootsAssumption
        DEF FileInv, TypeOK, ScanInv, OnInode, InHand, Adding, Created, Goto, fsVars, procVars,
            scanVars, gcVars
<1>1. CASE Start(p) \/ RemoveOld(p)
  BY <1>1 DEF Start, RemoveOld
<1>2. CASE Open(p)
  <2>1. CASE name[p] # NoInode
    BY <1>2, <2>1 DEF Open
  <2>2. CASE name[p] = NoInode
    <3>1. FreshInode \in Inode /\ \A q \in Pid : fd[q] # FreshInode
      BY <1>2, <2>2, FreshFacts DEF Open, Free
    <3>2. /\ name' = [name EXCEPT ![p] = FreshInode] /\ fd' = [fd EXCEPT ![p] = FreshInode]
          /\ listed' = [listed EXCEPT ![FreshInode] = {}] /\ state' = [state EXCEPT ![p] = "lock"]
          /\ UNCHANGED gcVars /\ before[p] = {}
      BY <1>2, <2>2 DEF Open
    <3>3. \A q \in Pid : before[q] # {} => q # p /\ fd[q] \in Inode
      BY <3>2 DEF HolderInv
    <3> QED
      BY <3>1, <3>2, <3>3
  <2> QED
    BY <2>1, <2>2
<1>3. CASE FlockFile(p) \/ CheckEmpty(p)
  BY <1>3 DEF FlockFile, CheckEmpty
<1>4. CASE LockShared(p)
  BY <1>4 DEF LockShared
<1>5. CASE WriteRoot(p)
  BY <1>5 DEF WriteRoot, HolderInv
<1>6. CASE Send(p) \/ Gone(p) \/ ReceiveAck(p) \/ Record(p)
  BY <1>6 DEF Send, Gone, ReceiveAck, Record
<1>7. CASE Exit(p)
  BY <1>7 DEF Exit
<1>8. ASSUME NEW r \in Path, BeginAdd(p, r) PROVE ScanInv'
  BY <1>8 DEF BeginAdd
<1> QED
  BY <1>1, <1>2, <1>3, <1>4, <1>5, <1>6, <1>7, <1>8 DEF Step, Create, Add

-------------------------------------------------------------------------------
(* The steps of the collector.                                             *)

LEMMA CollectorType ==
    ASSUME FileInv, Lock \/ Scan \/ Leave
    PROVE  TypeOK'
<1> USE TempRootsAssumption
        DEF FileInv, TypeOK, fsVars, procVars, scanVars
<1>1. CASE Lock
  BY <1>1 DEF Lock, Listed, Created, HolderInv, OnInode
<1>2. CASE Serve \/ List \/ ListCutShort \/ BeginSweep
  BY <1>2 DEF Serve, List, ListCutShort, Yield, BeginSweep
<1>3. ASSUME NEW p \in Pid, OpenListed(p) PROVE TypeOK'
  BY <1>3 DEF OpenListed
<1>4. CASE TryFlock \/ UnlinkStale \/ MarkStale
  BY <1>4 DEF TryFlock, UnlinkStale, MarkStale, HolderInv, InHand
<1>5. CASE ReadListed
  BY <1>5 DEF ReadListed, HolderInv, InHand
<1>6. CASE Leave
  BY <1>6 DEF Leave
<1> QED
  BY <1>1, <1>2, <1>3, <1>4, <1>5, <1>6 DEF Scan, AbortScan

LEMMA CollectorHolder ==
    ASSUME FileInv, Lock \/ Scan \/ Leave
    PROVE  HolderInv'
<1> USE TempRootsAssumption
        DEF FileInv, TypeOK, HolderInv, InHand, Created, OnInode, Adding, fsVars, procVars, scanVars
<1>1. CASE Lock \/ Serve \/ List \/ ListCutShort \/ BeginSweep
  BY <1>1 DEF Lock, Serve, List, ListCutShort, Yield, BeginSweep
<1>2. ASSUME NEW p \in Pid, OpenListed(p) PROVE HolderInv'
  BY <1>2 DEF OpenListed
<1>3. CASE TryFlock
  BY <1>3 DEF TryFlock
<1>4. CASE UnlinkStale \/ MarkStale
  BY <1>4 DEF UnlinkStale, MarkStale
<1>5. CASE ReadListed
  BY <1>5 DEF ReadListed
<1>6. CASE Leave
  BY <1>6 DEF Leave
<1> QED
  BY <1>1, <1>2, <1>3, <1>4, <1>5, <1>6 DEF Scan, AbortScan

LEMMA CollectorScan ==
    ASSUME FileInv, Lock \/ Scan \/ Leave
    PROVE  ScanInv'
<1> USE TempRootsAssumption
        DEF FileInv, TypeOK, HolderInv, ScanInv, InHand, Created, OnInode, fsVars, procVars, scanVars
<1>1. CASE Lock
  BY <1>1 DEF Lock, Listed
<1>2. CASE Serve \/ List \/ ListCutShort \/ BeginSweep
  BY <1>2 DEF Serve, List, ListCutShort, Yield, BeginSweep
<1>3. ASSUME NEW p \in Pid, OpenListed(p) PROVE ScanInv'
  BY <1>3 DEF OpenListed
<1>4. CASE TryFlock \/ MarkStale
  BY <1>4 DEF TryFlock, MarkStale
<1>5. CASE UnlinkStale
  <2>1. before[visiting] = {}
    BY <1>5 DEF UnlinkStale
  <2> QED
    BY <1>5, <2>1 DEF UnlinkStale
<1>6. CASE ReadListed
  BY <1>6 DEF ReadListed
<1>7. CASE Leave
  BY <1>7 DEF Leave
<1> QED
  BY <1>1, <1>2, <1>3, <1>4, <1>5, <1>6, <1>7 DEF Scan, AbortScan

LEMMA FileStep == FileInv /\ [Next]_vars => FileInv'
<1> SUFFICES ASSUME FileInv, [Next]_vars PROVE FileInv'
  OBVIOUS
<1>1. CASE UNCHANGED vars
  BY <1>1 DEF vars, fsVars, procVars, scanVars, gcVars, FileInv, TypeOK, HolderInv, ScanInv, Created
<1>2. ASSUME NEW p \in Pid, Step(p) PROVE FileInv'
  BY <1>2, ProcessType, ProcessHolder, ProcessScan DEF FileInv
<1>3. CASE Lock \/ Scan \/ Leave
  BY <1>3, CollectorType, CollectorHolder, CollectorScan DEF FileInv
<1> QED
  BY <1>1, <1>2, <1>3 DEF Next, Step

-------------------------------------------------------------------------------
THEOREM FileInvariant == Spec => []FileInv
  BY InitFile, FileStep, PTL DEF Spec

\* A process past create() has the flock of its file, and no collector has
\* marked that file.
THEOREM CreatedFileIsUnmarked == Spec => []CreatedFileUnmarked
<1>1. FileInv => CreatedFileUnmarked
  BY DEF FileInv, HolderInv, CreatedFileUnmarked
<1> QED
  BY <1>1, FileInvariant, PTL

\* The scan reads every root that a living process's file listed under its name
\* when gc.lock was taken, unless read_dir failed to yield that name, and leaves
\* the name alone in any case.
THEOREM ListedRootsAreFound == Spec => []ListedRootsFound
<1>1. FileInv => ListedRootsFound
  BY TempRootsAssumption DEF FileInv, HolderInv, ScanInv, InHand, ListedRootsFound
<1> QED
  BY <1>1, FileInvariant, PTL
===============================================================================
