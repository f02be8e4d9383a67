---------------------------- MODULE GcStartupProofs ----------------------------
(***************************************************************************)
(* The startup of a collection misses no root of a living builder but      *)
(* those an error of read_dir hid, for every store, every number of        *)
(* builders and every interleaving.                                        *)
(*                                                                         *)
(* The argument: a root is in a temproots file when gc.lock is taken, or a *)
(* server was sent it.  The files are read as long as their owners live    *)
(* and read_dir yields them, the early server's roots are replayed, the    *)
(* real server's marks stay.                                               *)
(***************************************************************************)
EXTENDS GcStartup, TLAPS

-------------------------------------------------------------------------------
(* What a closure has, whatever the graph.                                 *)

\* A closure is a set of nodes.
LEMMA ClosureType ==
    ASSUME NEW N, NEW E \in [N -> SUBSET N], NEW R
    PROVE  Closure(E, R) \subseteq N
  BY DEF Closure

\* compute_closure marks its roots.
LEMMA ClosureHasRoots ==
    ASSUME NEW N, NEW E \in [N -> SUBSET N], NEW R \in SUBSET N
    PROVE  R \subseteq Closure(E, R)
  BY DEF Closure

\* compute_closure leaves no marked node with an unmarked reference.
LEMMA ClosureIsClosed ==
    ASSUME NEW N, NEW E \in [N -> SUBSET N], NEW R
    PROVE  IsClosed(E, Closure(E, R))
<1> SUFFICES ASSUME NEW n \in Closure(E, R), NEW m \in E[n],
                    NEW C \in SUBSET N, R \subseteq C, IsClosed(E, C)
             PROVE  m \in C
  BY ClosureType DEF Closure, IsClosed
<1>1. n \in C
  BY DEF Closure
<1> QED
  BY <1>1 DEF IsClosed

\* Nothing is marked that a closed superset of the roots does not have.
LEMMA ClosureIsLeast ==
    ASSUME NEW N, NEW E \in [N -> SUBSET N], NEW R,
           NEW C \in SUBSET N, R \subseteq C, IsClosed(E, C)
    PROVE  Closure(E, R) \subseteq C
  BY DEF Closure

\* The closure of a single node, as ReachFrom tabulates it.
LEMMA ReachFromFacts ==
    ASSUME NEW N, NEW E \in [N -> SUBSET N], NEW n \in N
    PROVE  /\ n \in ReachFrom(E)[n]
           /\ ReachFrom(E)[n] \subseteq N
           /\ E[n] \subseteq ReachFrom(E)[n]
           /\ IsClosed(E, ReachFrom(E)[n])
<1>1. ReachFrom(E)[n] = Closure(E, {n})
  BY DEF ReachFrom
<1>2. n \in ReachFrom(E)[n]
  BY <1>1, ClosureHasRoots
<1>3. IsClosed(E, ReachFrom(E)[n])
  BY <1>1, ClosureIsClosed
<1>4. E[n] \subseteq ReachFrom(E)[n]
  BY <1>2, <1>3 DEF IsClosed
<1> QED
  BY <1>1, <1>2, <1>3, <1>4, ClosureType

\* A closed set has all that its members reach.
LEMMA ReachWithinClosed ==
    ASSUME NEW N, NEW E \in [N -> SUBSET N],
           NEW C \in SUBSET N, IsClosed(E, C), NEW n \in C
    PROVE  ReachFrom(E)[n] \subseteq C
<1>1. ReachFrom(E)[n] = Closure(E, {n})
  BY DEF ReachFrom
<1> QED
  BY <1>1, ClosureIsLeast

-------------------------------------------------------------------------------
(* The snapshot's graph.                                                   *)

\* Reach, for the snapshot's edges.
LEMMA ReachFacts ==
    ASSUME node \subseteq Path
    PROVE  /\ Edge \in [node -> SUBSET node]
           /\ \A n \in node : n \in Reach[n] /\ Reach[n] \subseteq node
           /\ \A S \in SUBSET node : \A n \in S : IsClosed(Edge, S) => Reach[n] \subseteq S
<1>1. Edge \in [node -> SUBSET node]
  BY DEF Edge
<1> QED
  BY <1>1, ReachFromFacts, ReachWithinClosed DEF Reach

\* The same rows have the same edges.
LEMMA ReachFrame ==
    ASSUME node' = node
    PROVE  Edge' = Edge /\ Reach' = Reach
<1>1. Edge' = Edge
  BY DEF Edge
<1> QED
  BY <1>1 DEF Reach, ReachFrom

-------------------------------------------------------------------------------
(* Which actions change what.                                              *)

\* The collector's variables, by the actions that change them.
LEMMA Cases ==
    ASSUME [Next]_vars
    PROVE  \/ Lock \/ StartEarly \/ LoadGraph \/ DropEarly \/ StartReal \/ Replay \/ FindRoots
           \/ (\E c \in Builder : ReadTempFile(c) \/ MissTempFile(c)) \/ TempRootsRead
           \/ ComputeClosure
           \/ (\E n \in Name : Visit(n)) \/ DiskScanned \/ Leave
           \/ (\E c \in Builder : Record(c))
           \/ (\E c \in Builder : AddLocked(c) \/ Send(c) \/ ReceiveAck(c) \/ AddAcked(c) \/ Exit(c))
           \/ (\E c \in Builder, p \in Path : BeginAdd(c, p) \/ TakeLock(c, p) \/ Write(c, p)
                                              \/ Register(c, p))
           \/ UNCHANGED vars
  BY DEF Next, Collect, Add, Build

LEMMA TypeStep ==
    ASSUME StartInv, [Next]_vars
    PROVE  TypeOK'
<1> USE DEF StartInv, TypeOK, GcState
<1> USE DEF gcVars, serverVars, scanVars, worldVars, builderVars, addVars
<1>1. CASE Lock \/ StartEarly \/ DropEarly \/ StartReal \/ TempRootsRead \/ DiskScanned
  BY <1>1 DEF Lock, StartEarly, DropEarly, StartReal, TempRootsRead, DiskScanned, Disconnect
<1>2. CASE LoadGraph
  BY <1>2 DEF LoadGraph, PhaseInv, RealServes, Scanning
<1>3. CASE Replay \/ FindRoots
  BY <1>3 DEF Replay, FindRoots
<1>4. ASSUME NEW c \in Builder, ReadTempFile(c) \/ MissTempFile(c) PROVE TypeOK'
  BY <1>4 DEF ReadTempFile, MissTempFile
<1>5. CASE ComputeClosure
  <2>1. Closure(Edge, roots) \subseteq node
    BY ReachFacts, ClosureType
  <2> QED
    BY <1>5, <2>1 DEF ComputeClosure
<1>6. ASSUME NEW n \in Name, Visit(n) PROVE TypeOK'
  BY <1>6 DEF Visit
<1>7. CASE Leave
  BY <1>7 DEF Leave, Disconnect
<1>8. ASSUME NEW c \in Builder, Record(c) PROVE TypeOK'
  <2>1. adding[c] \in Path
    BY <1>8 DEF Record, ConnInv
  <2>2. adding[c] \in node => Reach[adding[c]] \subseteq node
    BY ReachFacts
  <2> QED
    BY <1>8, <2>1, <2>2 DEF Record
<1>9. ASSUME NEW c \in Builder, AddLocked(c) \/ AddAcked(c) PROVE TypeOK'
  <2>1. adding[c] \in Path
    BY <1>9 DEF AddLocked, AddAcked, ConnInv
  <2> QED
    BY <1>9, <2>1 DEF AddLocked, AddAcked, WriteRoot
<1>10. ASSUME NEW c \in Builder, Send(c) \/ ReceiveAck(c) \/ Exit(c) PROVE TypeOK'
  BY <1>10 DEF Send, ReceiveAck, Exit, Serving
<1>11. ASSUME NEW c \in Builder, NEW p \in Path, BeginAdd(c, p) \/ Write(c, p) \/ Register(c, p)
       PROVE  TypeOK'
  BY <1>11 DEF BeginAdd, Write, Register, Name
<1>12. ASSUME NEW c \in Builder, NEW p \in Path, TakeLock(c, p) PROVE TypeOK'
  BY <1>12 DEF TakeLock, Name, LockFile
<1>13. CASE UNCHANGED vars
  BY <1>13 DEF vars
<1> QED
  BY <1>1, <1>2, <1>3, <1>4, <1>5, <1>6, <1>7, <1>8, <1>9, <1>10, <1>11, <1>12, <1>13, Cases

LEMMA PhaseStep ==
    ASSUME StartInv, [Next]_vars
    PROVE  PhaseInv'
<1> USE DEF StartInv, TypeOK, PhaseInv, RealServes, Scanning
<1> USE DEF gcVars, serverVars, scanVars, worldVars, builderVars, addVars
<1>1. CASE Lock \/ StartEarly \/ LoadGraph \/ DropEarly \/ StartReal \/ Replay \/ FindRoots
           \/ TempRootsRead \/ ComputeClosure \/ DiskScanned
  BY <1>1 DEF Lock, StartEarly, LoadGraph, DropEarly, StartReal, Replay, FindRoots,
     TempRootsRead, ComputeClosure, DiskScanned
<1>2. CASE Leave
  BY <1>2 DEF Leave
<1>3. ASSUME NEW c \in Builder, ReadTempFile(c) \/ MissTempFile(c) PROVE PhaseInv'
  BY <1>3 DEF ReadTempFile, MissTempFile
<1>4. ASSUME NEW n \in Name, Visit(n) PROVE PhaseInv'
  BY <1>4 DEF Visit
<1>5. ASSUME NEW c \in Builder, Record(c) PROVE PhaseInv'
  <2>1. conn[c] = "real" => gcPc \in {"replay", "roots", "temp", "closure", "scan", "ready"}
    BY DEF ConnInv, Serving
  <2> QED
    BY <1>5, <2>1 DEF Record
<1>6. ASSUME NEW c \in Builder, AddLocked(c) \/ Send(c) \/ ReceiveAck(c) \/ AddAcked(c) \/ Exit(c)
      PROVE  PhaseInv'
  BY <1>6 DEF AddLocked, Send, ReceiveAck, AddAcked, Exit, WriteRoot, WaitsForServer, Serving
<1>7. ASSUME NEW c \in Builder, NEW p \in Path,
             BeginAdd(c, p) \/ TakeLock(c, p) \/ Write(c, p) \/ Register(c, p)
      PROVE  PhaseInv'
  BY <1>7 DEF BeginAdd, TakeLock, Write, Register
<1>8. CASE UNCHANGED vars
  BY <1>8 DEF vars
<1> QED
  BY <1>1, <1>2, <1>3, <1>4, <1>5, <1>6, <1>7, <1>8, Cases

LEMMA ConnStep ==
    ASSUME StartInv, [Next]_vars
    PROVE  ConnInv' /\ WaitsForServer'
<1> USE DEF StartInv, TypeOK, ConnInv, WaitsForServer, Serving
<1> USE DEF gcVars, serverVars, scanVars, worldVars, builderVars, addVars
<1>1. CASE Lock \/ LoadGraph \/ Replay \/ FindRoots \/ TempRootsRead \/ ComputeClosure
           \/ DiskScanned
  <2>1. UNCHANGED <<conn, step, adding, up, locks>> /\ Serving' = Serving
    BY <1>1 DEF Lock, LoadGraph, Replay, FindRoots, TempRootsRead, ComputeClosure, DiskScanned
  <2> QED
    BY <2>1
<1>9. CASE StartEarly \/ StartReal
  <2>1. UNCHANGED <<conn, step, adding, up, locks>> /\ Serving = "none"
    BY <1>9 DEF StartEarly, StartReal
  <2> QED
    BY <2>1
<1>2. CASE DropEarly \/ Leave
  BY <1>2 DEF DropEarly, Leave, Disconnect
<1>3. ASSUME NEW c \in Builder, ReadTempFile(c) \/ MissTempFile(c) PROVE ConnInv' /\ WaitsForServer'
  BY <1>3 DEF ReadTempFile, MissTempFile
<1>4. ASSUME NEW n \in Name, Visit(n) PROVE ConnInv' /\ WaitsForServer'
  BY <1>4 DEF Visit
<1>5. ASSUME NEW c \in Builder, Record(c) PROVE ConnInv' /\ WaitsForServer'
  BY <1>5 DEF Record
<1>6. ASSUME NEW c \in Builder, AddLocked(c) \/ Send(c) \/ ReceiveAck(c) \/ AddAcked(c) \/ Exit(c)
      PROVE  ConnInv' /\ WaitsForServer'
  BY <1>6 DEF AddLocked, Send, ReceiveAck, AddAcked, Exit, WriteRoot
<1>7. ASSUME NEW c \in Builder, NEW p \in Path,
             BeginAdd(c, p) \/ TakeLock(c, p) \/ Write(c, p) \/ Register(c, p)
      PROVE  ConnInv' /\ WaitsForServer'
  BY <1>7 DEF BeginAdd, TakeLock, Write, Register
<1>8. CASE UNCHANGED vars
  BY <1>8 DEF vars
<1> QED
  BY <1>1, <1>2, <1>3, <1>4, <1>5, <1>6, <1>7, <1>8, <1>9, Cases

-------------------------------------------------------------------------------
(* The account.                                                            *)

\* What the servers were sent is forgotten only when the collector leaves.
LEMMA ServersGrow ==
    ASSUME StartInv, [Next]_vars, ~LockFree'
    PROVE  /\ earlyRoots \subseteq earlyRoots'
           /\ RealServes => /\ RealServes' /\ node' = node
                            /\ protected \subseteq protected'
                            /\ protectedUnknown \subseteq protectedUnknown'
<1> USE DEF StartInv, TypeOK, RealServes, LockFree
<1> USE DEF gcVars, serverVars, scanVars, worldVars, builderVars, addVars
<1> DEFINE Grow == /\ earlyRoots \subseteq earlyRoots'
                   /\ RealServes => /\ RealServes' /\ node' = node
                                    /\ protected \subseteq protected'
                                    /\ protectedUnknown \subseteq protectedUnknown'
<1>1. CASE Lock \/ StartEarly \/ LoadGraph \/ DropEarly \/ StartReal \/ Replay \/ FindRoots
           \/ TempRootsRead \/ ComputeClosure \/ DiskScanned
  BY <1>1 DEF Lock, StartEarly, LoadGraph, DropEarly, StartReal, Replay, FindRoots,
     TempRootsRead, ComputeClosure, DiskScanned
<1>2. CASE Leave
  BY <1>2 DEF Leave
<1>3. ASSUME NEW c \in Builder, ReadTempFile(c) \/ MissTempFile(c) PROVE Grow
  BY <1>3 DEF ReadTempFile, MissTempFile
<1>4. ASSUME NEW n \in Name, Visit(n) PROVE Grow
  BY <1>4 DEF Visit
<1>5. ASSUME NEW c \in Builder, Record(c) PROVE Grow
  BY <1>5 DEF Record
<1>6. ASSUME NEW c \in Builder, AddLocked(c) \/ Send(c) \/ ReceiveAck(c) \/ AddAcked(c) \/ Exit(c)
      PROVE  Grow
  BY <1>6 DEF AddLocked, Send, ReceiveAck, AddAcked, Exit, WriteRoot
<1>7. ASSUME NEW c \in Builder, NEW p \in Path,
             BeginAdd(c, p) \/ TakeLock(c, p) \/ Write(c, p) \/ Register(c, p)
      PROVE  Grow
  BY <1>7 DEF BeginAdd, TakeLock, Write, Register
<1>8. CASE UNCHANGED vars
  BY <1>8 DEF vars
<1> QED
  BY <1>1, <1>2, <1>3, <1>4, <1>5, <1>6, <1>7, <1>8, Cases

\* An ack stands.
LEMMA AckStands ==
    ASSUME StartInv, [Next]_vars, ~LockFree', NEW p \in Path, Acked(p)
    PROVE  Acked(p)'
<1>1. CASE p \in earlyRoots
  BY <1>1, ServersGrow DEF Acked
<1>2. CASE RealServes /\ IF p \in node THEN Reach[p] \subseteq protected ELSE p \in protectedUnknown
  <2>1. node' = node /\ Reach' = Reach
    BY <1>2, ServersGrow, ReachFrame
  <2> QED
    BY <1>2, <2>1, ServersGrow DEF Acked
<1> QED
  BY <1>1, <1>2 DEF Acked

\* The lock is taken by Lock only.
LEMMA LockStep ==
    ASSUME [Next]_vars, ~LockFree'
    PROVE  Lock \/ ~LockFree
<1> USE DEF LockFree, gcVars
<1>1. CASE StartEarly \/ LoadGraph \/ DropEarly \/ StartReal \/ Replay \/ FindRoots
           \/ TempRootsRead \/ ComputeClosure \/ DiskScanned \/ Leave
  BY <1>1 DEF StartEarly, LoadGraph, DropEarly, StartReal, Replay, FindRoots,
     TempRootsRead, ComputeClosure, DiskScanned, Leave
<1>2. CASE (\E c \in Builder : ReadTempFile(c) \/ MissTempFile(c)) \/ (\E n \in Name : Visit(n))
  BY <1>2 DEF ReadTempFile, MissTempFile, Visit
<1>3. CASE \E c \in Builder : Record(c) \/ AddLocked(c) \/ Send(c) \/ ReceiveAck(c) \/ AddAcked(c)
                              \/ Exit(c)
  BY <1>3 DEF Record, AddLocked, Send, ReceiveAck, AddAcked, Exit, WriteRoot
<1>4. CASE \E c \in Builder, p \in Path : BeginAdd(c, p) \/ TakeLock(c, p) \/ Write(c, p)
                                           \/ Register(c, p)
  BY <1>4 DEF BeginAdd, TakeLock, Write, Register
<1>5. CASE UNCHANGED vars
  BY <1>5 DEF vars
<1> QED
  BY <1>1, <1>2, <1>3, <1>4, <1>5, Cases

\* How a step can touch the account of one builder.
LEMMA FileStep ==
    ASSUME StartInv, [Next]_vars, ~LockFree', NEW c \in Builder
    PROVE  \/ Lock
           \/ /\ before' = before
              /\ \/ /\ file'[c] = file[c]
                    /\ \/ step'[c] \notin {"recorded", "write"}
                       \/ step[c] \in {"recorded", "write"} /\ adding'[c] = adding[c]
                       \/ Record(c)
                 \/ AddAcked(c)
<1> USE DEF StartInv, TypeOK
<1> USE DEF gcVars, serverVars, scanVars, worldVars, builderVars, addVars
<1> DEFINE Still == \/ step'[c] \notin {"recorded", "write"}
                    \/ step[c] \in {"recorded", "write"} /\ adding'[c] = adding[c]
<1>1. CASE StartEarly \/ LoadGraph \/ StartReal \/ Replay \/ FindRoots
           \/ TempRootsRead \/ ComputeClosure \/ DiskScanned
  BY <1>1 DEF StartEarly, LoadGraph, StartReal, Replay, FindRoots,
     TempRootsRead, ComputeClosure, DiskScanned
<1>2. CASE DropEarly \/ Leave
  BY <1>2 DEF DropEarly, Disconnect, Leave, LockFree
<1>3. CASE (\E d \in Builder : ReadTempFile(d) \/ MissTempFile(d)) \/ (\E n \in Name : Visit(n))
  BY <1>3 DEF ReadTempFile, MissTempFile, Visit
<1>4. ASSUME NEW d \in Builder, Record(d)
      PROVE  before' = before /\ file' = file /\ (d = c \/ Still)
  BY <1>4 DEF Record
<1>5. ASSUME NEW d \in Builder, AddLocked(d) PROVE FALSE
  BY <1>5 DEF AddLocked, WriteRoot, LockFree
<1>6. ASSUME NEW d \in Builder, Send(d) \/ ReceiveAck(d) \/ Exit(d)
      PROVE  before' = before /\ file' = file /\ Still
  BY <1>6 DEF Send, ReceiveAck, Exit
<1>7. ASSUME NEW d \in Builder, AddAcked(d)
      PROVE  before' = before /\ (d = c \/ (file'[c] = file[c] /\ Still))
  BY <1>7 DEF AddAcked, WriteRoot
<1>8. ASSUME NEW d \in Builder, NEW p \in Path,
             BeginAdd(d, p) \/ TakeLock(d, p) \/ Write(d, p) \/ Register(d, p)
      PROVE  before' = before /\ file' = file /\ Still
  BY <1>8 DEF BeginAdd, TakeLock, Write, Register
<1>9. CASE UNCHANGED vars
  BY <1>9 DEF vars
<1> QED
  BY <1>1, <1>2, <1>3, <1>4, <1>5, <1>6, <1>7, <1>8, <1>9, Cases

\* A root that has been received is accounted for.
LEMMA RecordAcks ==
    ASSUME StartInv, NEW c \in Builder, Record(c)
    PROVE  Acked(adding[c])' /\ adding' = adding
<1> USE DEF StartInv, TypeOK
<1>1. adding' = adding /\ gcPc' = gcPc /\ node' = node /\ Reach' = Reach
  BY ReachFrame DEF Record
<1>2. adding[c] \in Path
  BY DEF Record, ConnInv
<1>3. CASE conn[c] = "early"
  BY <1>1, <1>2, <1>3 DEF Record, Acked
<1>4. CASE conn[c] = "real"
  <2>1. RealServes
    BY <1>4 DEF ConnInv, Serving, RealServes
  <2> QED
    BY <1>1, <1>2, <1>4, <2>1 DEF Record, Acked, RealServes
<1> QED
  BY <1>3, <1>4 DEF Record

LEMMA AccountStep ==
    ASSUME StartInv, [Next]_vars
    PROVE  AccountInv'
<1> DEFINE Accounted(c) == /\ before[c] \subseteq file[c]
                           /\ \A p \in file[c] \ before[c] : Acked(p)
                           /\ step[c] \in {"recorded", "write"} => Acked(adding[c])
<1> SUFFICES ASSUME ~LockFree', NEW c \in Builder
             PROVE  Accounted(c)'
  BY DEF AccountInv
<1> USE DEF StartInv, TypeOK
<1>1. CASE Lock
  <2>1. step'[c] \notin {"recorded", "write"}
    BY <1>1 DEF Lock, builderVars, addVars, PhaseInv, WaitsForServer, Serving
  <2> QED
    BY <1>1, <2>1 DEF Lock, builderVars, addVars
<1>2. CASE ~Lock
  <2>1. Accounted(c)
    BY <1>2, LockStep DEF AccountInv
  <2>2. step[c] # "idle" => adding[c] \in Path
    BY DEF ConnInv
  <2>3. \A p \in Path : Acked(p) => Acked(p)'
    BY AckStands
  <2>4. CASE before' = before /\ file'[c] = file[c] /\ step'[c] \notin {"recorded", "write"}
    BY <2>1, <2>3, <2>4
  <2>5. CASE /\ before' = before /\ file'[c] = file[c]
             /\ step[c] \in {"recorded", "write"} /\ adding'[c] = adding[c]
    <3>1. Acked(adding[c])'
      BY <2>1, <2>2, <2>3, <2>5
    <3> QED
      BY <2>1, <2>3, <2>5, <3>1
  <2>6. CASE before' = before /\ file'[c] = file[c] /\ Record(c)
    BY <2>1, <2>3, <2>6, RecordAcks
  <2>7. CASE before' = before /\ AddAcked(c)
    <3>1. step'[c] = "idle" /\ file'[c] = file[c] \cup {adding[c]}
      BY <2>7 DEF AddAcked, WriteRoot
    <3>2. Acked(adding[c]) /\ adding[c] \in Path
      BY <2>1, <2>2, <2>7 DEF AddAcked
    <3> QED
      BY <2>1, <2>3, <2>7, <3>1, <3>2
  <2> QED
    BY <1>2, <2>4, <2>5, <2>6, <2>7, FileStep
<1> QED
  BY <1>1, <1>2

-------------------------------------------------------------------------------
(* The hand-overs.                                                         *)

\* The actions that leave the scans' results and the early roots alone.
LEMMA ScanFrame ==
    ASSUME StartInv, [Next]_vars
    PROVE  \/ Replay \/ FindRoots \/ (\E c \in Builder : ReadTempFile(c) \/ MissTempFile(c))
           \/ TempRootsRead
           \/ ComputeClosure \/ (\E n \in Name : Visit(n)) \/ Leave
           \/ gcPc \in {"idle", "locked", "early", "loaded", "dropped"} /\ ~Replayed'
              /\ unknown' = unknown /\ tempRoots' = tempRoots
           \/ gcPc = "scan" /\ gcPc' = "ready" /\ up' = up
              /\ UNCHANGED <<node, earlyRoots, protectedUnknown, roots, toRead, unlisted, tempRoots,
                             alive, unknown, before>>
           \/ gcPc' = gcPc /\ up' \subseteq up /\ UNCHANGED <<node, scanVars, before>>
              /\ protectedUnknown \subseteq protectedUnknown' /\ (Replayed => earlyRoots' = earlyRoots)
<1> USE DEF Replayed
<1> USE DEF gcVars, serverVars, scanVars, worldVars, builderVars, addVars
<1>1. CASE Lock \/ StartEarly \/ LoadGraph \/ DropEarly \/ StartReal
  BY <1>1 DEF Lock, StartEarly, LoadGraph, DropEarly, StartReal
<1>2. CASE DiskScanned
  BY <1>2 DEF DiskScanned
<1>3. ASSUME NEW c \in Builder, Record(c)
      PROVE  /\ gcPc' = gcPc /\ up' = up /\ UNCHANGED <<node, scanVars, before>>
             /\ protectedUnknown \subseteq protectedUnknown' /\ (Replayed => earlyRoots' = earlyRoots)
  <2>1. conn[c] = "early" => ~Replayed
    BY DEF StartInv, ConnInv, Serving
  <2> QED
    BY <1>3, <2>1 DEF Record
<1>4. CASE \E c \in Builder : AddLocked(c) \/ Send(c) \/ ReceiveAck(c) \/ AddAcked(c) \/ Exit(c)
  BY <1>4 DEF AddLocked, Send, ReceiveAck, AddAcked, Exit, WriteRoot
<1>5. CASE \E c \in Builder, p \in Path : BeginAdd(c, p) \/ TakeLock(c, p) \/ Write(c, p)
                                           \/ Register(c, p)
  BY <1>5 DEF BeginAdd, TakeLock, Write, Register
<1>6. CASE UNCHANGED vars
  BY <1>6 DEF vars
<1> QED
  BY <1>1, <1>2, <1>3, <1>4, <1>5, <1>6, Cases

LEMMA ReplayStep ==
    ASSUME StartInv, [Next]_vars
    PROVE  ReplayInv'
<1> USE DEF StartInv, TypeOK, ReplayInv, Replayed, scanVars, serverVars
<1>1. CASE Replay
  BY <1>1 DEF Replay
<1>2. CASE FindRoots \/ TempRootsRead \/ ComputeClosure
  BY <1>2 DEF FindRoots, TempRootsRead, ComputeClosure
<1>3. CASE (\E c \in Builder : ReadTempFile(c) \/ MissTempFile(c)) \/ (\E n \in Name : Visit(n))
  BY <1>3 DEF ReadTempFile, MissTempFile, Visit
<1>4. CASE Leave
  BY <1>4 DEF Leave
<1> QED
  BY <1>1, <1>2, <1>3, <1>4, ScanFrame

\* A file that has been read gave all its owner had before the lock.
LEMMA ReadStep ==
    ASSUME StartInv, [Next]_vars
    PROVE  ReadInv'
<1> USE DEF StartInv, TypeOK, ReadInv, Replayed, scanVars, serverVars, builderVars
<1>1. CASE Replay
  BY <1>1 DEF Replay
<1>2. CASE FindRoots \/ TempRootsRead \/ ComputeClosure
  BY <1>2 DEF FindRoots, TempRootsRead, ComputeClosure
<1>3. ASSUME NEW c \in Builder, ReadTempFile(c) \/ MissTempFile(c) PROVE ReadInv'
  <2>1. before[c] \subseteq file[c]
    BY <1>3 DEF ReadTempFile, MissTempFile, AccountInv, LockFree
  <2> QED
    BY <1>3, <2>1 DEF ReadTempFile, MissTempFile
<1>4. ASSUME NEW n \in Name, Visit(n) PROVE ReadInv'
  BY <1>4 DEF Visit
<1>5. CASE Leave
  BY <1>5 DEF Leave
<1> QED
  BY <1>1, <1>2, <1>3, <1>4, <1>5, ScanFrame

LEMMA ScanStep ==
    ASSUME StartInv, [Next]_vars
    PROVE  ScanInv'
<1> USE DEF StartInv, TypeOK, ScanInv, Scanning, scanVars, serverVars
<1>1. CASE Replay
  BY <1>1 DEF Replay, PhaseInv
<1>2. CASE FindRoots \/ TempRootsRead
  BY <1>2 DEF FindRoots, TempRootsRead, PhaseInv
<1>3. CASE ComputeClosure
  <2>1. Edge' = Edge /\ Edge \in [node -> SUBSET node]
    BY <1>3, ReachFrame, ReachFacts DEF ComputeClosure
  <2>2. roots \subseteq Closure(Edge, roots) /\ IsClosed(Edge, Closure(Edge, roots))
    BY <2>1, ClosureHasRoots, ClosureIsClosed
  <2>3. alive' = Closure(Edge, roots) /\ roots' = roots /\ unknown' = {}
    BY <1>3 DEF ComputeClosure, PhaseInv
  <2> QED
    BY <2>1, <2>2, <2>3
<1>4. ASSUME NEW c \in Builder, ReadTempFile(c) \/ MissTempFile(c) PROVE ScanInv'
  BY <1>4 DEF ReadTempFile, MissTempFile, PhaseInv
<1>5. ASSUME NEW n \in Name, Visit(n) PROVE ScanInv'
  <2>1. Edge' = Edge /\ UNCHANGED <<gcPc, roots, alive, tempRoots>>
    BY <1>5, ReachFrame DEF Visit
  <2>2. \A m \in unknown' : m \in unknown \/ ~Active(m)
    BY <1>5 DEF Visit
  <2>3. \A m \in unknown' : ~Active(m)'
    BY <2>1, <2>2 DEF Active
  <2> QED
    BY <2>1, <2>3
<1>6. CASE Leave
  BY <1>6 DEF Leave
<1>7. CASE gcPc \in {"idle", "locked", "early", "loaded", "dropped"} /\ ~Replayed'
           /\ unknown' = unknown /\ tempRoots' = tempRoots
  BY <1>7 DEF PhaseInv, Replayed
<1>8. CASE UNCHANGED <<node, roots, tempRoots, alive, unknown>> /\ (Scanning' => Scanning)
  <2>1. Edge' = Edge
    BY <1>8, ReachFrame
  <2>2. \A m : Active(m)' <=> Active(m)
    BY <1>8 DEF Active
  <2> QED
    BY <1>8, <2>1, <2>2
<1>9. CASE gcPc = "scan" /\ UNCHANGED <<node, roots, tempRoots, alive, unknown>>
  BY <1>8, <1>9
<1>10. CASE gcPc' = gcPc /\ UNCHANGED <<node, scanVars>>
  <2>1. Scanning' => Scanning
    BY <1>10
  <2> QED
    BY <1>8, <1>10, <2>1
<1> HIDE DEF StartInv, TypeOK, ScanInv, Scanning
<1> QED
  BY <1>1, <1>2, <1>3, <1>4, <1>5, <1>6, <1>7, <1>9, <1>10, ScanFrame

-------------------------------------------------------------------------------
(* The theorems.                                                           *)

LEMMA InitStart == Init => StartInv
<1> SUFFICES ASSUME Init PROVE StartInv
  OBVIOUS
<1>1. TypeOK
  BY DEF Init, TypeOK, GcState
<1>2. PhaseInv /\ AccountInv /\ ReplayInv /\ ReadInv /\ ScanInv /\ ConnInv /\ WaitsForServer
  BY DEF Init, PhaseInv, AccountInv, ReplayInv, ReadInv, ScanInv, ConnInv, WaitsForServer,
     RealServes, Replayed, Scanning, LockFree
<1> QED
  BY <1>1, <1>2 DEF StartInv

\* Every root of a living builder is accounted for in every reachable state.
THEOREM StartInvHolds == Spec => []StartInv
<1>1. StartInv /\ [Next]_vars => StartInv'
  BY TypeStep, PhaseStep, ConnStep, AccountStep, ReplayStep, ReadStep, ScanStep DEF StartInv
<1> QED
  BY <1>1, InitStart, PTL DEF Spec

\* Every variable keeps its type: what is marked, protected and found to be a
\* root indexes the snapshot, and what is outside the snapshot is a name.
THEOREM TypesHold == Spec => []TypeOK
<1>1. StartInv => TypeOK
  BY DEF StartInv
<1> QED
  BY <1>1, StartInvHolds, PTL

\* A builder never waits for the ack of a server that is gone.
THEOREM NoWaitOnDeadServer == Spec => []WaitsForServer
<1>1. StartInv => WaitsForServer
  BY DEF StartInv
<1> QED
  BY <1>1, StartInvHolds, PTL

\* When the deletion starts, nothing a living builder's add() has returned for is
\* in its reach, unless an error of read_dir hid the file that listed it before the
\* lock: the promise of TempRoots::add across the change of servers.
THEOREM RootsCovered == Spec => []HeldRootsCovered
<1>1. StartInv => HeldRootsCovered
  <2> SUFFICES ASSUME StartInv, gcPc = "ready", NEW c \in Builder, NEW p \in Seen(c)
               PROVE  Safe(p)
    BY DEF HeldRootsCovered
  <2> USE DEF StartInv, TypeOK
  <2>1. c \in up /\ p \in file[c] /\ p \in Path /\ (p \in before[c] => c \notin unlisted)
    BY DEF Held, Seen
  <2>2. p \in node /\ p \in roots => Safe(p)
    <3>1. roots \subseteq alive /\ IsClosed(Edge, alive)
      BY DEF ScanInv, Scanning
    <3> QED
      BY <3>1, ReachFacts DEF Safe
  <2>3. CASE p \in before[c]
    <3>1. p \in tempRoots /\ (p \in node => p \in roots)
      BY <2>1, <2>3 DEF ReadInv
    <3>2. p \notin unknown
      BY <3>1 DEF ScanInv, Active
    <3> QED
      BY <2>2, <3>1, <3>2 DEF Safe
  <2>4. CASE p \notin before[c]
    <3>1. Acked(p)
      BY <2>1, <2>4 DEF AccountInv, LockFree
    <3>2. CASE p \in earlyRoots
      BY <2>2, <3>2 DEF ReplayInv, Replayed, Safe
    <3>3. CASE IF p \in node THEN Reach[p] \subseteq protected ELSE p \in protectedUnknown
      BY <3>3 DEF Safe
    <3> QED
      BY <3>1, <3>2, <3>3 DEF Acked
  <2> QED
    BY <2>3, <2>4
<1> QED
  BY <1>1, StartInvHolds, PTL

\* The scan of the store directory does not list the lock file that goes with a
\* root from before the lock, as long as the builder holds it and read_dir yielded
\* its temproots file.
THEOREM LocksKept == Spec => []ListedLocksKept
<1>1. StartInv => ListedLocksKept
  <2> SUFFICES ASSUME StartInv, gcPc = "ready", NEW c \in Builder \ unlisted,
                      NEW p \in locks[c] \cap before[c]
               PROVE  LockOf[p] \notin unknown
    BY DEF ListedLocksKept
  <2> USE DEF StartInv, TypeOK
  <2>1. c \in up /\ p \in DOMAIN LockOf
    BY DEF ConnInv
  <2>2. p \in tempRoots
    BY <2>1 DEF ReadInv
  <2> QED
    BY <2>1, <2>2 DEF ScanInv, Active
<1> QED
  BY <1>1, StartInvHolds, PTL
===============================================================================
