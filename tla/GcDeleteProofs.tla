---------------------------- MODULE GcDeleteProofs ----------------------------
(***************************************************************************)
(* The safety of the deletion phase, for every store, every reference      *)
(* graph, every chunk size and any number of builders.                     *)
(*                                                                         *)
(* The argument: Kept, the nodes out of the collector's reach, only grows  *)
(* (KeptGrows); so a path that was safe to ack stays so (SafeStays); the   *)
(* valid rows that are safe and not unbacked are closed under references   *)
(* (SoundIsClosed); so what a builder takes for its inputs is never        *)
(* touched, and the rows a chunk loses have no referrer left but unbacked  *)
(* ones.  IInv carries this through each action.                           *)
(***************************************************************************)
EXTENDS GcDelete, TLAPS

-------------------------------------------------------------------------------
(* What a closure has, whatever the graph.                                 *)

\* A closure is a set of nodes.
LEMMA ClosureType ==
    ASSUME NEW N, NEW E \in [N -> SUBSET N], NEW R
    PROVE  Closure(E, R) \subseteq N
  BY DEF Closure

\* compute_closure marks its roots.
LEMMA ClosureHasRoots ==
    ASSUME NEW N, NEW E \in [N -> SUBSET N], NEW R \in SUBSET N
    PROVE  R \subseteq Closure(E, R)
  BY DEF Closure

\* compute_closure leaves no marked node with an unmarked reference.
LEMMA ClosureIsClosed ==
    ASSUME NEW N, NEW E \in [N -> SUBSET N], NEW R
    PROVE  IsClosed(E, Closure(E, R))
<1> SUFFICES ASSUME NEW n \in Closure(E, R), NEW m \in E[n],
                    NEW C \in SUBSET N, R \subseteq C, IsClosed(E, C)
             PROVE  m \in C
  BY ClosureType DEF Closure, IsClosed
<1>1. n \in C
  BY DEF Closure
<1> QED
  BY <1>1 DEF IsClosed

\* Nothing is marked that a closed superset of the roots does not have.
LEMMA ClosureIsLeast ==
    ASSUME NEW N, NEW E \in [N -> SUBSET N], NEW R,
           NEW C \in SUBSET N, R \subseteq C, IsClosed(E, C)
    PROVE  Closure(E, R) \subseteq C
  BY DEF Closure

\* The closure of a single node, as ReachFrom tabulates it.
LEMMA ReachFromFacts ==
    ASSUME NEW N, NEW E \in [N -> SUBSET N], NEW n \in N
    PROVE  /\ n \in ReachFrom(E)[n]
           /\ ReachFrom(E)[n] \subseteq N
           /\ E[n] \subseteq ReachFrom(E)[n]
           /\ IsClosed(E, ReachFrom(E)[n])
<1>1. ReachFrom(E)[n] = Closure(E, {n})
  BY DEF ReachFrom
<1>2. n \in ReachFrom(E)[n]
  BY <1>1, ClosureHasRoots
<1>3. IsClosed(E, ReachFrom(E)[n])
  BY <1>1, ClosureIsClosed
<1>4. E[n] \subseteq ReachFrom(E)[n]
  BY <1>2, <1>3 DEF IsClosed
<1> QED
  BY <1>1, <1>2, <1>3, <1>4, ClosureType

\* A closed set has all that its members reach.
LEMMA ReachWithinClosed ==
    ASSUME NEW N, NEW E \in [N -> SUBSET N],
           NEW C \in SUBSET N, IsClosed(E, C), NEW n \in C
    PROVE  ReachFrom(E)[n] \subseteq C
<1>1. ReachFrom(E)[n] = Closure(E, {n})
  BY DEF ReachFrom
<1> QED
  BY <1>1, ClosureIsLeast

\* Reachability is transitive.
LEMMA ReachTransitive ==
    ASSUME NEW N, NEW E \in [N -> SUBSET N], NEW n \in N, NEW m \in ReachFrom(E)[n]
    PROVE  ReachFrom(E)[m] \subseteq ReachFrom(E)[n]
  BY ReachFromFacts, ReachWithinClosed

-------------------------------------------------------------------------------
(* Which actions change what.                                              *)

USE DEF Next, vars, Ended, Collect, StopEarly, Prune, Invalidate, InvalidateFails,
    Unlink, EndDelete, ChunkEnd, ChunksDone, LeaveLoop, Recheck, BeginUnknown,
    UnlinkUnknown, EndUnknown, LockTmp, SkipTmp, RecheckDone, UnknownDone,
    DropSocket, CloseListener, Cancel, ShutDown, Return, Joined,
    Serve, Connect, Accept, Request, ReadLine, Wake, Ack, AckLost, Hangup,
    Build, Use, Write, Register, Exit, TakeTmp, ReleaseTmp, ClaimChunk, Crash,
    socketVars, markVars, liveVars, connVars, loopVars, chunkVars, scanVars,
    worldVars, builderVars

\* Who changes alive.
LEMMA AliveFrame ==
    ASSUME [Next]_vars
    PROVE  UNCHANGED alive \/ Crash
  OBVIOUS

\* Who changes todo and skipped.
LEMMA TodoFrame ==
    ASSUME [Next]_vars
    PROVE  /\ UNCHANGED todo \/ ClaimChunk \/ Crash
           /\ UNCHANGED skipped \/ ClaimChunk \/ Prune \/ Crash
  OBVIOUS

\* Who changes claimed and pendingNodes.
LEMMA ClaimedFrame ==
    ASSUME [Next]_vars
    PROVE  \/ UNCHANGED <<claimed, pendingNodes>>
           \/ ClaimChunk \/ Prune \/ (\E n \in Node : EndDelete(n)) \/ Crash
  OBVIOUS

\* Who changes gcPc and outcome.
LEMMA PcFrame ==
    ASSUME [Next]_vars
    PROVE  \/ UNCHANGED <<gcPc, outcome>>
           \/ ClaimChunk \/ StopEarly \/ Prune \/ Invalidate \/ InvalidateFails
           \/ ChunkEnd \/ ChunksDone \/ RecheckDone \/ UnknownDone \/ Return \/ Crash
  OBVIOUS

\* Who changes the protected names.
LEMMA ProtectedFrame ==
    ASSUME [Next]_vars
    PROVE  \/ UNCHANGED <<protected, protectedUnknown>>
           \/ (\E c \in Client : Request(c)) \/ Crash
  OBVIOUS

\* Who changes cancelled.
LEMMA CancelledFrame ==
    ASSUME [Next]_vars
    PROVE  UNCHANGED cancelled \/ DropSocket \/ Crash
  OBVIOUS

\* Who changes unknown.
LEMMA UnknownFrame ==
    ASSUME [Next]_vars
    PROVE  \/ UNCHANGED unknown
           \/ (\E p \in Path : Recheck(p) \/ BeginUnknown(p)) \/ Crash
  OBVIOUS

\* Who changes toCheck.
LEMMA ToCheckFrame ==
    ASSUME [Next]_vars
    PROVE  UNCHANGED toCheck \/ ChunksDone \/ (\E p \in Path : Recheck(p)) \/ Crash
  OBVIOUS

\* Who changes pendingUnknown.
LEMMA PendingUnknownFrame ==
    ASSUME [Next]_vars
    PROVE  \/ UNCHANGED pendingUnknown
           \/ (\E p \in Path : BeginUnknown(p) \/ EndUnknown(p))
           \/ (\E t \in TmpDir : SkipTmp(t)) \/ Crash
  OBVIOUS

\* Who changes the database.
LEMMA RowsFrame ==
    ASSUME [Next]_vars
    PROVE  UNCHANGED dbValid \/ Invalidate \/ \E c \in Client, p \in Path : Register(c, p)
  OBVIOUS

\* Who adds to the unbacked rows.
LEMMA UnbackedFrame ==
    ASSUME [Next]_vars
    PROVE  UNCHANGED unbacked \/ \E c \in Client, p \in Path : Register(c, p)
  OBVIOUS

\* Who changes the disk.
LEMMA DiskFrame ==
    ASSUME [Next]_vars
    PROVE  \/ UNCHANGED onDisk
           \/ (\E n \in Node : Unlink(n)) \/ (\E p \in Path : UnlinkUnknown(p))
           \/ (\E c \in Client, p \in Path : Write(c, p))
           \/ (\E t \in TmpDir : ReleaseTmp(t))
  OBVIOUS

\* Who changes the builders' state.
LEMMA BuilderFrame ==
    ASSUME [Next]_vars
    PROVE  \/ UNCHANGED <<held, uses, building>>
           \/ \E c \in Client : \/ Ack(c) \/ Exit(c)
                                \/ \E p \in Path : Use(c, p) \/ Write(c, p) \/ Register(c, p)
  OBVIOUS

\* Who changes tmpLock.
LEMMA TmpLockFrame ==
    ASSUME [Next]_vars
    PROVE  \/ UNCHANGED tmpLock
           \/ (\E t \in TmpDir : LockTmp(t) \/ TakeTmp(t) \/ ReleaseTmp(t))
           \/ (\E p \in Path : EndUnknown(p)) \/ Crash
  OBVIOUS

HIDE DEF Next, vars, Ended, Collect, StopEarly, Prune, Invalidate, InvalidateFails,
    Unlink, EndDelete, ChunkEnd, ChunksDone, LeaveLoop, Recheck, BeginUnknown,
    UnlinkUnknown, EndUnknown, LockTmp, SkipTmp, RecheckDone, UnknownDone,
    DropSocket, CloseListener, Cancel, ShutDown, Return, Joined,
    Serve, Connect, Accept, Request, ReadLine, Wake, Ack, AckLost, Hangup,
    Build, Use, Write, Register, Exit, TakeTmp, ReleaseTmp, ClaimChunk, Crash,
    socketVars, markVars, liveVars, connVars, loopVars, chunkVars, scanVars,
    worldVars, builderVars

-------------------------------------------------------------------------------
(* What is out of reach stays out of reach.                                *)

\* Reach, for the snapshot's edges.
LEMMA ReachFacts ==
    ASSUME NEW n \in Node
    PROVE  /\ n \in Reach[n]
           /\ Reach[n] \subseteq Node
           /\ Edge[n] \subseteq Reach[n]
           /\ IsClosed(Edge, Reach[n])
           /\ \A m \in Reach[n] : Reach[m] \subseteq Reach[n]
           /\ \A S \in SUBSET Node : IsClosed(Edge, S) /\ n \in S => Reach[n] \subseteq S
  BY GraphAssumption, ReachFromFacts, ReachTransitive, ReachWithinClosed DEF Reach

\* A live node is safe with all below it.
LEMMA AliveIsSafe ==
    ASSUME IInv, NEW n \in alive
    PROVE  Safe(n)
<1>1. n \in Node /\ IsClosed(Edge, alive) /\ alive \in SUBSET Node
  BY DEF IInv, LoopInv, TypeOK
<1>2. Reach[n] \subseteq alive
  BY <1>1, ReachFacts
<1> QED
  BY <1>1, <1>2, ReachFacts DEF Safe, Kept

\* No step takes a node out of Kept: a claim takes only unprotected dead nodes,
\* and marks are never cleared while the collector runs.
LEMMA KeptGrows ==
    ASSUME IInv, [Next]_vars
    PROVE  Kept \subseteq Kept'
<1> USE DEF IInv, Kept, Doomed
<1>1. CASE ClaimChunk
  BY <1>1 DEF ClaimChunk, markVars
<1>2. CASE Crash
  BY <1>2 DEF Crash, TypeOK, SocketTypeOK
<1>3. ASSUME ~ClaimChunk, ~Crash
      PROVE  /\ alive' = alive
             /\ protected \subseteq protected'
             /\ claimed' \subseteq claimed
             /\ gcPc' = "crashed" <=> gcPc = "crashed"
             /\ gcPc' \in {"prune", "invalidate", "unlink"} =>
                    gcPc \in {"prune", "invalidate", "unlink"}
  <2>1. alive' = alive
    BY <1>3, AliveFrame
  <2>2. protected \subseteq protected'
    BY <1>3, ProtectedFrame DEF Request, ReadLine, Protect, Enter
  <2>3. claimed' \subseteq claimed
    BY <1>3, ClaimedFrame DEF Prune, EndDelete
  <2>4. /\ gcPc' = "crashed" <=> gcPc = "crashed"
        /\ gcPc' \in {"prune", "invalidate", "unlink"} =>
               gcPc \in {"prune", "invalidate", "unlink"}
    BY <1>3, PcFrame DEF StopEarly, Prune, Invalidate, InvalidateFails, ChunkEnd,
       ChunksDone, LeaveLoop, RecheckDone, UnknownDone, Return
  <2> QED
    BY <2>1, <2>2, <2>3, <2>4
<1>4. CASE ~ClaimChunk /\ ~Crash
  BY <1>3, <1>4
<1> QED
  BY <1>1, <1>2, <1>4

\* A path whose ack would be truthful now can be acked at any later time.
LEMMA SafeStays ==
    ASSUME IInv, [Next]_vars, NEW p \in Path, Safe(p)
    PROVE  Safe(p)'
<1>1. CASE p \in Node
  BY <1>1, KeptGrows DEF Safe
<1>2. CASE p \notin Node
  <2>1. p \in unknown' => p \in unknown /\ (p \in protectedUnknown => p \in protectedUnknown')
    <3>1. unknown' = {} \/ protectedUnknown \subseteq protectedUnknown'
      BY ProtectedFrame DEF Crash, Request, ReadLine, Protect, Enter
    <3>2. unknown' \subseteq unknown
      BY UnknownFrame DEF Crash, Recheck, BeginUnknown
    <3> QED
      BY <3>1, <3>2
  <2>2. p \notin pendingUnknown'
    BY <1>2, PendingUnknownFrame
    DEF Safe, Crash, SocketGone, BeginUnknown, TryBeginDeleteUnknown, EndUnknown, SkipTmp,
        EndDeleteUnknown
  <2> QED
    BY <1>2, <2>1, <2>2 DEF Safe
<1> QED
  BY <1>1, <1>2

-------------------------------------------------------------------------------
(* What builders build upon is safe.                                       *)

\* The valid rows the collector leaves alone that are not unbacked.
Sound == Good \ unbacked

\* They reference only each other.
LEMMA SoundIsClosed ==
    ASSUME IInv
    PROVE  Sound \in SUBSET Path /\ IsClosed(Refs, Sound)
<1>1. Sound \in SUBSET Path
  BY DEF IInv, TypeOK, Good, Sound
<1>2. ASSUME NEW p \in Sound, NEW r \in Refs[p] PROVE r \in Sound
  <2>1. p \in dbValid \ unbacked /\ p \in Path /\ r \in dbValid \ unbacked
    BY <1>1, <1>2 DEF IInv, RefsClosed, BackedInv, Good, Sound
  <2>2. CASE p \in Node
    <3>1. r \in Node /\ r \in Reach[p]
      BY <2>2, ReachFacts, GraphAssumption, StoreAssumption
    <3>2. Reach[r] \subseteq Reach[p]
      BY <2>2, <3>1, ReachFacts
    <3>3. Reach[p] \subseteq Kept
      BY <2>2 DEF Good, Safe, Sound
    <3> QED
      BY <2>1, <3>1, <3>2, <3>3 DEF Good, Safe, Sound
  <2>3. CASE p \notin Node
    BY <2>1, <2>3 DEF IInv, RowInv, Good, Sound
  <2> QED
    BY <2>2, <2>3
<1> QED
  BY <1>1, <1>2 DEF IsClosed

\* What a builder uses keeps all that it needs.
LEMMA UsedIsSound ==
    ASSUME IInv, NEW c \in Client, NEW p \in uses[c] \ unbacked
    PROVE  RefReach[p] \subseteq Sound
<1>1. p \in Sound
  BY DEF IInv, BuilderInv, Sound
<1> QED
  BY <1>1, SoundIsClosed, ReachWithinClosed, StoreAssumption DEF RefReach

\* The inputs of a builder that uses no unbacked row are valid rows the
\* collector leaves alone.
LEMMA InputsAreSound ==
    ASSUME IInv, NEW c \in Client, uses[c] \cap unbacked = {}
    PROVE  Inputs(c) \subseteq Sound
  BY UsedIsSound DEF Inputs

\* Rows the collector leaves alone are left alone for good.
LEMMA GoodGrows ==
    ASSUME IInv, [Next]_vars
    PROVE  Good \subseteq Good'
<1> SUFFICES ASSUME NEW p \in Good PROVE p \in Good'
  OBVIOUS
<1>1. p \in dbValid /\ p \in Path /\ (p \in Node => Safe(p))
  BY DEF IInv, TypeOK, Good
<1>2. p \in Node => Safe(p)'
  BY <1>1, SafeStays
<1>3. p \in dbValid'
  <2>1. CASE Invalidate
    <3>1. p \in Node => p \notin claimed
      BY <1>1, <2>1, ReachFacts DEF Safe, Kept, Doomed, Invalidate, IInv, LoopInv
    <3> QED
      BY <1>1, <2>1, <3>1 DEF Invalidate, IInv, TypeOK
  <2> QED
    BY <1>1, <2>1, RowsFrame DEF Register
<1> QED
  BY <1>2, <1>3 DEF Good

-------------------------------------------------------------------------------
(* Each part of the invariant is kept by every step.                       *)

LEMMA TypeStep ==
    ASSUME IInv, [Next]_vars
    PROVE  TypeOK'
<1> USE StoreAssumption, GraphAssumption
    DEF IInv, TypeOK, SocketTypeOK, GcState, HandlerState, ServerState, vars, socketVars,
        markVars, connVars, callVars, liveVars, loopVars, chunkVars, scanVars,
        worldVars, builderVars
<1>1. CASE ClaimChunk \/ StopEarly
  BY <1>1 DEF ClaimChunk, ClaimNodes, StopEarly
<1>2. CASE Prune
  BY <1>2 DEF Prune, EndDeleteNodes, NotifyAll
<1>3. CASE Invalidate \/ InvalidateFails
  BY <1>3 DEF Invalidate, InvalidateFails
<1>4. ASSUME NEW n \in Node, Unlink(n) \/ EndDelete(n) PROVE TypeOK'
  BY <1>4 DEF Unlink, EndDelete, EndDeleteNodes, NotifyAll
<1>5. CASE ChunkEnd \/ ChunksDone \/ RecheckDone \/ UnknownDone
  BY <1>5 DEF ChunkEnd, ChunksDone, LeaveLoop, RecheckDone, UnknownDone
<1>6. ASSUME NEW p \in Path, Recheck(p) \/ BeginUnknown(p) \/ UnlinkUnknown(p) \/ EndUnknown(p)
      PROVE  TypeOK'
  BY <1>6 DEF Recheck, BeginUnknown, TryBeginDeleteUnknown, UnlinkUnknown, EndUnknown,
              EndDeleteUnknown, NotifyAll
<1>7. ASSUME NEW t \in TmpDir, LockTmp(t) \/ SkipTmp(t) PROVE TypeOK'
  BY <1>7 DEF LockTmp, SkipTmp, EndDeleteUnknown, NotifyAll
<1>8. CASE DropSocket \/ Return
  BY <1>8 DEF DropSocket, Return, CloseListener, Cancel, ShutDown, Joined, NotifyAll
<1>9. CASE Collect
  BY <1>9, <1>1, <1>2, <1>3, <1>4, <1>5, <1>6, <1>7, <1>8 DEF Collect
<1>10. CASE Crash
  BY <1>10 DEF Crash, SocketGone
<1>11. ASSUME NEW c \in Client, Request(c) PROVE TypeOK'
  <2>1. PICK p \in Goal[c] \ held[c] : ReadLine(c, p)
    BY <1>11 DEF Request
  <2>2. ProtectSet(p) \subseteq Node
    BY ReachFacts DEF ProtectSet
  <2> QED
    BY <1>11, <2>1, <2>2 DEF Request, ReadLine, Protect, Enter
<1>12. ASSUME NEW c \in Client, Ack(c) PROVE TypeOK'
  <2>1. want[c] \in Path
    BY <1>12 DEF WaitInv, Marked, Ack, AckDelivered
  <2> QED
    BY <1>12, <2>1 DEF Ack, AckDelivered
<1>13. ASSUME NEW c \in Client, Connect(c) \/ Wake(c) \/ AckLost(c) \/ Hangup(c) PROVE TypeOK'
  BY <1>13 DEF Connect, Accept, Wake, WakeUp, AckLost, AckFails, Hangup, Eof
<1>14. ASSUME NEW c \in Client, Build(c) PROVE TypeOK'
  BY <1>14 DEF Build, Use, Write, Register, Exit
<1>15. ASSUME NEW t \in TmpDir, TakeTmp(t) \/ ReleaseTmp(t) PROVE TypeOK'
  BY <1>15 DEF TakeTmp, ReleaseTmp
<1>16. CASE UNCHANGED vars
  BY <1>16
<1> QED
  BY <1>9, <1>10, <1>11, <1>12, <1>13, <1>14, <1>15, <1>16 DEF Next, Serve, Ended

\* After a claim, no claimed node has a referrer left beyond the cursor, and the
\* closure of what was skipped has nothing claimed in it.
LEMMA ClaimStep ==
    ASSUME IInv, ClaimChunk
    PROVE  LoopInv' /\ OrderInv' /\ PruneIsIdle'
<1>1. PICK chunk \in SUBSET todo :
        /\ IsNextChunk(Edge, Node \ alive, todo, MaxChunk, chunk)
        /\ ClaimNodes(chunk)
        /\ claimed' = chunk \ protected
        /\ skipped' = chunk \cap protected
        /\ todo' = todo \ chunk
  BY DEF ClaimChunk
<1>2. /\ gcPc = "chunk" /\ gcPc' = "prune"
      /\ alive' = alive /\ protected' = protected /\ cancelled' = cancelled
      /\ outcome' = outcome
  BY DEF ClaimChunk, markVars
<1>3. claimed = {} /\ pendingNodes = {}
  BY <1>2 DEF IInv, LoopInv
<1>4. LoopInv'
  BY <1>1, <1>2, <1>3 DEF IInv, LoopInv, ClaimNodes, IsClosed
<1>5. OrderInv'
  <2> SUFFICES ASSUME NEW n \in claimed', NEW r \in Referrers(Edge, todo', n) PROVE FALSE
    BY DEF OrderInv
  <2>1. n \in chunk /\ r \in todo /\ r \notin chunk /\ r # n /\ n \in Edge[r]
    BY <1>1 DEF Referrers
  <2>2. Referrers(Edge, todo, n) \subseteq chunk
    BY <1>1, <2>1 DEF IsNextChunk, TakesReferrersFirst
  <2> QED
    BY <2>1, <2>2 DEF Referrers
<1>6. PruneIsIdle'
  <2>1. skipped' \subseteq protected /\ protected \in SUBSET Node /\ IsClosed(Edge, protected)
    BY <1>1 DEF IInv, LoopInv, TypeOK, SocketTypeOK
  <2>2. Closure(Edge, skipped') \subseteq protected
    BY <2>1, ClosureIsLeast, GraphAssumption
  <2> QED
    BY <1>1, <2>2 DEF PruneIsIdle
<1> QED
  BY <1>4, <1>5, <1>6

\* The code's prune step finds nothing to give back.
LEMMA PruneChangesNothing ==
    ASSUME IInv, Prune
    PROVE  UNCHANGED <<claimed, pendingNodes, handler>>
<1>1. claimed \cap Closure(Edge, skipped) = {}
  BY DEF Prune, IInv, PruneIsIdle
<1> QED
  BY <1>1 DEF Prune, EndDeleteNodes

\* The protected set stays closed under references.
LEMMA ProtectedStaysClosed ==
    ASSUME IInv, [Next]_vars
    PROVE  IsClosed(Edge, protected')
<1>1. IsClosed(Edge, protected) /\ protected \in SUBSET Node
  BY DEF IInv, LoopInv, TypeOK, SocketTypeOK
<1>2. CASE Crash
  BY <1>2 DEF Crash, SocketGone, IsClosed
<1>3. ASSUME NEW c \in Client, Request(c) PROVE IsClosed(Edge, protected')
  <2>1. PICK p \in Goal[c] : protected' = protected \cup ProtectSet(p)
    BY <1>3 DEF Request, ReadLine, Protect, Enter
  <2>2. IsClosed(Edge, ProtectSet(p))
    BY ReachFacts DEF ProtectSet, IsClosed
  <2> QED
    BY <1>1, <2>1, <2>2 DEF IsClosed
<1> QED
  BY <1>1, <1>2, <1>3, ProtectedFrame

LEMMA LoopStep ==
    ASSUME IInv, [Next]_vars
    PROVE  LoopInv'
<1>1. CASE ClaimChunk
  BY <1>1, ClaimStep
<1>2. CASE Crash
  BY <1>2 DEF Crash, SocketGone, LoopInv, IsClosed
<1>3. CASE ~ClaimChunk /\ ~Crash
  <2>1. todo' = todo /\ alive' = alive
    BY <1>3, TodoFrame, AliveFrame
  <2>2. claimed' \subseteq claimed /\ pendingNodes' = claimed'
    BY <1>3, ClaimedFrame, PruneChangesNothing DEF EndDelete, EndDeleteNodes, IInv, LoopInv
  <2>3. cancelled' => gcPc' \in {"drop", "done"}
    <3>1. cancelled' = cancelled \/ gcPc' = "drop"
      BY <1>3, CancelledFrame DEF DropSocket, loopVars, IInv
    <3>2. gcPc \in {"drop", "done"} => gcPc' \in {"drop", "done"}
      BY <1>3, PcFrame DEF StopEarly, Prune, Invalidate, InvalidateFails, ChunkEnd,
         ChunksDone, LeaveLoop, RecheckDone, UnknownDone, Return
    <3> QED
      BY <3>1, <3>2 DEF IInv, LoopInv
  <2>4. /\ gcPc' \in {"chunk", "recheck", "unknown"} => claimed = {}
        /\ gcPc' \in {"recheck", "unknown"} \/ outcome' = "all" => todo = {} /\ claimed = {}
    BY <1>3, PcFrame DEF StopEarly, Prune, Invalidate, InvalidateFails, ChunkEnd,
       ChunksDone, LeaveLoop, RecheckDone, UnknownDone, Return, IInv, LoopInv
  <2> QED
    BY <2>1, <2>2, <2>3, <2>4, ProtectedStaysClosed DEF IInv, LoopInv
<1> QED
  BY <1>1, <1>2, <1>3

LEMMA OrderStep ==
    ASSUME IInv, [Next]_vars
    PROVE  OrderInv' /\ PruneIsIdle'
<1>1. CASE ClaimChunk
  BY <1>1, ClaimStep
<1>2. CASE Crash
  BY <1>2 DEF Crash, OrderInv, PruneIsIdle
<1>3. CASE ~ClaimChunk /\ ~Crash
  <2>1. todo' = todo /\ claimed' \subseteq claimed
    BY <1>3, TodoFrame, ClaimedFrame DEF Prune, EndDelete
  <2>2. /\ gcPc' \in {"prune", "invalidate"} => gcPc \in {"prune", "invalidate"}
        /\ gcPc' = "prune" => gcPc = "prune" /\ ~Prune
    BY <1>3, PcFrame DEF StopEarly, Prune, Invalidate, InvalidateFails, ChunkEnd,
       ChunksDone, LeaveLoop, RecheckDone, UnknownDone, Return
  <2>3. OrderInv'
    BY <2>1, <2>2 DEF IInv, OrderInv
  <2>4. PruneIsIdle'
    BY <1>3, <2>1, <2>2, TodoFrame DEF IInv, PruneIsIdle
  <2> QED
    BY <2>3, <2>4
<1> QED
  BY <1>1, <1>2, <1>3

LEMMA UnknownStep ==
    ASSUME IInv, [Next]_vars
    PROVE  UnknownInv'
<1> USE DEF IInv, UnknownInv, TypeOK, SocketTypeOK
<1>1. CASE Crash
  BY <1>1 DEF Crash, SocketGone
<1>2. CASE ChunksDone
  BY <1>2 DEF ChunksDone, LeaveLoop, socketVars, markVars, worldVars
<1>3. ASSUME NEW p \in Path, Recheck(p) PROVE UnknownInv'
  BY <1>3 DEF Recheck, socketVars, markVars, worldVars
<1>4. CASE RecheckDone
  BY <1>4 DEF RecheckDone, socketVars, markVars, worldVars, scanVars
<1>5. ASSUME NEW p \in Path, BeginUnknown(p) PROVE UnknownInv'
  BY <1>5 DEF BeginUnknown, TryBeginDeleteUnknown, markVars, worldVars
<1>6. ASSUME NEW p \in Path, EndUnknown(p) PROVE UnknownInv'
  BY <1>6 DEF EndUnknown, EndDeleteUnknown, markVars, scanVars
<1>7. ASSUME NEW t \in TmpDir, SkipTmp(t) PROVE UnknownInv'
  BY <1>7 DEF SkipTmp, EndDeleteUnknown, markVars, loopVars, scanVars, worldVars
<1>8. CASE UnknownDone
  BY <1>8 DEF UnknownDone, socketVars, markVars, worldVars, scanVars
<1>9. ASSUME NEW c \in Client, Request(c) PROVE UnknownInv'
  BY <1>9 DEF Request, ReadLine, Protect, Enter, loopVars, scanVars, worldVars
<1>10. ASSUME NEW c \in Client, NEW p \in Path, Register(c, p) PROVE UnknownInv'
  <2>1. Safe(p)
    BY <1>10 DEF Register, BuilderInv
  <2>2. p \notin Node => p \notin pendingUnknown /\ (p \in unknown => p \in protectedUnknown)
    BY <2>1 DEF Safe
  <2> QED
    BY <1>10, <2>2 DEF Register, socketVars, markVars, loopVars, scanVars
<1>11. CASE Invalidate
  BY <1>11 DEF Invalidate, socketVars, markVars, scanVars
<1>12. CASE /\ ~Crash /\ ~ChunksDone /\ ~RecheckDone /\ ~UnknownDone /\ ~Invalidate
            /\ ~(\E p \in Path : Recheck(p) \/ BeginUnknown(p) \/ EndUnknown(p))
            /\ ~(\E t \in TmpDir : SkipTmp(t))
            /\ ~(\E c \in Client : Request(c) \/ \E p \in Path : Register(c, p))
  <2>1. UNCHANGED <<unknown, toCheck, pendingUnknown, dbValid, protected, protectedUnknown>>
    BY <1>12, UnknownFrame, ToCheckFrame, PendingUnknownFrame, RowsFrame, ProtectedFrame
  <2>2. gcPc' \in {"recheck", "unknown"} \/ gcPc = "unknown" => gcPc' = gcPc
    BY <1>12, PcFrame DEF ClaimChunk, StopEarly, Prune, InvalidateFails, ChunkEnd, Return
  <2> QED
    BY <2>1, <2>2
<1> QED
  BY <1>1, <1>2, <1>3, <1>4, <1>5, <1>6, <1>7, <1>8, <1>9, <1>10, <1>11, <1>12

\* Only its own protect() can take a connection's handler out of a wait.
LEMMA HandlerFrame ==
    ASSUME IInv, [Next]_vars, NEW c \in Client, handler'[c] \in {"asleep", "woken", "ack"}
    PROVE  \/ Request(c) \/ Wake(c)
           \/ /\ want'[c] = want[c] /\ waitFor'[c] = waitFor[c]
              /\ handler'[c] = handler[c] \/ (handler[c] = "asleep" /\ handler'[c] = "woken")
<1> DEFINE Same == /\ want'[c] = want[c] /\ waitFor'[c] = waitFor[c]
                   /\ handler'[c] = handler[c] \/ (handler[c] = "asleep" /\ handler'[c] = "woken")
<1> USE DEF IInv, TypeOK, SocketTypeOK, socketVars, connVars, callVars, NotifyAll
<1>1. CASE Collect
  <2>1. CASE ClaimChunk \/ StopEarly \/ Invalidate \/ InvalidateFails \/ ChunkEnd
             \/ ChunksDone \/ RecheckDone \/ UnknownDone \/ Return
    BY <2>1 DEF ClaimChunk, StopEarly, Invalidate, InvalidateFails, ChunkEnd, ChunksDone,
       LeaveLoop, RecheckDone, UnknownDone, Return, Joined
  <2>2. CASE Prune
    BY <2>2 DEF Prune, EndDeleteNodes
  <2>3. ASSUME NEW n \in Node, Unlink(n) \/ EndDelete(n) PROVE Same
    BY <2>3 DEF Unlink, EndDelete, EndDeleteNodes
  <2>4. ASSUME NEW p \in Path, Recheck(p) \/ BeginUnknown(p) \/ UnlinkUnknown(p) \/ EndUnknown(p)
        PROVE  Same
    BY <2>4 DEF Recheck, BeginUnknown, UnlinkUnknown, EndUnknown, EndDeleteUnknown
  <2>5. ASSUME NEW t \in TmpDir, LockTmp(t) \/ SkipTmp(t) PROVE Same
    BY <2>5 DEF LockTmp, SkipTmp, EndDeleteUnknown
  <2>6. CASE DropSocket
    BY <2>6 DEF DropSocket, CloseListener, Cancel, ShutDown
  <2> QED
    BY <1>1, <2>1, <2>2, <2>3, <2>4, <2>5, <2>6 DEF Collect
<1>2. CASE Crash
  BY <1>2 DEF Crash, SocketGone
<1>3. ASSUME NEW d \in Client, Serve(d) PROVE Same \/ Request(c) \/ Wake(c)
  BY <1>3 DEF Serve, Connect, Accept, Request, ReadLine, Protect, Enter, Wake, WakeUp,
     Ack, AckDelivered, AckLost, AckFails, Hangup, Eof
<1>4. ASSUME NEW d \in Client, Build(d) PROVE Same
  BY <1>4 DEF Build, Use, Write, Register, Exit
<1>5. ASSUME NEW t \in TmpDir, TakeTmp(t) \/ ReleaseTmp(t) PROVE Same
  BY <1>5 DEF TakeTmp, ReleaseTmp
<1>6. CASE UNCHANGED vars
  BY <1>6 DEF vars
<1> QED
  BY <1>1, <1>2, <1>3, <1>4, <1>5, <1>6 DEF Next, Ended

\* A protected node is never newly doomed.
LEMMA DoomedStep ==
    ASSUME IInv, [Next]_vars
    PROVE  Doomed' \cap protected \subseteq Doomed
<1>1. CASE ClaimChunk
  BY <1>1 DEF ClaimChunk, Doomed
<1>2. CASE Crash
  BY <1>2 DEF Crash, Doomed
<1>3. CASE ~ClaimChunk /\ ~Crash
  <2>1. claimed' \subseteq claimed
    BY <1>3, ClaimedFrame DEF Prune, EndDelete
  <2>2. gcPc' \in {"prune", "invalidate", "unlink"} => gcPc \in {"prune", "invalidate", "unlink"}
    BY <1>3, PcFrame DEF StopEarly, Prune, Invalidate, InvalidateFails, ChunkEnd,
       ChunksDone, LeaveLoop, RecheckDone, UnknownDone, Return
  <2> QED
    BY <2>1, <2>2 DEF Doomed
<1> QED
  BY <1>1, <1>2, <1>3

\* When protect() is about to be acked, its path is safe.
LEMMA NoConflictIsSafe ==
    ASSUME IInv, NEW p \in Path, NEW wait,
           p \in Node => /\ Reach[p] \subseteq protected
                         /\ Reach[p] \cap Doomed \subseteq wait,
           p \notin Node => p \in protectedUnknown,
           ~Conflict(p, wait) \/ cancelled
    PROVE  Safe(p)
<1> USE DEF IInv, LoopInv
<1>1. Doomed \subseteq pendingNodes
  BY DEF Doomed
<1>2. cancelled => Doomed = {} /\ pendingUnknown = {}
  BY DEF Doomed, UnknownInv
<1>3. CASE p \in Node
  <2>1. Reach[p] \cap Doomed = {}
    BY <1>1, <1>2, <1>3 DEF Conflict
  <2> QED
    BY <1>3, <2>1, ReachFacts DEF Safe, Kept
<1>4. CASE p \notin Node
  BY <1>2, <1>4 DEF Safe, Conflict
<1> QED
  BY <1>3, <1>4

LEMMA WaitStep ==
    ASSUME IInv, [Next]_vars
    PROVE  WaitInv'
<1> SUFFICES ASSUME NEW c \in Client, handler'[c] \in {"asleep", "woken", "ack"}
             PROVE  Marked(c)'
  BY DEF WaitInv
<1>1. CASE Request(c)
  <2>1. PICK p \in Goal[c] : ReadLine(c, p)
    BY <1>1 DEF Request
  <2>2. /\ p \in Path /\ want'[c] = p
        /\ waitFor'[c] = ProtectSet(p) \cap pendingNodes
        /\ protected' = protected \cup ProtectSet(p)
        /\ protectedUnknown' = protectedUnknown \cup ({p} \ Node)
        /\ handler'[c] = IF Conflict(p, waitFor'[c]) /\ ~cancelled THEN "asleep" ELSE "ack"
    BY <2>1, StoreAssumption
    DEF ReadLine, Protect, Enter, Conflict, IInv, TypeOK, SocketTypeOK
  <2>3. UNCHANGED <<gcPc, claimed, alive, unknown, pendingNodes, pendingUnknown, cancelled>>
    BY <1>1, <2>1 DEF Request, ReadLine, loopVars, chunkVars, scanVars
  <2>4. Doomed' = Doomed /\ Doomed \subseteq pendingNodes
    BY <2>3 DEF Doomed, IInv, LoopInv
  <2>5. p \in Node => /\ Reach[p] \subseteq protected'
                      /\ Reach[p] \cap Doomed \subseteq waitFor'[c]
    BY <2>2, <2>4 DEF ProtectSet
  <2>6. ASSUME handler'[c] = "ack" PROVE Safe(p)'
    <3>1. ~Conflict(p, waitFor'[c]) \/ cancelled
      BY <2>2, <2>6
    <3>2. CASE p \in Node
      <4>1. cancelled => Doomed = {}
        BY DEF IInv, LoopInv, Doomed
      <4>2. Reach[p] \cap Doomed = {}
        BY <2>4, <2>5, <3>1, <3>2, <4>1 DEF Conflict
      <4> QED
        BY <2>3, <2>4, <2>5, <3>2, <4>2, ReachFacts DEF Safe, Kept
    <3>3. CASE p \notin Node
      <4>1. p \notin pendingUnknown
        BY <3>1, <3>3 DEF Conflict, IInv, LoopInv, UnknownInv
      <4> QED
        BY <2>2, <2>3, <3>3, <4>1 DEF Safe
    <3> QED
      BY <3>2, <3>3
  <2>7. handler'[c] = "ack" => Safe(want[c])'
    BY <2>2, <2>6 DEF Safe
  <2> QED
    BY <2>1, <2>2, <2>4, <2>5, <2>7 DEF Marked
<1>2. CASE ~Request(c)
  <2>1. /\ want'[c] = want[c] /\ waitFor'[c] = waitFor[c]
        /\ handler[c] \in {"asleep", "woken", "ack"}
        /\ handler'[c] = "ack" => handler[c] = "ack" \/ Wake(c)
    BY <1>2, HandlerFrame DEF Wake, WakeUp, callVars
  <2>2. Marked(c)
    BY <2>1 DEF IInv, WaitInv
  <2>3. PICK p \in Path : p = want[c]
    BY <2>2, StoreAssumption DEF Marked
  <2>4. protected \subseteq protected' /\ protectedUnknown \subseteq protectedUnknown'
    <3>1. ~Crash
      BY DEF Crash, SocketGone
    <3> QED
      BY <3>1, ProtectedFrame DEF Request, ReadLine, Protect, Enter
  <2>5. p \in Node => /\ Reach[p] \subseteq protected
                      /\ Reach[p] \subseteq protected'
                      /\ Reach[p] \cap Doomed \subseteq waitFor[c]
                      /\ Reach[p] \cap Doomed' \subseteq waitFor[c]
    BY <2>2, <2>3, <2>4, DoomedStep DEF Marked
  <2>6. p \notin Node => p \in protectedUnknown /\ p \in protectedUnknown'
    BY <2>2, <2>3, <2>4 DEF Marked
  <2>7. ASSUME handler'[c] = "ack" PROVE Safe(p)
    <3>1. CASE Wake(c)
      <4>1. ~Conflict(p, waitFor[c]) \/ cancelled
        BY <2>3, <2>7, <3>1 DEF Wake, WakeUp, IInv, TypeOK, SocketTypeOK
      <4> QED
        BY <2>5, <2>6, <4>1, NoConflictIsSafe
    <3> QED
      BY <2>1, <2>2, <2>3, <2>7, <3>1 DEF Marked
  <2>8. handler'[c] = "ack" => Safe(p)'
    BY <2>7, SafeStays
  <2>9. handler'[c] = "ack" => Safe(want[c])'
    BY <2>1, <2>3, <2>8 DEF Safe
  <2>10. p \in Goal[c]
    BY <2>2, <2>3 DEF Marked
  <2> QED
    BY <2>1, <2>3, <2>5, <2>6, <2>9, <2>10 DEF Marked
<1> QED
  BY <1>1, <1>2

\* Who ends a deletion wakes every sleeper; the others leave the sleepers' causes
\* alone.
LEMMA SleepersStep ==
    ASSUME IInv, SleepersHaveCause, [Next]_vars
    PROVE  SleepersHaveCause'
<1> SUFFICES ASSUME NEW c \in Client, handler'[c] = "asleep"
             PROVE  (Conflict(want[c], waitFor[c]) /\ ~cancelled)'
  BY DEF SleepersHaveCause
<1> DEFINE Woken == \A d \in Client : NotifyAll[d] # "asleep"
<1>1. Woken
  BY DEF NotifyAll
<1>2. CASE Request(c)
  <2>1. PICK p \in Goal[c] : ReadLine(c, p)
    BY <1>2 DEF Request
  <2>2. /\ want'[c] = p /\ waitFor'[c] = ProtectSet(p) \cap pendingNodes
        /\ handler'[c] = IF Conflict(p, waitFor'[c]) /\ ~cancelled THEN "asleep" ELSE "ack"
        /\ UNCHANGED <<pendingNodes, pendingUnknown, cancelled>>
    BY <2>1, StoreAssumption
    DEF ReadLine, Protect, Enter, Conflict, IInv, TypeOK, SocketTypeOK
  <2> QED
    BY <2>2 DEF Conflict
<1>3. CASE Wake(c)
  BY <1>3 DEF Wake, WakeUp, Conflict, callVars, markVars, IInv, TypeOK, SocketTypeOK
<1>4. CASE ~Request(c) /\ ~Wake(c)
  <2>1. want'[c] = want[c] /\ waitFor'[c] = waitFor[c] /\ handler[c] = "asleep"
    BY <1>4, HandlerFrame
  <2>2. Conflict(want[c], waitFor[c]) /\ ~cancelled
    BY <2>1 DEF SleepersHaveCause
  <2>3. ~Crash /\ ~Cancel
    BY <1>1 DEF Crash, SocketGone, Cancel
  <2>4. UNCHANGED cancelled
    BY <2>3, CancelledFrame DEF DropSocket, CloseListener, ShutDown, liveVars
  <2>5. pendingNodes \subseteq pendingNodes'
    <3>1. ASSUME NEW n \in Node PROVE ~EndDelete(n)
      BY <1>1 DEF EndDelete, EndDeleteNodes
    <3>2. CASE ClaimChunk
      BY <3>2 DEF ClaimChunk, ClaimNodes
    <3>3. CASE Prune
      BY <3>3, PruneChangesNothing
    <3> QED
      BY <2>3, <3>1, <3>2, <3>3, ClaimedFrame
  <2>6. pendingUnknown \subseteq pendingUnknown'
    <3>1. ASSUME NEW p \in Path PROVE ~EndUnknown(p)
      BY <1>1 DEF EndUnknown, EndDeleteUnknown
    <3>2. ASSUME NEW t \in TmpDir PROVE ~SkipTmp(t)
      BY <1>1 DEF SkipTmp, EndDeleteUnknown
    <3>3. ASSUME NEW p \in Path, BeginUnknown(p) PROVE pendingUnknown \subseteq pendingUnknown'
      BY <3>3 DEF BeginUnknown, TryBeginDeleteUnknown
    <3> QED
      BY <2>3, <3>1, <3>2, <3>3, PendingUnknownFrame
  <2> QED
    BY <2>1, <2>2, <2>4, <2>5, <2>6 DEF Conflict
<1> QED
  BY <1>2, <1>3, <1>4

\* What the current chunk will unlink is not below any safe path.
LEMMA ClaimedIsUnsafe ==
    ASSUME IInv, gcPc \in {"prune", "invalidate", "unlink"}, NEW n \in claimed,
           NEW p \in Node, Safe(p)
    PROVE  n \notin Reach[p] /\ n # p
<1>1. n \notin Kept
  BY DEF Kept, Doomed, IInv, LoopInv
<1>2. Reach[p] \subseteq Kept /\ p \in Reach[p]
  BY ReachFacts DEF Safe
<1> QED
  BY <1>1, <1>2

\* What leaves the disk has no row, is nobody's acked root and is not below one.
LEMMA UnlinkedIsUnneeded ==
    ASSUME IInv, [Next]_vars, NEW x \in onDisk, x \notin onDisk'
    PROVE  x \notin dbValid /\ \A c \in Client : \A q \in held[c] : x # q /\ x \notin ProtectSet(q)
<1>1. \A c \in Client : \A q \in held[c] :
        q \in Path /\ q \notin TmpDir /\ Safe(q) /\ ProtectSet(q) \subseteq Node
  BY ReachFacts, StoreAssumption DEF IInv, BuilderInv, ProtectSet
<1>2. ASSUME NEW n \in Node, Unlink(n)
      PROVE  /\ x \notin dbValid
             /\ \A c \in Client : \A q \in held[c] : x # q /\ x \notin ProtectSet(q)
  <2>1. x = n /\ gcPc = "unlink" /\ n \in claimed
    BY <1>2 DEF Unlink
  <2> QED
    BY <1>1, <2>1, ClaimedIsUnsafe DEF ProtectSet, IInv, RowInv
<1>3. ASSUME NEW p \in Path, UnlinkUnknown(p)
      PROVE  /\ x \notin dbValid
             /\ \A c \in Client : \A q \in held[c] : x # q /\ x \notin ProtectSet(q)
  <2>1. x = p /\ p \in pendingUnknown
    BY <1>3 DEF UnlinkUnknown
  <2>2. x \notin Node /\ x \notin dbValid
    BY <2>1 DEF IInv, UnknownInv
  <2> QED
    BY <1>1, <2>1, <2>2 DEF Safe
<1>4. ASSUME NEW t \in TmpDir, ReleaseTmp(t)
      PROVE  /\ x \notin dbValid
             /\ \A c \in Client : \A q \in held[c] : x # q /\ x \notin ProtectSet(q)
  <2>1. x = t
    BY <1>4 DEF ReleaseTmp
  <2> QED
    BY <1>1, <2>1, StoreAssumption DEF IInv, RowInv
<1>5. ~(\E c \in Client, p \in Path : Write(c, p))
  BY DEF Write
<1> QED
  BY <1>2, <1>3, <1>4, <1>5, DiskFrame

\* No row is left without its path.
LEMMA DanglingStep ==
    ASSUME IInv, [Next]_vars
    PROVE  NoDanglingRows'
<1> SUFFICES ASSUME NEW x \in dbValid' PROVE x \in onDisk'
  BY DEF NoDanglingRows
<1>1. CASE x \in dbValid
  BY <1>1, UnlinkedIsUnneeded DEF IInv, NoDanglingRows
<1>2. CASE x \notin dbValid
  <2>1. PICK c \in Client : Register(c, x)
    BY <1>2, RowsFrame DEF Invalidate, Register
  <2> QED
    BY <2>1 DEF Register, IInv, BuilderInv
<1> QED
  BY <1>1, <1>2

\* A chunk's rows have no referrer left, and a new row references inputs.
LEMMA RefsStep ==
    ASSUME IInv, [Next]_vars
    PROVE  RefsClosed'
<1> SUFFICES ASSUME NEW p \in dbValid' \ unbacked', NEW r \in Refs[p] PROVE r \in dbValid'
  BY DEF RefsClosed
<1>1. CASE UNCHANGED <<dbValid, unbacked>>
  BY <1>1 DEF IInv, RefsClosed
<1>2. ASSUME NEW c \in Client, NEW q \in Path, Register(c, q) PROVE r \in dbValid'
  <2>1. /\ dbValid' = dbValid \cup {q} /\ q \in building[c]
        /\ p \notin unbacked
        /\ p = q => uses[c] \cap unbacked = {}
    BY <1>2 DEF Register
  <2>2. CASE p \in dbValid
    BY <2>1, <2>2 DEF IInv, RefsClosed
  <2>3. CASE p = q
    <3>1. r \in Inputs(c) \/ r = p
      BY <2>1, <2>3 DEF IInv, BuilderInv
    <3> QED
      BY <2>1, <2>3, <3>1, InputsAreSound DEF Good, Sound
  <2> QED
    BY <2>1, <2>2, <2>3
<1>3. CASE Invalidate
  <2>1. p \in dbValid /\ p \notin claimed /\ r \in dbValid /\ dbValid' = dbValid \ claimed
        /\ gcPc = "invalidate" /\ p \notin unbacked
    BY <1>3 DEF Invalidate, builderVars, IInv, RefsClosed
  <2>2. claimed \subseteq Node /\ p \in Path
    BY <2>1 DEF IInv, TypeOK
  <2>3. ASSUME r \in claimed PROVE FALSE
    <3>1. CASE p \notin Node
      <4>1. Safe(r)
        BY <2>1, <2>2, <2>3, <3>1 DEF IInv, RowInv
      <4> QED
        BY <2>1, <2>2, <2>3, <4>1, ClaimedIsUnsafe
    <3>2. CASE p \in Node
      <4>1. r \in Edge[p]
        BY <3>2, StoreAssumption
      <4>2. p \notin todo
        BY <2>1, <2>3, <4>1 DEF IInv, OrderInv, Referrers
      <4>3. Safe(p)
        BY <2>1, <3>2, <4>2 DEF IInv, RowInv
      <4> QED
        BY <2>1, <2>3, <3>2, <4>1, <4>3, ClaimedIsUnsafe, ReachFacts
    <3> QED
      BY <3>1, <3>2
  <2> QED
    BY <2>1, <2>3
<1> QED
  BY <1>1, <1>2, <1>3, RowsFrame, UnbackedFrame

\* What is being built keeps to its builder until it gets its row.
LEMMA BuildStep ==
    ASSUME IInv, [Next]_vars
    PROVE  BuildInv'
<1> USE DEF IInv, TypeOK, BuildInv
<1>1. CASE UNCHANGED <<held, uses, building>> \/ \E d \in Client : Ack(d)
  <2>1. building' = building
    BY <1>1 DEF Ack
  <2>2. ASSUME NEW d \in Client, NEW p \in Path, Register(d, p) PROVE FALSE
    BY <2>1, <2>2 DEF Register
  <2> QED
    BY <2>1, <2>2, RowsFrame DEF Invalidate
<1>2. ASSUME NEW d \in Client, Exit(d) PROVE BuildInv'
  BY <1>2 DEF Exit
<1>3. ASSUME NEW d \in Client, NEW p \in Path, Use(d, p) PROVE BuildInv'
  BY <1>3 DEF Use
<1>4. ASSUME NEW d \in Client, NEW p \in Path, Write(d, p) PROVE BuildInv'
  BY <1>4 DEF Write
<1>5. ASSUME NEW d \in Client, NEW p \in Path, Register(d, p) PROVE BuildInv'
  BY <1>5 DEF Register
<1> QED
  BY <1>1, <1>2, <1>3, <1>4, <1>5, BuilderFrame

\* A row that joins the unbacked ones was referenced by no other.
LEMMA BackedStep ==
    ASSUME IInv, [Next]_vars
    PROVE  BackedInv'
<1>1. CASE UNCHANGED <<dbValid, unbacked>>
  BY <1>1, GoodGrows DEF IInv, BackedInv
<1>2. CASE Invalidate
  <2>1. unbacked' = unbacked /\ dbValid' \subseteq dbValid
    BY <1>2 DEF Invalidate, builderVars
  <2> QED
    BY <2>1, GoodGrows DEF IInv, BackedInv
<1>3. ASSUME NEW c \in Client, NEW q \in Path, Register(c, q) PROVE BackedInv'
  <2>1. /\ q \in building[c] /\ q \notin dbValid /\ dbValid' = dbValid \cup {q}
        /\ unbacked' = unbacked \/ unbacked' = unbacked \cup {q}
        /\ unbacked' = unbacked => uses[c] \cap unbacked = {} \/ q \in unbacked
    BY <1>3 DEF Register, IInv, BuildInv
  <2>2. unbacked \subseteq dbValid
    BY DEF IInv, BackedInv, Good
  <2>3. q \in Good'
    <3>1. Safe(q)
      BY <2>1 DEF IInv, BuilderInv
    <3>2. Safe(q)'
      BY <3>1, SafeStays
    <3> QED
      BY <2>1, <3>2 DEF Good
  <2>4. unbacked' \subseteq Good'
    BY <2>1, <2>3, GoodGrows DEF IInv, BackedInv
  <2>5. ASSUME NEW p \in dbValid' \ unbacked', NEW r \in Refs[p] PROVE r \notin unbacked'
    <3>1. CASE p \in dbValid
      <4>1. r \in dbValid /\ r \notin unbacked
        BY <2>1, <2>5, <3>1 DEF IInv, RefsClosed, BackedInv
      <4> QED
        BY <2>1, <4>1
    <3>2. CASE p = q
      <4>1. unbacked' = unbacked /\ uses[c] \cap unbacked = {}
        BY <2>1, <2>2, <2>5, <3>2
      <4>2. r \in Inputs(c) \/ r = q
        BY <2>1, <2>5, <3>2 DEF IInv, BuilderInv
      <4> QED
        BY <2>1, <2>2, <4>1, <4>2, InputsAreSound DEF Sound
    <3> QED
      BY <2>1, <2>5, <3>1, <3>2
  <2> QED
    BY <2>4, <2>5 DEF BackedInv
<1> QED
  BY <1>1, <1>2, <1>3, RowsFrame, UnbackedFrame

\* A locked build directory is not unlinked.
LEMMA TmpStep ==
    ASSUME IInv, [Next]_vars
    PROVE  HeldTmpDirKept'
<1> SUFFICES ASSUME NEW t \in TmpDir, tmpLock'[t] = "builder" PROVE t \in onDisk'
  BY DEF HeldTmpDirKept
<1>1. CASE tmpLock[t] = "builder"
  <2>1. t \in onDisk
    BY <1>1 DEF IInv, HeldTmpDirKept
  <2>2. \A n \in Node : t # n
    BY StoreAssumption
  <2> QED
    BY <1>1, <2>1, <2>2, DiskFrame
    DEF Unlink, UnlinkUnknown, Write, ReleaseTmp, IInv, TypeOK
<1>2. CASE tmpLock[t] # "builder"
  <2>1. TakeTmp(t)
    BY <1>2, TmpLockFrame DEF LockTmp, TakeTmp, ReleaseTmp, EndUnknown, Crash, IInv, TypeOK
  <2> QED
    BY <2>1 DEF TakeTmp
<1> QED
  BY <1>1, <1>2

\* A builder's own step adds only safe paths to what it relies on.
LEMMA BuilderAdds ==
    ASSUME IInv, [Next]_vars, NEW c \in Client
    PROVE  \/ held'[c] = {} /\ uses'[c] = {} /\ building'[c] = {}
           \/ /\ held[c] \subseteq held'[c] /\ held'[c] \subseteq Goal[c]
              /\ \A p \in held'[c] \ held[c] : Safe(p)
              /\ uses[c] \subseteq uses'[c] /\ uses'[c] \subseteq Good
              /\ building'[c] \subseteq held[c]
              /\ \A p \in building'[c] : /\ p \in building[c] \/ p \in onDisk'
                                         /\ Refs[p] \subseteq Inputs(c) \cup {p}
<1> USE DEF IInv, TypeOK, BuilderInv
<1>1. CASE UNCHANGED <<held, uses, building>>
  BY <1>1
<1>2. ASSUME NEW d \in Client, Ack(d)
      PROVE  /\ held[c] \subseteq held'[c] /\ held'[c] \subseteq Goal[c]
             /\ \A p \in held'[c] \ held[c] : Safe(p)
             /\ uses' = uses /\ building' = building
  <2>1. handler[d] = "ack"
    BY <1>2 DEF Ack, AckDelivered
  <2>2. want[d] \in Goal[d] /\ Safe(want[d])
    BY <2>1 DEF WaitInv, Marked
  <2>3. PICK p \in Path : p = want[d]
    BY <2>2, StoreAssumption
  <2>4. Safe(p)
    BY <2>2, <2>3
  <2>5. held'[c] \subseteq held[c] \cup {p} /\ (c # d => held'[c] = held[c])
        /\ held[c] \subseteq held'[c] /\ uses' = uses /\ building' = building
    BY <1>2, <2>3 DEF Ack
  <2> QED
    BY <2>2, <2>3, <2>4, <2>5
<1>3. ASSUME NEW d \in Client, Exit(d)
      PROVE  \/ held'[c] = {} /\ uses'[c] = {} /\ building'[c] = {}
             \/ held'[c] = held[c] /\ uses'[c] = uses[c] /\ building'[c] = building[c]
  BY <1>3 DEF Exit
<1>4. ASSUME NEW d \in Client, NEW p \in Path, Use(d, p)
      PROVE  /\ held' = held /\ building' = building
             /\ uses[c] \subseteq uses'[c] /\ uses'[c] \subseteq Good
  <2>1. p \in Good
    BY <1>4 DEF Use, Good
  <2> QED
    BY <1>4, <2>1 DEF Use
<1>5. ASSUME NEW d \in Client, NEW p \in Path, Write(d, p) \/ Register(d, p)
      PROVE  /\ held' = held /\ uses' = uses
             /\ building'[c] \subseteq held[c]
             /\ \A q \in building'[c] : /\ q \in building[c] \/ q \in onDisk'
                                        /\ Refs[q] \subseteq Inputs(c) \cup {q}
  BY <1>5 DEF Write, Register
<1> QED
  BY <1>1, <1>2, <1>3, <1>4, <1>5, BuilderFrame

LEMMA BuilderStep ==
    ASSUME IInv, [Next]_vars
    PROVE  BuilderInv'
<1> SUFFICES ASSUME NEW c \in Client
             PROVE  /\ held'[c] \subseteq Goal[c]
                    /\ \A p \in held'[c] : Safe(p)'
                    /\ uses'[c] \subseteq Good'
                    /\ building'[c] \subseteq held'[c] \cap onDisk'
                    /\ \A p \in building'[c] : Refs[p] \subseteq Inputs(c)' \cup {p}
  BY DEF BuilderInv
<1>1. CASE held'[c] = {} /\ uses'[c] = {} /\ building'[c] = {}
  BY <1>1
<1>2. CASE /\ held[c] \subseteq held'[c] /\ held'[c] \subseteq Goal[c]
           /\ \A p \in held'[c] \ held[c] : Safe(p)
           /\ uses[c] \subseteq uses'[c] /\ uses'[c] \subseteq Good
           /\ building'[c] \subseteq held[c]
           /\ \A p \in building'[c] : /\ p \in building[c] \/ p \in onDisk'
                                      /\ Refs[p] \subseteq Inputs(c) \cup {p}
  <2>1. \A p \in held'[c] : Safe(p)'
    <3> SUFFICES ASSUME NEW p \in held'[c] PROVE Safe(p)'
      OBVIOUS
    <3>1. Safe(p) /\ p \in Path
      BY <1>2, StoreAssumption DEF IInv, BuilderInv
    <3> QED
      BY <3>1, SafeStays
  <2>2. uses'[c] \subseteq Good'
    BY <1>2, GoodGrows
  <2>3. building'[c] \subseteq held'[c] \cap onDisk'
    BY <1>2, UnlinkedIsUnneeded DEF IInv, BuilderInv
  <2>4. Inputs(c) \subseteq Inputs(c)'
    BY <1>2 DEF Inputs
  <2> QED
    BY <1>2, <2>1, <2>2, <2>3, <2>4
<1> QED
  BY <1>1, <1>2, BuilderAdds

LEMMA RowStep ==
    ASSUME IInv, [Next]_vars
    PROVE  RowInv'
<1>1. ASSUME NEW p \in dbValid', p \notin dbValid
      PROVE  /\ p \in Path \ TmpDir /\ Safe(p)
             /\ p \notin unbacked' => \A r \in Refs[p] \cap Node : r # p => Safe(r)
             /\ UNCHANGED <<todo, claimed, gcPc>>
  <2>1. PICK c \in Client : Register(c, p) /\ p \in building[c]
    BY <1>1, RowsFrame DEF Register, Invalidate
  <2>2. p \in held[c] /\ p \in Goal[c] /\ Safe(p) /\ Refs[p] \subseteq Inputs(c) \cup {p}
    BY <2>1 DEF IInv, BuilderInv
  <2>3. p \notin unbacked' => \A r \in Refs[p] \cap Node : r # p => Safe(r)
    <3>1. p \notin unbacked' => uses[c] \cap unbacked = {}
      BY <2>1 DEF Register
    <3> QED
      BY <2>2, <3>1, InputsAreSound DEF Good, Sound
  <2>4. UNCHANGED <<todo, claimed, gcPc>>
    BY <2>1 DEF Register, loopVars, chunkVars
  <2> QED
    BY <2>2, <2>3, <2>4, StoreAssumption
<1>2. dbValid' \cap TmpDir = {}
  BY <1>1 DEF IInv, RowInv
<1>3. ASSUME NEW p \in dbValid' \cap Node PROVE p \in todo' \cup claimed' \/ Safe(p)'
  <2>1. p \in Path
    BY GraphAssumption
  <2>2. CASE Safe(p)
    BY <2>1, <2>2, SafeStays
  <2>3. CASE ~Safe(p)
    <3>1. p \in dbValid /\ p \in todo \cup claimed
      BY <1>1, <2>3 DEF IInv, RowInv
    <3>2. CASE ClaimChunk
      <4>1. PICK chunk \in SUBSET todo : claimed' = chunk \ protected /\ todo' = todo \ chunk
        BY <3>2 DEF ClaimChunk
      <4>2. p \in todo /\ protected' = protected /\ alive' = alive /\ gcPc' = "prune"
        BY <3>1, <3>2 DEF ClaimChunk, markVars, IInv, LoopInv
      <4>3. CASE p \in protected
        <5>1. Reach[p] \subseteq protected
          BY <4>3, ReachFacts DEF IInv, LoopInv, TypeOK, SocketTypeOK
        <5>2. protected \subseteq Kept'
          BY <4>1, <4>2 DEF Kept, Doomed
        <5> QED
          BY <5>1, <5>2, ReachFacts DEF Safe
      <4> QED
        BY <4>1, <4>2, <4>3
    <3>3. CASE Prune
      BY <3>1, <3>3, PruneChangesNothing DEF Prune
    <3>4. ASSUME NEW n \in Node, EndDelete(n) PROVE p \in todo' \cup claimed'
      BY <3>1, <3>4 DEF EndDelete, IInv, RowInv
    <3>5. CASE Crash
      <4>1. Kept' = Node
        BY <3>5 DEF Crash, Kept
      <4> QED
        BY <4>1, ReachFacts DEF Safe
    <3> QED
      BY <3>1, <3>2, <3>3, <3>4, <3>5, TodoFrame, ClaimedFrame
  <2> QED
    BY <2>2, <2>3
<1>4. ASSUME NEW p \in dbValid' \ (Node \cup unbacked'), NEW r \in Refs[p] \cap Node
      PROVE  Safe(r)'
  <2>1. unbacked \subseteq unbacked'
    BY UnbackedFrame DEF Register
  <2>2. Safe(r) /\ r \in Path
    BY <1>1, <1>4, <2>1, GraphAssumption DEF IInv, RowInv
  <2> QED
    BY <2>2, SafeStays
<1>5. gcPc' = "unlink" => claimed' \cap dbValid' = {}
  <2>1. CASE Invalidate
    BY <2>1 DEF Invalidate, chunkVars
  <2>2. CASE ~Invalidate /\ gcPc' = "unlink"
    <3>1. gcPc = "unlink"
      BY <2>2, PcFrame DEF ClaimChunk, StopEarly, Prune, InvalidateFails, ChunkEnd,
         ChunksDone, LeaveLoop, RecheckDone, UnknownDone, Return, Crash
    <3>2. claimed' \subseteq claimed
      BY <2>2, <3>1, ClaimedFrame DEF ClaimChunk, Prune, EndDelete, Crash
    <3>3. \A p \in dbValid' : p \in dbValid \/ Safe(p)
      BY <1>1
    <3>4. claimed \subseteq Node /\ claimed \cap dbValid = {}
      BY <3>1 DEF IInv, TypeOK, RowInv
    <3>5. \A p \in claimed : ~Safe(p)
      BY <3>1, <3>4, ClaimedIsUnsafe
    <3> QED
      BY <3>2, <3>3, <3>4, <3>5
  <2> QED
    BY <2>1, <2>2
<1> QED
  BY <1>2, <1>3, <1>4, <1>5 DEF RowInv

-------------------------------------------------------------------------------
(* The invariant holds from the start.                                     *)

\* Every state the startup may leave satisfies the invariant.
LEMMA InitStep ==
    ASSUME Init
    PROVE  IInv
<1> USE DEF Init, SocketInit
<1>1. PICK roots \in SUBSET Node : alive = Closure(Edge, roots)
  OBVIOUS
<1>2. PICK fresh \in SUBSET (Path \ (Node \cup TmpDir)) :
        /\ \A p \in fresh : Refs[p] \subseteq Node \cup fresh
        /\ dbValid = Node \cup fresh
        /\ unbacked = { p \in fresh : ~(RefReach[p] \subseteq alive \cup fresh) }
  OBVIOUS
<1>3. alive \in SUBSET Node /\ IsClosed(Edge, alive)
  <2> HIDE DEF Init
  <2>1. alive \subseteq Node /\ IsClosed(Edge, alive)
    BY <1>1, ClosureIsClosed, ClosureType, GraphAssumption
  <2> QED
    BY <2>1
<1>4. TypeOK
  <2>1. /\ dbValid \subseteq Path /\ onDisk \subseteq Path /\ unknown \subseteq Path
        /\ held \in [Client -> SUBSET Path]
        /\ tmpLock \in [TmpDir -> {"free", "builder", "gc"}]
    BY <1>2, GraphAssumption
  <2> unbacked \subseteq Path
    BY <1>2
  <2>2. PICK early \in SUBSET Path : SocketInit(early)
    OBVIOUS
  <2>3. SocketTypeOK
    BY <2>2 DEF SocketTypeOK, HandlerState, ServerState
  <2> QED
    BY <1>3, <2>1, <2>3 DEF TypeOK, GcState
<1>5. \A n \in alive : Safe(n)
  BY <1>3, ReachFacts DEF Safe, Kept
<1>6. LoopInv
  BY <1>3 DEF LoopInv, IsClosed
<1>7. OrderInv /\ UnknownInv /\ WaitInv /\ PruneIsIdle /\ HeldTmpDirKept
  BY DEF OrderInv, UnknownInv, WaitInv, PruneIsIdle, HeldTmpDirKept
<1>8. BuilderInv
  <2>1. ASSUME NEW c \in Client, NEW p \in held[c] PROVE Safe(p)
    BY <2>1, <1>3, <1>5, GraphAssumption DEF Safe
  <2> QED
    BY <2>1, StoreAssumption DEF BuilderInv
<1>9. \A p \in fresh \ unbacked : Refs[p] \subseteq (alive \cup fresh) \ unbacked
  <2> SUFFICES ASSUME NEW p \in fresh \ unbacked, NEW r \in Refs[p]
               PROVE  r \in (alive \cup fresh) \ unbacked
    OBVIOUS
  <2> HIDE DEF Init
  <2>1. p \in Path /\ RefReach[p] \subseteq alive \cup fresh
    BY <1>2
  <2>2. r \in RefReach[p]
    BY <2>1, ReachFromFacts, StoreAssumption DEF RefReach
  <2>3. RefReach[r] \subseteq RefReach[p]
    BY <2>1, <2>2, ReachTransitive, StoreAssumption DEF RefReach
  <2> QED
    BY <1>2, <2>1, <2>2, <2>3
<1>10. BuildInv
  BY DEF BuildInv
<1>11. RowInv
  <2>1. dbValid \cap TmpDir = {}
    BY <1>2, StoreAssumption
  <2>2. \A p \in dbValid \cap Node : p \in todo \cup claimed \/ Safe(p)
    BY <1>5
  <2>3. \A p \in dbValid \ (Node \cup unbacked) : \A r \in Refs[p] \cap Node : Safe(r)
    BY <1>2, <1>5, <1>9
  <2> QED
    BY <2>1, <2>2, <2>3 DEF RowInv
<1>12. NoDanglingRows
  BY DEF NoDanglingRows
<1>13. RefsClosed
  BY <1>2, <1>3, <1>9, GraphAssumption, StoreAssumption DEF RefsClosed
<1>14. BackedInv
  BY <1>2, <1>9, GraphAssumption, StoreAssumption DEF BackedInv, Good
<1> QED
  BY <1>4, <1>6, <1>7, <1>8, <1>11, <1>12, <1>13, <1>10, <1>14 DEF IInv

\* Every step keeps the invariant.
LEMMA IInvStep ==
    ASSUME IInv, [Next]_vars
    PROVE  IInv'
  BY TypeStep, LoopStep, OrderStep, UnknownStep, WaitStep, BuilderStep, BuildStep, RowStep,
     BackedStep, DanglingStep, RefsStep, TmpStep DEF IInv

-------------------------------------------------------------------------------
(* The theorems.                                                           *)

\* The inductive invariant holds in every reachable state of the deletion phase.
THEOREM InvariantHolds == Spec => []IInv
<1>1. Init => IInv
  BY InitStep
<1>2. IInv /\ [Next]_vars => IInv'
  BY IInvStep
<1> QED
  BY <1>1, <1>2, PTL DEF Spec

\* Every variable of the LiveSet, the deletion loop and the builders has its type.
THEOREM TypeCorrect == Spec => []TypeOK
<1>1. IInv => TypeOK
  BY DEF IInv
<1> QED
  BY <1>1, InvariantHolds, PTL

\* Whatever the chunks, the handlers, the builders and crashes do, a valid row
\* always has its path on disk.
THEOREM RowsHavePaths == Spec => []NoDanglingRows
<1>1. IInv => NoDanglingRows
  BY DEF IInv
<1> QED
  BY <1>1, InvariantHolds, PTL

\* The database's references are closed at every moment at which the process
\* can die: chunks go referrer first, cyclic tails whole.  This holds of all rows
\* but the unbacked ones: those registered behind the snapshot that need a path
\* which nothing kept alive when the run read its roots, and the rows built upon
\* such rows.  What they reference, the run may delete.
THEOREM ReferencesClosed == Spec => []RefsClosed
<1>1. IInv => RefsClosed
  BY DEF IInv
<1> QED
  BY <1>1, InvariantHolds, PTL

\* What a builder found valid after an ack stays valid and on disk with all its
\* references while the builder lives, if it was not an unbacked row (see
\* ReferencesClosed) that it found.
THEOREM InputsStayIntact == Spec => []UsesIntact
<1>1. IInv => UsesIntact
  <2> SUFFICES ASSUME IInv, NEW c \in Client, NEW p \in uses[c] \ unbacked
               PROVE  RefReach[p] \subseteq dbValid \cap onDisk
    BY DEF UsesIntact
  <2> QED
    BY UsedIsSound DEF Good, Sound, IInv, NoDanglingRows
<1> QED
  BY <1>1, InvariantHolds, PTL

\* An output a builder writes after its ack is never unlinked under it, although
\* the sweep of unknown entries may have scanned its name.
THEOREM OutputsKept == Spec => []BuildKept
<1>1. IInv => BuildKept
  BY DEF IInv, BuilderInv, BuildKept
<1> QED
  BY <1>1, InvariantHolds, PTL

\* The sweep never removes a build directory whose flock a builder holds.
THEOREM BuildDirectoriesKept == Spec => []HeldTmpDirKept
<1>1. IInv => HeldTmpDirKept
  BY DEF IInv
<1> QED
  BY <1>1, InvariantHolds, PTL

\* A run that ends by itself and unlimited leaves only live or protected rows.
THEOREM SweepIsComplete == Spec => []CollectsAll
<1>1. IInv => CollectsAll
  <2> SUFFICES ASSUME IInv, gcPc = "done", outcome = "all", NEW n \in dbValid \cap Node
               PROVE  n \in alive \cup protected
    BY DEF CollectsAll
  <2>1. Safe(n)
    BY DEF IInv, LoopInv, RowInv
  <2> QED
    BY <2>1, ReachFacts DEF Safe, Kept
<1> QED
  BY <1>1, InvariantHolds, PTL

\* collect_garbage's pruning of a claimed chunk never finds anything to give back.
THEOREM PruneFindsNothing == Spec => []PruneIsIdle
<1>1. IInv => PruneIsIdle
  BY DEF IInv
<1> QED
  BY <1>1, InvariantHolds, PTL

\* A handler thread never sleeps on the condition variable without a cause:
\* no end of a deletion and no cancel goes unnoticed.
THEOREM NoWakeupIsLost == Spec => []SleepersHaveCause
<1>1. Init => SleepersHaveCause
  BY DEF Init, SocketInit, SleepersHaveCause
<1>2. IInv /\ SleepersHaveCause /\ [Next]_vars => SleepersHaveCause'
  BY SleepersStep
<1> QED
  BY <1>1, <1>2, InvariantHolds, PTL DEF Spec

\* The ack is a promise: no step unlinks anything in the closure of an acked path.
THEOREM AckIsKept == Spec => AckedNeverUnlinked
<1>1. IInv /\ [Next]_vars =>
        [\A c \in Client : \A p \in held[c] :
            onDisk \cap (ProtectSet(p) \cup {p}) \subseteq onDisk']_vars
  BY UnlinkedIsUnneeded
<1> QED
  BY <1>1, InvariantHolds, PTL DEF Spec, AckedNeverUnlinked
===============================================================================
