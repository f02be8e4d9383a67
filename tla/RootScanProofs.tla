----------------------------- MODULE RootScanProofs -----------------------------
(***************************************************************************)
(* The profile lock excludes and the generations worth keeping are kept,   *)
(* for any number of deleters and switchers, any generations and any       *)
(* inodes, over deaths at any instant; and a scan for roots that follows   *)
(* finds every root that stays put, for any roots and any processes.       *)
(*                                                                         *)
(* The argument for the lock: a process that holds has the flock of the    *)
(* inode that has the name now, so two that hold have one flock.  That     *)
(* stays so because an inode loses the name only with the marker on it,    *)
(* and whoever gets the flock of a marked inode gives it back.             *)
(*                                                                         *)
(* The argument for the scan: a steady root is found, or has still to be   *)
(* visited, or is the one in hand and leads where it led.  A path taken up *)
(* from a steady root is one the finished directories have given already.  *)
(***************************************************************************)
EXTENDS RootScan, WellFoundedInduction, TLAPS

AtLock == {"flock", "check"} \cup Holding \cup Releasing

\* Who has what open and locked.
FdInv ==
    /\ \A p \in Proc : at[p] \in AtLock => fd[p] \in Inode
    /\ \A p \in Proc : at[p] \notin AtLock => fd[p] = NoInode
    /\ \A i \in Inode, p \in Proc : owner[i] = p => fd[p] = i

\* The inode a process waits for is the named one or marked; the one it holds is
\* the named one, its own, and marked just before the unlink.
NameInv ==
    /\ \A p \in Proc : at[p] \in {"flock", "check"} => fd[p] = lockName \/ fd[p] \in marked
    /\ \A p \in Proc : at[p] \in Holding \cup {"unlink"} => fd[p] = lockName
    /\ \A p \in Proc : at[p] \in Holding \cup {"check", "unlink"} => owner[fd[p]] = p
    /\ \A p \in Proc : at[p] \in Holding => fd[p] \notin marked
    /\ \A p \in Proc : at[p] = "unlink" => fd[p] \in marked

LockInv == TypeOK /\ FdInv /\ NameInv

LEMMA InitLock == Init => LockInv
<1> SUFFICES ASSUME Init PROVE LockInv
  OBVIOUS
<1> USE ProfilesAssumption
<1>1. TypeOK
  <2>1. (CHOOSE i \in Inode : TRUE) \in Inode
    OBVIOUS
  <2> QED
    BY <2>1 DEF Init, TypeOK, Gen
<1>2. \A p \in Proc : at[p] \in {"start", "done"}
  BY DEF Init
<1> QED
  BY <1>1, <1>2 DEF Init, LockInv, FdInv, NameInv, AtLock, Holding, Releasing

LEMMA FreshFacts ==
    ASSUME \E i \in Inode : Free(i)
    PROVE  FreshInode \in Inode /\ Free(FreshInode)
  BY DEF FreshInode

\* The flock keeps all but one process out of the profile.
LEMMA HoldersAreOne == LockInv => OneHolder
  BY DEF LockInv, NameInv, OneHolder

LEMMA GreatestFacts ==
    ASSUME NEW S, S \subseteq Gen, S # {}
    PROVE  Greatest(S) \in S /\ \A h \in S : h <= Greatest(S)
<1>1. Gen \subseteq Nat /\ MaxGen \in Nat /\ \A g \in Gen : g <= MaxGen
  BY ProfilesAssumption DEF Gen
<1> DEFINE T == { MaxGen - g : g \in S }
<1>2. T \subseteq Nat /\ T # {}
  BY <1>1
<1> HIDE DEF T
<1>3. PICK m \in T : \A n \in T : m <= n
  <2>1. PICK m \in T : \A n \in T : ~ (<<n, m>> \in OpToRel(<, Nat))
    BY <1>2, WFMin, NatLessThanWellFounded
  <2>2. \A n \in T : ~(n < m)
    BY <2>1, <1>2 DEF OpToRel
  <2> QED
    BY <2>2, <1>2
<1>4. PICK g \in S : m = MaxGen - g
  BY <1>3 DEF T
<1>5. \A h \in S : h <= g
  <2> TAKE h \in S
  <2>1. MaxGen - h \in T
    BY DEF T
  <2>2. MaxGen - g <= MaxGen - h
    BY <2>1, <1>3, <1>4
  <2> QED
    BY <2>2, <1>1
<1> QED
  BY <1>5 DEF Greatest

-------------------------------------------------------------------------------
(* Which steps touch the lock.                                             *)

LEMMA TypeStep == LockInv /\ [Next]_profileVars => TypeOK'
<1> SUFFICES ASSUME LockInv, [Next]_profileVars PROVE TypeOK'
  OBVIOUS
<1> USE ProfilesAssumption DEF LockInv, TypeOK, lockVars, genVars, locals, Goto
<1>1. CASE UNCHANGED profileVars
  BY <1>1 DEF profileVars
<1>2. ASSUME NEW p \in Proc, UseLock(p) PROVE TypeOK'
  <2> USE DEF FdInv, AtLock, Acquiring, Holding, Releasing
  <2>1. CASE OpenLock(p)
    BY <2>1, FreshFacts DEF OpenLock
  <2>2. CASE Flock(p)
    BY <2>2 DEF Flock
  <2>3. CASE CheckMarker(p)
    BY <2>3 DEF CheckMarker
  <2>4. CASE MarkLock(p)
    BY <2>4 DEF MarkLock
  <2>5. CASE UnlinkLock(p)
    BY <2>5 DEF UnlinkLock
  <2>6. CASE CloseLock(p)
    BY <2>6 DEF CloseLock, Close
  <2> QED
    BY <1>2, <2>1, <2>2, <2>3, <2>4, <2>5, <2>6 DEF UseLock
<1>3. ASSUME NEW d \in Deleter, Delete(d) PROVE TypeOK'
  <2> USE DEF Acquiring, Holding, Releasing, Proc
  <2>1. Doomed(d) \in SUBSET Gen
    BY DEF Doomed
  <2> QED
    BY <1>3, <2>1 DEF Delete, Visit, ReadCurrent, ListGenerations, Deleted, RemoveGeneration
<1>4. ASSUME NEW s \in Switcher, Change(s) PROVE TypeOK'
  <2> USE DEF Acquiring, Holding, Releasing, Proc
  <2>1. CASE MakeGeneration(s)
    BY <2>1 DEF MakeGeneration
  <2> QED
    BY <1>4, <2>1 DEF Change, Begin, Switch, GiveUp
<1>5. ASSUME NEW p \in Proc, Die(p) PROVE TypeOK'
  BY <1>5 DEF Die, Close
<1> QED
  BY <1>1, <1>2, <1>3, <1>4, <1>5 DEF Next, Step

\* A step of the profile's own leaves the lock and its places alone.
LEMMA ProfileSteps ==
    ASSUME LockInv,
           \/ \E d \in Deleter : Delete(d)
           \/ \E s \in Switcher : Change(s)
           \/ UNCHANGED profileVars
    PROVE  FdInv' /\ NameInv'
<1> USE DEF LockInv, TypeOK, lockVars, Goto, FdInv, NameInv, AtLock, Holding, Releasing, Proc
<1>1. ASSUME NEW d \in Deleter, Delete(d) PROVE FdInv' /\ NameInv'
  BY <1>1 DEF Delete, Visit, ReadCurrent, ListGenerations, Deleted, RemoveGeneration
<1>2. ASSUME NEW s \in Switcher, Change(s) PROVE FdInv' /\ NameInv'
  BY <1>2 DEF Change, Begin, MakeGeneration, Switch, GiveUp
<1>3. CASE UNCHANGED profileVars
  BY <1>3 DEF profileVars
<1> QED
  BY <1>1, <1>2, <1>3

LEMMA LockSteps ==
    ASSUME LockInv, NEW p \in Proc, UseLock(p) \/ Die(p)
    PROVE  FdInv' /\ NameInv'
<1> USE ProfilesAssumption DEF LockInv, TypeOK, Goto, AtLock, Holding, Releasing, Acquiring
<1>1. CASE OpenLock(p)
  <2>1. CASE lockName # NoInode
    BY <1>1, <2>1 DEF OpenLock, FdInv, NameInv
  <2>2. CASE lockName = NoInode
    <3>1. FreshInode \in Inode /\ \A q \in Proc : fd[q] # FreshInode
      BY <1>1, <2>2, FreshFacts DEF OpenLock, Free
    <3>2. \A q \in Proc : at[q] \notin Holding \cup {"unlink"}
      BY <2>2 DEF FdInv, NameInv
    <3>3. /\ lockName' = FreshInode /\ fd' = [fd EXCEPT ![p] = FreshInode]
          /\ marked' = marked \ {FreshInode} /\ at' = [at EXCEPT ![p] = "flock"]
          /\ owner' = owner /\ at[p] = "open"
      BY <1>1, <2>2 DEF OpenLock
    <3>4. FdInv'
      BY <3>1, <3>3 DEF FdInv
    <3>5. NameInv'
      <4>1. ASSUME NEW q \in Proc, at'[q] \in {"flock", "check"}
            PROVE  fd'[q] = lockName' \/ fd'[q] \in marked'
        <5>1. CASE q = p
          BY <5>1, <3>3
        <5>2. CASE q # p
          <6>1. at[q] \in {"flock", "check"} /\ fd'[q] = fd[q]
            BY <5>2, <4>1, <3>3
          <6>2. fd[q] \in Inode
            BY <6>1 DEF FdInv
          <6> QED
            BY <6>1, <6>2, <3>1, <3>3, <2>2 DEF NameInv
        <5> QED
          BY <5>1, <5>2
      <4>2. ASSUME NEW q \in Proc, at'[q] = "check"
            PROVE  owner'[fd'[q]] = q
        BY <4>2, <3>3 DEF NameInv
      <4>3. \A q \in Proc : at'[q] \notin Holding \cup {"unlink"}
        BY <3>2, <3>3
      <4> QED
        BY <4>1, <4>2, <4>3 DEF NameInv
    <3> QED
      BY <3>4, <3>5
  <2> QED
    BY <2>1, <2>2
<1>2. CASE Flock(p)
  BY <1>2 DEF Flock, FdInv, NameInv
<1>3. CASE CheckMarker(p)
  BY <1>3 DEF CheckMarker, FdInv, NameInv
<1>4. CASE MarkLock(p)
  BY <1>4 DEF MarkLock, FdInv, NameInv
<1>5. CASE UnlinkLock(p)
  BY <1>5 DEF UnlinkLock, FdInv, NameInv
<1>6. CASE CloseLock(p)
  BY <1>6 DEF CloseLock, Close, FdInv, NameInv
<1>7. CASE Die(p)
  BY <1>7 DEF Die, Close, FdInv, NameInv
<1> QED
  BY <1>1, <1>2, <1>3, <1>4, <1>5, <1>6, <1>7 DEF UseLock

LEMMA LockStep == LockInv /\ [Next]_profileVars => LockInv'
<1>1. ASSUME [Next]_profileVars
      PROVE  \/ \E p \in Proc : UseLock(p) \/ Die(p)
             \/ \E d \in Deleter : Delete(d)
             \/ \E s \in Switcher : Change(s)
             \/ UNCHANGED profileVars
  BY <1>1 DEF Next, Step
<1> QED
  BY <1>1, TypeStep, ProfileSteps, LockSteps DEF LockInv

-------------------------------------------------------------------------------
(* The generations.                                                        *)

\* While a deleter lists and deletes, the profile is as it read it, and what it
\* goes on to remove is neither the current generation nor the one to keep.
GenInv ==
    /\ CurrentKept
    /\ \A d \in Deleter : at[d] \in {"list", "delete"} => active[d] = current
    /\ \A d \in Deleter : at[d] = "delete" => current \notin left[d]
    /\ \A d \in Deleter : at[d] = "delete" /\ Mode[d] = "older" =>
          NewestOlder(gens) \cap left[d] = {}

\* Taking away another than the greatest leaves the greatest.
LEMMA GreatestStays ==
    ASSUME NEW S, S \subseteq Gen, S # {}, NEW T, T \subseteq S, Greatest(S) \in T
    PROVE  Greatest(T) = Greatest(S)
<1>1. /\ Greatest(S) \in S /\ \A h \in S : h <= Greatest(S)
      /\ Greatest(T) \in T /\ \A h \in T : h <= Greatest(T)
  BY GreatestFacts
<1>2. Greatest(S) \in Int /\ Greatest(T) \in Int
  <2>1. Gen \subseteq Int
    BY ProfilesAssumption DEF Gen
  <2>2. Greatest(S) \in Gen /\ Greatest(T) \in Gen
    BY <1>1
  <2> QED
    BY <2>1, <2>2
<1>3. Greatest(T) <= Greatest(S) /\ Greatest(S) <= Greatest(T)
  BY <1>1
<1> QED
  BY <1>2, <1>3

\* A removal the loop makes spares the newest generation before the cutoff.
LEMMA RemovalSpares ==
    ASSUME LockInv, GenInv, NEW d \in Deleter, NEW g \in Gen, RemoveGeneration(d, g),
           Mode[d] = "older"
    PROVE  NewestOlder(gens) \subseteq gens' /\ NewestOlder(gens)' = NewestOlder(gens)
<1> DEFINE S == gens \cap aged
<1>1. /\ at[d] = "delete" /\ g \in left[d]
      /\ gens' \subseteq gens /\ gens \ {g} \subseteq gens' /\ aged' = aged
  BY DEF RemoveGeneration
<1>2. CASE S = {}
  BY <1>1, <1>2 DEF NewestOlder
<1>3. CASE S # {}
  <2>1. S \subseteq Gen
    BY DEF LockInv, TypeOK
  <2>2. NewestOlder(gens) = {Greatest(S)} /\ Greatest(S) \in S
    BY <1>3, <2>1, GreatestFacts DEF NewestOlder
  <2>3. Greatest(S) # g
    BY <1>1, <2>2 DEF GenInv
  <2>4. Greatest(S) \in gens' \cap aged' /\ gens' \cap aged' \subseteq S
    BY <1>1, <2>2, <2>3
  <2>5. Greatest(gens' \cap aged') = Greatest(S)
    BY <1>3, <2>1, <2>4, GreatestStays
  <2>6. NewestOlder(gens)' = {Greatest(gens' \cap aged')}
    BY <2>4 DEF NewestOlder
  <2> QED
    BY <2>2, <2>4, <2>5, <2>6
<1> QED
  BY <1>2, <1>3

\* Only the holder moves the profile.
LEMMA OthersWait ==
    ASSUME LockInv, NEW p \in Proc, at[p] \in Holding
    PROVE  \A q \in Proc \ {p} : at[q] \notin Holding
  BY HoldersAreOne DEF OneHolder

LEMMA DeleterStep ==
    ASSUME LockInv, GenInv, NEW d \in Deleter, Delete(d)
    PROVE  GenInv'
<1> USE DEF LockInv, TypeOK, Goto, Holding, lockVars, genVars, locals, Proc
<1>1. CASE Visit(d)
  BY <1>1 DEF Visit, GenInv, CurrentKept, NewestOlder, Greatest
<1>2. CASE ReadCurrent(d)
  BY <1>2 DEF ReadCurrent, GenInv, CurrentKept, NewestOlder, Greatest
<1>3. CASE ListGenerations(d)
  <2>1. /\ at' = [at EXCEPT ![d] = "delete"] /\ left' = [left EXCEPT ![d] = Doomed(d)]
        /\ active[d] = current /\ UNCHANGED <<current, gens, aged, active>>
    BY <1>3 DEF ListGenerations, GenInv
  <2>2. current \notin Doomed(d)
    BY <2>1, ProfilesAssumption DEF Doomed
  <2>3. Mode[d] = "older" => NewestOlder(gens) \cap Doomed(d) = {}
    BY DEF Doomed
  <2>4. NewestOlder(gens)' = NewestOlder(gens)
    BY <2>1 DEF NewestOlder
  <2> QED
    BY <2>1, <2>2, <2>3, <2>4 DEF GenInv, CurrentKept
<1>4. ASSUME NEW g \in Gen, RemoveGeneration(d, g) PROVE GenInv'
  <2>1. /\ at[d] = "delete" /\ g \in left[d] /\ left' = [left EXCEPT ![d] = @ \ {g}]
        /\ gens \ {g} \subseteq gens' /\ UNCHANGED <<at, current, aged, active>>
    BY <1>4 DEF RemoveGeneration
  <2>2. \A q \in Deleter \ {d} : at[q] # "delete"
    BY <2>1, OthersWait
  <2>3. CurrentKept'
    BY <2>1 DEF GenInv, CurrentKept
  <2>4. Mode[d] = "older" => NewestOlder(gens)' = NewestOlder(gens)
    BY <1>4, RemovalSpares
  <2> QED
    BY <2>1, <2>2, <2>3, <2>4 DEF GenInv
<1>5. CASE Deleted(d)
  BY <1>5 DEF Deleted, GenInv, CurrentKept, NewestOlder, Greatest
<1> QED
  BY <1>1, <1>2, <1>3, <1>4, <1>5 DEF Delete

LEMMA SwitcherStep ==
    ASSUME LockInv, GenInv, NEW s \in Switcher, Change(s)
    PROVE  GenInv'
<1> USE DEF LockInv, TypeOK, Goto, Holding, lockVars, genVars, locals, Proc
<1>1. CASE Begin(s)
  BY <1>1 DEF Begin, GenInv, CurrentKept, NewestOlder, Greatest
<1>2. CASE MakeGeneration(s) \/ Switch(s) \/ GiveUp(s)
  <2>1. at[s] = "switch" /\ \A d \in Deleter : at'[d] \in {"list", "delete"} => at[d] \in {"list", "delete"}
    BY <1>2 DEF MakeGeneration, Switch, GiveUp
  <2>2. \A d \in Deleter : at[d] \notin {"list", "delete"}
    BY <2>1, OthersWait, ProfilesAssumption
  <2>3. CurrentKept'
    BY <1>2 DEF MakeGeneration, Switch, GiveUp, GenInv, CurrentKept
  <2> QED
    BY <2>1, <2>2, <2>3 DEF GenInv
<1> QED
  BY <1>1, <1>2 DEF Change

\* The steps at the lock, and a death, leave the profile alone.
LEMMA LockKeepsGenerations ==
    ASSUME LockInv, GenInv, NEW p \in Proc, UseLock(p) \/ Die(p)
    PROVE  GenInv'
<1>1. /\ UNCHANGED <<genVars, locals>>
      /\ \A d \in Deleter : at'[d] \in {"list", "delete"} => at[d] = at'[d]
  BY DEF LockInv, TypeOK, UseLock, OpenLock, Flock, CheckMarker, MarkLock, UnlinkLock, CloseLock,
         Die, Goto, Proc
<1> QED
  BY <1>1 DEF GenInv, CurrentKept, NewestOlder, Greatest, genVars, locals

LEMMA GenStep == LockInv /\ GenInv /\ [Next]_profileVars => GenInv'
<1> SUFFICES ASSUME LockInv, GenInv, [Next]_profileVars PROVE GenInv'
  OBVIOUS
<1>1. CASE UNCHANGED profileVars
  BY <1>1 DEF profileVars, GenInv, CurrentKept, NewestOlder, Greatest, genVars, locals
<1>2. CASE Next
  BY <1>2, DeleterStep, SwitcherStep, LockKeepsGenerations DEF Next, Step
<1> QED
  BY <1>1, <1>2

LEMMA InitGen == Init => GenInv
<1> SUFFICES ASSUME Init PROVE GenInv
  OBVIOUS
<1>1. \A d \in Deleter : at[d] \in {"start", "done"}
  BY DEF Init, Proc
<1> QED
  BY <1>1 DEF Init, GenInv, CurrentKept

-------------------------------------------------------------------------------
THEOREM ProfilesInvariant == Spec => [](LockInv /\ GenInv)
  BY InitLock, InitGen, LockStep, GenStep, PTL DEF Spec

\* No two processes are past acquire(), whichever files have had the lock's name,
\* whoever died and however many there are.
THEOREM LockExcludes == Spec => []OneHolder
  BY ProfilesInvariant, HoldersAreOne, PTL

\* The profile never points to a generation whose link is gone.
THEOREM CurrentGenerationKept == Spec => []CurrentKept
<1>1. GenInv => CurrentKept
  BY DEF GenInv
<1> QED
  BY <1>1, ProfilesInvariant, PTL

\* A step at the profile keeps the target of every run of --delete-older-than.
LEMMA RollbackStep ==
    LockInv /\ GenInv /\ [Next]_profileVars =>
        [\A d \in Deleter : Mode[d] = "older" /\ at[d] = "delete" =>
            NewestOlder(gens) \subseteq gens']_profileVars
<1> SUFFICES ASSUME LockInv, GenInv, Next, NEW d \in Deleter, Mode[d] = "older", at[d] = "delete"
             PROVE  NewestOlder(gens) \subseteq gens'
  OBVIOUS
<1>1. NewestOlder(gens) \subseteq gens
  BY GreatestFacts DEF NewestOlder, LockInv, TypeOK
<1>2. ASSUME NEW p \in Proc, UseLock(p) \/ Die(p) PROVE gens' = gens
  BY <1>2 DEF UseLock, OpenLock, Flock, CheckMarker, MarkLock, UnlinkLock, CloseLock, Die, genVars
<1>3. ASSUME NEW s \in Switcher, Change(s) PROVE gens \subseteq gens'
  BY <1>3 DEF Change, Begin, MakeGeneration, Switch, GiveUp, genVars
<1>4. ASSUME NEW e \in Deleter, Delete(e) PROVE NewestOlder(gens) \subseteq gens'
  <2>1. ASSUME NEW g \in Gen, RemoveGeneration(e, g) PROVE NewestOlder(gens) \subseteq gens'
    <3>1. at[e] = "delete"
      BY <2>1 DEF RemoveGeneration
    <3>2. e = d
      BY <3>1, OthersWait DEF Holding, Proc
    <3> QED
      BY <2>1, <3>2, RemovalSpares
  <2> QED
    BY <1>1, <1>4, <2>1 DEF Delete, Visit, ReadCurrent, ListGenerations, Deleted, genVars
<1> QED
  BY <1>1, <1>2, <1>3, <1>4 DEF Next, Step

\* The run of --delete-older-than leaves the newest generation before the cutoff.
THEOREM RollbackTargetIsKept == Spec => RollbackTargetKept
  BY RollbackStep, ProfilesInvariant, PTL DEF Spec, RollbackTargetKept

-------------------------------------------------------------------------------
(* The scan.                                                               *)

ScanTypes ==
    /\ auto \subseteq AutoLink
    /\ result \in [AutoLink -> Path \cup {Absent, Plain}]
    /\ uses \in [Slot -> Path \cup {Absent}]
    /\ scanPc \in {"off", "idle", "auto", "profiles", "logical", "canonical", "done", "failed"}
    /\ stage \in {"next", "hop", "readlink", "second", "remove"}

\* The directories come one after the other, when nobody is at the profile lock.
PhaseInv ==
    /\ scanPc \in {"off", "idle"} => stage = "next" /\ \A e \in Entry : steady[e] = Broken
    /\ scanPc \notin {"off", "idle"} => \A p \in Proc : at[p] \in {"done", "dead"}
    /\ scanPc \in {"off", "idle", "done", "failed"} => toVisit = {}
    /\ scanPc = "canonical" => Aliased
    /\ scanPc = "auto" => toVisit \subseteq AutoLink
    /\ scanPc = "profiles" => toVisit \subseteq Gen \cup {Profile}
    /\ scanPc \in {"logical", "canonical"} => toVisit \subseteq Slot

\* The link in hand is followed to where its chain leads, and is on the way to
\* its removal only if the chain is not steady.
HandInv ==
    stage # "next" =>
        /\ \/ scanPc = "auto" /\ entry \in AutoLink /\ hop = entry
           \/ scanPc = "profiles" /\ entry = Profile /\ hop \in Gen
        /\ stage \in {"hop", "readlink"} /\ steady[entry] # Broken => hop = steady[entry][1]
        /\ stage \in {"second", "remove"} /\ entry \in AutoLink => steady[entry] = Broken

ChainInv == \A e \in Entry : steady[e] # Broken => Chain(e) = steady[e]

Seen(e)   == steady[e][2] \in roots \cup (Path \ Known)
InHand(e) == e \in toVisit \/ (entry = e /\ stage \in {"hop", "readlink"})

\* A directory that is read has given its steady roots.
LinksInv ==
    \A e \in Entry \ Slot : steady[e] # Broken =>
        /\ scanPc = "auto" /\ e \in AutoLink => Seen(e) \/ InHand(e)
        /\ scanPc = "profiles" => Seen(e) \/ (e \notin AutoLink /\ InHand(e))
        /\ scanPc \in {"logical", "canonical", "done"} => Seen(e)

\* What a process steadily uses is a root, a candidate, or still to be read.
UsesInv ==
    \A e \in Slot : steady[e] # Broken =>
        LET Taken == Seen(e) \/ steady[e][2] \in candidates IN
        /\ scanPc = "logical" => Taken \/ e \in toVisit \/ (Aliased /\ e \in Resolved)
        /\ scanPc = "canonical" => Taken \/ e \in toVisit \cap Resolved
        /\ scanPc = "done" => Seen(e)

ScanInv == ScanTypes /\ PhaseInv /\ HandInv /\ ChainInv /\ LinksInv /\ UsesInv

IInv == LockInv /\ GenInv /\ ScanInv

-------------------------------------------------------------------------------
(* What a chain hangs on.                                                  *)

LEMMA ChainFacts ==
    /\ \A e \in Gen : Chain(e) # Broken => e \in gens /\ Chain(e) = <<e, GenPath[e]>>
    /\ \A e \in AutoLink : Chain(e) # Broken =>
          e \in auto /\ result[e] \in Known /\ Chain(e) = <<e, result[e]>>
    /\ Chain(Profile) # Broken => current \in gens /\ Chain(Profile) = <<current, GenPath[current]>>
    /\ \A e \in Slot : Chain(e) # Broken => uses[e] \in Known /\ Chain(e) = <<e, uses[e]>>
  BY RootScanAssumption DEF Chain

\* A steady chain is in its directory, and ends in a store path.
LEMMA SteadyFacts ==
    ASSUME LockInv, ScanInv, NEW e \in Entry, steady[e] # Broken
    PROVE  There(e) /\ steady[e] = Chain(e) /\ steady[e][2] \in Path
<1> USE RootScanAssumption, ProfilesAssumption
<1>1. steady[e] = Chain(e)
  BY DEF ScanInv, ChainInv
<1>2. gens \subseteq Gen
  BY DEF LockInv, TypeOK
<1>3. NoGen \notin Gen
  BY DEF Gen
<1> QED
  BY <1>1, <1>2, <1>3, ChainFacts DEF Entry, There

\* Nothing a chain hangs on is touched.
chainVars == <<gens, current, auto, result, uses>>

LEMMA ChainFrame ==
    ASSUME UNCHANGED chainVars, NEW e \in Entry
    PROVE  Chain(e)' = Chain(e)
  BY DEF chainVars, Chain

\* The profile is as it was, or a process at its lock took a step.
LEMMA ProfileFrame == LockInv /\ GenInv /\ UNCHANGED profileVars => LockInv' /\ GenInv'
  BY LockStep, GenStep

LEMMA InitScan == ScanInit => IInv
<1> SUFFICES ASSUME ScanInit PROVE IInv
  OBVIOUS
<1>1. LockInv /\ GenInv
  BY InitLock, InitGen DEF ScanInit
<1>2. \A e \in Entry : steady[e] = Broken
  BY DEF ScanInit
<1>3. ScanTypes /\ PhaseInv /\ HandInv /\ ChainInv
  BY <1>2 DEF ScanInit, ScanTypes, PhaseInv, HandInv, ChainInv
<1>4. LinksInv /\ UsesInv
  BY <1>2 DEF LinksInv, UsesInv, Entry
<1> QED
  BY <1>1, <1>3, <1>4 DEF IInv, ScanInv

-------------------------------------------------------------------------------
(* From directory to directory.                                            *)

LEMMA ListAutoStep == IInv /\ ListAuto => IInv'
<1> SUFFICES ASSUME IInv, ListAuto PROVE IInv'
  OBVIOUS
<1> USE DEF IInv, ScanInv
<1>1. PICK S \in SUBSET AutoLink : { e \in AutoLink : There(e) } \subseteq S /\ toVisit' = S
  BY DEF ListAuto, Lists
<1>2. /\ scanPc = "idle" /\ scanPc' = "auto" /\ \A p \in Proc : at[p] \in {"done", "dead"}
      /\ UNCHANGED <<profileVars, userVars, stage, entry, hop, second, roots, candidates>>
      /\ steady' = [e \in Entry |-> Chain(e)]
  BY DEF ListAuto
<1>3. LockInv' /\ GenInv' /\ at' = at /\ UNCHANGED chainVars
  BY <1>2, ProfileFrame DEF profileVars, genVars, userVars, chainVars
<1>4. \A e \in Entry : steady'[e] = Chain(e) /\ Chain(e)' = Chain(e)
  BY <1>2, <1>3, ChainFrame
<1>5. ChainInv'
  BY <1>4 DEF ChainInv
<1>6. ScanTypes' /\ PhaseInv' /\ HandInv'
  BY <1>1, <1>2, <1>3 DEF ScanTypes, PhaseInv, HandInv, userVars
<1>7. LinksInv'
  <2>1. \A e \in AutoLink : Chain(e) # Broken => There(e)
    BY ChainFacts DEF There
  <2>2. \A e \in AutoLink : steady'[e] # Broken => e \in toVisit'
    BY <1>1, <1>4, <2>1 DEF Entry
  <2> QED
    BY <1>2, <2>2 DEF LinksInv, InHand
<1>8. UsesInv'
  BY <1>2 DEF UsesInv
<1> QED
  BY <1>3, <1>5, <1>6, <1>7, <1>8

LEMMA ListProfilesStep == IInv /\ ListProfiles => IInv'
<1> SUFFICES ASSUME IInv, ListProfiles PROVE IInv'
  OBVIOUS
<1> USE DEF IInv, ScanInv
<1>1. PICK S \in SUBSET (Gen \cup {Profile}) :
         { e \in Gen \cup {Profile} : There(e) } \subseteq S /\ toVisit' = S
  BY DEF ListProfiles, Lists
<1>2. /\ scanPc = "auto" /\ scanPc' = "profiles" /\ stage = "next" /\ toVisit = {}
      /\ UNCHANGED <<profileVars, userVars, stage, entry, hop, second, roots, candidates, steady>>
  BY DEF ListProfiles
<1>3. LockInv' /\ GenInv' /\ at' = at /\ UNCHANGED chainVars
  BY <1>2, ProfileFrame DEF profileVars, genVars, userVars, chainVars
<1>4. ChainInv'
  BY <1>2, <1>3, ChainFrame DEF ChainInv
<1>5. ScanTypes' /\ PhaseInv' /\ HandInv'
  BY <1>1, <1>2, <1>3 DEF ScanTypes, PhaseInv, HandInv, userVars
<1>6. LinksInv'
  <2> SUFFICES ASSUME NEW e \in Entry \ Slot, steady[e] # Broken
               PROVE  Seen(e)' \/ (e \notin AutoLink /\ InHand(e)')
    BY <1>2 DEF LinksInv
  <2>1. CASE e \in AutoLink
    BY <1>2, <2>1 DEF LinksInv, Seen, InHand
  <2>2. CASE e \notin AutoLink
    <3>1. e \in Gen \cup {Profile} /\ There(e)
      BY <2>2, SteadyFacts DEF Entry
    <3> QED
      BY <1>1, <2>2, <3>1 DEF InHand
  <2> QED
    BY <2>1, <2>2
<1>7. UsesInv'
  BY <1>2 DEF UsesInv
<1> QED
  BY <1>3, <1>4, <1>5, <1>6, <1>7

LEMMA ListProcessesStep == IInv /\ ListProcesses => IInv'
<1> SUFFICES ASSUME IInv, ListProcesses PROVE IInv'
  OBVIOUS
<1> USE DEF IInv, ScanInv
<1>1. PICK S \in SUBSET Slot : { e \in Slot : There(e) } \subseteq S /\ toVisit' = S
  BY DEF ListProcesses, Lists
<1>2. /\ \/ scanPc = "profiles" /\ scanPc' = "logical"
         \/ scanPc = "logical" /\ Aliased /\ scanPc' = "canonical"
      /\ stage = "next" /\ toVisit = {}
      /\ UNCHANGED <<profileVars, userVars, stage, entry, hop, second, roots, candidates, steady>>
  BY DEF ListProcesses
<1>3. LockInv' /\ GenInv' /\ at' = at /\ UNCHANGED chainVars
  BY <1>2, ProfileFrame DEF profileVars, genVars, userVars, chainVars
<1>4. ChainInv'
  BY <1>2, <1>3, ChainFrame DEF ChainInv
<1>5. ScanTypes' /\ PhaseInv' /\ HandInv'
  BY <1>1, <1>2, <1>3 DEF ScanTypes, PhaseInv, HandInv, userVars
<1>6. LinksInv'
  <2>1. \A e \in Entry \ Slot : steady[e] # Broken => Seen(e)
    BY <1>2 DEF LinksInv, InHand
  <2> QED
    BY <1>2, <2>1 DEF LinksInv, Seen
<1>7. UsesInv'
  <2> SUFFICES ASSUME NEW e \in Slot, steady[e] # Broken
               PROVE  LET Taken == Seen(e) \/ steady[e][2] \in candidates IN
                      /\ scanPc' = "logical" => e \in toVisit'
                      /\ scanPc' = "canonical" => Taken \/ e \in toVisit' \cap Resolved
    BY <1>2 DEF UsesInv, Seen
  <2>1. e \in toVisit'
    BY <1>1, SteadyFacts DEF Entry
  <2> QED
    BY <1>2, <2>1 DEF UsesInv
<1> QED
  BY <1>3, <1>4, <1>5, <1>6, <1>7

LEMMA FinishStep == IInv /\ Finish => IInv'
<1> SUFFICES ASSUME IInv, Finish PROVE IInv'
  OBVIOUS
<1> USE DEF IInv, ScanInv
<1>1. /\ scanPc = (IF Aliased THEN "canonical" ELSE "logical") /\ scanPc' = "done"
      /\ toVisit = {} /\ roots' = roots \cup UNION { Indexed(p) : p \in candidates }
      /\ UNCHANGED <<profileVars, userVars, stage, toVisit, entry, hop, second, candidates, steady>>
  BY DEF Finish
<1>2. LockInv' /\ GenInv' /\ at' = at /\ UNCHANGED chainVars
  BY <1>1, ProfileFrame DEF profileVars, genVars, userVars, chainVars
<1>3. ChainInv'
  BY <1>1, <1>2, ChainFrame DEF ChainInv
<1>4. ScanTypes' /\ PhaseInv' /\ HandInv'
  BY <1>1, <1>2 DEF ScanTypes, PhaseInv, HandInv, userVars
<1>5. LinksInv'
  BY <1>1 DEF LinksInv, Seen
<1>6. UsesInv'
  <2> SUFFICES ASSUME NEW e \in Slot, steady[e] # Broken PROVE Seen(e)'
    BY <1>1 DEF UsesInv
  <2>1. Seen(e) \/ steady[e][2] \in candidates
    BY <1>1 DEF UsesInv
  <2>2. steady[e][2] \in Path
    BY SteadyFacts DEF Entry
  <2>3. steady[e][2] \in candidates => steady[e][2] \in roots' \cup (Path \ Known)
    BY <1>1, <2>2 DEF Indexed
  <2> QED
    BY <1>1, <2>1, <2>3 DEF Seen
<1> QED
  BY <1>2, <1>3, <1>4, <1>5, <1>6

-------------------------------------------------------------------------------
(* The links of a directory.                                               *)

LEMMA SkipMissingStep == IInv /\ (\E e \in Entry : SkipMissing(e)) => IInv'
<1> SUFFICES ASSUME IInv, NEW e \in Entry, SkipMissing(e) PROVE IInv'
  OBVIOUS
<1> USE DEF IInv, ScanInv
<1>1. /\ stage = "next" /\ ~There(e) /\ toVisit' = toVisit \ {e}
      /\ UNCHANGED <<profileVars, userVars, scanPc, stage, entry, hop, second, roots, candidates, steady>>
  BY DEF SkipMissing
<1>2. LockInv' /\ GenInv' /\ at' = at /\ UNCHANGED chainVars
  BY <1>1, ProfileFrame DEF profileVars, genVars, userVars, chainVars
<1>3. ChainInv'
  BY <1>1, <1>2, ChainFrame DEF ChainInv
<1>4. ScanTypes' /\ PhaseInv' /\ HandInv'
  BY <1>1, <1>2 DEF ScanTypes, PhaseInv, HandInv, userVars
<1>5. \A f \in Entry : steady[f] # Broken => f # e
  BY <1>1, SteadyFacts
<1>6. LinksInv'
  BY <1>1, <1>5 DEF LinksInv, Seen, InHand, Entry
<1>7. UsesInv'
  BY <1>1, <1>5 DEF UsesInv, Seen, Entry
<1> QED
  BY <1>2, <1>3, <1>4, <1>6, <1>7

LEMMA ReadDirectStep == IInv /\ (\E e \in Entry : ReadDirect(e)) => IInv'
<1> SUFFICES ASSUME IInv, NEW e \in Entry, ReadDirect(e) PROVE IInv'
  OBVIOUS
<1> USE DEF IInv, ScanInv
<1>1. /\ stage = "next" /\ e \in toVisit /\ e \in gens /\ toVisit' = toVisit \ {e}
      /\ roots' = roots \cup Indexed(GenPath[e])
      /\ UNCHANGED <<profileVars, userVars, scanPc, stage, entry, hop, second, candidates, steady>>
  BY DEF ReadDirect, Found
<1>2. LockInv' /\ GenInv' /\ at' = at /\ UNCHANGED chainVars
  BY <1>1, ProfileFrame DEF profileVars, genVars, userVars, chainVars
<1>3. ChainInv'
  BY <1>1, <1>2, ChainFrame DEF ChainInv
<1>4. ScanTypes' /\ PhaseInv' /\ HandInv'
  BY <1>1, <1>2 DEF ScanTypes, PhaseInv, HandInv, userVars
<1>5. e \in Gen /\ e \notin Slot /\ e \notin AutoLink
  BY <1>1, RootScanAssumption DEF LockInv, TypeOK
<1>6. steady[e] # Broken => Seen(e)'
  BY <1>1, <1>5, SteadyFacts, ChainFacts DEF Seen, Indexed
<1>7. \A f \in Entry : Seen(f) => Seen(f)'
  BY <1>1 DEF Seen
<1>8. LinksInv'
  BY <1>1, <1>6, <1>7 DEF LinksInv, InHand
<1>9. UsesInv'
  BY <1>1, <1>5, <1>7 DEF UsesInv, Entry
<1> QED
  BY <1>2, <1>3, <1>4, <1>8, <1>9

LEMMA ReadIndirectStep == IInv /\ (\E e \in Entry : ReadIndirect(e)) => IInv'
<1> SUFFICES ASSUME IInv, NEW e \in Entry, ReadIndirect(e) PROVE IInv'
  OBVIOUS
<1> USE RootScanAssumption DEF IInv, ScanInv
<1>1. /\ stage = "next" /\ e \in toVisit /\ e \in AutoLink \cup {Profile} /\ There(e)
      /\ entry' = e /\ hop' = (IF e = Profile THEN current ELSE e)
      /\ stage' = "hop" /\ toVisit' = toVisit \ {e}
      /\ UNCHANGED <<profileVars, userVars, scanPc, second, roots, candidates, steady>>
  BY DEF ReadIndirect
<1>2. LockInv' /\ GenInv' /\ at' = at /\ UNCHANGED chainVars
  BY <1>1, ProfileFrame DEF profileVars, genVars, userVars, chainVars
<1>3. ChainInv'
  BY <1>1, <1>2, ChainFrame DEF ChainInv
<1>4. e \in Entry /\ e \notin Slot /\ gens \subseteq Gen /\ auto \subseteq AutoLink
  BY <1>1 DEF Entry, LockInv, TypeOK, ScanTypes
<1>5. \/ scanPc = "auto" /\ e \in AutoLink /\ e # Profile
      \/ scanPc = "profiles" /\ e = Profile /\ current \in Gen
  <2>1. e = Profile => current \in Gen
    BY <1>1, <1>4 DEF There, LockInv, TypeOK
  <2> QED
    BY <1>1, <1>4, <2>1 DEF PhaseInv, ScanTypes
<1>6. steady[e] # Broken => hop' = steady[e][1]
  BY <1>1, <1>4, <1>5, SteadyFacts, ChainFacts
<1>7. ScanTypes' /\ PhaseInv' /\ HandInv'
  <2>1. ScanTypes' /\ PhaseInv'
    BY <1>1, <1>2, <1>5 DEF ScanTypes, PhaseInv, userVars
  <2> QED
    BY <1>1, <1>5, <1>6, <2>1 DEF HandInv
<1>8. LinksInv'
  BY <1>1 DEF LinksInv, Seen, InHand
<1>9. UsesInv'
  BY <1>1, <1>4 DEF UsesInv, Seen
<1> QED
  BY <1>2, <1>3, <1>7, <1>8, <1>9

-------------------------------------------------------------------------------
(* The link in hand.                                                       *)

\* The entry in hand is an auto link or the profile, and what the stages of it
\* leave alone.
LEMMA HandFacts ==
    ASSUME IInv, stage # "next"
    PROVE  /\ entry \in Entry \ Slot
           /\ scanPc \in {"auto", "profiles"}
           /\ \/ scanPc = "auto" /\ entry \in AutoLink /\ hop = entry
              \/ scanPc = "profiles" /\ entry = Profile /\ entry \notin AutoLink /\ hop \in Gen
  BY RootScanAssumption DEF IInv, ScanInv, HandInv, Entry

\* A chain that is steady has a link at its first hop.
LEMMA SteadyHop ==
    ASSUME IInv, stage \in {"hop", "readlink"}, steady[entry] # Broken
    PROVE  /\ IsLink(hop) /\ ~IsGone(hop)
           /\ steady[entry][2] = IF hop \in Gen THEN GenPath[hop] ELSE result[hop]
           /\ hop \in AutoLink => result[hop] \in Known
<1> USE RootScanAssumption DEF IInv, ScanInv
<1>1. /\ steady[entry] = Chain(entry) /\ hop = steady[entry][1] /\ gens \subseteq Gen
      /\ \/ entry \in AutoLink /\ hop = entry
         \/ entry = Profile /\ hop \in Gen
  BY HandFacts, SteadyFacts DEF HandInv, LockInv, TypeOK
<1>2. CASE entry \in AutoLink /\ hop = entry
  <2>1. result[entry] \in Known /\ steady[entry][2] = result[entry] /\ hop \notin Gen
    BY <1>1, <1>2, ChainFacts
  <2> QED
    BY <1>1, <1>2, <2>1 DEF IsLink, IsGone
<1>3. CASE entry = Profile /\ hop \in Gen
  <2>1. hop \in gens /\ steady[entry][2] = GenPath[hop] /\ hop \notin AutoLink
    BY <1>1, <1>3, ChainFacts
  <2> QED
    BY <1>1, <1>3, <2>1 DEF IsLink, IsGone
<1> QED
  BY <1>1, <1>2, <1>3

LEMMA StatHopStep == IInv /\ StatHop => IInv'
<1> SUFFICES ASSUME IInv, StatHop PROVE IInv'
  OBVIOUS
<1> USE DEF IInv, ScanInv
<1>1. /\ stage = "hop"
      /\ UNCHANGED <<profileVars, userVars, scanPc, toVisit, roots, candidates, steady>>
      /\ \/ IsLink(hop) /\ GoOn("readlink")
         \/ ~IsLink(hop) /\ IsGone(hop) /\ GoOn("remove")
         \/ ~IsLink(hop) /\ ~IsGone(hop) /\ Back
  <2>1. ~(IsLink(hop) /\ IsGone(hop))
    BY RootScanAssumption DEF IsLink, IsGone, LockInv, TypeOK
  <2>2. CASE IsLink(hop)
    BY <2>1, <2>2 DEF StatHop
  <2>3. CASE IsGone(hop)
    BY <2>1, <2>3 DEF StatHop
  <2>4. CASE ~IsLink(hop) /\ ~IsGone(hop)
    BY <2>4 DEF StatHop
  <2> QED
    BY <2>2, <2>3, <2>4
<1>2. LockInv' /\ GenInv' /\ at' = at /\ UNCHANGED chainVars
  BY <1>1, ProfileFrame DEF profileVars, genVars, userVars, chainVars
<1>3. ChainInv'
  BY <1>1, <1>2, ChainFrame DEF ChainInv
<1>4. steady[entry] # Broken => IsLink(hop)
  BY <1>1, SteadyHop
<1>5. ScanTypes' /\ PhaseInv' /\ HandInv'
  <2>1. ScanTypes' /\ PhaseInv'
    BY <1>1, <1>2, HandFacts DEF ScanTypes, PhaseInv, userVars, GoOn, Back
  <2>2. HandInv'
    BY <1>1, <1>4 DEF HandInv, GoOn, Back
  <2> QED
    BY <2>1, <2>2
<1>6. LinksInv'
  BY <1>1, <1>4 DEF LinksInv, Seen, InHand, GoOn, Back
<1>7. UsesInv'
  BY <1>1 DEF UsesInv, Seen
<1> QED
  BY <1>2, <1>3, <1>5, <1>6, <1>7

LEMMA ReadHopStep == IInv /\ ReadHop => IInv'
<1> SUFFICES ASSUME IInv, ReadHop PROVE IInv'
  OBVIOUS
<1> USE DEF IInv, ScanInv
<1> DEFINE target == IF hop \in Gen THEN GenPath[hop] ELSE result[hop]
<1>1. /\ stage = "readlink"
      /\ UNCHANGED <<profileVars, userVars, scanPc, toVisit, candidates, steady>>
      /\ \/ IsGone(hop) /\ Back /\ UNCHANGED roots
         \/ /\ IsLink(hop) /\ roots' = roots \cup Indexed(target)
            /\ IF target \in Known THEN Back ELSE stage' = "second" /\ UNCHANGED <<entry, hop>>
  BY DEF ReadHop, Found
<1>2. LockInv' /\ GenInv' /\ at' = at /\ UNCHANGED chainVars
  BY <1>1, ProfileFrame DEF profileVars, genVars, userVars, chainVars
<1>3. ChainInv'
  BY <1>1, <1>2, ChainFrame DEF ChainInv
<1>4. steady[entry] # Broken =>
         /\ ~IsGone(hop) /\ steady[entry][2] = target
         /\ hop \in AutoLink => target \in Known
  <2>1. \A h \in AutoLink : h \notin Gen
    BY RootScanAssumption
  <2> QED
    BY <1>1, <2>1, SteadyHop
<1>5. \A f \in Entry : Seen(f) => Seen(f)'
  BY <1>1 DEF Seen
<1>6. \A f \in Entry : f = entry /\ steady[f] # Broken => Seen(f)'
  <2>1. steady[entry] # Broken => steady[entry][2] \in Path
    BY <1>1, HandFacts, SteadyFacts
  <2> QED
    BY <1>1, <1>4, <2>1 DEF Seen, Indexed
<1> HIDE DEF target
<1>7. ScanTypes' /\ PhaseInv' /\ HandInv'
  <2>1. ScanTypes' /\ PhaseInv'
    BY <1>1, <1>2, HandFacts DEF ScanTypes, PhaseInv, userVars, Back
  <2>2. HandInv'
    BY <1>1, <1>4, HandFacts DEF HandInv, Back
  <2> QED
    BY <2>1, <2>2
<1>8. LinksInv'
  BY <1>1, <1>5, <1>6 DEF LinksInv, InHand
<1>9. UsesInv'
  BY <1>1, <1>5 DEF UsesInv, Entry
<1> QED
  BY <1>2, <1>3, <1>7, <1>8, <1>9

LEMMA StatSecondStep == IInv /\ StatSecond => IInv'
<1> SUFFICES ASSUME IInv, StatSecond PROVE IInv'
  OBVIOUS
<1> USE DEF IInv, ScanInv
<1>1. /\ stage = "second" /\ (Back \/ GoOn("remove"))
      /\ UNCHANGED <<profileVars, userVars, scanPc, toVisit, roots, candidates, steady>>
  BY DEF StatSecond
<1>2. LockInv' /\ GenInv' /\ at' = at /\ UNCHANGED chainVars
  BY <1>1, ProfileFrame DEF profileVars, genVars, userVars, chainVars
<1>3. ChainInv'
  BY <1>1, <1>2, ChainFrame DEF ChainInv
<1>4. ScanTypes' /\ PhaseInv' /\ HandInv'
  <2>1. ScanTypes' /\ PhaseInv'
    BY <1>1, <1>2, HandFacts DEF ScanTypes, PhaseInv, userVars, Back, GoOn
  <2>2. HandInv'
    BY <1>1, HandFacts DEF HandInv, Back, GoOn
  <2> QED
    BY <2>1, <2>2
<1>5. LinksInv'
  BY <1>1 DEF LinksInv, InHand, Seen
<1>6. UsesInv'
  BY <1>1 DEF UsesInv, Seen
<1> QED
  BY <1>2, <1>3, <1>4, <1>5, <1>6

\* An auto link is removed with its chain broken; the profile's link stays.
LEMMA RemoveStaleStep == IInv /\ RemoveStale => IInv'
<1> SUFFICES ASSUME IInv, RemoveStale PROVE IInv'
  OBVIOUS
<1> USE DEF IInv, ScanInv
<1>1. /\ stage = "remove" /\ Back /\ auto' = auto \ {entry}
      /\ UNCHANGED <<profileVars, result, uses, scanPc, toVisit, roots, candidates, steady>>
  BY DEF RemoveStale
<1>2. LockInv' /\ GenInv' /\ UNCHANGED <<at, gens, current>>
  BY <1>1, ProfileFrame DEF profileVars, genVars
<1>3. ChainInv'
  <2> SUFFICES ASSUME NEW e \in Entry, steady[e] # Broken PROVE Chain(e)' = Chain(e)
    BY <1>1 DEF ChainInv
  <2>1. CASE e \in AutoLink
    <3>1. e # entry
      BY <1>1, <2>1 DEF HandInv
    <3> QED
      BY <1>1, <1>2, <2>1, <3>1 DEF Chain
  <2>2. CASE e \notin AutoLink
    BY <1>1, <1>2, <2>2 DEF Chain
  <2> QED
    BY <2>1, <2>2
<1>4. ScanTypes' /\ PhaseInv' /\ HandInv'
  BY <1>1, <1>2, HandFacts DEF ScanTypes, PhaseInv, HandInv, Back
<1>5. LinksInv'
  BY <1>1 DEF LinksInv, InHand, Seen, Back
<1>6. UsesInv'
  BY <1>1 DEF UsesInv, Seen
<1> QED
  BY <1>2, <1>3, <1>4, <1>5, <1>6

LEMMA ScanFailsStep == IInv /\ ScanFails => IInv'
<1> SUFFICES ASSUME IInv, ScanFails PROVE IInv'
  OBVIOUS
<1> USE DEF IInv, ScanInv
<1>1. /\ scanPc \in {"auto", "profiles"} /\ scanPc' = "failed" /\ toVisit' = {} /\ Back
      /\ UNCHANGED <<profileVars, userVars, roots, candidates, steady>>
  BY DEF ScanFails
<1>2. LockInv' /\ GenInv' /\ at' = at /\ UNCHANGED chainVars
  BY <1>1, ProfileFrame DEF profileVars, genVars, userVars, chainVars
<1>3. ChainInv'
  BY <1>1, <1>2, ChainFrame DEF ChainInv
<1>4. ScanTypes' /\ PhaseInv' /\ HandInv' /\ LinksInv' /\ UsesInv'
  BY <1>1, <1>2 DEF ScanTypes, PhaseInv, HandInv, LinksInv, UsesInv, userVars, Back
<1> QED
  BY <1>2, <1>3, <1>4

\* A place of a process is read in the round for the name it gives.
LEMMA ReadProcessStep == IInv /\ (\E e \in Entry : ReadProcess(e)) => IInv'
<1> SUFFICES ASSUME IInv, NEW e \in Entry, ReadProcess(e) PROVE IInv'
  OBVIOUS
<1> USE DEF IInv, ScanInv
<1>1. /\ stage = "next" /\ e \in toVisit /\ e \in Slot /\ toVisit' = toVisit \ {e}
      /\ candidates' = IF InStore(e) THEN candidates \cup {uses[e]} ELSE candidates
      /\ UNCHANGED <<profileVars, userVars, scanPc, stage, entry, hop, second, roots, steady>>
  BY DEF ReadProcess
<1>2. LockInv' /\ GenInv' /\ at' = at /\ UNCHANGED chainVars
  BY <1>1, ProfileFrame DEF profileVars, genVars, userVars, chainVars
<1>3. ChainInv'
  BY <1>1, <1>2, ChainFrame DEF ChainInv
<1>4. ScanTypes' /\ PhaseInv' /\ HandInv'
  BY <1>1, <1>2 DEF ScanTypes, PhaseInv, HandInv, userVars
<1>5. LinksInv'
  BY <1>1 DEF LinksInv, InHand, Seen
<1>6. steady[e] # Broken => steady[e][2] = uses[e]
  BY <1>1, SteadyFacts, ChainFacts
<1>7. scanPc = "logical" /\ ~(Aliased /\ e \in Resolved) => InStore(e)
  BY DEF InStore
<1>8. scanPc = "canonical" /\ e \in Resolved => InStore(e)
  BY DEF InStore, PhaseInv
<1>9. UsesInv'
  BY <1>1, <1>6, <1>7, <1>8 DEF UsesInv, Seen
<1> QED
  BY <1>2, <1>3, <1>4, <1>5, <1>9

\* A place that is passed over is not steady after the round for its name.
LEMMA PassOverStep == IInv /\ (\E e \in Entry : PassOver(e)) => IInv'
<1> SUFFICES ASSUME IInv, NEW e \in Entry, PassOver(e) PROVE IInv'
  OBVIOUS
<1> USE DEF IInv, ScanInv
<1>1. /\ stage = "next" /\ e \in toVisit /\ e \in Slot /\ toVisit' = toVisit \ {e}
      /\ UNCHANGED <<profileVars, userVars, scanPc, stage, entry, hop, second, roots, candidates>>
      /\ steady' = [f \in Entry |-> IF f = e /\ InStore(e) THEN Broken ELSE steady[f]]
  BY DEF PassOver
<1>2. LockInv' /\ GenInv' /\ at' = at /\ UNCHANGED chainVars
  BY <1>1, ProfileFrame DEF profileVars, genVars, userVars, chainVars
<1>3. \A f \in Entry : steady'[f] # Broken =>
         steady'[f] = steady[f] /\ (f = e => ~InStore(e))
  BY <1>1
<1>4. ChainInv'
  BY <1>2, <1>3, ChainFrame DEF ChainInv
<1>5. ScanTypes' /\ PhaseInv' /\ HandInv'
  BY <1>1, <1>2, <1>3 DEF ScanTypes, PhaseInv, HandInv, userVars
<1>6. LinksInv'
  BY <1>1, <1>3 DEF LinksInv, InHand, Seen
<1>7. scanPc = "logical" /\ ~(Aliased /\ e \in Resolved) => InStore(e)
  BY DEF InStore
<1>8. scanPc = "canonical" /\ e \in Resolved => InStore(e)
  BY DEF InStore, PhaseInv
<1>9. UsesInv'
  BY <1>1, <1>3, <1>7, <1>8 DEF UsesInv, Seen, Entry
<1> QED
  BY <1>2, <1>4, <1>5, <1>6, <1>9

-------------------------------------------------------------------------------
(* The users.                                                              *)

\* What the users do to the profile during a scan leaves its invariants alone:
\* every process is done with the lock.
LEMMA UsersKeepProfile ==
    ASSUME IInv, Users
    PROVE  LockInv' /\ GenInv' /\ at' = at
<1> USE DEF IInv, ScanInv
<1>1. \A p \in Proc : at[p] \in {"done", "dead"}
  BY DEF Users, PhaseInv
<1>2. CASE UNCHANGED profileVars
  BY <1>2, ProfileFrame DEF profileVars
<1>3. CASE SwitchProfile \/ DeleteGeneration
  <2>1. /\ UNCHANGED <<lockVars, at, aged, locals>>
        /\ gens' \subseteq Gen /\ current' \in Gen \cup {NoGen}
        /\ CurrentKept'
    <3>1. CASE SwitchProfile
      BY <3>1 DEF SwitchProfile, CurrentKept, LockInv, TypeOK
    <3>2. CASE DeleteGeneration
      BY <3>2 DEF DeleteGeneration, CurrentKept, LockInv, TypeOK, GenInv
    <3> QED
      BY <1>3, <3>1, <3>2
  <2>2. LockInv'
    BY <2>1 DEF LockInv, TypeOK, FdInv, NameInv, lockVars, locals
  <2>3. GenInv'
    BY <1>1, <2>1 DEF GenInv, Proc
  <2> QED
    BY <2>1, <2>2, <2>3
<1> QED
  BY <1>2, <1>3 DEF Users, MakeResult, RegisterAuto, DropResult, UsePath, LeavePath

LEMMA UsersKeepTypes ==
    ASSUME IInv, Users
    PROVE  ScanTypes'
<1> USE RootScanAssumption DEF IInv, ScanInv, ScanTypes
<1>1. UNCHANGED <<scanPc, stage>>
  BY DEF Users, scanVars
<1>2. Known \subseteq Path
  OBVIOUS
<1>3. ASSUME NEW a \in AutoLink, MakeResult(a) \/ RegisterAuto(a) \/ DropResult(a) PROVE ScanTypes'
  BY <1>1, <1>2, <1>3 DEF MakeResult, RegisterAuto, DropResult
<1>4. ASSUME NEW e \in Slot, UsePath(e) \/ LeavePath(e) PROVE ScanTypes'
  BY <1>1, <1>2, <1>4 DEF UsePath, LeavePath
<1>5. CASE SwitchProfile \/ DeleteGeneration
  BY <1>1, <1>5 DEF SwitchProfile, DeleteGeneration, userVars
<1> QED
  BY <1>3, <1>4, <1>5 DEF Users

\* A path taken up during the processes' rounds is a root by then.
LEMMA UsersStep == IInv /\ Users => IInv'
<1> SUFFICES ASSUME IInv, Users PROVE IInv'
  OBVIOUS
<1> USE DEF IInv, ScanInv
<1>1. /\ scanPc \in {"auto", "profiles", "logical", "canonical"}
      /\ UNCHANGED <<scanPc, stage, toVisit, entry, hop, second, roots, candidates>>
  BY DEF Users, scanVars
<1>2. LockInv' /\ GenInv' /\ at' = at
  BY UsersKeepProfile
<1>3. \A e \in Entry :
         \/ steady'[e] = Broken
         \/ steady'[e] = Chain(e)' /\ Chain(e)' = steady[e]
         \/ /\ e \in Slot /\ steady'[e] = Chain(e)'
            /\ \E f \in Entry \ Slot : steady[f] # Broken /\ steady[f][2] = uses'[e]
  BY DEF Users
<1>4. \A e \in Entry \ Slot : steady'[e] # Broken => steady'[e] = steady[e]
  BY <1>3
<1>5. \A e \in Entry : steady'[e] # Broken => Chain(e)' = steady'[e]
  BY <1>3
<1>6. ChainInv'
  BY <1>5 DEF ChainInv
<1>7. PhaseInv'
  BY <1>1, <1>2 DEF PhaseInv
<1>8. HandInv'
  <2>1. stage # "next" => entry \in Entry \ Slot
    BY HandFacts
  <2> QED
    BY <1>1, <1>4, <2>1 DEF HandInv
<1>9. LinksInv'
  BY <1>1, <1>4 DEF LinksInv, Seen, InHand
<1>10. UsesInv'
  <2> SUFFICES ASSUME NEW e \in Slot, steady'[e] # Broken,
                      steady'[e] # steady[e], scanPc \in {"logical", "canonical"}
               PROVE  Seen(e)'
    BY <1>1 DEF UsesInv, Seen
  <2>1. PICK f \in Entry \ Slot : steady[f] # Broken /\ steady[f][2] = uses'[e]
    BY <1>3 DEF Entry
  <2>2. Seen(f)
    BY <2>1 DEF LinksInv
  <2>3. steady'[e] = Chain(e)' /\ Chain(e)' # Broken
    BY <1>5 DEF Entry
  <2>4. Chain(e)' = <<e, uses'[e]>>
    BY <2>3, RootScanAssumption DEF Chain
  <2> QED
    BY <1>1, <2>1, <2>2, <2>3, <2>4 DEF Seen
<1> QED
  BY <1>2, <1>6, <1>7, <1>8, <1>9, <1>10, UsersKeepTypes

-------------------------------------------------------------------------------
\* Before the scan nothing is steady, and the processes are at the profile.
LEMMA PrepareStep == IInv /\ (\E p \in Proc : Prepare(p) \/ Killed(p)) => IInv'
<1> SUFFICES ASSUME IInv, NEW p \in Proc, Prepare(p) \/ Killed(p) PROVE IInv'
  OBVIOUS
<1> USE DEF IInv, ScanInv
<1>1. /\ scanPc \in {"off", "idle"} /\ Next
      /\ UNCHANGED <<auto, result, uses, steady>>
      /\ UNCHANGED <<scanPc, stage, toVisit, entry, hop, second, roots, candidates>>
  BY DEF Prepare, Killed, Next, userVars, scanVars
<1>2. LockInv' /\ GenInv'
  BY <1>1, LockStep, GenStep
<1>3. \A e \in Entry : steady'[e] = Broken
  BY <1>1 DEF PhaseInv
<1>4. ScanTypes' /\ PhaseInv'
  BY <1>1, <1>3 DEF ScanTypes, PhaseInv
<1>5. HandInv'
  BY <1>1 DEF PhaseInv, HandInv
<1>6. ChainInv' /\ LinksInv' /\ UsesInv'
  BY <1>3 DEF ChainInv, LinksInv, UsesInv, Entry
<1> QED
  BY <1>2, <1>4, <1>5, <1>6

LEMMA ScanStutter == IInv /\ UNCHANGED rootVars => IInv'
<1> SUFFICES ASSUME IInv, UNCHANGED rootVars PROVE IInv'
  OBVIOUS
<1> USE DEF IInv, ScanInv
<1>1. /\ UNCHANGED <<profileVars, auto, result, uses, steady>>
      /\ UNCHANGED <<scanPc, stage, toVisit, entry, hop, second, roots, candidates>>
  BY DEF rootVars, userVars, scanVars
<1>2. LockInv' /\ GenInv' /\ at' = at /\ UNCHANGED chainVars
  BY <1>1, ProfileFrame DEF profileVars, genVars, chainVars
<1>3. ChainInv'
  BY <1>1, <1>2, ChainFrame DEF ChainInv
<1>4. ScanTypes' /\ PhaseInv' /\ HandInv' /\ LinksInv' /\ UsesInv'
  BY <1>1, <1>2 DEF ScanTypes, PhaseInv, HandInv, LinksInv, UsesInv, Seen, InHand
<1> QED
  BY <1>2, <1>3, <1>4

LEMMA ScanStep == IInv /\ [ScanNext]_rootVars => IInv'
<1>1. IInv /\ Scan => IInv'
  BY ListAutoStep, ListProfilesStep, ListProcessesStep, FinishStep, SkipMissingStep, ReadDirectStep,
     ReadIndirectStep, ReadProcessStep, PassOverStep, StatHopStep, ReadHopStep, StatSecondStep,
     RemoveStaleStep, ScanFailsStep DEF Scan
<1>2. IInv /\ Ended => IInv'
  BY ScanStutter DEF Ended
<1> QED
  BY <1>1, <1>2, UsersStep, PrepareStep, ScanStutter DEF ScanNext

\* The invariant of the profile and of the scan that follows.
THEOREM ScanInvariant == ScanSpec => []IInv
  BY InitScan, ScanStep, PTL DEF ScanSpec

\* find_roots finds every root that stays put while it reads, and every path taken
\* up from one, for any links, generations and processes, whatever users do.
THEOREM SteadyRootsAreFound == ScanSpec => []SteadyRootsFound
<1>1. IInv => SteadyRootsFound
  <2> SUFFICES ASSUME IInv, NEW e \in Entry, steady[e] # Broken
               PROVE  Chain(e) = steady[e] /\ (scanPc = "done" => Seen(e))
    BY DEF SteadyRootsFound, Seen
  <2> QED
    BY DEF IInv, ScanInv, ChainInv, LinksInv, UsesInv
<1> QED
  BY <1>1, ScanInvariant, PTL

\* The profile is as safe with a scan after the deletions, and users at work while
\* the scan goes on.
THEOREM ProfileIsKeptWithScans == ScanSpec => [](OneHolder /\ CurrentKept) /\ RollbackTargetKept
<1>1. IInv => OneHolder /\ CurrentKept
  BY HoldersAreOne DEF IInv, GenInv
<1>2. IInv /\ [ScanNext]_rootVars =>
        [\A d \in Deleter : Mode[d] = "older" /\ at[d] = "delete" =>
            NewestOlder(gens) \subseteq gens']_profileVars
  <2> SUFFICES ASSUME IInv, [ScanNext]_rootVars, NEW d \in Deleter, at[d] = "delete", Mode[d] = "older",
                      profileVars' # profileVars
               PROVE  NewestOlder(gens) \subseteq gens'
    OBVIOUS
  <2>1. scanPc \in {"off", "idle"}
    BY DEF IInv, ScanInv, PhaseInv, Proc
  <2>2. \E p \in Proc : Prepare(p) \/ Killed(p)
    BY <2>1 DEF ScanNext, Scan, ListAuto, ListProfiles, ListProcesses, Finish, SkipMissing, ReadDirect,
         ReadIndirect, ReadProcess, PassOver, StatHop, ReadHop, StatSecond, RemoveStale, ScanFails,
         Users, Ended, rootVars
  <2>3. Next
    BY <2>2 DEF Prepare, Killed, Next
  <2> QED
    BY <2>3, RollbackStep DEF IInv
<1> QED
  BY <1>1, <1>2, ScanInvariant, PTL DEF ScanSpec, RollbackTargetKept
===============================================================================
