-------------------------------- MODULE Profiles --------------------------------
(***************************************************************************)
(* The generations of one profile (profiles.rs): the deletion of old ones  *)
(* under Nix's profile lock, against nix-env, which makes generations and  *)
(* switches the profile under the same lock.  The lock is a file that its  *)
(* holder marks and unlinks when it is done, so names and inodes are       *)
(* apart.  Every process may die anywhere.                                 *)
(***************************************************************************)
EXTENDS Naturals, FiniteSets

CONSTANTS
    Deleter,   \* runs of remove_old_generations that come to this profile
    Switcher,  \* nix-env processes
    Mode,      \* what a deleter was asked: "old", "older" or "dry"
    MaxGen,    \* the last generation number
    Inode,     \* inodes of <profile>.lock
    NoInode, NoProc,
    NoGen      \* the profile is gone, or points to no generation

Proc == Deleter \cup Switcher
Gen  == 1..MaxGen

ASSUME ProfilesAssumption ==
    /\ IsFiniteSet(Deleter) /\ IsFiniteSet(Switcher) /\ Deleter \cap Switcher = {}
    /\ Mode \in [Deleter -> {"old", "older", "dry"}]
    /\ MaxGen \in Nat
    /\ Inode # {} /\ NoInode \notin Inode /\ NoProc \notin Proc /\ NoGen \notin Nat

VARIABLES
    lockName,  \* the inode <profile>.lock names
    marked,    \* inodes with the deletion marker
    owner,     \* who holds an inode's flock
    fd,        \* each process's open lock file
    at,        \* where each process is
    current,   \* the generation the profile points to
    gens,      \* the generation links there are
    aged,      \* generations made before the cutoff
    active,    \* what current_generation returned
    left       \* generations the deletion loop has still to look at

lockVars == <<lockName, marked, owner, fd>>
genVars  == <<current, gens, aged>>
locals   == <<active, left>>
profileVars == <<lockVars, at, genVars, locals>>

Acquiring == {"open", "flock", "check"}
Holding   == {"current", "list", "delete", "mark", "switch"}
Releasing == {"unlink", "close"}

TypeOK ==
    /\ lockName \in Inode \cup {NoInode}
    /\ marked \subseteq Inode
    /\ owner \in [Inode -> Proc \cup {NoProc}]
    /\ fd \in [Proc -> Inode \cup {NoInode}]
    /\ at \in [Proc -> {"start", "done", "dead"} \cup Acquiring \cup Holding \cup Releasing]
    /\ current \in Gen \cup {NoGen}
    /\ gens \subseteq Gen /\ aged \subseteq Gen
    /\ active \in [Deleter -> Gen \cup {NoGen}]
    /\ left \in [Deleter -> SUBSET Gen]

\* A run before may have died: its lock file is still there, marked or not.  Not
\* every process comes to the profile.
Init ==
    /\ lockName \in {NoInode, CHOOSE i \in Inode : TRUE}
    /\ marked \in {{}, {lockName} \ {NoInode}}
    /\ owner = [i \in Inode |-> NoProc]
    /\ fd = [p \in Proc |-> NoInode] /\ at \in [Proc -> {"start", "done"}]
    /\ gens \in SUBSET (Gen \ {MaxGen}) /\ current \in gens \cup {NoGen}
    /\ aged \in SUBSET gens
    /\ active = [d \in Deleter |-> NoGen] /\ left = [d \in Deleter |-> {}]

-------------------------------------------------------------------------------
(* ProfileLock.                                                            *)

Goto(p, s) == at' = [at EXCEPT ![p] = s]

\* An inode nobody names or has open may be used again.
Free(i) == lockName # i /\ \A p \in Proc : fd[p] # i

FreshInode == CHOOSE i \in Inode : Free(i)

\* O_CREAT without O_TRUNC.
OpenLock(p) ==
    /\ at[p] = "open"
    /\ IF lockName # NoInode
       THEN fd' = [fd EXCEPT ![p] = lockName] /\ UNCHANGED <<lockName, marked>>
       ELSE /\ \E i \in Inode : Free(i)
            /\ lockName' = FreshInode
            /\ fd' = [fd EXCEPT ![p] = FreshInode]
            /\ marked' = marked \ {FreshInode}
    /\ Goto(p, "flock")
    /\ UNCHANGED <<owner, genVars, locals>>

\* flock waits for the holder.
Flock(p) ==
    /\ at[p] = "flock"
    /\ owner[fd[p]] = NoProc
    /\ owner' = [owner EXCEPT ![fd[p]] = p]
    /\ Goto(p, "check")
    /\ UNCHANGED <<lockName, marked, fd, genVars, locals>>

\* Mutants: the length is not looked at; a stale file is waited for for ever.
CheckNothing(p) ==
    /\ at[p] = "check"
    /\ Goto(p, IF p \in Deleter THEN "current" ELSE "switch")
    /\ UNCHANGED <<lockVars, genVars, locals>>
CheckSameFile(p) ==
    /\ at[p] = "check"
    /\ IF fd[p] \in marked
       THEN /\ owner' = [owner EXCEPT ![fd[p]] = NoProc]
            /\ Goto(p, "flock")
       ELSE /\ Goto(p, IF p \in Deleter THEN "current" ELSE "switch")
            /\ UNCHANGED owner
    /\ UNCHANGED <<lockName, marked, fd, genVars, locals>>

\* A marked file is stale: the next turn opens the name anew.
CheckMarker(p) ==
    /\ at[p] = "check"
    /\ IF fd[p] \in marked
       THEN /\ owner' = [owner EXCEPT ![fd[p]] = NoProc]
            /\ fd' = [fd EXCEPT ![p] = NoInode]
            /\ Goto(p, "open")
       ELSE /\ Goto(p, IF p \in Deleter THEN "current" ELSE "switch")
            /\ UNCHANGED <<owner, fd>>
    /\ UNCHANGED <<lockName, marked, genVars, locals>>

\* Drop: the marker, the unlink by name, the release with the close.
MarkLock(p) ==
    /\ at[p] = "mark"
    /\ marked' = marked \cup {fd[p]}
    /\ Goto(p, "unlink")
    /\ UNCHANGED <<lockName, owner, fd, genVars, locals>>

UnlinkLock(p) ==
    /\ at[p] = "unlink"
    /\ lockName' = NoInode
    /\ Goto(p, "close")
    /\ UNCHANGED <<marked, owner, fd, genVars, locals>>

\* Closing a file releases its flock, if this process has it.
Close(p) == /\ owner' = [i \in Inode |-> IF owner[i] = p THEN NoProc ELSE owner[i]]
            /\ fd' = [fd EXCEPT ![p] = NoInode]

CloseLock(p) ==
    /\ at[p] = "close"
    /\ Close(p)
    /\ Goto(p, "done")
    /\ UNCHANGED <<lockName, marked, genVars, locals>>

-------------------------------------------------------------------------------
(* remove_old_generations, come to this profile.                           *)

\* The entry is a link with "link" in its target, as every generation's name
\* has, and some other target may have.
Visit(d) ==
    /\ at[d] = "start"
    /\ \/ Goto(d, "open")
       \/ current = NoGen /\ Goto(d, "done")
    /\ UNCHANGED <<lockVars, genVars, locals>>

\* Fail closed: without a current generation nothing is deleted.
ReadCurrent(d) ==
    /\ at[d] = "current"
    /\ active' = [active EXCEPT ![d] = current]
    /\ Goto(d, IF current = NoGen THEN "mark" ELSE "list")
    /\ UNCHANGED <<lockVars, genVars, left>>

Greatest(S) == CHOOSE g \in S : \A h \in S : h <= g

\* The newest generation older than the cutoff.
NewestOlder(S) == IF S \cap aged = {} THEN {} ELSE {Greatest(S \cap aged)}

\* Mutants: the search runs from the front; the current one is not spared.
DoomedFromFront(d) ==
    CASE Mode[d] = "old"   -> gens \ {active[d]}
      [] Mode[d] = "older" -> (gens \cap aged) \ {active[d], CHOOSE g \in gens \cup {0} :
                                \A h \in gens \cap aged : g <= h}
      [] Mode[d] = "dry"   -> {}
DoomedNewestOnly(d) ==
    CASE Mode[d] = "old"   -> gens \ {Greatest(gens)}
      [] Mode[d] = "older" -> (gens \cap aged) \ NewestOlder(gens)
      [] Mode[d] = "dry"   -> {}

\* What the loop goes on to remove.
Doomed(d) ==
    CASE Mode[d] = "old"   -> gens \ {active[d]}
      [] Mode[d] = "older" -> (gens \cap aged) \ ({active[d]} \cup NewestOlder(gens))
      [] Mode[d] = "dry"   -> {}

\* find_generation_links, and the link times.
ListGenerations(d) ==
    /\ at[d] = "list"
    /\ left' = [left EXCEPT ![d] = Doomed(d)]
    /\ Goto(d, "delete")
    /\ UNCHANGED <<lockVars, genVars, active>>

\* A link that cannot be removed stays, without an error.
RemoveGeneration(d, g) ==
    /\ at[d] = "delete"
    /\ g \in left[d]
    /\ left' = [left EXCEPT ![d] = @ \ {g}]
    /\ gens' \in {gens, gens \ {g}}
    /\ UNCHANGED <<lockVars, at, current, aged, active>>

Deleted(d) ==
    /\ at[d] = "delete"
    /\ left[d] = {}
    /\ Goto(d, "mark")
    /\ UNCHANGED <<lockVars, genVars, locals>>

-------------------------------------------------------------------------------
(* Nix: createGeneration, switchLink and rollback, under lockProfile.      *)

Begin(s) ==
    /\ at[s] = "start"
    /\ Goto(s, "open")
    /\ UNCHANGED <<lockVars, genVars, locals>>

\* A new generation, numbered after the last.
MakeGeneration(s) ==
    /\ at[s] = "switch"
    /\ LET g == IF gens = {} THEN 1 ELSE Greatest(gens) + 1 IN
         /\ g \in Gen
         /\ gens' = gens \cup {g}
         /\ aged' = aged \ {g}
    /\ UNCHANGED <<lockVars, at, current, locals>>

\* The profile is pointed to a generation, new or old.
Switch(s) ==
    /\ at[s] = "switch"
    /\ current' \in gens
    /\ Goto(s, "mark")
    /\ UNCHANGED <<lockVars, gens, aged, locals>>

GiveUp(s) ==
    /\ at[s] = "switch"
    /\ Goto(s, "mark")
    /\ UNCHANGED <<lockVars, genVars, locals>>

-------------------------------------------------------------------------------
Die(p) ==
    /\ at[p] \notin {"start", "done", "dead"}
    /\ Close(p)
    /\ Goto(p, "dead")
    /\ UNCHANGED <<lockName, marked, genVars, locals>>

UseLock(p) == OpenLock(p) \/ Flock(p) \/ CheckMarker(p) \/ MarkLock(p) \/ UnlinkLock(p) \/ CloseLock(p)

Delete(d) == \/ Visit(d) \/ ReadCurrent(d) \/ ListGenerations(d) \/ Deleted(d)
             \/ \E g \in Gen : RemoveGeneration(d, g)

Change(s) == Begin(s) \/ MakeGeneration(s) \/ Switch(s) \/ GiveUp(s)

Step(p) == UseLock(p) \/ (p \in Deleter /\ Delete(p)) \/ (p \in Switcher /\ Change(p))

Next == \E p \in Proc : Step(p) \/ Die(p)

Spec == Init /\ [][Next]_profileVars

-------------------------------------------------------------------------------
\* The lock excludes, whatever files have had its name and whoever died.
OneHolder ==
    \A p, q \in Proc : at[p] \in Holding /\ at[q] \in Holding => p = q

\* The generation the profile points to keeps its link, under deletions and
\* switches in any order.
CurrentKept == current # NoGen => current \in gens

\* --delete-older-than leaves the newest generation from before the cutoff, "the
\* active one at the requested point in time".
RollbackTargetKept ==
    [][\A d \in Deleter : Mode[d] = "older" /\ at[d] = "delete" =>
         NewestOlder(gens) \subseteq gens']_profileVars

\* A marker nobody will unlink: its writer died between the two.
Abandoned ==
    /\ lockName \in marked
    /\ \A p \in Proc : at[p] = "unlink" => fd[p] # lockName

\* acquire() returns, unless a dead holder has left its marker at the name.
AcquireReturns ==
    \A p \in Proc : at[p] \in Acquiring ~> at[p] \notin Acquiring \/ Abandoned
===============================================================================
