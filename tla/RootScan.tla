-------------------------------- MODULE RootScan --------------------------------
(***************************************************************************)
(* find_roots (roots.rs) over gcroots/auto, the profiles directory and the *)
(* running processes, while users make and remove results, switch the      *)
(* profile, delete generations and run programs.  An auto link names a     *)
(* user's result link, which points to the store: the scan reads the two   *)
(* one after the other, and removes an auto link whose result it found     *)
(* gone.  Processes are read through /proc, once for the logical store     *)
(* directory and once more for the canonical one where it is another.      *)
(*                                                                         *)
(* Extends Profiles: a process that has deleted generations scans for      *)
(* roots next (main.rs).  During a scan a whole turn of another process at *)
(* the profile lock is one step: nobody else is at the lock, and only the  *)
(* links it makes and removes can be seen from here.                       *)
(***************************************************************************)
EXTENDS Profiles

CONSTANTS
    AutoLink, \* links in gcroots/auto, each naming a result of its own
    Profile,  \* the profile's own link, which names a generation
    Path,     \* store paths links may point to
    Known,    \* those with a node in the snapshot
    OnDisk,   \* those with an entry in the store directory
    GenPath,  \* what each generation points to
    Slot,     \* places a process may name a path at: exe, cwd, an fd, maps, environ
    Resolved, \* those where the kernel gives the canonical path
    Aliased,  \* the store directory is reached through a symlink
    Absent,   \* no result
    Plain,    \* a file or directory in its place
    NoEntry, NoRoot

Entry == AutoLink \cup Gen \cup {Profile} \cup Slot

ASSUME RootScanAssumption ==
    /\ Known \subseteq OnDisk /\ OnDisk \subseteq Path
    /\ GenPath \in [Gen -> Path]
    /\ Resolved \subseteq Slot /\ Aliased \in BOOLEAN
    /\ Absent \notin Path /\ Plain \notin Path /\ Absent # Plain
    /\ NoEntry \notin Entry /\ NoRoot \notin Path
    /\ AutoLink \cap Gen = {} /\ Profile \notin AutoLink \cup Gen
    /\ Slot \cap (AutoLink \cup Gen \cup {Profile}) = {}

VARIABLES
    auto,     \* the auto links there are
    result,   \* what each result points to
    uses,     \* what processes use, by the place that names it
    scanPc,   \* the directory being read
    stage,    \* how far the link in hand has been followed
    toVisit,  \* entries read_dir has still to yield
    entry,    \* the entry in hand
    hop,      \* the name it was read to hold
    second,   \* what that was read to hold
    roots,    \* the roots found
    candidates, \* what processes were found to use, unchecked
    steady    \* the chain of each entry the scan could read and nobody else touched

userVars == <<auto, result, uses>>
scanVars == <<scanPc, stage, toVisit, entry, hop, second, roots, candidates>>
rootVars == <<profileVars, userVars, scanVars, steady>>

\* A generation is a direct root, the profile and an auto link are indirect ones:
\* the name in between, and the store path behind it.  A process names its path.
Broken == <<NoRoot, NoRoot>>
Chain(e) ==
    CASE e \in Gen     -> IF e \in gens THEN <<e, GenPath[e]>> ELSE Broken
      [] e \in AutoLink -> IF e \in auto /\ result[e] \in Known THEN <<e, result[e]>> ELSE Broken
      [] e = Profile   -> IF current \in gens THEN <<current, GenPath[current]>> ELSE Broken
      [] e \in Slot     -> IF uses[e] \in Known THEN <<e, uses[e]>> ELSE Broken

\* The entry is in its directory.
There(e) ==
    \/ e \in auto \cup gens
    \/ e = Profile /\ current # NoGen
    \/ e \in Slot /\ uses[e] # Absent

ScanInit ==
    /\ Init
    /\ auto \in SUBSET AutoLink
    /\ result \in [AutoLink -> Path \cup {Absent, Plain}]
    /\ uses \in [Slot -> Path \cup {Absent}]
    /\ scanPc \in {"off", "idle"} /\ stage = "next"
    /\ toVisit = {} /\ entry = NoEntry /\ hop = NoEntry /\ second = NoRoot
    /\ roots = {} /\ candidates = {} /\ steady = [e \in Entry |-> Broken]

-------------------------------------------------------------------------------
(* The scan: find_roots and find_roots_in_dir.                             *)

\* The index of the snapshot has the rows, by basename.
Indexed(p) == {p} \cap Known

\* read_dir yields what is there, and may yield what comes later.
Lists(dir) == \E S \in SUBSET dir : { e \in dir : There(e) } \subseteq S /\ toVisit' = S

ListAuto ==
    /\ scanPc = "idle"
    /\ \A p \in Proc : at[p] \in {"done", "dead"}
    /\ Lists(AutoLink)
    /\ steady' = [e \in Entry |-> Chain(e)]
    /\ scanPc' = "auto"
    /\ UNCHANGED <<profileVars, userVars, stage, entry, hop, second, roots, candidates>>

ListProfiles ==
    /\ scanPc = "auto" /\ stage = "next" /\ toVisit = {}
    /\ Lists(Gen \cup {Profile})
    /\ scanPc' = "profiles"
    /\ UNCHANGED <<profileVars, userVars, stage, entry, hop, second, roots, candidates, steady>>

\* /proc is read for the store directory's name, then for its canonical name.
ListProcesses ==
    /\ stage = "next" /\ toVisit = {}
    /\ \/ scanPc = "profiles" /\ scanPc' = "logical"
       \/ scanPc = "logical" /\ Aliased /\ scanPc' = "canonical"
    /\ Lists(Slot)
    /\ UNCHANGED <<profileVars, userVars, stage, entry, hop, second, roots, candidates, steady>>

\* The candidates are looked up, those of the second round under the logical name.
Finish ==
    /\ scanPc = (IF Aliased THEN "canonical" ELSE "logical")
    /\ toVisit = {}
    /\ roots' = roots \cup UNION { Indexed(p) : p \in candidates }
    /\ scanPc' = "done"
    /\ UNCHANGED <<profileVars, userVars, stage, toVisit, entry, hop, second, candidates, steady>>

\* Mutant: a missing entry ends the directory.
StopAtMissing(e) ==
    /\ stage = "next" /\ e \in toVisit /\ ~There(e)
    /\ toVisit' = {}
    /\ UNCHANGED <<profileVars, userVars, scanPc, stage, entry, hop, second, roots, candidates, steady>>

\* The entry is gone by now.
SkipMissing(e) ==
    /\ stage = "next" /\ e \in toVisit /\ ~There(e)
    /\ toVisit' = toVisit \ {e}
    /\ UNCHANGED <<profileVars, userVars, scanPc, stage, entry, hop, second, roots, candidates, steady>>

Found(p) == roots' = roots \cup Indexed(p)

\* A link into the store.
ReadDirect(e) ==
    /\ stage = "next" /\ e \in toVisit /\ e \in gens
    /\ Found(GenPath[e])
    /\ toVisit' = toVisit \ {e}
    /\ UNCHANGED <<profileVars, userVars, scanPc, stage, entry, hop, second, candidates, steady>>

\* A link to a link.
ReadIndirect(e) ==
    /\ stage = "next" /\ e \in toVisit \cap (AutoLink \cup {Profile}) /\ There(e)
    /\ entry' = e
    /\ hop' = (IF e = Profile THEN current ELSE e)
    /\ stage' = "hop"
    /\ toVisit' = toVisit \ {e}
    /\ UNCHANGED <<profileVars, userVars, scanPc, second, roots, candidates, steady>>

\* On to the link's next stage, or back to the directory, the locals gone.
GoOn(s) == stage' = s /\ UNCHANGED <<entry, hop, second>>
Back == stage' = "next" /\ entry' = NoEntry /\ hop' = NoEntry /\ second' = NoRoot

\* What lstat of a first hop tells: a link, nothing there, or something else.
IsLink(h) == h \in gens \/ (h \in AutoLink /\ result[h] \in Path)
IsGone(h) == h \in Gen \ gens \/ (h \in AutoLink /\ result[h] = Absent)

\* resolve_indirect_root: lstat of the first hop.
StatHop ==
    /\ stage = "hop"
    /\ CASE IsLink(hop) -> GoOn("readlink")
         [] IsGone(hop) -> GoOn("remove")
         [] OTHER -> Back
    /\ UNCHANGED <<profileVars, userVars, scanPc, toVisit, roots, candidates, steady>>

\* Its readlink: gone now is no reason to remove the auto link.
ReadHop ==
    /\ stage = "readlink"
    /\ \/ /\ IsGone(hop)
          /\ Back
          /\ UNCHANGED roots
       \/ /\ IsLink(hop)
          /\ LET p == IF hop \in Gen THEN GenPath[hop] ELSE result[hop] IN
               /\ Found(p)
               /\ IF p \in Known THEN Back
                  ELSE second' = p /\ stage' = "second" /\ UNCHANGED <<entry, hop>>
    /\ UNCHANGED <<profileVars, userVars, scanPc, toVisit, candidates, steady>>

\* No node for it: the auto link is stale if there is no entry either.
StatSecond ==
    /\ stage = "second"
    /\ IF second \in OnDisk THEN Back ELSE GoOn("remove")
    /\ UNCHANGED <<profileVars, userVars, scanPc, toVisit, roots, candidates, steady>>

\* remove_stale_auto_link, whatever the link stands for by now.  It removes in
\* gcroots/auto only: the profile's own link stays.
RemoveStale ==
    /\ stage = "remove"
    /\ auto' = auto \ {entry}
    /\ Back
    /\ UNCHANGED <<profileVars, result, uses, scanPc, toVisit, roots, candidates, steady>>

\* The name a place gives has the prefix that is looked for.
InStore(e) == scanPc = (IF Aliased /\ e \in Resolved THEN "canonical" ELSE "logical")

\* One place of one process.
ReadProcess(e) ==
    /\ stage = "next" /\ e \in toVisit \cap Slot /\ There(e)
    /\ candidates' = IF InStore(e) THEN candidates \cup {uses[e]} ELSE candidates
    /\ toVisit' = toVisit \ {e}
    /\ UNCHANGED <<profileVars, userVars, scanPc, stage, entry, hop, second, roots, steady>>

\* A place that cannot be read, for lack of permission or because an error of
\* read_dir or of the read hides it, is passed over: no steady root is asked of it.
PassOver(e) ==
    /\ stage = "next" /\ e \in toVisit \cap Slot /\ There(e)
    /\ steady' = [f \in Entry |-> IF f = e /\ InStore(e) THEN Broken ELSE steady[f]]
    /\ toVisit' = toVisit \ {e}
    /\ UNCHANGED <<profileVars, userVars, scanPc, stage, entry, hop, second, roots, candidates>>

\* Any other error of a system call ends the collection.
ScanFails ==
    /\ scanPc \in {"auto", "profiles"}
    /\ scanPc' = "failed" /\ toVisit' = {} /\ Back
    /\ UNCHANGED <<profileVars, userVars, roots, candidates, steady>>

-------------------------------------------------------------------------------
(* Users, and Nix on their behalf.                                         *)

\* addPermRoot: the result first, then the auto link, which is made anew.
MakeResult(a) ==
    /\ \E p \in Known : result' = [result EXCEPT ![a] = p]
    /\ UNCHANGED <<profileVars, auto, uses>>

RegisterAuto(a) ==
    /\ result[a] \in Path
    /\ auto' = auto \cup {a}
    /\ UNCHANGED <<profileVars, result, uses>>

\* The result is removed, or something else put in its place.
DropResult(a) ==
    /\ \E x \in {Absent, Plain} : result' = [result EXCEPT ![a] = x]
    /\ UNCHANGED <<profileVars, auto, uses>>

\* A program is run, or a file of the path opened; a process closes it or ends.
UsePath(e) ==
    /\ \E p \in Known : uses' = [uses EXCEPT ![e] = p]
    /\ UNCHANGED <<profileVars, auto, result>>

LeavePath(e) ==
    /\ uses' = [uses EXCEPT ![e] = Absent]
    /\ UNCHANGED <<profileVars, auto, result>>

\* A switch to a generation, made for it or not; the deletion of another one.
SwitchProfile ==
    /\ \E g \in Gen : /\ g \in gens \/ \A h \in gens : h < g
                      /\ gens' = gens \cup {g} /\ current' = g
    /\ UNCHANGED <<userVars, lockVars, at, aged, locals>>

DeleteGeneration ==
    /\ \E g \in gens \ {current} : gens' = gens \ {g}
    /\ UNCHANGED <<userVars, lockVars, at, current, aged, locals>>

-------------------------------------------------------------------------------
Scan == \/ ListAuto \/ ListProfiles \/ ListProcesses \/ Finish
        \/ \E e \in Entry : \/ SkipMissing(e) \/ ReadDirect(e) \/ ReadIndirect(e)
                            \/ ReadProcess(e) \/ PassOver(e)
        \/ StatHop \/ ReadHop \/ StatSecond \/ RemoveStale \/ ScanFails

\* What others do while the scan goes on.  A chain that is touched is not steady,
\* but a process that takes up a path keeps it from where it steadily was a root.
Users ==
    /\ scanPc \in {"auto", "profiles", "logical", "canonical"}
    /\ \/ \E a \in AutoLink : MakeResult(a) \/ RegisterAuto(a) \/ DropResult(a)
       \/ \E e \in Slot : UsePath(e) \/ LeavePath(e)
       \/ SwitchProfile \/ DeleteGeneration
    /\ LET Steady(p) == \E e \in Entry \ Slot : steady[e] # Broken /\ steady[e][2] = p
       IN steady' = [e \in Entry |->
                        IF Chain(e)' = steady[e] \/ (e \in Slot /\ uses'[e] # uses[e] /\ Steady(uses'[e]))
                        THEN Chain(e)' ELSE Broken]
    /\ UNCHANGED scanVars

\* Before the scan: the deletion of generations.
Prepare(p) == /\ scanPc \in {"off", "idle"}
              /\ Step(p)
              /\ UNCHANGED <<userVars, scanVars, steady>>

Killed(p) == /\ scanPc \in {"off", "idle"}
             /\ Die(p)
             /\ UNCHANGED <<userVars, scanVars, steady>>

Ended == /\ scanPc \in {"done", "failed"} \/ (scanPc = "off" /\ \A p \in Proc : at[p] \in {"done", "dead"})
         /\ UNCHANGED rootVars

ScanNext == Scan \/ Users \/ (\E p \in Proc : Prepare(p) \/ Killed(p)) \/ Ended

ScanSpec == ScanInit /\ [][ScanNext]_rootVars

-------------------------------------------------------------------------------
\* Processes keep going; any may die.
Fairness == \A p \in Proc : WF_rootVars(Prepare(p))

-------------------------------------------------------------------------------
\* A root that stays put while the scan goes by is found, and its auto link is
\* left alone, whatever comes and goes around it.  So is a path that a process has
\* taken up from such a root, even if the root has gone since and the process cannot
\* be read: the directories are read before the processes.
SteadyRootsFound ==
    \A e \in Entry : steady[e] # Broken =>
        /\ Chain(e) = steady[e]
        /\ scanPc = "done" => steady[e][2] \in roots \cup (Path \ Known)
===============================================================================
