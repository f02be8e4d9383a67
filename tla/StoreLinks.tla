------------------------------- MODULE StoreLinks -------------------------------
(***************************************************************************)
(* The store's files, their shared inodes under .links and the temporary   *)
(* links in the store root: one run after another of the optimiser         *)
(* (optimise.rs), one task per file, against clean_links and the sweep of  *)
(* unknown entries of the collector (gc.rs).  An inode stands for its      *)
(* content, the content for its hash, so a hash names what was hashed.     *)
(* The files' store paths are held by temp roots throughout.               *)
(***************************************************************************)
EXTENDS Naturals, FiniteSets

CONSTANTS
    File,       \* the files and symlinks the walks find
    Dir,        \* their parent directories other than the store root
    Root,       \* the store root
    ParentOf,   \* the directory of each file
    Inode,
    Content,    \* what a file may hold, damaged entries' contents included
    ContentOf,  \* the content of each inode
    SizeOf,     \* the size of each content
    NoInode,    \* a name without a file
    NoFile,     \* no holder of a mutex
    MaxRuns,    \* how often the optimiser starts
    MaxCleans   \* how many collections there are

ASSUME StoreLinksAssumption ==
    /\ IsFiniteSet(File) /\ IsFiniteSet(Content)
    /\ Root \notin Dir /\ NoInode \notin Inode /\ NoFile \notin File
    /\ ParentOf \in [File -> Dir \cup {Root}]
    /\ ContentOf \in [Inode -> Content]
    /\ SizeOf \in [Content -> Nat]
    /\ MaxRuns \in Nat /\ MaxCleans \in Nat

VARIABLES
    at,       \* the inode each file names
    link,     \* the inode .links/<hash> names
    temps,    \* the .tmp-link entries of the store root
    writable, \* directories with mode 0755
    damage,   \* the entries that are not what their name says, from before the start
    mutex,    \* who holds a directory's mutex
    proc,     \* the optimiser's process
    runs,     \* how often it has started
    known,    \* inodes load_link_inodes has read
    pc,       \* where each file's task is
    meta,     \* the inode the walk's lstat saw
    hash,     \* the hash its task has of each file
    lmeta,    \* the inode optimise_file's lstat of the entry saw
    skipped,  \* files this run has a reason not to link
    left,     \* directories a kill or a failed chmod left writable
    gc,       \* where the collector is
    cleans,   \* collections started
    doomed,   \* temporary links the disk scan has listed
    toLook,   \* entries of .links clean_links has yet to look at
    unused    \* entries it has seen with a link count of 1

taskVars == <<proc, runs, known, pc, meta, hash, lmeta, skipped, left, mutex>>
gcVars   == <<gc, cleans, doomed, toLook, unused>>
fsVars   == <<at, link, temps, writable>>
vars     == <<fsVars, taskVars, gcVars, damage>>

Stages == {"walk", "hash", "stat", "create", "restat", "compare", "lock", "chmod",
           "temp", "rename", "restore", "unlock", "done"}

Temp == [run : 1..MaxRuns, file : File, ino : Inode]

TypeOK ==
    /\ at \in [File -> Inode]
    /\ link \in [Content -> Inode \cup {NoInode}]
    /\ temps \subseteq Temp
    /\ writable \subseteq Dir
    /\ mutex \in [Dir -> File \cup {NoFile}]
    /\ proc \in {"idle", "running", "dead"}
    /\ runs \in 0..MaxRuns
    /\ known \subseteq Inode
    /\ pc \in [File -> Stages]
    /\ meta \in [File -> Inode \cup {NoInode}]
    /\ hash \in [File -> Content]
    /\ lmeta \in [File -> Inode \cup {NoInode}]
    /\ skipped \subseteq File
    /\ left \subseteq Dir
    /\ gc \in {"idle", "sweep", "clean"}
    /\ cleans \in 0..MaxCleans
    /\ doomed \subseteq Temp
    /\ toLook \subseteq Content /\ unused \subseteq Content
    /\ damage \subseteq [name : Content, ino : Inode]

Toggles(f) == ParentOf[f] # Root
Hash(f)    == ContentOf[at[f]]
Nlink(i)   == Cardinality({f \in File : at[f] = i})
              + Cardinality({h \in Content : link[h] = i})
              + Cardinality({t \in temps : t.ino = i})

\* Any files and any entries: after a power loss an entry may hold other content
\* than its name says, of another size or of the same, and share its inode.
Init ==
    /\ at \in [File -> Inode]
    /\ link \in [Content -> Inode \cup {NoInode}]
    /\ damage = {x \in [name : Content, ino : Inode] :
                    link[x.name] = x.ino /\ ContentOf[x.ino] # x.name}
    /\ temps = {} /\ writable = {} /\ left = {}
    /\ mutex = [d \in Dir |-> NoFile]
    /\ proc = "idle" /\ runs = 0 /\ known = {} /\ skipped = {}
    /\ pc = [f \in File |-> "walk"]
    /\ meta = [f \in File |-> NoInode] /\ lmeta = [f \in File |-> NoInode]
    /\ hash = [f \in File |-> Hash(f)]
    /\ gc = "idle" /\ cleans = 0 /\ doomed = {} /\ toLook = {} /\ unused = {}
-----------------------------------------------------------------------------
(* The optimiser. *)

\* optimise_store up to load_link_inodes.
Start ==
    /\ proc # "running" /\ runs < MaxRuns
    /\ proc' = "running" /\ runs' = runs + 1
    /\ known' = {link[h] : h \in Content} \ {NoInode}
    /\ pc' = [f \in File |-> "walk"] /\ skipped' = {}
    /\ UNCHANGED <<fsVars, gcVars, meta, hash, lmeta, left, mutex>>

\* A process that is over has no variables left.
Forgotten ==
    /\ known' = {}
    /\ meta' = [f \in File |-> NoInode] /\ lmeta' = [f \in File |-> NoInode]

To(f, stage) == pc' = [pc EXCEPT ![f] = stage]
At(f, stage) == proc = "running" /\ pc[f] = stage

\* The walk leaves out the inodes it knows.
Walk(f) ==
    /\ At(f, "walk")
    /\ \/ at[f] \in known /\ To(f, "done") /\ UNCHANGED meta
       \/ at[f] \notin known /\ To(f, "hash") /\ meta' = [meta EXCEPT ![f] = at[f]]
    /\ UNCHANGED <<fsVars, gcVars, proc, runs, known, hash, lmeta, skipped, left, mutex>>

\* A writable file, one below min_size, or an error of the walk or the hash.
Skip(f) ==
    /\ At(f, "hash")
    /\ To(f, "done") /\ meta' = [meta EXCEPT ![f] = NoInode] /\ skipped' = skipped \cup {f}
    /\ UNCHANGED <<fsVars, gcVars, proc, runs, known, hash, lmeta, left, mutex>>

\* nar_hash_nix32 reads the file, once.
HashFile(f) ==
    /\ At(f, "hash")
    /\ hash' = [hash EXCEPT ![f] = Hash(f)]
    /\ To(f, "stat")
    /\ UNCHANGED <<fsVars, gcVars, proc, runs, known, meta, lmeta, skipped, left, mutex>>

StatLink(f) ==
    /\ At(f, "stat")
    /\ \/ link[hash[f]] = NoInode /\ To(f, "create") /\ UNCHANGED lmeta
       \/ /\ link[hash[f]] # NoInode /\ To(f, "compare")
          /\ lmeta' = [lmeta EXCEPT ![f] = link[hash[f]]]
    /\ UNCHANGED <<fsVars, gcVars, proc, runs, known, meta, hash, skipped, left, mutex>>

\* Mutant: the worker that lost the race is content with the other's entry.
CreateOrLeave(f) ==
    /\ At(f, "create")
    /\ IF link[hash[f]] = NoInode
       THEN link' = [link EXCEPT ![hash[f]] = at[f]] /\ To(f, "restat")
       ELSE UNCHANGED link /\ To(f, "done")
    /\ UNCHANGED <<at, temps, writable, gcVars, proc, runs, known, meta, hash, lmeta,
                   skipped, left, mutex>>

\* Another worker may have made the entry since.
CreateLink(f) ==
    /\ At(f, "create")
    /\ link' = IF link[hash[f]] = NoInode THEN [link EXCEPT ![hash[f]] = at[f]] ELSE link
    /\ To(f, "restat")
    /\ UNCHANGED <<at, temps, writable, gcVars, proc, runs, known, meta, hash, lmeta,
                   skipped, left, mutex>>

\* ENOSPC.
NoSpace(f) ==
    /\ At(f, "create") /\ link[hash[f]] = NoInode
    /\ To(f, "done") /\ meta' = [meta EXCEPT ![f] = NoInode] /\ skipped' = skipped \cup {f}
    /\ UNCHANGED <<fsVars, gcVars, proc, runs, known, hash, lmeta, left, mutex>>

\* The second lstat fails if clean_links was faster.
RestatLink(f) ==
    /\ At(f, "restat")
    /\ \/ /\ link[hash[f]] # NoInode /\ To(f, "compare")
          /\ lmeta' = [lmeta EXCEPT ![f] = link[hash[f]]] /\ UNCHANGED <<meta, skipped>>
       \/ /\ link[hash[f]] = NoInode /\ To(f, "done")
          /\ meta' = [meta EXCEPT ![f] = NoInode]
          /\ skipped' = skipped \cup {f} /\ UNCHANGED lmeta
    /\ UNCHANGED <<fsVars, gcVars, proc, runs, known, hash, left, mutex>>

SameSize(i, j) == SizeOf[ContentOf[i]] = SizeOf[ContentOf[j]]

\* Mutant: an entry is what its name says.
CompareTrusting(f) ==
    /\ At(f, "compare")
    /\ IF lmeta[f] = meta[f] THEN To(f, "done") ELSE To(f, "lock")
    /\ meta' = [meta EXCEPT ![f] = NoInode] /\ lmeta' = [lmeta EXCEPT ![f] = NoInode]
    /\ UNCHANGED <<fsVars, gcVars, proc, runs, known, hash, skipped, left, mutex>>

Compare(f) ==
    /\ At(f, "compare")
    /\ \/ lmeta[f] = meta[f] /\ To(f, "done") /\ UNCHANGED skipped
       \/ /\ ~SameSize(lmeta[f], meta[f]) /\ To(f, "done")
          /\ skipped' = skipped \cup {f}
       \/ /\ lmeta[f] # meta[f] /\ SameSize(lmeta[f], meta[f])
          /\ To(f, "lock") /\ UNCHANGED skipped
    /\ meta' = [meta EXCEPT ![f] = NoInode] /\ lmeta' = [lmeta EXCEPT ![f] = NoInode]
    /\ UNCHANGED <<fsVars, gcVars, proc, runs, known, hash, left, mutex>>

\* Mutant: no mutex.
LockNothing(f) ==
    /\ At(f, "lock")
    /\ To(f, IF Toggles(f) THEN "chmod" ELSE "temp")
    /\ UNCHANGED <<fsVars, gcVars, proc, runs, known, meta, hash, lmeta, skipped, left, mutex>>

\* replace_with_link: the store root needs neither mutex nor mode.
LockDir(f) ==
    /\ At(f, "lock")
    /\ \/ ~Toggles(f) /\ To(f, "temp") /\ UNCHANGED mutex
       \/ /\ Toggles(f) /\ mutex[ParentOf[f]] = NoFile /\ To(f, "chmod")
          /\ mutex' = [mutex EXCEPT ![ParentOf[f]] = f]
    /\ UNCHANGED <<fsVars, gcVars, proc, runs, known, meta, hash, lmeta, skipped, left>>

MakeWritable(f) ==
    /\ At(f, "chmod")
    /\ writable' = writable \cup {ParentOf[f]}
    /\ To(f, "temp")
    /\ UNCHANGED <<at, link, temps, gcVars, proc, runs, known, meta, hash, lmeta, skipped,
                   left, mutex>>

\* The chmod fails before ParentRestore exists.
ChmodFails(f) ==
    /\ At(f, "chmod")
    /\ To(f, "unlock") /\ skipped' = skipped \cup {f}
    /\ UNCHANGED <<fsVars, gcVars, proc, runs, known, meta, hash, lmeta, left, mutex>>

AfterReplace(f) == IF Toggles(f) THEN "restore" ELSE "done"
TempsOf(f)      == {t \in temps : t.run = runs /\ t.file = f}

\* hard_link of the entry as it is now; ENOENT without one.
LinkTemp(f) ==
    /\ At(f, "temp")
    /\ \/ /\ link[hash[f]] # NoInode
          /\ temps' = temps \cup {[run |-> runs, file |-> f, ino |-> link[hash[f]]]}
          /\ To(f, "rename") /\ UNCHANGED skipped
       \/ /\ link[hash[f]] = NoInode
          /\ To(f, AfterReplace(f)) /\ skipped' = skipped \cup {f} /\ UNCHANGED temps
    /\ UNCHANGED <<at, link, writable, gcVars, proc, runs, known, meta, hash, lmeta,
                   left, mutex>>

\* Mutant: the early return forgets the directory's mode.
TooManyLinksLeavesOpen(f) ==
    /\ At(f, "temp") /\ link[hash[f]] # NoInode
    /\ To(f, IF Toggles(f) THEN "unlock" ELSE "done") /\ skipped' = skipped \cup {f}
    /\ UNCHANGED <<fsVars, gcVars, proc, runs, known, meta, hash, lmeta, left, mutex>>

\* EMLINK: the inode has as many names as the file system allows.
TooManyLinks(f) ==
    /\ At(f, "temp") /\ link[hash[f]] # NoInode
    /\ To(f, AfterReplace(f)) /\ skipped' = skipped \cup {f}
    /\ UNCHANGED <<fsVars, gcVars, proc, runs, known, meta, hash, lmeta, left, mutex>>

\* rename(2) does nothing, and keeps the temporary, when both names already
\* have one inode.  It fails when the sweep has taken the temporary, and for
\* any user but root when the directory is not writable.
Rename(f) ==
    /\ At(f, "rename")
    /\ \/ /\ TempsOf(f) = {}
          /\ skipped' = skipped \cup {f} /\ UNCHANGED <<at, temps>>
       \/ \E t \in TempsOf(f) :
             LET allowed == Toggles(f) => ParentOf[f] \in writable IN
             /\ at' = IF allowed THEN [at EXCEPT ![f] = t.ino] ELSE at
             /\ temps' = IF allowed /\ t.ino = at[f] THEN temps ELSE temps \ {t}
             /\ UNCHANGED skipped
    /\ To(f, AfterReplace(f))
    /\ UNCHANGED <<link, writable, gcVars, proc, runs, known, meta, hash, lmeta, left, mutex>>

Restore(f) ==
    /\ At(f, "restore")
    /\ writable' = writable \ {ParentOf[f]} /\ left' = left \ {ParentOf[f]}
    /\ To(f, "unlock")
    /\ UNCHANGED <<at, link, temps, gcVars, proc, runs, known, meta, hash, lmeta, skipped, mutex>>

\* ParentRestore ignores an error of its chmod.
RestoreFails(f) ==
    /\ At(f, "restore")
    /\ left' = left \cup {ParentOf[f]}
    /\ To(f, "unlock")
    /\ UNCHANGED <<fsVars, gcVars, proc, runs, known, meta, hash, lmeta, skipped, mutex>>

Unlock(f) ==
    /\ At(f, "unlock")
    /\ mutex' = [mutex EXCEPT ![ParentOf[f]] = NoFile]
    /\ To(f, "done")
    /\ UNCHANGED <<fsVars, gcVars, proc, runs, known, meta, hash, lmeta, skipped, left>>

\* optimise_store has joined every task.
Finish ==
    /\ proc = "running" /\ \A f \in File : pc[f] = "done"
    /\ proc' = "idle" /\ Forgotten
    /\ UNCHANGED <<fsVars, gcVars, runs, pc, hash, skipped, left, mutex>>

Killed ==
    /\ proc = "running"
    /\ proc' = "dead" /\ left' = writable
    /\ mutex' = [d \in Dir |-> NoFile] /\ Forgotten
    /\ pc' = [f \in File |-> "walk"] /\ skipped' = {}
    /\ UNCHANGED <<fsVars, gcVars, runs, hash>>

\* Another optimiser, nix-store --optimise say, links the file.
Elsewhere(f) ==
    LET l == link[Hash(f)] IN
    /\ l # NoInode /\ l # at[f] /\ SameSize(l, at[f])
    /\ at' = [at EXCEPT ![f] = l]
    /\ UNCHANGED <<link, temps, writable, taskVars, gcVars>>
-----------------------------------------------------------------------------
(* The collector. *)

\* collect_garbage: nothing but .links, known paths and roots is left out.
ScanStore ==
    /\ gc = "idle" /\ cleans < MaxCleans
    /\ gc' = "sweep" /\ cleans' = cleans + 1
    /\ doomed' = temps
    /\ UNCHANGED <<fsVars, taskVars, toLook, unused>>

SweepTemp(t) ==
    /\ gc = "sweep" /\ t \in doomed
    /\ temps' = temps \ {t} /\ doomed' = doomed \ {t}
    /\ UNCHANGED <<at, link, writable, taskVars, gc, cleans, toLook, unused>>

\* clean_links: the entries are looked at and unlinked in parallel.
BeginClean ==
    /\ gc = "sweep" /\ doomed = {}
    /\ gc' = "clean"
    /\ toLook' = {h \in Content : link[h] # NoInode}
    /\ UNCHANGED <<fsVars, taskVars, cleans, doomed, unused>>

LookAt(h) ==
    /\ gc = "clean" /\ h \in toLook
    /\ toLook' = toLook \ {h}
    /\ unused' = IF link[h] # NoInode /\ Nlink(link[h]) = 1 THEN unused \cup {h} ELSE unused
    /\ UNCHANGED <<fsVars, taskVars, gc, cleans, doomed>>

\* An entry that has been linked into the store since is lost to the files
\* that come after.
UnlinkEntry(h) ==
    /\ gc = "clean" /\ h \in unused
    /\ link' = [link EXCEPT ![h] = NoInode] /\ unused' = unused \ {h}
    /\ skipped' = IF link[h] # NoInode /\ Nlink(link[h]) > 1
                  THEN skipped \cup {f \in File : Hash(f) = h} ELSE skipped
    /\ UNCHANGED <<at, temps, writable, proc, runs, known, pc, meta, hash, lmeta, left, mutex,
                   gc, cleans, doomed, toLook>>

EndClean ==
    /\ gc = "clean" /\ toLook = {} /\ unused = {}
    /\ gc' = "idle"
    /\ UNCHANGED <<fsVars, taskVars, cleans, doomed, toLook, unused>>
-----------------------------------------------------------------------------
Task(f) ==
    \/ Walk(f) \/ Skip(f) \/ HashFile(f) \/ StatLink(f) \/ CreateLink(f) \/ NoSpace(f)
    \/ RestatLink(f) \/ Compare(f) \/ LockDir(f) \/ MakeWritable(f) \/ ChmodFails(f)
    \/ LinkTemp(f) \/ TooManyLinks(f) \/ Rename(f) \/ Restore(f) \/ RestoreFails(f) \/ Unlock(f)

Collector ==
    \/ ScanStore \/ BeginClean \/ EndClean
    \/ \E t \in doomed : SweepTemp(t)
    \/ \E h \in Content : LookAt(h) \/ UnlinkEntry(h)

\* Both programs have run as often as they may.
Ended ==
    /\ proc # "running" /\ runs = MaxRuns /\ gc = "idle" /\ cleans = MaxCleans
    /\ UNCHANGED vars

Step ==
    \/ Start \/ Finish \/ Killed \/ Collector
    \/ \E f \in File : Task(f) \/ Elsewhere(f)

Next == (Step /\ UNCHANGED damage) \/ Ended

Spec == Init /\ [][Next]_vars
-----------------------------------------------------------------------------
\* Contents that a damaged entry of their own size confuses: the one its name says
\* and the one it holds.  The code compares sizes, so it cannot tell them apart.
Confused(c) ==
    \E x \in damage : /\ c \in {x.name, ContentOf[x.ino]}
                      /\ SizeOf[x.name] = SizeOf[ContentOf[x.ino]]

\* Every file holds what it held at the start, at every instant and whatever the
\* two programs and a kill do to the names: an entry of another size than its name
\* says is never linked into the store, an entry that vanishes or is made anew
\* between the comparison and the hard link does no harm.  A damaged entry of the
\* right size costs the files of the two contents it confuses theirs, but no other
\* file, and not their size (optimise_file, replace_with_link, clean_links).
ContentKept ==
    [][\A f \in File : /\ SizeOf[Hash(f)'] = SizeOf[Hash(f)]
                       /\ ~Confused(Hash(f)) => Hash(f)' = Hash(f)]_vars

\* A run that ends has linked all files of one content together, but for those it
\* had a reason to skip: losing the race for an entry, a mode flipped back by a
\* sibling's task or a snapshot of known inodes that has aged is none.  Contents
\* that a damaged entry confuses and files that share the inode of one, which the
\* walk takes for linked, are left out (optimise_file, load_link_inodes).
Deduped ==
    (proc = "idle" /\ runs > 0) =>
        \A f, g \in {e \in File \ skipped : /\ ~Confused(Hash(e))
                                            /\ \A x \in damage : x.ino # at[e]} :
            Hash(f) = Hash(g) => at[f] = at[g]

\* A store directory is writable only while a task holds its mutex and has
\* not restored it, or after a kill or a failed restore and until the next
\* replacement in it; a task about to rename finds it writable
\* (replace_with_link, ParentRestore).
DirSealed ==
    /\ \A d \in writable \ left :
          \E f \in File : mutex[d] = f /\ pc[f] \in {"temp", "rename", "restore"}
    /\ \A f \in File :
          At(f, "rename") /\ Toggles(f) => ParentOf[f] \in writable
=============================================================================
