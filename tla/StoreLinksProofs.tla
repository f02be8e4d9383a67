---------------------------- MODULE StoreLinksProofs ----------------------------
(***************************************************************************)
(* The optimiser changes no file's content but where a damaged entry of    *)
(* the same size is in the way, leaves no directory open and links         *)
(* together what it finds alike, for any files, directories, entries,      *)
(* inodes and sizes, any number of runs and of collections, and kills at   *)
(* any instant.                                                            *)
(*                                                                         *)
(* The argument for the content: contents are alike if they are the same,  *)
(* or of one size and both confused by damaged entries.  An entry of       *)
(* .links holds the like of what its name says or differs in size from it, *)
(* a comparison of sizes tells the two apart, and an entry once good is    *)
(* only ever removed or made anew from a file alike.  So nobody leaves the *)
(* class of its content, and a class without confused contents has one     *)
(* member.  For the directories: the holder of the mutex is the only       *)
(* one to open and to close the directory.  For the sharing: what a task   *)
(* has seen of its file may age only by the file being linked already; a   *)
(* file once linked stays so, since its entry, having a second name, goes  *)
(* only where clean_links counted the names too early, and then its files  *)
(* are counted out.                                                        *)
(***************************************************************************)
EXTENDS StoreLinks, FiniteSetTheorems, TLAPS

\* The same content, or two of one size that damaged entries confuse.
Alike(a, b) == SizeOf[a] = SizeOf[b] /\ (a = b \/ (Confused(a) /\ Confused(b)))

LinkGood(h) == link[h] = NoInode \/ Alike(ContentOf[link[h]], h)

\* What .links holds, what a task has seen of it and what it has linked.
ContentInv ==
    /\ \A h \in Content : LinkGood(h) \/ SizeOf[ContentOf[link[h]]] # SizeOf[h]
    /\ \A f \in File : pc[f] \in {"hash", "stat", "create", "restat", "compare"} =>
          meta[f] \in Inode /\ SizeOf[ContentOf[meta[f]]] = SizeOf[Hash(f)]
    /\ \A f \in File : pc[f] \in {"stat", "create", "restat", "compare", "lock", "chmod", "temp"} =>
          Alike(hash[f], Hash(f))
    /\ \A f \in File : pc[f] = "compare" =>
          /\ lmeta[f] \in Inode
          /\ SizeOf[ContentOf[lmeta[f]]] = SizeOf[hash[f]] => LinkGood(hash[f])
    /\ \A f \in File : pc[f] \in {"lock", "chmod", "temp"} => LinkGood(hash[f])
    /\ \A t \in temps : Alike(ContentOf[t.ino], Hash(t.file))

Replacing == {"chmod", "temp", "rename", "restore", "unlock"}

\* Who holds a directory's mutex, and where the directory is open.
DirInv ==
    /\ \A f \in File, e \in Dir : mutex[e] = f => ParentOf[f] = e /\ pc[f] \in Replacing
    /\ \A f \in File : pc[f] \in Replacing /\ Toggles(f) => mutex[ParentOf[f]] = f
    /\ \A f \in File : pc[f] \in {"chmod", "restore", "unlock"} => Toggles(f)
    /\ \A f \in File : pc[f] \in {"temp", "rename", "restore"} /\ Toggles(f) =>
          ParentOf[f] \in writable
    /\ \A e \in writable \ left :
          \E f \in File : mutex[e] = f /\ pc[f] \in {"temp", "rename", "restore"}
    /\ proc # "running" => \A f \in File : pc[f] \in {"walk", "done"}

TypeInv == TypeOK /\ (proc = "running" => runs \in 1..MaxRuns)

LinksInv == TypeInv /\ ContentInv /\ DirInv

-------------------------------------------------------------------------------
LEMMA InitLinks == Init => LinksInv
<1> SUFFICES ASSUME Init PROVE LinksInv
  OBVIOUS
<1> USE StoreLinksAssumption
<1>1. TypeInv
  BY DEF Init, TypeInv, TypeOK, Stages, Hash
<1>2. ContentInv
  <2>1. ASSUME NEW h \in Content, ~LinkGood(h), SizeOf[ContentOf[link[h]]] = SizeOf[h]
        PROVE  FALSE
    <3> DEFINE x == [name |-> h, ino |-> link[h]]
    <3>1. link[h] \in Inode /\ ContentOf[link[h]] # h
      BY <2>1 DEF Init, LinkGood, Alike
    <3>2. x \in damage
      BY <3>1 DEF Init
    <3>3. Confused(h) /\ Confused(ContentOf[link[h]])
      BY <2>1, <3>2 DEF Confused
    <3> QED
      BY <2>1, <3>3 DEF LinkGood, Alike
  <2> QED
    BY <2>1 DEF Init, ContentInv
<1>3. DirInv
  BY DEF Init, DirInv, Replacing
<1> QED
  BY <1>1, <1>2, <1>3 DEF LinksInv

LEMMA TypeStep == TypeInv /\ DirInv /\ [Next]_vars => TypeInv'
<1> SUFFICES ASSUME TypeInv, DirInv, [Next]_vars PROVE TypeInv'
  OBVIOUS
<1> USE StoreLinksAssumption
        DEF TypeInv, TypeOK, Stages, vars, fsVars, taskVars, gcVars, To, At, Hash
<1>8. damage' = damage
  BY DEF Next, Step, Ended
<1> USE <1>8
<1>1. ASSUME NEW f \in File, Walk(f) \/ Skip(f) \/ HashFile(f) \/ StatLink(f) \/ CreateLink(f) \/ NoSpace(f)
      PROVE  TypeInv'
  <2>1. Hash(f) \in Content
    OBVIOUS
  <2> QED
    BY <1>1, <2>1 DEF Walk, Skip, HashFile, StatLink, CreateLink, NoSpace
<1>2. ASSUME NEW f \in File, RestatLink(f) \/ Compare(f) \/ LockDir(f) \/ MakeWritable(f)
                             \/ ChmodFails(f)
      PROVE  TypeInv'
  <2>1. Toggles(f) => ParentOf[f] \in Dir
    BY DEF Toggles
  <2>2. MakeWritable(f) => Toggles(f)
    BY DEF MakeWritable, DirInv
  <2> QED
    BY <1>2, <2>1, <2>2 DEF RestatLink, Compare, LockDir, MakeWritable, ChmodFails
<1>3. ASSUME NEW f \in File, LinkTemp(f) \/ TooManyLinks(f) \/ Rename(f) \/ Restore(f) \/ RestoreFails(f)
                             \/ Unlock(f)
      PROVE  TypeInv'
  <2> USE DEF AfterReplace, Temp
  <2>1. CASE LinkTemp(f)
    BY <2>1 DEF LinkTemp
  <2>2. CASE TooManyLinks(f)
    BY <2>2 DEF TooManyLinks
  <2>3. CASE Rename(f)
    BY <2>3 DEF Rename, TempsOf
  <2>4. CASE Restore(f) \/ RestoreFails(f)
    <3>1. Toggles(f) => ParentOf[f] \in Dir
      BY DEF Toggles
    <3>2. pc[f] = "restore" /\ Toggles(f)
      BY <2>4 DEF Restore, RestoreFails, DirInv
    <3> QED
      BY <2>4, <3>1, <3>2 DEF Restore, RestoreFails
  <2>5. CASE Unlock(f)
    BY <2>5 DEF Unlock
  <2> QED
    BY <1>3, <2>1, <2>2, <2>3, <2>4, <2>5
<1>4. CASE Start \/ Finish \/ Killed
  BY <1>4 DEF Start, Finish, Killed, Forgotten
<1>5. CASE Collector
  BY <1>5 DEF Collector, ScanStore, SweepTemp, BeginClean, LookAt, UnlinkEntry, EndClean
<1>6. ASSUME NEW f \in File, Elsewhere(f) PROVE TypeInv'
  BY <1>6 DEF Elsewhere
<1>7. CASE UNCHANGED vars
  BY <1>7
<1> QED
  BY <1>1, <1>2, <1>3, <1>4, <1>5, <1>6, <1>7 DEF Next, Step, Task, Ended

-------------------------------------------------------------------------------
(* Contents.                                                               *)

\* What every lemma about contents needs of a task's names.
ContentBase == TypeInv /\ ContentInv

\* Alike contents form classes.
LEMMA AlikeClasses ==
    /\ \A a : Alike(a, a)
    /\ \A a, b : Alike(a, b) => Alike(b, a) /\ SizeOf[a] = SizeOf[b]
    /\ \A a, b, c : Alike(a, b) /\ Alike(b, c) => Alike(a, c)
  BY DEF Alike

\* What is damaged, confused and alike is so once and for all.
LEMMA AlikeFrame ==
    ASSUME [Next]_vars
    PROVE  /\ damage' = damage
           /\ \A c : Confused(c)' <=> Confused(c)
           /\ \A a, b : Alike(a, b)' <=> Alike(a, b)
<1>1. damage' = damage
  BY DEF Next, Step, Ended, vars
<1>2. \A c : Confused(c)' <=> Confused(c)
  BY <1>1 DEF Confused
<1> QED
  BY <1>1, <1>2 DEF Alike

\* An inode of the same size behind a hash's name has the like of its content.
LEMMA SameSizeIsAlike ==
    ASSUME ContentBase, NEW f \in File, link[Hash(f)] # NoInode,
           SameSize(link[Hash(f)], at[f])
    PROVE  Alike(ContentOf[link[Hash(f)]], Hash(f))
<1>1. Hash(f) \in Content
  BY StoreLinksAssumption DEF ContentBase, TypeInv, TypeOK, Hash
<1> QED
  BY <1>1 DEF ContentBase, ContentInv, LinkGood, SameSize, Hash

\* No step takes a file out of the class of its content.
LEMMA HashAlike ==
    ASSUME ContentBase, [Next]_vars, NEW f \in File
    PROVE  Alike(Hash(f)', Hash(f))
<1> USE AlikeClasses DEF Hash
<1>1. CASE at' = at
  BY <1>1
<1>2. ASSUME NEW g \in File, Rename(g) PROVE Alike(Hash(f)', Hash(f))
  <2>1. CASE at' = at
    BY <2>1
  <2>2. CASE at' # at
    <3>1. PICK t \in TempsOf(g) : at' = [at EXCEPT ![g] = t.ino]
      BY <1>2, <2>2 DEF Rename
    <3>2. Alike(ContentOf[t.ino], ContentOf[at[g]])
      BY <3>1 DEF TempsOf, ContentBase, ContentInv
    <3> QED
      BY <3>1, <3>2 DEF ContentBase, TypeInv, TypeOK
  <2> QED
    BY <2>1, <2>2
<1>3. ASSUME NEW g \in File, Elsewhere(g) PROVE Alike(Hash(f)', Hash(f))
  <2>1. at' = [at EXCEPT ![g] = link[Hash(g)]] /\ Alike(ContentOf[link[Hash(g)]], Hash(g))
    BY <1>3, SameSizeIsAlike DEF Elsewhere
  <2> QED
    BY <2>1 DEF ContentBase, TypeInv, TypeOK
<1>4. ASSUME NEW g \in File, Task(g), ~Rename(g) PROVE at' = at
  BY <1>4 DEF Task, Walk, Skip, HashFile, StatLink, CreateLink, NoSpace, RestatLink, Compare,
              LockDir, MakeWritable, ChmodFails, LinkTemp, TooManyLinks, Restore, RestoreFails,
              Unlock, fsVars
<1>5. CASE Start \/ Finish \/ Killed \/ Collector \/ Ended \/ UNCHANGED vars
  BY <1>5 DEF Start, Finish, Killed, Collector, ScanStore, SweepTemp, BeginClean, LookAt,
              UnlinkEntry, EndClean, Ended, fsVars, vars
<1> QED
  BY <1>1, <1>2, <1>3, <1>4, <1>5 DEF Next, Step

\* A good entry stays good or goes; a new one is good.
LEMMA LinkStep ==
    ASSUME ContentBase, [Next]_vars, NEW h \in Content
    PROVE  link'[h] \in {link[h], NoInode} \/ Alike(ContentOf[link'[h]], h)
<1> USE DEF ContentBase, TypeInv, TypeOK, Hash
<1>1. ASSUME NEW f \in File, CreateLink(f)
      PROVE  link'[h] = link[h] \/ Alike(ContentOf[link'[h]], h)
  <2>1. Alike(ContentOf[at[f]], hash[f])
    BY <1>1, AlikeClasses DEF CreateLink, At, ContentInv
  <2> QED
    BY <1>1, <2>1 DEF CreateLink
<1>2. ASSUME NEW f \in File, Task(f), ~CreateLink(f) PROVE link' = link
  BY <1>2 DEF Task, Walk, Skip, HashFile, StatLink, NoSpace, RestatLink, Compare, LockDir,
              MakeWritable, ChmodFails, LinkTemp, TooManyLinks, Rename, Restore, RestoreFails,
              Unlock, fsVars
<1>3. ASSUME NEW g \in Content, UnlinkEntry(g) PROVE link'[h] \in {link[h], NoInode}
  BY <1>3 DEF UnlinkEntry
<1>4. CASE Start \/ Finish \/ Killed \/ ScanStore \/ BeginClean \/ EndClean \/ Ended \/ UNCHANGED vars
  BY <1>4 DEF Start, Finish, Killed, ScanStore, BeginClean, EndClean, Ended, fsVars, vars
<1>5. ASSUME \/ \E f \in File : Elsewhere(f)
             \/ \E t \in doomed : SweepTemp(t)
             \/ \E g \in Content : LookAt(g)
      PROVE  link' = link
  BY <1>5 DEF Elsewhere, SweepTemp, LookAt, fsVars
<1> QED
  BY <1>1, <1>2, <1>3, <1>4, <1>5 DEF Next, Step, Collector

\* The first conjunct, and what follows for the entry a task has found good.
LEMMA LinksStayGood ==
    ASSUME ContentBase, [Next]_vars, NEW h \in Content
    PROVE  /\ LinkGood(h) => LinkGood(h)'
           /\ LinkGood(h)' \/ SizeOf[ContentOf[link'[h]]] # SizeOf[h]
<1>1. LinkGood(h)' <=> (link'[h] = NoInode \/ Alike(ContentOf[link'[h]], h))
  BY AlikeFrame DEF LinkGood
<1> QED
  BY <1>1, LinkStep DEF ContentBase, ContentInv, LinkGood

Looked == {"hash", "stat", "create", "restat", "compare"}
Hashed == {"stat", "create", "restat", "compare", "lock", "chmod", "temp"}

\* What a step does to one task's place and to what it has seen.
LEMMA TaskMoves ==
    ASSUME ContentBase, NEW f \in File, NEW g \in File, Task(g)
    PROVE  /\ pc'[f] \in Looked =>
                 \/ pc[f] \in Looked /\ meta'[f] = meta[f]
                 \/ meta'[f] = at[f]
           /\ hash'[f] \in {hash[f], Hash(f)}
           /\ pc'[f] \in Hashed => (pc[f] \in Hashed /\ hash'[f] = hash[f]) \/ hash'[f] = Hash(f)
           /\ pc'[f] = "compare" =>
                 \/ pc[f] = "compare" /\ lmeta'[f] = lmeta[f] /\ hash'[f] = hash[f]
                 \/ lmeta'[f] = link[hash'[f]] /\ link[hash'[f]] # NoInode
           /\ pc'[f] \in {"lock", "chmod", "temp"} =>
                 /\ hash'[f] = hash[f]
                 /\ \/ pc[f] \in {"lock", "chmod", "temp"}
                    \/ pc[f] = "compare" /\ SameSize(lmeta[f], meta[f])
<1> USE DEF ContentBase, TypeInv, TypeOK, To, At, Looked, Hashed
<1>1. CASE Walk(g) \/ Skip(g)
  BY <1>1 DEF Walk, Skip
<1>7. CASE HashFile(g)
  BY <1>7 DEF HashFile
<1>2. CASE StatLink(g) \/ CreateLink(g) \/ NoSpace(g)
  BY <1>2 DEF StatLink, CreateLink, NoSpace
<1>3. CASE RestatLink(g)
  BY <1>3 DEF RestatLink
<1>4. CASE Compare(g)
  BY <1>4 DEF Compare
<1>5. CASE LockDir(g) \/ MakeWritable(g) \/ ChmodFails(g) \/ LinkTemp(g) \/ TooManyLinks(g)
  BY <1>5 DEF LockDir, MakeWritable, ChmodFails, LinkTemp, TooManyLinks, AfterReplace
<1>6. CASE Rename(g) \/ Restore(g) \/ RestoreFails(g) \/ Unlock(g)
  BY <1>6 DEF Rename, Restore, RestoreFails, Unlock, AfterReplace
<1> QED
  BY <1>1, <1>2, <1>3, <1>4, <1>5, <1>6, <1>7 DEF Task

\* The temporary links name the like of what the files hold.
LEMMA TempsStep ==
    ASSUME ContentBase, [Next]_vars
    PROVE  \A t \in temps' : Alike(ContentOf[t.ino], Hash(t.file)')
<1> USE DEF ContentBase, TypeInv, TypeOK
<1>1. \A t \in temps : Alike(ContentOf[t.ino], Hash(t.file)) /\ t.file \in File
  BY DEF ContentInv, Temp
<1>2. ASSUME NEW f \in File, LinkTemp(f)
      PROVE  \A t \in temps' : Alike(ContentOf[t.ino], Hash(t.file)) /\ t.file \in File
  <2>1. LinkGood(hash[f]) /\ Alike(hash[f], Hash(f))
    BY <1>2 DEF LinkTemp, At, ContentInv
  <2>2. link[hash[f]] # NoInode => Alike(ContentOf[link[hash[f]]], Hash(f))
    BY <2>1, AlikeClasses DEF LinkGood
  <2> QED
    BY <1>1, <1>2, <2>2 DEF LinkTemp
<1>3. ASSUME NEW f \in File, Task(f), ~LinkTemp(f) PROVE temps' \subseteq temps
  BY <1>3 DEF Task, Walk, Skip, HashFile, StatLink, CreateLink, NoSpace, RestatLink, Compare,
              LockDir, MakeWritable, ChmodFails, TooManyLinks, Rename, Restore, RestoreFails,
              Unlock, fsVars
<1>4. ASSUME \/ Start \/ Finish \/ Killed \/ Collector \/ Ended \/ UNCHANGED vars
             \/ \E f \in File : Elsewhere(f)
      PROVE  temps' \subseteq temps
  BY <1>4 DEF Start, Finish, Killed, Collector, ScanStore, SweepTemp, BeginClean, LookAt,
              UnlinkEntry, EndClean, Elsewhere, Ended, fsVars, vars
<1>5. \A t \in temps' : Alike(ContentOf[t.ino], Hash(t.file)) /\ t.file \in File
  BY <1>1, <1>2, <1>3, <1>4 DEF Next, Step
<1>6. \A f \in File : Alike(Hash(f)', Hash(f))
  BY HashAlike
<1> QED
  BY <1>5, <1>6, AlikeClasses

LEMMA ContentStep == ContentBase /\ [Next]_vars => ContentInv'
<1> SUFFICES ASSUME ContentBase, [Next]_vars PROVE ContentInv'
  OBVIOUS
<1> USE StoreLinksAssumption
<1>1. \A h \in Content : LinkGood(h)' \/ SizeOf[ContentOf[link'[h]]] # SizeOf[h]
  BY LinksStayGood
<1>2. \A f \in File : Hash(f) \in Content /\ Alike(Hash(f)', Hash(f))
  BY HashAlike DEF ContentBase, TypeInv, TypeOK, Hash
<1> DEFINE Seen(f) ==
             /\ pc'[f] \in Looked =>
                   meta'[f] \in Inode /\ SizeOf[ContentOf[meta'[f]]] = SizeOf[Hash(f)]
             /\ pc'[f] \in Hashed => Alike(hash'[f], Hash(f))
             /\ pc'[f] = "compare" =>
                   /\ lmeta'[f] \in Inode
                   /\ SizeOf[ContentOf[lmeta'[f]]] = SizeOf[hash'[f]] => LinkGood(hash'[f])
             /\ pc'[f] \in {"lock", "chmod", "temp"} => LinkGood(hash'[f])
             /\ hash'[f] \in Content
<1>3. ASSUME NEW f \in File PROVE Seen(f)
  <2> USE DEF Looked, Hashed
  <2>1. /\ at[f] \in Inode /\ ContentOf[at[f]] = Hash(f) /\ Alike(Hash(f), Hash(f))
        /\ \A h \in Content : link[h] # NoInode =>
              link[h] \in Inode /\ (SizeOf[ContentOf[link[h]]] = SizeOf[h] => LinkGood(h))
    BY <1>2, AlikeClasses DEF ContentBase, ContentInv, TypeInv, TypeOK, Hash
  <2>2. pc[f] = "compare" /\ SameSize(lmeta[f], meta[f]) => LinkGood(hash[f])
    <3>1. pc[f] = "compare" => SizeOf[hash[f]] = SizeOf[Hash(f)]
      BY AlikeClasses DEF ContentBase, ContentInv
    <3> QED
      BY <3>1 DEF ContentBase, ContentInv, SameSize
  <2>3. ASSUME NEW g \in File, Task(g) PROVE Seen(f)
    <3>1. pc'[f] \in Looked =>
            meta'[f] \in Inode /\ SizeOf[ContentOf[meta'[f]]] = SizeOf[Hash(f)]
      BY <2>1, <2>3, TaskMoves DEF ContentBase, ContentInv
    <3>2. pc'[f] \in Hashed => Alike(hash'[f], Hash(f))
      BY <2>1, <2>3, TaskMoves DEF ContentBase, ContentInv
    <3>3. hash'[f] \in Content
      BY <1>2, <2>3, TaskMoves DEF ContentBase, TypeInv, TypeOK
    <3>4. pc'[f] = "compare" =>
            /\ lmeta'[f] \in Inode
            /\ SizeOf[ContentOf[lmeta'[f]]] = SizeOf[hash'[f]] => LinkGood(hash'[f])
      BY <2>1, <2>3, <3>3, TaskMoves DEF ContentBase, ContentInv
    <3>5. pc'[f] \in {"lock", "chmod", "temp"} => LinkGood(hash'[f])
      BY <2>2, <2>3, TaskMoves DEF ContentBase, ContentInv
    <3> QED
      BY <3>1, <3>2, <3>3, <3>4, <3>5
  <2>4. CASE Start \/ Finish \/ Killed
    BY <2>4 DEF Start, Finish, Killed, ContentBase, TypeInv, TypeOK
  <2>5. ASSUME Collector \/ Ended \/ UNCHANGED vars \/ \E g \in File : Elsewhere(g)
        PROVE  UNCHANGED <<pc, meta, hash, lmeta>>
    BY <2>5 DEF Collector, ScanStore, SweepTemp, BeginClean, LookAt, UnlinkEntry, EndClean,
                Elsewhere, Ended, taskVars, vars
  <2>6. CASE UNCHANGED <<pc, meta, hash, lmeta>>
    <3>1. hash[f] \in Content
      BY DEF ContentBase, TypeInv, TypeOK
    <3> QED
      BY <2>6, <3>1 DEF ContentBase, ContentInv
  <2> HIDE DEF Seen
  <2> QED
    BY <2>3, <2>4, <2>5, <2>6 DEF Next, Step
<1>4. \A t \in temps' : Alike(ContentOf[t.ino], Hash(t.file)')
  BY TempsStep
<1>5. \A a, b : Alike(a, b)' <=> Alike(a, b)
  BY AlikeFrame
<1>6. \A h \in Content : LinkGood(h) => link'[h] = NoInode \/ Alike(ContentOf[link'[h]], h)
  BY LinkStep DEF LinkGood
<1>7. ASSUME NEW f \in File
      PROVE  /\ pc'[f] \in Looked =>
                   meta'[f] \in Inode /\ SizeOf[ContentOf[meta'[f]]] = SizeOf[Hash(f)']
             /\ pc'[f] \in Hashed => Alike(hash'[f], Hash(f)')
             /\ pc'[f] = "compare" =>
                   /\ lmeta'[f] \in Inode
                   /\ SizeOf[ContentOf[lmeta'[f]]] = SizeOf[hash'[f]] => LinkGood(hash[f])'
             /\ pc'[f] \in {"lock", "chmod", "temp"} => LinkGood(hash[f])'
  <2>1. Alike(Hash(f)', Hash(f)) /\ Alike(Hash(f), Hash(f)') /\ SizeOf[Hash(f)'] = SizeOf[Hash(f)]
    BY <1>2, AlikeClasses
  <2>2. LinkGood(hash'[f]) => LinkGood(hash[f])'
    BY <1>3, <1>5, <1>6 DEF LinkGood
  <2> QED
    BY <1>3, <2>1, <2>2, AlikeClasses
<1> HIDE DEF Seen
<1> QED
  BY <1>1, <1>4, <1>5, <1>7 DEF ContentInv, Looked, Hashed

-------------------------------------------------------------------------------
(* Directories.                                                            *)

LEMMA DirStep == TypeInv /\ DirInv /\ [Next]_vars => DirInv'
<1> SUFFICES ASSUME TypeInv, DirInv, [Next]_vars PROVE DirInv'
  OBVIOUS
<1> USE StoreLinksAssumption
        DEF TypeInv, TypeOK, Replacing, To, At, fsVars, taskVars, gcVars, Toggles
<1>1. ASSUME NEW f \in File, Walk(f) \/ Skip(f) \/ HashFile(f) \/ StatLink(f) \/ CreateLink(f) \/ NoSpace(f)
                             \/ RestatLink(f) \/ Compare(f)
      PROVE  DirInv'
  <2>1. /\ pc[f] \notin Replacing /\ pc' = [pc EXCEPT ![f] = pc'[f]] /\ pc'[f] \notin Replacing
        /\ proc = "running" /\ UNCHANGED <<writable, left, mutex, proc>>
    BY <1>1 DEF Walk, Skip, HashFile, StatLink, CreateLink, NoSpace, RestatLink, Compare
  <2> QED
    BY <2>1 DEF DirInv
<1>2. ASSUME NEW f \in File, LockDir(f) PROVE DirInv'
  BY <1>2 DEF LockDir, DirInv
<1>3. ASSUME NEW f \in File, MakeWritable(f) \/ ChmodFails(f) PROVE DirInv'
  BY <1>3 DEF MakeWritable, ChmodFails, DirInv
<1>4. ASSUME NEW f \in File, LinkTemp(f) \/ TooManyLinks(f) \/ Rename(f) PROVE DirInv'
  <2>1. /\ pc[f] \in {"temp", "rename"} /\ pc' = [pc EXCEPT ![f] = pc'[f]]
        /\ pc'[f] \in {"rename", "restore"} \/ (pc'[f] = "done" /\ ~Toggles(f))
        /\ pc'[f] = "restore" => Toggles(f)
        /\ proc = "running" /\ UNCHANGED <<writable, left, mutex, proc>>
    BY <1>4 DEF LinkTemp, TooManyLinks, Rename, AfterReplace
  <2> QED
    BY <2>1 DEF DirInv
<1>5. ASSUME NEW f \in File, Restore(f) \/ RestoreFails(f) PROVE DirInv'
  BY <1>5 DEF Restore, RestoreFails, DirInv
<1>6. ASSUME NEW f \in File, Unlock(f) PROVE DirInv'
  BY <1>6 DEF Unlock, DirInv
<1>7. CASE Start
  BY <1>7 DEF Start, DirInv
<1>8. CASE Finish
  BY <1>8 DEF Finish, DirInv
<1>9. CASE Killed
  BY <1>9 DEF Killed, DirInv
<1>10. ASSUME Collector \/ Ended \/ UNCHANGED vars \/ \E g \in File : Elsewhere(g)
       PROVE  DirInv'
  <2>1. UNCHANGED <<pc, writable, left, mutex, proc>>
    BY <1>10 DEF Collector, ScanStore, SweepTemp, BeginClean, LookAt, UnlinkEntry, EndClean,
                 Elsewhere, Ended, vars
  <2> QED
    BY <2>1 DEF DirInv
<1> QED
  BY <1>1, <1>2, <1>3, <1>4, <1>5, <1>6, <1>7, <1>8, <1>9, <1>10 DEF Next, Step, Task

-------------------------------------------------------------------------------
LEMMA LinksStep == LinksInv /\ [Next]_vars => LinksInv'
  BY TypeStep, ContentStep, DirStep DEF LinksInv, ContentBase

THEOREM StoreLinksInvariant == Spec => []LinksInv
  BY InitLinks, LinksStep, PTL DEF Spec

\* No step of the optimiser, of another one or of the collector changes the size of
\* a file of the store, or what it holds unless an entry damaged at the same size
\* confuses its content with another.
THEOREM NoContentLost == Spec => ContentKept
<1> DEFINE Kept == \A f \in File : /\ SizeOf[Hash(f)'] = SizeOf[Hash(f)]
                                   /\ ~Confused(Hash(f)) => Hash(f)' = Hash(f)
<1>1. LinksInv /\ [Next]_vars => Kept
  BY HashAlike, AlikeClasses DEF LinksInv, ContentBase, Alike
<1>2. LinksInv /\ [Next]_vars => [Kept]_vars
  BY <1>1
<1> QED
  BY <1>2, StoreLinksInvariant, PTL DEF Spec, ContentKept

\* Directories are open only under their mutex, or after a kill or a failed
\* restore; a task that is about to rename finds its own open.
THEOREM DirectoriesSealed == Spec => []DirSealed
<1>1. LinksInv => DirSealed
  BY DEF LinksInv, DirInv, DirSealed, At
<1> QED
  BY <1>1, StoreLinksInvariant, PTL

-------------------------------------------------------------------------------
(* Sharing.                                                                *)

\* The file names the inode of its content's entry, or that of a damaged one.
Linked(f) == at[f] = link[Hash(f)] \/ \E x \in damage : x.ino = at[f]

\* A task has no temporary link before it makes one, of this run or a later one.
TempInv ==
    /\ IsFiniteSet(temps)
    /\ \A t \in temps : t.run <= runs
    /\ proc = "running" =>
          \A f \in File : pc[f] \notin {"rename", "restore", "unlock", "done"} => TempsOf(f) = {}

\* An entry that is not what its name says was so at the start.
TornInv == \A h \in Content : LinkGood(h) \/ \E x \in damage : x.ino = link[h]

\* How a task without a reason to skip its file stands to the entry: what it has
\* seen may have aged, but then the file is linked already.
Shared(f) ==
    /\ proc = "running" =>
          /\ at[f] \in known => Linked(f)
          /\ pc[f] \in Looked => at[f] = meta[f] \/ Linked(f)
          /\ pc[f] = "compare" /\ lmeta[f] = meta[f] => Linked(f)
          /\ pc[f] = "rename" => \A t \in TempsOf(f) : t.ino = link[Hash(f)]
          /\ pc[f] \in {"restore", "unlock", "done"} => Linked(f)
    /\ proc = "idle" /\ runs > 0 => Linked(f)

SharedInv == \A f \in File \ skipped : Confused(Hash(f)) \/ Shared(f)

IInv == LinksInv /\ TempInv /\ TornInv /\ SharedInv

LEMMA InitShared == Init => TempInv /\ TornInv /\ SharedInv
<1> SUFFICES ASSUME Init PROVE TempInv /\ TornInv /\ SharedInv
  OBVIOUS
<1>1. TempInv
  BY FS_EmptySet DEF Init, TempInv, TempsOf
<1>2. TornInv
  <2> SUFFICES ASSUME NEW h \in Content, ~LinkGood(h)
               PROVE  \E x \in damage : x.ino = link[h]
    BY DEF TornInv
  <2>1. link[h] \in Inode /\ ContentOf[link[h]] # h
    BY AlikeClasses DEF Init, LinkGood
  <2>2. [name |-> h, ino |-> link[h]] \in damage
    BY <2>1 DEF Init
  <2> QED
    BY <2>2
<1>3. SharedInv
  BY DEF Init, SharedInv, Shared, Looked
<1> QED
  BY <1>1, <1>2, <1>3

\* An entry with a link count of one is the only name of its inode.
LEMMA UnsharedEntry ==
    ASSUME IInv, NEW h \in Content, link[h] # NoInode, ~(Nlink(link[h]) > 1)
    PROVE  /\ \A f \in File : at[f] # link[h]
           /\ \A t \in temps : t.ino # link[h]
<1> DEFINE files   == {f \in File : at[f] = link[h]}
           entries == {k \in Content : link[k] = link[h]}
           others  == {t \in temps : t.ino = link[h]}
<1>1. IsFiniteSet(files) /\ IsFiniteSet(entries) /\ IsFiniteSet(others)
  BY StoreLinksAssumption, FS_Subset DEF IInv, TempInv
<1>2. Nlink(link[h]) = Cardinality(files) + Cardinality(entries) + Cardinality(others)
  BY DEF Nlink
<1>3. h \in entries
  OBVIOUS
<1>4. files = {} /\ others = {}
  <2> HIDE DEF files, entries, others
  <2>1. /\ Cardinality(files) \in Nat /\ (Cardinality(files) = 0 <=> files = {})
        /\ Cardinality(entries) \in Nat /\ (Cardinality(entries) = 0 <=> entries = {})
        /\ Cardinality(others) \in Nat /\ (Cardinality(others) = 0 <=> others = {})
    BY <1>1, FS_CardinalityType, FS_EmptySet
  <2> QED
    BY <1>2, <1>3, <2>1
<1> QED
  BY <1>4

\* A content that nothing confuses is kept, and its file's hash is of it.
LEMMA ClearContent ==
    ASSUME IInv, NEW f \in File, ~Confused(Hash(f))
    PROVE  /\ [Next]_vars => Hash(f)' = Hash(f)
           /\ pc[f] \in Hashed => hash[f] = Hash(f)
  BY HashAlike DEF IInv, LinksInv, ContentBase, ContentInv, Alike, Hashed

\* A file names what it named, or the entry of its content.
LEMMA AtStep ==
    ASSUME IInv, [Next]_vars, NEW f \in File, f \notin skipped, ~Confused(Hash(f))
    PROVE  at'[f] = at[f] \/ (at'[f] = link[Hash(f)] /\ link' = link)
<1> USE DEF IInv, LinksInv, TypeInv, TypeOK
<1>1. ASSUME NEW g \in File, Rename(g)
      PROVE  at'[f] = at[f] \/ (at'[f] = link[Hash(f)] /\ link' = link)
  <2>1. CASE at' = at
    BY <2>1
  <2>2. CASE at' # at
    <3>1. PICK t \in TempsOf(g) : at' = [at EXCEPT ![g] = t.ino] /\ link' = link
      BY <1>1, <2>2 DEF Rename
    <3>2. g = f => t.ino = link[Hash(f)]
      BY <1>1, <3>1 DEF Rename, At, SharedInv, Shared
    <3> QED
      BY <3>1, <3>2
  <2> QED
    BY <2>1, <2>2
<1>2. ASSUME NEW g \in File, Elsewhere(g)
      PROVE  at'[f] = at[f] \/ (at'[f] = link[Hash(f)] /\ link' = link)
  BY <1>2 DEF Elsewhere
<1>3. ASSUME NEW g \in File, Task(g), ~Rename(g) PROVE at' = at
  BY <1>3 DEF Task, Walk, Skip, HashFile, StatLink, CreateLink, NoSpace, RestatLink, Compare, LockDir,
              MakeWritable, ChmodFails, LinkTemp, TooManyLinks, Restore, RestoreFails, Unlock, fsVars
<1>4. CASE Start \/ Finish \/ Killed \/ Collector \/ Ended \/ UNCHANGED vars
  BY <1>4 DEF Start, Finish, Killed, Collector, ScanStore, SweepTemp, BeginClean, LookAt,
              UnlinkEntry, EndClean, Ended, fsVars, vars
<1> QED
  BY <1>1, <1>2, <1>3, <1>4 DEF Next, Step

\* An entry that has another name stays, or its files are skipped.
LEMMA EntryStays ==
    ASSUME IInv, [Next]_vars, NEW f \in File, f \notin skipped', link[Hash(f)] # NoInode,
           at[f] = link[Hash(f)] \/ \E t \in temps : t.ino = link[Hash(f)]
    PROVE  link'[Hash(f)] = link[Hash(f)]
<1> USE DEF IInv, LinksInv, TypeInv, TypeOK
<1>1. Hash(f) \in Content
  BY StoreLinksAssumption DEF Hash
<1>2. ASSUME NEW g \in File, CreateLink(g) PROVE link'[Hash(f)] = link[Hash(f)]
  BY <1>1, <1>2 DEF CreateLink
<1>3. ASSUME NEW g \in File, Task(g), ~CreateLink(g) PROVE link' = link
  BY <1>3 DEF Task, Walk, Skip, HashFile, StatLink, NoSpace, RestatLink, Compare, LockDir,
              MakeWritable, ChmodFails, LinkTemp, TooManyLinks, Rename, Restore, RestoreFails, Unlock, fsVars
<1>4. ASSUME NEW h \in Content, UnlinkEntry(h) PROVE link'[Hash(f)] = link[Hash(f)]
  <2>1. CASE h = Hash(f)
    <3>1. Nlink(link[h]) > 1
      BY <2>1, UnsharedEntry
    <3>2. f \in skipped'
      BY <1>4, <2>1, <3>1 DEF UnlinkEntry
    <3> QED
      BY <3>2
  <2>2. CASE h # Hash(f)
    BY <1>1, <1>4, <2>2 DEF UnlinkEntry
  <2> QED
    BY <2>1, <2>2
<1>5. CASE Start \/ Finish \/ Killed \/ ScanStore \/ BeginClean \/ EndClean \/ Ended \/ UNCHANGED vars
  BY <1>5 DEF Start, Finish, Killed, ScanStore, BeginClean, EndClean, Ended, fsVars, vars
<1>6. ASSUME \/ \E g \in File : Elsewhere(g)
             \/ \E t \in doomed : SweepTemp(t)
             \/ \E h \in Content : LookAt(h)
      PROVE  link' = link
  BY <1>6 DEF Elsewhere, SweepTemp, LookAt, fsVars
<1> QED
  BY <1>2, <1>3, <1>4, <1>5, <1>6 DEF Next, Step, Collector

\* A file once linked stays so, or is skipped.
LEMMA LinkedStays ==
    ASSUME IInv, [Next]_vars, NEW f \in File, f \notin skipped, f \notin skipped',
           ~Confused(Hash(f))
    PROVE  /\ Linked(f) => Linked(f)'
           /\ at'[f] = at[f] \/ Linked(f)'
<1> USE DEF Linked
<1>1. Hash(f)' = Hash(f) /\ damage' = damage
  BY ClearContent, AlikeFrame
<1>2. at[f] # NoInode
  BY StoreLinksAssumption DEF IInv, LinksInv, TypeInv, TypeOK
<1>3. at'[f] = at[f] \/ (at'[f] = link[Hash(f)] /\ link' = link)
  BY AtStep
<1>4. at[f] = link[Hash(f)] => link'[Hash(f)] = link[Hash(f)]
  BY <1>2, EntryStays
<1> QED
  BY <1>1, <1>3, <1>4

LEMMA TempStep == IInv /\ [Next]_vars => TempInv'
<1> SUFFICES ASSUME IInv, [Next]_vars PROVE TempInv'
  OBVIOUS
<1> USE DEF IInv, LinksInv, TypeInv, TypeOK, To, At
<1> DEFINE Early(f) == pc[f] \notin {"rename", "restore", "unlock", "done"}
<1>1. runs \in Nat /\ \A t \in temps : t.run \in Nat /\ t.run <= runs
  BY StoreLinksAssumption DEF TempInv, Temp
<1>2. ASSUME NEW g \in File, LinkTemp(g) PROVE TempInv'
  <2> DEFINE t == [run |-> runs, file |-> g, ino |-> link[hash[g]]]
  <2>1. temps' \subseteq temps \cup {t} /\ t.run = runs /\ t.file = g
    BY <1>2 DEF LinkTemp
  <2> HIDE DEF t
  <2>2. IsFiniteSet(temps')
    BY <2>1, FS_AddElement, FS_Subset DEF TempInv
  <2>3. /\ UNCHANGED <<proc, runs>> /\ pc'[g] \in {"rename", "restore", "done"}
        /\ \A f \in File \ {g} : pc'[f] = pc[f]
    BY <1>2 DEF LinkTemp, AfterReplace
  <2> QED
    BY <1>1, <2>1, <2>2, <2>3 DEF TempInv, TempsOf
<1>3. ASSUME temps' \subseteq temps, UNCHANGED <<proc, runs>>,
             \A f \in File : Early(f)' => Early(f)
      PROVE  TempInv'
  <2>1. IsFiniteSet(temps')
    BY <1>3, FS_Subset DEF TempInv
  <2> QED
    BY <1>3, <2>1 DEF TempInv, TempsOf
<1>4. ASSUME NEW g \in File, Task(g), ~LinkTemp(g) PROVE TempInv'
  <2>1. temps' \subseteq temps /\ UNCHANGED <<proc, runs>>
    BY <1>4 DEF Task, Walk, Skip, HashFile, StatLink, CreateLink, NoSpace, RestatLink, Compare, LockDir,
                MakeWritable, ChmodFails, TooManyLinks, Rename, Restore, RestoreFails, Unlock, fsVars
  <2>2. \A f \in File : Early(f)' => Early(f)
    <3>1. CASE Walk(g) \/ Skip(g) \/ HashFile(g) \/ StatLink(g) \/ CreateLink(g) \/ NoSpace(g) \/ RestatLink(g)
      BY <3>1 DEF Walk, Skip, HashFile, StatLink, CreateLink, NoSpace, RestatLink
    <3>2. CASE Compare(g) \/ LockDir(g) \/ MakeWritable(g) \/ ChmodFails(g) \/ TooManyLinks(g)
      BY <3>2 DEF Compare, LockDir, MakeWritable, ChmodFails, TooManyLinks, AfterReplace
    <3>3. CASE Rename(g) \/ Restore(g) \/ RestoreFails(g) \/ Unlock(g)
      BY <3>3 DEF Rename, Restore, RestoreFails, Unlock, AfterReplace
    <3> QED
      BY <1>4, <3>1, <3>2, <3>3 DEF Task
  <2> QED
    BY <1>3, <2>1, <2>2
<1>5. CASE Start
  BY <1>1, <1>5 DEF Start, TempInv, TempsOf, fsVars
<1>6. CASE Finish \/ Killed
  BY <1>6 DEF Finish, Killed, TempInv, fsVars
<1>7. CASE Collector \/ Ended \/ UNCHANGED vars \/ \E g \in File : Elsewhere(g)
  <2>1. temps' \subseteq temps /\ UNCHANGED <<proc, runs, pc>>
    BY <1>7 DEF Collector, ScanStore, SweepTemp, BeginClean, LookAt, UnlinkEntry, EndClean,
                Elsewhere, Ended, fsVars, taskVars, vars
  <2> QED
    BY <1>3, <2>1
<1> QED
  BY <1>2, <1>4, <1>5, <1>6, <1>7 DEF Next, Step

\* No step makes a bad entry.
LEMMA TornStep == IInv /\ [Next]_vars => TornInv'
<1> SUFFICES ASSUME IInv, [Next]_vars, NEW h \in Content, ~LinkGood(h)'
             PROVE  \E x \in damage' : x.ino = link'[h]
  BY DEF TornInv
<1>1. ~LinkGood(h) /\ damage' = damage
  BY LinksStayGood, AlikeFrame DEF IInv, LinksInv, ContentBase
<1>2. link'[h] # NoInode /\ ~Alike(ContentOf[link'[h]], h)
  BY AlikeFrame DEF LinkGood
<1>3. link'[h] = link[h]
  BY <1>2, LinkStep DEF IInv, LinksInv, ContentBase
<1> QED
  BY <1>1, <1>3 DEF IInv, TornInv

\* A step that leaves a task where it is keeps what the task has seen true.
LEMMA SharedFrame ==
    ASSUME IInv, [Next]_vars, NEW f \in File, f \notin skipped, f \notin skipped',
           ~Confused(Hash(f)),
           UNCHANGED <<proc, runs, known, pc[f], meta[f], lmeta[f]>>, TempsOf(f)' \subseteq TempsOf(f)
    PROVE  Shared(f)'
<1>1. Shared(f) /\ Hash(f)' = Hash(f)
  BY ClearContent DEF IInv, SharedInv
<1>2. (Linked(f) => Linked(f)') /\ (at'[f] = at[f] \/ Linked(f)')
  BY LinkedStays
<1>3. ASSUME proc = "running", pc[f] = "rename", NEW t \in TempsOf(f)
      PROVE  t.ino = link'[Hash(f)]
  <2>1. t \in temps /\ t.ino = link[Hash(f)] /\ t.ino # NoInode
    BY <1>1, <1>3, StoreLinksAssumption
    DEF Shared, TempsOf, Temp, IInv, LinksInv, TypeInv, TypeOK
  <2> QED
    BY <2>1, EntryStays
<1> QED
  BY <1>1, <1>2, <1>3 DEF Shared, Looked

\* A task's own step.
LEMMA SharedOwnStep ==
    ASSUME IInv, NEW f \in File, Task(f), damage' = damage, f \notin skipped, f \notin skipped',
           ~Confused(Hash(f))
    PROVE  Shared(f)'
<1> USE DEF IInv, LinksInv, TypeInv, TypeOK, To, At
<1>1. Next
  BY DEF Next, Step
<1>2. Shared(f) /\ Hash(f)' = Hash(f) /\ (pc[f] \in Hashed => hash[f] = Hash(f))
  BY <1>1, ClearContent DEF SharedInv
<1>3. (Linked(f) => Linked(f)') /\ (at'[f] = at[f] \/ Linked(f)')
  BY <1>1, LinkedStays
<1>4. proc = "running" /\ UNCHANGED <<proc, runs, known>>
  BY DEF Task, Walk, Skip, HashFile, StatLink, CreateLink, NoSpace, RestatLink, Compare, LockDir,
         MakeWritable, ChmodFails, LinkTemp, TooManyLinks, Rename, Restore, RestoreFails, Unlock
<1>5. at'[f] \in known => Linked(f)'
  BY <1>2, <1>3, <1>4 DEF Shared
<1>6. CASE Walk(f) \/ HashFile(f)
  BY <1>2, <1>3, <1>4, <1>5, <1>6 DEF Walk, HashFile, Shared, Looked, fsVars
<1>7. CASE Skip(f) \/ NoSpace(f) \/ TooManyLinks(f)
  BY <1>7 DEF Skip, NoSpace, TooManyLinks
<1>8. CASE StatLink(f) \/ RestatLink(f)
  <2>1. UNCHANGED <<at, link>> /\ (pc'[f] \in {"create", "compare"} => meta'[f] = meta[f])
    BY <1>8 DEF StatLink, RestatLink, fsVars
  <2>2. pc'[f] = "compare" => lmeta'[f] = link[Hash(f)]
    BY <1>2, <1>8 DEF StatLink, RestatLink, Hashed
  <2>3. pc'[f] \in {"create", "compare"}
    BY <1>8 DEF StatLink, RestatLink
  <2>4. pc[f] \in {"stat", "restat"}
    BY <1>8 DEF StatLink, RestatLink
  <2>5. at[f] = meta[f] \/ Linked(f)
    BY <1>2, <1>4, <2>4 DEF Shared, Looked
  <2>6. pc'[f] = "compare" /\ lmeta'[f] = meta'[f] => Linked(f)'
    BY <1>3, <2>1, <2>2, <2>5 DEF Linked
  <2> QED
    BY <1>3, <1>4, <1>5, <2>1, <2>3, <2>5, <2>6 DEF Shared, Looked
<1>9. CASE CreateLink(f)
  <2>1. pc[f] = "create" /\ pc'[f] = "restat" /\ UNCHANGED <<at, meta>>
    BY <1>9 DEF CreateLink
  <2> QED
    BY <1>2, <1>3, <1>4, <1>5, <2>1 DEF Shared, Looked
<1>10. CASE Compare(f)
  <2>1. pc[f] = "compare" /\ (pc'[f] = "lock" \/ (pc'[f] = "done" /\ lmeta[f] = meta[f]))
    BY <1>10 DEF Compare
  <2> QED
    BY <1>2, <1>3, <1>4, <1>5, <2>1 DEF Shared, Looked
<1>11. CASE LockDir(f) \/ MakeWritable(f) \/ ChmodFails(f)
  <2>1. pc'[f] \in {"chmod", "temp"}
    BY <1>11 DEF LockDir, MakeWritable, ChmodFails
  <2> QED
    BY <1>4, <1>5, <2>1 DEF Shared, Looked
<1>12. CASE LinkTemp(f)
  <2>1. /\ pc[f] = "temp" /\ pc'[f] = "rename" /\ link' = link
        /\ temps' = temps \cup {[run |-> runs, file |-> f, ino |-> link[Hash(f)]]}
    BY <1>2, <1>12 DEF LinkTemp, Hashed
  <2>2. TempsOf(f) = {}
    BY <1>4, <2>1 DEF TempInv
  <2>3. \A t \in TempsOf(f)' : t.ino = link[Hash(f)]
    BY <1>4, <2>1, <2>2 DEF TempsOf
  <2> QED
    BY <1>2, <1>4, <1>5, <2>1, <2>3 DEF Shared, Looked
<1>13. CASE Rename(f)
  <2>1. pc[f] = "rename" /\ link' = link /\ pc'[f] \in {"restore", "done"}
    BY <1>13 DEF Rename, AfterReplace
  <2>2. Toggles(f) => ParentOf[f] \in writable
    BY <2>1 DEF DirInv
  <2>3. PICK t \in TempsOf(f) : at' = [at EXCEPT ![f] = t.ino]
    BY <1>13, <2>2 DEF Rename
  <2>4. t.ino = link[Hash(f)]
    BY <1>2, <1>4, <2>1 DEF Shared
  <2>5. Linked(f)'
    BY <1>2, <2>1, <2>3, <2>4 DEF Linked
  <2> QED
    BY <1>4, <2>1, <2>5 DEF Shared, Looked
<1>14. CASE Restore(f) \/ RestoreFails(f) \/ Unlock(f)
  <2>1. pc[f] \in {"restore", "unlock"} /\ pc'[f] \in {"unlock", "done"}
    BY <1>14 DEF Restore, RestoreFails, Unlock
  <2> QED
    BY <1>2, <1>3, <1>4, <1>5, <2>1 DEF Shared, Looked
<1> QED
  BY <1>6, <1>7, <1>8, <1>9, <1>10, <1>11, <1>12, <1>13, <1>14 DEF Task

LEMMA SharedStep == IInv /\ [Next]_vars => SharedInv'
<1> SUFFICES ASSUME IInv, [Next]_vars PROVE SharedInv'
  OBVIOUS
<1> SUFFICES ASSUME NEW f \in File, f \notin skipped', ~Confused(Hash(f)) PROVE Shared(f)'
  <2>1. ASSUME NEW f \in File, Confused(Hash(f)) PROVE Confused(Hash(f)')
    BY <2>1, HashAlike DEF IInv, LinksInv, ContentBase, Alike
  <2>2. \A c : Confused(c)' <=> Confused(c)
    BY AlikeFrame
  <2> QED
    BY <2>1, <2>2 DEF SharedInv
<1> USE DEF IInv, LinksInv, TypeInv, TypeOK, To, At
<1>6. damage' = damage
  BY AlikeFrame
<1>1. CASE Start
  <2>1. /\ known' = {link[h] : h \in Content} \ {NoInode} /\ proc' = "running"
        /\ pc'[f] = "walk" /\ UNCHANGED <<at, link>>
    BY <1>1 DEF Start, fsVars
  <2>2. ASSUME NEW h \in Content, at[f] = link[h] PROVE Linked(f)
    <3>1. CASE LinkGood(h)
      <4>1. Alike(Hash(f), h)
        BY <2>2, <3>1, StoreLinksAssumption DEF LinkGood, Hash
      <4> QED
        BY <2>2, <4>1 DEF Linked, Alike
    <3>2. CASE ~LinkGood(h)
      BY <2>2, <3>2 DEF TornInv, Linked
    <3> QED
      BY <3>1, <3>2
  <2> QED
    BY <1>6, <2>1, <2>2 DEF Shared, Linked, Hash, Looked
<1>2. CASE Killed
  BY <1>2 DEF Killed, Shared
<1>3. CASE Finish
  <2>1. /\ proc = "running" /\ proc' = "idle" /\ pc[f] = "done" /\ f \notin skipped
        /\ UNCHANGED <<at, link>>
    BY <1>3 DEF Finish, fsVars
  <2>2. Linked(f)
    BY <2>1 DEF SharedInv, Shared
  <2> QED
    BY <1>6, <2>1, <2>2 DEF Shared, Linked, Hash
<1>4. ASSUME NEW g \in File, Task(g) PROVE Shared(f)'
  <2>1. f \notin skipped
    BY <1>4 DEF Task, Walk, Skip, HashFile, StatLink, CreateLink, NoSpace, RestatLink, Compare, LockDir,
                MakeWritable, ChmodFails, LinkTemp, TooManyLinks, Rename, Restore, RestoreFails, Unlock
  <2>2. CASE g = f
    BY <1>4, <1>6, <2>1, <2>2, SharedOwnStep
  <2>3. CASE g # f
    <3>1. UNCHANGED <<proc, runs, known, pc[f], meta[f], lmeta[f]>>
      BY <1>4, <2>3 DEF Task, Walk, Skip, HashFile, StatLink, CreateLink, NoSpace, RestatLink, Compare,
                LockDir, MakeWritable, ChmodFails, LinkTemp, TooManyLinks, Rename, Restore, RestoreFails, Unlock
    <3>2. \A t \in temps' \ temps : t.file = g
      BY <1>4 DEF Task, Walk, Skip, HashFile, StatLink, CreateLink, NoSpace, RestatLink, Compare,
                LockDir, MakeWritable, ChmodFails, LinkTemp, TooManyLinks, Rename, Restore, RestoreFails, Unlock, fsVars
    <3>3. TempsOf(f)' \subseteq TempsOf(f)
      BY <2>3, <3>1, <3>2 DEF TempsOf
    <3> QED
      BY <2>1, <3>1, <3>3, SharedFrame
  <2> QED
    BY <2>2, <2>3
<1>5. CASE Collector \/ Ended \/ UNCHANGED vars \/ \E g \in File : Elsewhere(g)
  <2>1. /\ UNCHANGED <<proc, runs, known, pc, meta, lmeta>> /\ temps' \subseteq temps
        /\ f \notin skipped
    BY <1>5 DEF Collector, ScanStore, SweepTemp, BeginClean, LookAt, UnlinkEntry, EndClean,
                Elsewhere, Ended, fsVars, taskVars, vars
  <2>2. TempsOf(f)' \subseteq TempsOf(f)
    BY <2>1 DEF TempsOf
  <2> QED
    BY <2>1, <2>2, SharedFrame
<1> QED
  BY <1>1, <1>2, <1>3, <1>4, <1>5 DEF Next, Step

THEOREM SharingInvariant == Spec => []IInv
<1>1. Init => IInv
  BY InitLinks, InitShared DEF IInv
<1>2. IInv /\ [Next]_vars => IInv'
  BY LinksStep, TempStep, TornStep, SharedStep DEF IInv
<1> QED
  BY <1>1, <1>2, PTL DEF Spec

\* A run that ends has linked all files of one content that it had no reason to skip,
\* for any files, entries and inodes, whatever its siblings, another optimiser and
\* the collector did to them in the meantime; contents that a damaged entry confuses
\* and files that share the inode of one are left out.
THEOREM RunsDeduplicate == Spec => []Deduped
<1>1. IInv => Deduped
  BY DEF IInv, SharedInv, Shared, Linked, Deduped
<1> QED
  BY <1>1, SharingInvariant, PTL
===============================================================================
