# fast-nix-gc in TLA+

TLA+ models of fast-nix-gc, the TLC configurations that check them on small
instances, and theorems about them checked by TLAPS. Every definition is
translated from the Rust source; `PROJECT.json` names the lines (`map`), the
runs, the hazards the properties are aimed at and the theorems. Paths below are
relative to the repository.

## The system

fast-nix-gc deletes from a Nix store what no root needs. It runs beside Nix:
builders go on registering and building paths while it deletes. A second
program, fast-nix-optimise, replaces equal files of the store by hard links.

| Component | State it keeps | Operations | Correct when |
|---|---|---|---|
| store graph (`common/src/db.rs`) | immutable CSR arrays, one node per `ValidPaths` row of the snapshot | `load_graph`, `refs`, `compute_closure` | the edges are the ones the keep-* settings ask for; the closure is exactly what the roots reach |
| database (`common/src/db.rs`) | `ValidPaths`, `Refs`, realisations | `invalidate_ids`, `is_valid_path`, `maybe_vacuum` | at every commit the valid paths are closed under references and each has its files |
| LiveSet (`gc/src/gc_socket.rs`) | `protected`, `protected_unknown`, `pending_nodes`, `pending_unknown`, `cancelled` under one mutex, and a condition variable | `protect`, `claim_nodes`, `end_delete_*`, `try_begin_delete_unknown`, `cancel` | an ack means: nothing in the closure is deleted from now on; nobody waits for ever |
| gc-socket server (`gc/src/gc_socket.rs`) | listener, accept thread, one handler thread per connection, shutdown flag | `start`, `accept_loop`, `handle_client`, `drop` | no handler runs after `drop`, and `drop` returns |
| deletion order (`gc/src/gc.rs`) | `in_degree`, `order`, `acyclic_len`, `cursor`, `chunk` | Kahn's queue, the chunk loop | a chunk may be committed on its own; cycles go whole; limits are kept |
| deletion phase (`gc/src/gc.rs`) | the chunk, the unknown entries, bytes freed | claim, prune, invalidate, unlink, recheck, unlink unknown | the acks, the database and the builders' directories survive it, and it collects what it should |
| GC startup (`gc/src/gc.rs`) | `gc.lock`, early server, snapshot, roots | reserve file, lock, early socket, `load_graph`, replay, root scans, disk scan | no root that existed before the lock, or was acked after it, is missed |
| temp roots client (`common/src/temp_roots.rs`) | `temproots/<pid>` under flock, its offset, the connection | `create`, `add`, `notify_gc` | a root that `add` has returned for is seen by every collector |
| temp roots scan (`gc/src/roots.rs`) | none | `find_temp_roots` | a living process's file is read, never removed |
| root scan (`gc/src/roots.rs`) | none | `find_roots`, indirect roots, stale auto links, the scan of running processes | every root that stays put is found and keeps its link |
| profiles (`gc/src/profiles.rs`) | generation links, `<profile>.lock` | `delete_old_generations`, `delete_generations_older_than`, `ProfileLock` | the current generation stays; the lock excludes and is released |
| links (`gc/src/gc.rs`, `optimise/src/optimise.rs`) | `.links` entries and link counts | `clean_links`, `optimise_file`, `replace_with_link` | contents never change; modes are restored; no link is removed while in use |
| optimiser pipeline (`optimise/src/optimise.rs`) | two semaphores, a bounded channel, the temp roots it holds | producer, walks, receiving loop, workers | it ends, also on errors; what it works on stays rooted; memory is bounded |
| command line, nix.conf, logging, vacuum, mount namespace, NAR hash | none worth a model | | |

How they interact. `collect_garbage` takes `gc.lock`, serves the socket, loads
the graph into an `Arc` shared with the handler threads, computes the closure of
all roots and deletes the rest. The LiveSet is the one piece of state that the
deletion loop (itself parallel: rayon workers) and the handlers share. Builders
see the collector through `gc.lock`, the socket, the database and the file
system only. The server goes away (joined) before the lock is released: locals
drop in reverse order.

What is hard. The order of claim, commit and unlink against a `protect()` that
may fall anywhere in between; overlapping closures; a condition variable with
several waiters; teardown with sleepers; a crash or an error with a chunk half
done; entries without a row that get one meanwhile; cycles; the limits of the
chunk loop; and a startup that reads one source of roots after another while
they change. Names against inodes, in three protocols: a temproots file, a profile lock
and a `.links` entry may each be unlinked and made anew between two system calls of
a process that has the old one open. `PROJECT.json` lists each at its line under `hazards`.

## Modules

| Module | Models | Extends |
|---|---|---|
| `StoreGraph` | operators: closure, referrers, cyclic tail, the next chunk | |
| `ClosureWalk` | `compute_closure` as the worklist it is | `StoreGraph` |
| `LoadGraph` | `load_graph`: the transaction, its queries, the CSR arrays, and the walk on the result | `ClosureWalk` |
| `MCLoadGraph` | the databases to try | `LoadGraph` |
| `LoadGraphProofs` | the walk computes `Closure`, and the arrays it walks list what Nix keeps | `LoadGraph` |
| `GcSocket` | LiveSet, server, handler threads, teardown: one operator per critical section | `StoreGraph` |
| `GcDelete` | the deletion phase composed with `GcSocket` and with builders | `GcSocket` |
| `MCGcDelete` | three small stores for TLC | `GcDelete` |
| `GcDeleteProofs` | the inductive invariant and what follows from it | `GcDelete` |
| `GcStartup` | the collection from `gc.lock` to the first deletion, against `TempRoots::add` and builders | `StoreGraph` |
| `MCGcStartup` | its instance for TLC | `GcStartup` |
| `GcStartupProofs` | the account of roots, and what follows from it | `GcStartup` |
| `ChunkedSweep` | abstract: the dead nodes go in pieces that may be committed one by one | `StoreGraph` |
| `DeletionOrder` | Kahn's queue and the chunk cursor, refining `ChunkedSweep` | `StoreGraph` |
| `MCDeletionOrder` | its instance for TLC | `DeletionOrder` |
| `DeletionOrderProofs` | the order, the chunks and the refinement | `DeletionOrder` |
| `TempRootsFile` | the temproots files over successive collections: `TempRoots` against `find_temp_roots` | |
| `TempRootsFileProofs` | the marker protocol and the scan | `TempRootsFile` |
| `Profiles` | `ProfileLock` and the deletion of generations against nix-env | |
| `RootScan` | `find_roots`: gcroots, the profile directory, running processes | `Profiles` |
| `MCRootScan` | its instance for TLC | `RootScan` |
| `RootScanProofs` | mutual exclusion; the generations that stay; the roots the scan finds | `RootScan` |
| `StoreLinks` | files, `.links` and temporary links: the optimiser's work on one file against `clean_links` and the sweep | |
| `MCStoreLinks` | its instance for TLC | `StoreLinks` |
| `StoreLinksProofs` | contents are kept, directories sealed, equal files linked together | `StoreLinks` |
| `OptimisePipeline` | producer, walks, channel, loop and workers of `optimise_store` | |
| `MCOptimisePipeline` | its instance for TLC | `OptimisePipeline` |
| `OptimisePipelineProofs` | paths at work are kept, lists bounded | `OptimisePipeline` |

### StoreGraph and ClosureWalk

A graph is a function from nodes to the set of nodes they reference.
`Closure(E, roots)` is the intersection of the closed supersets of `roots`: no
recursion, so the proofs can use it, and TLC evaluates it on small sets.
`ClosureWalk` marks and pushes as the code does. The stack is a set because a
node is marked before it is pushed, hence never twice on it; which node is popped
is left open, so the result holds for every order.

`protect()` walks with a `seen` set of its own instead of the flags (a node an
earlier call flagged must still be scanned for pending ones); it is modelled by
its result, `Reach[p]`.

### LoadGraph

Each query of `load_graph` is a step (`Query`, once for each of the five), and so is
the read of the nodes, which takes the transaction's snapshot (`Visible`). In between Nix may
commit: it registers a path or invalidates one. The arrays `ref_offsets` and
`ref_targets` are computed as the code computes them, from the edges in the order
they were read; the order of the rows of one query is SQLite's (`Listed`, a constant). `Keeps` is the reference definition, from the comment on the edge directions:
what Nix keeps for an alive path under the two settings. Rows have no id of their own here, since
every query joins ids with paths of the same snapshot.

### GcSocket

The variables of `LiveInner` keep their names (`pendingNodes`, ...). The mutex is
not a variable: everything a critical section does is one operator. A thread in
`protect()` is a `handler` state: it computes and marks, then is `"asleep"` or
goes to `"ack"`; `NotifyAll` moves sleepers to `"woken"`, and a woken thread
re-evaluates the condition (`WakeUp`) before it goes on. `want` and `waitFor`
are the call's locals. `wait_for` is computed once, at entry, as in the code.

`server` follows `drop`: `"serving"`, `"closing"` (flag set, the accept thread may
still take one connection, then it is `"stopped"`), `"joining"` (cancelled, streams
shut one by one, each handler joined before the next) and `"down"`. A handler
whose stream was shut can still read lines already received; it cannot deliver an
ack. A line that is not a store path is acked without a state change and has no
action. `try_begin_delete_node` is called by tests only and is left out.

### GcDelete

| `gcPc` | Code (`collect_garbage`) | Actions |
|---|---|---|
| `chunk` | head of the loop, and the exit | `ClaimChunk`, `StopEarly`, `ChunksDone` |
| `prune` | `keep_out` | `Prune` |
| `invalidate` | `invalidate_ids` | `Invalidate`, `InvalidateFails` |
| `unlink` | `par_iter` over the chunk | `Unlink`, `EndDelete` for any claimed node, `ChunkEnd` |
| `recheck` | `unknown_on_disk.retain` | `Recheck` for any name, `RecheckDone` |
| `unknown` | `par_iter` over the unknown entries | `BeginUnknown`, `LockTmp`, `SkipTmp`, `UnlinkUnknown`, `EndUnknown`, `UnknownDone` |
| `drop` | locals drop | `DropSocket`, `Return` |
| `done`, `crashed` | | `Ended` |

`unlinked` holds the names between `delete_store_path` and `end_delete_*`; an
unlink may leave the path behind, since the code only warns. `Crash` is possible
at every step: the memory, the socket and the flocks are gone, the database and
the disk stay.

Which chunk is claimed comes from `IsNextChunk`: any set of at most `MaxChunk`
nodes of the acyclic part with no referrer beyond the cursor, or the whole tail.
That is more than any one run of the queue does, and `DeletionOrder` shows that
the queue does nothing else. Byte limits are abstracted to `HasBudget`: with one,
the loop may stop at any of its tests.

Builders are external (Nix): a builder asks over its connection, and from the ack
on counts on the path (`held`). It may find it valid and use it, or write it anew
from inputs it has and register it. It may hang up, reconnect and exit. Only
one builder writes a given output at a time (Nix's lock on the path). A
`tmp-*` directory that was there before the disk scan may be locked, released,
removed by its builder.

The initial states are what the startup leaves: `alive` is closed; every snapshot
row is on disk; so are the paths registered since (`fresh`), whatever they reference;
`unknown` is any set of entries without a node; roots taken by the early server
are replayed. A builder may hold roots from before (`held`): live ones, ones
protected by name, or ones the disk scan left out. That the startup
ends with held roots in one of these places is `HeldRootsCovered` of `GcStartup`; roots
in a file that an error of `read_dir` hid are the exception there, and
they are not counted as held here.

Nothing is assumed of what fresh rows reference. `gc_startup_fresh` shows that it may be
dead, and then the collector does delete it: `RefsClosed` and `UsesIntact` would fail. `unbacked` is a
history variable that holds exactly those rows, and the rows that a builder registers while it builds
upon one of them. The two properties are about all other rows: what has gone
wrong before the deletion began does not spread to what was sound.

### GcStartup

| `gcPc` | Code (`collect_garbage`) | Action that leaves it |
|---|---|---|
| `idle`, `locked` | before `gc.lock`; before the early socket | `Lock`, `StartEarly` |
| `early`, `loaded` | the early server runs, before and after `load_graph` | `LoadGraph`, `DropEarly` |
| `dropped` | no server | `StartReal` |
| `replay`, `roots` | the real server runs, `roots` being collected | `Replay`, `FindRoots` |
| `temp` | `find_temp_roots`, file by file | `ReadTempFile`, `MissTempFile`, `TempRootsRead` |
| `closure`, `scan` | `compute_closure`; `read_dir` of the store, name by name | `ComputeClosure`, `Visit`, `DiskScanned` |
| `ready`, `gone` | the deletion may start; an error, a crash or the end | `Leave` |

`step` is the point a builder's `add()` has reached: `try` (the head of the loop),
`sent`, `recorded` (by the server, the ack on its way), `write` (before
`write_root`). `AddLocked` is one step: the shared lock is held from the test to the
end of the write, and only the exclusive lock waits for it. The loop's turn that finds
neither lock nor server changes nothing but the time and has no action. `Disconnect` is what a
client notices of `drop`: its next read or write fails with one of the kinds
`gone` lists, and it goes round the loop. A line that is still in the
buffer when the stream is shut may be recorded without an ack: that is `Record`
before `DropEarly`. The handler's `protect()` is one step here, since nothing is pending
before the first chunk.

`Active` compares names and hash parts: `LockOf[p]` is the sibling `<p>.lock`, which
has the hash part of `p` and no row. `before` is a history variable: what
the files listed when the lock was taken, and what `find_temp_roots` therefore
sees if the owner lives.

`find_temp_roots` takes any error of `read_dir` for an empty directory and passes over entries that
fail (`roots.rs:684-689`). `MissTempFile` is what that does to one file: it is not read and the startup goes
on; `unlisted` remembers whose it was. `HeldRootsCovered` and `ListedLocksKept` say what is left in that
case: the builders of those files lose their roots from before the lock, but not what they sent over a
socket, and nobody else loses anything. That something is lost at all is a fault of the code: the comments at
`roots.rs:21-22` ("Errors here must abort the GC: silently dropping a roots directory (e.g. EACCES) would let
the GC delete live paths.") and `roots.rs:703-704` (an error that "hides live roots") want such an error to end the
collection. With `Held` in place of `Seen` in `HeldRootsCovered`, TLC finds the violation: the root is listed, the error
hides the file, and the deletion starts with the root dead.

Builders are external: one holds temp roots, takes the lock file of an output, writes
and registers it when its references are valid and held, and exits; its file
stays. All exist at the start; one that comes later is one with an empty file.
A builder that exits does not come back under another name, and there is one collection:
what a second one sees is in `TempRootsFile`.

### DeletionOrder

`mult` is how often the CSR arrays list an edge. `in_degree` counts entries, not
referrers, and the peeling subtracts entries: `TypeOK` would see it go negative
(in the code: wrap) if the two were not the same. Sums, of edges and of sizes, are `Total`, which
counts units one by one: the code adds in a loop, and the theorems need no recursion this way. One turn of `Peel` is one turn of
`while head < order.len()`; the nodes a turn frees join in any order (in the code:
CSR order). `Take` is one turn of the inner loop, `EndChunk` stands for claim,
invalidation and unlinking, which free any number of bytes: `narSize` is only an
estimate. `Top` stands for `u64::MAX`.

`SweepSpec` is the refinement: `todo` of `ChunkedSweep` is what lies beyond the
chunk being put together. Only `EndChunk` is a step of the abstract
specification, all other actions stutter.

### TempRootsFile

`name` is the directory, `fd` what a process has open, `owner` the flock of an inode; an
inode nobody names or has open may come back. `state` is where a process is: in
`create` (`remove`, `open`, `lock`, `check`, and round again when the file has content) or in
`add` (`try`, `locked`, `sent`, `acked`, `write`). The scan of a collector is `list`, then for
each name `OpenListed`, `TryFlock`, and `ReadListed` or `UnlinkStale` and `MarkStale`: each is one
system call, and those that go by name act on whatever has the name by then. A process may end
anywhere and its pid come back; a collection may end, fail or crash anywhere (`Leave`), and
another one starts. `before` is a history variable.

`List` yields the names that are there, and may yield later ones. `ListCutShort` is the code's way with
errors: `read_dir` fails, or an entry does, and the collection goes on with the names it got, any set of
them. `unlisted` are the names it did not get. `ListedRootsFound` counts those out of what is read, not out of what
keeps its name; what the code loses by dropping the error is described under `GcStartup`.

A stale file is recognised by its free flock. A process that has opened its file and not
locked it yet looks stale: its file is unlinked and marked, and the marker sends the
process back. When the collector dies between the unlink and the marker, the process goes on with a
file that has no name, and no collector will read it. The properties about later
scans are therefore about files that have kept their name (`name[p] = fd[p]`), and
`ListedRootsFound` proves that a file that has a name and roots at the lock keeps the name.

### Profiles and RootScan

`ProfileLock` is Nix's `PathLocks` protocol: the holder marks its file, unlinks it and closes it, and
who gets the flock of a marked file opens the name anew. `acquire` returns unless somebody died
between the marker and the unlink: then the name keeps the marked file and every later
`acquire` goes round for ever. Nothing in the code removes such a file; `Abandoned` is that state, and
`AcquireReturns` excludes it.

A deleter reads the current generation, lists, and removes one link after the other in the mode it
was asked for; a removal that fails is passed over. nix-env (external) makes generations
numbered after the last and switches to any. `aged` stands for the comparison of link times
with the cutoff.

`RootScan` extends `Profiles`, since `main.rs` deletes generations and then scans for roots. An entry
is an auto link, a generation, the profile's own link, or a place of a process
(`/proc/<pid>/exe` and the like). Auto links and the profile are indirect: `readlink` of the entry,
`lstat` and `readlink` of the first hop and `lstat` of the second are steps, and users make,
move and remove links in between. `RemoveStale` removes by name. `/proc` is read twice where the
store is reached through a symlink: the kernel gives the canonical name for some places and the
process's own name for others. A place that cannot be read, or that an error hides, is passed over
(`PassOver`), each time anew; it is then no longer steady.

`steady` is a history variable: what an entry has led to since the scan began, if
nobody touched it. An auto link whose result was absent at the `lstat` and made right after is removed
although it is good again; that is Nix's behaviour as well and nothing is
claimed of it. The order of the scan matters for a process that takes a path from a root which then
goes: directories are read before `/proc`, and `SteadyRootsFound` covers that
path too.

### StoreLinks

An inode stands for its content and a content for its hash: the hash is taken as
injective. `pc` follows one file through the walk, `optimise_file` and
`replace_with_link`; each system call is a step, and `meta` and `lmeta` are the
results of the two `lstat` calls that are used later, `hash` what the task computed of its file.
`Killed` forgets all that; `left` are the directories that a kill, or a failed restore
(`RestoreFails`), leaves writable. A chmod that fails before the replacement (`ChmodFails`) skips the file.

Nothing is assumed of the entries of `.links`: each may hold any content at the start, share its
inode with files or other entries, and have the size its name says or not. `damage` are the ones that
are not what their name says. The code compares sizes (`optimise.rs:261-272`), so an entry of another size
is never linked into the store, and an entry of the same size is: the content its name says and the one it
holds are `Confused`. `ContentKept` says that confused contents are all that is lost, and
that no file ever changes its size. `Deduped` leaves out confused contents, and files that share the
inode of a damaged entry, which the walk takes for linked. Files are never
deleted here: the pipeline holds temp roots for their paths. `Elsewhere` is another optimiser, as one
atomic replacement. The collector lists temporary links as unknown entries, removes them, and
then looks at and unlinks the unused entries of `.links`, two steps for each.

The mutexes are one per directory; the code has a fixed number of shards, so two directories may
share one, which only excludes more. A rename onto another name of the same inode does nothing
and leaves the temporary link behind; the next collection sweeps it.

### OptimisePipeline

Three kinds of tasks and two semaphores: the producer takes a walk permit for each path, roots it,
asks whether it is valid and spawns the walk; the walk lists, sends over the bounded channel
and drops its permit; the loop receives, takes a work permit and spawns a worker. What a worker does is in
`StoreLinks`. The producer or a walk may fail, a walk or a worker may panic, and a collector takes any path
without a root at any time. A walk that panics (`WalkPanics`) is found by the producer at its next
`try_join_next`, after it has spawned a walk, or at the end (`PanicJoined`): it returns the error, and its
temp roots and the `JoinSet` with the other walks drop, as for any other error (`Fail`).

A path with a root is never collected here. That is what `add()` promises, and `temp_roots_kept` shows
where it does not keep the promise: a second collector that began while `add()` was waiting for the first one
may miss the root. `WorkedPathsKept` holds but for that collector.

## Runs

| Run | Checks | Instance |
|---|---|---|
| `load_graph` | `WalkIsClosure`, `AliveAsNixKeeps`, `LoadReturns` | three paths: any references without derivations, or an output, a derivation and a reference with any derivers and output maps; the four settings; one transaction of Nix; all root sets |
| `gc_delete_shared` | `TypeOK`, `NoDanglingRows`, `RefsClosed`, `UsesIntact`, `BuildKept`, `SleepersHaveCause`, `PruneIsIdle`, `AckedNeverUnlinked` | two paths sharing a reference, one path without a row, two builders, chunks of up to two |
| `gc_delete_cycle` | `RefsClosed`, `CollectsAll`, `HeldTmpDirKept`, `RequestsAnswered`, `GcEnds` | an output and its derivation keeping each other, a path without a row, a build directory, two builders that may wait for the same path, `--max-freed` |
| `deletion_order` | `TypeOK`, `ReferrersFirst`, `BudgetKept`, `ChunkNeverEmpty`, `SweepSpec` | all multigraphs of 3 nodes with edges listed up to twice, all root sets, two chunk sizes, two byte limits |
| `gc_startup` | `TypeOK`, `HeldRootsCovered`, `ListedLocksKept`, `WaitsForServer` | a reference and a path above it with a lock file, each valid, on disk or missing at the start; two builders with any part of their goals listed already |
| `gc_startup_fresh` | `FreshRefsCovered`, violated | the same |
| `gc_startup_locks` | `HeldLocksKept`, violated | the same |
| `temp_roots_file` | `CreatedFileUnmarked`, `ListedRootsFound`, `AddReturns` | one pid with one process after another, two roots, two inodes, three collections |
| `temp_roots_kept` | `AddedRootsKept`, violated | the same, two collections |
| `root_scan` | `OneHolder`, `CurrentKept`, `RollbackTargetKept`, `AcquireReturns`, `SteadyRootsFound` | two deleters and a switcher at a profile of three generations and three lock inodes, or a scan of one auto link, the profile and one place of a process |
| `store_links` | `Deduped`, `DirSealed`, `ContentKept` | three files of one content, two of them siblings, the third in the store root; entries missing, shared, unused, damaged in their size or at the same size; two runs of the optimiser, one where an entry is damaged; one collection, beside the first run or between the two |
| `optimise_pipeline` | `WorkedPathsKept`, `NothingLeftOut`, `ListsBounded`, `RunEnds` | three paths with five files, two jobs, one slot in the channel |

Three runs show where the code does not do what its comments say:

- `gc_startup_fresh`. A builder lists its roots before `gc.lock`. The collector loads the
  snapshot; the builder registers `new`, which references `lib`, and exits; the
  collector finds its temproots file without an owner and ignores it. `new` has a
  row and no node, so it stays; `lib` has a node and no root, so it is
  dead, and its deletion removes the reference from `Refs` too (`db.rs:341-344`).
  `gc.rs:372-374`: "still-valid paths never reference an already-deleted one".
- `gc_startup_locks`. A builder adds `new` over the socket, then makes `new.lock`; the
  disk scan comes to it later. `gc.rs:249-250`: "the unknown-on-disk scan must not
  delete a lock file another builder currently holds"; hash parts are
  noted for roots from files only. With the root listed before the lock the property
  holds, `ListedLocksKept`.
- `temp_roots_kept`. A builder sends its root to a collector and gets the ack; the collector
  ends; a second one takes `gc.lock` and reads the builder's file; only now the builder writes
  the root and `add` returns. `temp_roots.rs:82-83`: "After this returns, no GC will
  delete the path while this process lives." The second collector knows nothing of
  the root.

Why these bounds are enough for the interesting cases. A conflict needs a node
that two closures share and a node above it: `app`, `out` and `lib`. Two
builders are enough for an overlapping `protect()` to find a node flagged by
another and still pending, and for two sleepers on one condition. One path
outside the graph covers registration behind the snapshot, and the write that
follows an ack. Chunks may be shorter than `MaxChunk`, so every boundary
between chunks is a possible stop, crash or request, and a chunk of two can hold a
referrer with its reference; with `MaxChunk = 1` a tail of three nodes is longer than the
chunk, so that cutting it is noticed. In the startup, one path with a reference gives a row
behind the snapshot something to lose, and two builders let one be with the early server
while the other is with its file. Three nodes give Kahn's algorithm a self-reference, a
two-cycle with something below it and a doubled edge at once.
Three collections let a process be with the server of the first while the second has marked
its file and the third reads it; two inodes are enough to have a name and an open file
apart, and the smaller number makes reuse happen sooner. Three lock inodes let a waiter, a
holder and a newcomer each have another file. Of three files of one content one may make the
entry, one replace itself and one come late; a second run finds what a killed first one
left, and what a collection did to that (`MCBound`: a collection beside the second run would show the races of
one beside the first again). Two walks with one slot fill the channel while the producer waits for a
permit, which is where the two pools could wait for each other. Each property
has a mutant in `PROJECT.json`: a slip in the modelled code that its run notices.

Deadlock is checked in every run but `optimise_pipeline`, whose program stops; that it stops in the
right place is `RunEnds`. Elsewhere `Ended`, `Returned` and the stutters of `gone` and
`done` are the only states with nothing to do. `root_scan` splits its initial states into the two halves, with one
generation at the start of a scan, to keep it within minutes; the halves meet in the
action `ListAuto`, which waits until nobody is at the profile.

### Fairness

Safety runs use `Spec` without fairness. `FairSpec` assumes: the collector's
thread and workers keep going (`WF_vars(Collect)`); a handler that was notified gets
the mutex; a handler whose `protect()` returned writes its ack; a handler whose
stream was shut sees the end of file. These are the operating system's scheduler
and the kernel's socket; `Mutex` of the standard library is not fair in
general, but no thread holds it for longer than a closure walk. Nothing is asked of builders: they may
never write a line, never hang up, never exit. `load_graph` assumes that the collector's
thread runs. `temp_roots_file` assumes that processes, the server and the scan keep going; a
sweep may take for ever. `root_scan` assumes it of the processes at the profile lock, weakly: a
waiter gets the flock when it stays free. `optimise_pipeline` assumes that the runtime polls
every task that can go on and that a blocking system call returns; no fairness of the
semaphores is needed.

## Proofs

For every finite store, graph, set of builders, chunk size and budget, from the named
assumptions of the modules:

- `NodeFinite` (finitely many nodes) and `ListedAssumption` (SQLite returns each row of a
  result once, in some order) for `ClosureWalk` and `LoadGraph`;
- `OrderAssumption` of `DeletionOrder`: sizes, counts and limits are numbers up to `Top`;
- `GraphAssumption` (the graph is over the store's paths), `ClientFinite` and `StoreAssumption`
  (the snapshot's edges include the references, build directories have no row) of `GcSocket`
  and `GcDelete`, and `StartupAssumption` of `GcStartup` (references are paths, lock files are none);
- for `TempRootsFile`, `Profiles`, `RootScan`, `StoreLinks` and `OptimisePipeline` one each: the
  special values are no members of the sets they stand beside, the kinds of entries of a scan
  are apart, a file belongs to one path, every deleter has a mode, and the files and paths of a
  store are finitely many.

| Theorem | Says |
|---|---|
| `WalkComputesClosure` | `Spec => []WalkIsClosure`, for any graph |
| `LoadingInvariant`, `AliveIsWhatNixKeeps`, `LoadedWalkIsClosure` | `IInv` and the invariants of `load_graph`, the walk on the graph that was loaded |
| `OrderInvariant`, `OrderTypes`, `ReferrersComeFirst`, `BudgetIsKept`, `ChunksAreNeverEmpty` | `IInv` and the invariants of `deletion_order` |
| `OrderImplementsSweep` | `Spec => SweepSpec`, the refinement of `ChunkedSweep` |
| `InvariantHolds` | `Spec => []IInv` |
| `TypeCorrect`, `RowsHavePaths`, `ReferencesClosed`, `InputsStayIntact`, `OutputsKept`, `BuildDirectoriesKept`, `SweepIsComplete`, `PruneFindsNothing` | invariants of the `gc_delete_*` runs |
| `NoWakeupIsLost` | `Spec => []SleepersHaveCause`, inductive beside `IInv` |
| `AckIsKept` | the action property `AckedNeverUnlinked` |
| `StartInvHolds`, `TypesHold`, `RootsCovered`, `LocksKept`, `NoWaitOnDeadServer` | `StartInv` and the invariants of `gc_startup` |
| `FileInvariant`, `CreatedFileIsUnmarked`, `ListedRootsAreFound` | `FileInv` and the invariants of `temp_roots_file` |
| `ProfilesInvariant`, `LockExcludes`, `CurrentGenerationKept`, `RollbackTargetIsKept` | `LockInv /\ GenInv`; `OneHolder`, `CurrentKept` and the action property `RollbackTargetKept`, of `Profiles`' own specification |
| `ScanInvariant`, `SteadyRootsAreFound`, `ProfileIsKeptWithScans` | `IInv`, `SteadyRootsFound`, and the three of the profile again, of the specification with scans and users |
| `StoreLinksInvariant`, `NoContentLost`, `DirectoriesSealed` | `LinksInv`; the action property `ContentKept`, and `DirSealed` |
| `SharingInvariant`, `RunsDeduplicate` | `IInv`, and `Deduped` |
| `PipelineInvariant`, `WorkedPathsStay`, `ListsAreBounded`, `NothingIsLeftOut` | `PipelineInv`; `WorkedPathsKept`, `ListsBounded` and `NothingLeftOut` |

The argument. None of the safety properties is inductive: that a valid path keeps
its references depends on what is still to come in the sweep, on who waits for
what, and on the builders. The idea of `IInv` is to name what the collector will not
touch any more, `Kept` (live nodes, and protected ones not in the chunk in hand),
and to show that

- a node that is still valid is either ahead of the cursor, in the chunk, or
  `Safe`: all it reaches is kept (`RowInv`). Nodes ahead of the cursor never
  wait behind a claimed node they reference (`OrderInv`), which is what
  `IsNextChunk` gives;
- a `protect()` in progress has flagged its closure, and whatever of the closure
  is doomed is in its `wait_for` (`WaitInv`), so when it wakes with no
  conflict the path is `Safe`; nothing makes a safe path unsafe. This is the
  comment at `gc_socket.rs:141-146`: with only newly flagged nodes in `wait_for`
  the invariant fails;
- a name without a node is safe when it is not being unlinked and not to be, or
  protected by name; valid names are looked up before the sweep of unknown entries,
  or protected (`UnknownInv`);
- a builder's held paths are safe, what it uses is valid and safe, and what it
  writes references only that (`BuilderInv`);
- the rows recorded as `unbacked` are never deleted themselves, and no other row references
  one (`BackedInv`), so that the paths that are safe and not unbacked are closed under references
  (`SoundIsClosed`). `BuildInv`, that an output has one builder and no row yet, keeps a row from being recorded after
  it was used.

`cancel` lets sleepers go while nodes are pending. That is sound for
the reason `LoopInv` and `Doomed` state: after `cancelled` the collector is past
its loop, a chunk left over by a failed invalidation was rolled back and nothing will
unlink it.

The frame lemmas of `GcDeleteProofs` say which actions change a variable, and how;
`SafeStays` and `GoodGrows` say that no step makes a safe path unsafe; one lemma
per part of `IInv` (`TypeStep`, `LoopStep`, `OrderStep`, ...) shows that a step keeps
it, with a case per action that can disturb it. `PruneFindsNothing` proves more than the code
counts on: the comment at `gc.rs:447-449` says that a claim is per node and may
keep a reference of a path protected a moment earlier. `claim_nodes` takes
the chunk in one critical section, so the prune never finds anything; it
is a second line of defence.

The order of deletion. While the queue is peeled, `in_degree` of a node is the number of times the nodes
that have not left the queue yet list it, and the queue holds exactly the dead nodes whose count is down to zero, each
after its referrers (`PeelInv`). At the end of the queue every node that was never reached has a
referrer of that kind, and a set whose members all have a referrer in it has no first node to enter the
queue: the rest is the largest such set, which is `CyclicTail`. For the chunks, `ChunkInv` has the estimate as the sum of the sizes, cut off at
`Top`, and the chunk on one side of the boundary. For the refinement, `EndChunk` takes from `todo` what
the cursor went over since the last one: a set of the acyclic part with all its referrers gone or in it, or the
tail whole, which is what `IsNextChunk` asks of a chunk; every other step leaves `todo`
alone. That `IsNextChunk` holds is also what `GcDelete` assumes of its chunks.

The graph. `ref_offsets` counts how many edges start below a node and `ref_targets` puts each edge at the
offset of its node plus its rank among those read before: a bijection of the edges, so `refs(n)` lists what the
edges with source `n` point to, no more and no fewer, whatever the order of the rows. What the five queries
read is by then the set `Keeps` of the snapshot (`LoadingInv`); the walk's invariant is that of `WalkComputesClosure`.

The startup's invariant keeps an account. A root of a living builder was in its
file when the lock was taken, or a server was sent it (`AccountInv`). The first is found in
the file as long as the owner lives, since files only grow, or the file is one that an error of
`read_dir` hid (`ReadInv`). The second was
noted by the early server and replayed (`ReplayInv`), or marked by the real one with all it
reaches. An add under the shared lock cannot fall into the run. From there `RootsCovered`
follows: a node that is a root is alive with its closure (`ScanInv`), a name that is
active is not on the list of unknown entries.

The two lock protocols have one argument. A file loses its name or gets its marker only under its
flock, and a process trusts a file only when it got the flock before any marker
(`HolderInv`, `NameInv`). So a collector that has a flock never has a living process's file in hand, and two
holders of the profile lock would have to hold the flock of one inode. For the
generations, the current one and the newest before the cutoff are outside what the loop has left
to remove, and only the holder moves either; that a greatest generation exists is
derived from the well-foundedness of the natural numbers (`GreatestFacts`).

A scan starts when every process is done with the lock, and users at work during it leave the
lock alone (`UsersKeepProfile`). A steady root is found, or still to be visited, or the one in hand, which
is then on the way to what it has led to all along (`HandInv`): the two reads of an indirect root may be
far apart, but an auto link gets to its removal only when its result was seen broken, and then it is not
steady. Once the directories are read, every steady root in them is found (`LinksInv`), so a path that a
process takes up from one later needs no finding; one it took up before is read in the round of the
name it gives (`UsesInv`).

For the store's files: two contents are `Alike` when they are equal, or of one size and both confused by
damaged entries; that is an equivalence (`AlikeClasses`), and no step leaves a class. An entry that is good up to
it stays good or goes, and one made anew is good (`LinkStep`), so what a comparison of sizes found is still true of whatever has the name when
it is linked. For the sharing, a task's view of its file may age, but only because another
optimiser has linked the file meanwhile (`Shared`); and a file that is linked stays so: its entry has two names, so
`clean_links` unlinks it only on a count it took earlier, and then the files of that content are counted
out (`EntryStays`, from `UnsharedEntry`: a link count of one means no other name). An entry that is not what
its name says was so at the start (`TornInv`), which is why an inode `load_link_inodes` has read is the right
one for the file that has it, unless the entry is one of `damage`. In the pipeline every file under way belongs to one path, which was rooted before it was
found valid and stays rooted until nothing is under way (`RootInv`); each walk has the permit its path was
taken with, and no path is taken twice (`PermitInv`). `NothingIsLeftOut` needs `DoneInv` beside it: while nothing has failed,
a valid path is still to be taken, in the producer's hand or walked, and a file of a walk that has listed it
is still to be sent, in the channel, with a worker or done.

Every invariant and action property of a passing run, and the refinement, is a theorem. Only model-checked are
the liveness properties (`RequestsAnswered`, `GcEnds`, `LoadReturns`, `AddReturns`, `AcquireReturns`,
`RunEnds`): the proof system does not reason about fairness. The lemmas on closures are
stated in each module that needs them. No proof unfolds a recursive function: sums and arrays are defined by counting,
so that they follow from the library's facts about cardinalities.

## Plan

Done: the modules and theorems above. What would come next: the startup as a refinement
of `GcDelete`'s `Init` for builders that stay; the bytes `--max-freed` counts against the link counts of `StoreLinks`.

## Not modelled

- Of the startup: the dry run, `--keep-recent`, the reserved file, and the test for a store that
  does not match the database, which is one cause of `Leave`.
- `.chroot` and `.check` siblings: as `.lock`.
- Of the root scan: regular files as roots, nested directories and `--gc-roots-dir` (more of the same walk), which
  bytes of a blob are a store path, the macOS readers.
- Of profiles: the walk over the profile directories, the parsing of `--older-than`.
- Of the optimiser: counters, the dry run, a file that is deleted while a worker has it (its path is
  rooted; after an error of the producer, when the roots drop before the workers end, it may happen), and the mode changes another optimiser makes to a shared directory.
- That `--max-freed` counts the blocks of hard-linked files as freed.
- Power loss: the database is opened with `synchronous=NORMAL`, and what a file
  system keeps is outside the source. `Crash` is the death of the process.
- A directory that is half deleted is still an entry on disk.
- A new `tmp-*` directory under a name the scan has seen: names are random.
- Argument parsing, formatting, logging, the mount namespace, vacuum, the reserved file: no
  state that two steps share; see the notes in `PROJECT.json`.
