---------------------------- MODULE OptimisePipeline ----------------------------
(***************************************************************************)
(* The tasks of optimise_store (optimise.rs): a producer that roots each   *)
(* store path and spawns its walk, the walks that send the files they find *)
(* over a bounded channel, and the receiving loop that spawns one worker   *)
(* per file.  Two semaphores bound the walks and the workers.  What a      *)
(* worker does is in StoreLinks, how a root reaches a collector in         *)
(* TempRootsFile: here a collector takes any path without a root and never *)
(* one with a root, which a second collector that began while add() was    *)
(* under way may do (the run temp_roots_kept of that module).              *)
(***************************************************************************)
EXTENDS Naturals, Sequences, FiniteSets

CONSTANTS
    Path,    \* the store paths
    File,
    FilesOf, \* the files a walk of each path finds and does not know
    NoPath, NoFile,
    Jobs,    \* --jobs: the walk permits, and half the work permits
    Slots    \* the channel's capacity, 16 per job

ASSUME PipelineAssumption ==
    /\ IsFiniteSet(Path)
    /\ FilesOf \in [Path -> SUBSET File]
    /\ \A p, q \in Path : p # q => FilesOf[p] \cap FilesOf[q] = {}
    /\ NoPath \notin Path /\ NoFile \notin File
    /\ Jobs \in Nat \ {0} /\ Slots \in Nat \ {0}

VARIABLES
    valid,    \* paths with a row, and all their files
    rooted,   \* temp roots this process holds
    producer, \* where the producer is
    todo,     \* paths it has not taken up
    current,  \* the path in hand
    walkFree, \* free permits of walk_sem
    walk,     \* where each path's walk is
    found,    \* files it has listed and not sent
    channel,
    main,     \* where optimise_store's loop is
    hand,     \* the file it has received
    workFree, \* free permits of work_sem
    worker    \* where each file's worker is

producerVars == <<producer, todo, current>>
walkVars     == <<walk, found>>
mainVars     == <<main, hand>>
workVars     == <<workFree, worker>>
vars == <<valid, rooted, producerVars, walkFree, walkVars, channel, mainVars, workVars>>

TypeOK ==
    /\ valid \subseteq Path /\ rooted \subseteq Path
    /\ producer \in {"query", "acquire", "add", "check", "join", "ok", "failed"}
    /\ todo \subseteq Path /\ current \in Path \cup {NoPath}
    /\ walkFree \in 0..Jobs /\ workFree \in 0..(2 * Jobs)
    /\ walk \in [Path -> {"none", "list", "send", "ended", "unreadable", "broken"}]
    /\ found \in [Path -> SUBSET File]
    /\ channel \in Seq(File) /\ Len(channel) <= Slots
    /\ main \in {"recv", "permit", "await", "join", "ok", "failed", "exited"}
    /\ hand \in File \cup {NoFile}
    /\ worker \in [File -> {"none", "running", "done", "panicked"}]

Init ==
    /\ valid = Path /\ rooted = {}
    /\ producer = "query" /\ todo = {} /\ current = NoPath
    /\ walkFree = Jobs /\ workFree = 2 * Jobs
    /\ walk = [p \in Path |-> "none"] /\ found = [p \in Path |-> {}]
    /\ channel = <<>>
    /\ main = "recv" /\ hand = NoFile
    /\ worker = [f \in File |-> "none"]

Receiving == main \in {"recv", "permit"}
-----------------------------------------------------------------------------
(* The producer. *)

\* The list of paths is read before any of them is rooted.
ValidStorePaths ==
    /\ producer = "query"
    /\ todo' = valid
    /\ producer' = "acquire"
    /\ UNCHANGED <<valid, rooted, current, walkFree, walkVars, channel, mainVars, workVars>>

TakePath ==
    /\ producer = "acquire" /\ todo # {} /\ walkFree > 0
    /\ \E p \in todo : current' = p /\ todo' = todo \ {p}
    /\ walkFree' = walkFree - 1
    /\ producer' = "add"
    /\ UNCHANGED <<valid, rooted, walkVars, channel, mainVars, workVars>>

AddRoot ==
    /\ producer = "add"
    /\ rooted' = rooted \cup {current}
    /\ producer' = "check"
    /\ UNCHANGED <<valid, todo, current, walkFree, walkVars, channel, mainVars, workVars>>

IsValidPath(p) == p \in valid

\* Mutant: what was valid when the paths were listed still is.
CheckListed ==
    /\ producer = "check"
    /\ walk' = [walk EXCEPT ![current] = "list"]
    /\ current' = NoPath /\ producer' = "acquire"
    /\ UNCHANGED <<valid, rooted, todo, walkFree, found, channel, mainVars, workVars>>

WalkBroken == \E p \in Path : walk[p] = "broken"

\* A path that went before it was rooted is passed over, its permit dropped; a
\* walk is spawned for the others, after which try_join_next finds no error.
CheckValid ==
    /\ producer = "check"
    /\ \/ /\ IsValidPath(current) /\ ~WalkBroken
          /\ walk' = [walk EXCEPT ![current] = "list"] /\ UNCHANGED walkFree
       \/ /\ ~IsValidPath(current)
          /\ walkFree' = walkFree + 1 /\ UNCHANGED walk
    /\ current' = NoPath /\ producer' = "acquire"
    /\ UNCHANGED <<valid, rooted, todo, found, channel, mainVars, workVars>>

AllTaken ==
    /\ producer = "acquire" /\ todo = {}
    /\ producer' = "join"
    /\ UNCHANGED <<valid, rooted, todo, current, walkFree, walkVars, channel, mainVars,
                   workVars>>

WalkOver(p) == walk[p] \in {"none", "ended", "unreadable", "broken"}

\* Mutant: the temp roots go with the producer.
JoinWalksAndDrop ==
    /\ producer = "join" /\ \A p \in Path : WalkOver(p)
    /\ producer' = "ok" /\ rooted' = {}
    /\ UNCHANGED <<valid, todo, current, walkFree, walkVars, channel, mainVars, workVars>>

\* The temp roots are handed back.
JoinWalks ==
    /\ producer = "join" /\ ~WalkBroken /\ \A p \in Path : WalkOver(p)
    /\ producer' = "ok"
    /\ UNCHANGED <<valid, rooted, todo, current, walkFree, walkVars, channel, mainVars,
                   workVars>>

\* The producer returns an error: the temp roots drop, and the JoinSet, which
\* aborts the walks.
Fail ==
    /\ producer' = "failed" /\ rooted' = {} /\ current' = NoPath
    /\ walk' = [p \in Path |-> IF WalkOver(p) THEN walk[p] ELSE "ended"]
    /\ found' = [p \in Path |-> {}]
    /\ walkFree' = Jobs
    /\ UNCHANGED <<valid, todo, channel, mainVars, workVars>>

\* An error of add or of the database.
ProducerFails ==
    /\ producer \in {"add", "check"}
    /\ Fail

\* try_join_next, after the walk in hand was spawned, or join_next reports a
\* walk whose task has panicked.
PanicJoined ==
    /\ producer = "join" \/ (producer = "check" /\ IsValidPath(current))
    /\ WalkBroken
    /\ Fail
-----------------------------------------------------------------------------
(* The walks. *)

\* Mutant: the permit goes back before the list is sent.
ListFilesAndRelease(p) ==
    /\ walk[p] = "list"
    /\ walk' = [walk EXCEPT ![p] = "send"]
    /\ found' = [found EXCEPT ![p] = FilesOf[p]]
    /\ walkFree' = IF walkFree < Jobs THEN walkFree + 1 ELSE walkFree
    /\ UNCHANGED <<valid, rooted, producerVars, channel, mainVars, workVars>>

ListFiles(p) ==
    /\ walk[p] = "list"
    /\ walk' = [walk EXCEPT ![p] = "send"]
    /\ found' = [found EXCEPT ![p] = FilesOf[p]]
    /\ UNCHANGED <<valid, rooted, producerVars, walkFree, channel, mainVars, workVars>>

\* One unreadable path is counted and left out.
WalkFails(p) ==
    /\ walk[p] = "list"
    /\ walk' = [walk EXCEPT ![p] = "unreadable"] /\ walkFree' = walkFree + 1
    /\ UNCHANGED <<valid, rooted, producerVars, found, channel, mainVars, workVars>>

\* The blocking task panics: the walk returns the JoinError, its permit dropped.
WalkPanics(p) ==
    /\ walk[p] = "list"
    /\ walk' = [walk EXCEPT ![p] = "broken"] /\ walkFree' = walkFree + 1
    /\ UNCHANGED <<valid, rooted, producerVars, found, channel, mainVars, workVars>>

SendFile(p) ==
    /\ walk[p] = "send" /\ Receiving /\ Len(channel) < Slots
    /\ \E f \in found[p] :
          /\ channel' = Append(channel, f)
          /\ found' = [found EXCEPT ![p] = @ \ {f}]
    /\ UNCHANGED <<valid, rooted, producerVars, walkFree, walk, mainVars, workVars>>

\* All sent, or the receiver is gone.
EndWalk(p) ==
    /\ walk[p] = "send" /\ (found[p] = {} \/ ~Receiving)
    /\ walk' = [walk EXCEPT ![p] = "ended"] /\ found' = [found EXCEPT ![p] = {}]
    /\ walkFree' = walkFree + 1
    /\ UNCHANGED <<valid, rooted, producerVars, channel, mainVars, workVars>>
-----------------------------------------------------------------------------
(* The loop of optimise_store and the workers. *)

Receive ==
    /\ main = "recv" /\ channel # <<>>
    /\ hand' = Head(channel) /\ channel' = Tail(channel)
    /\ main' = "permit"
    /\ UNCHANGED <<valid, rooted, producerVars, walkFree, walkVars, workVars>>

\* Mutant: one semaphore for both.
SpawnWorkerShared ==
    /\ main = "permit"
    /\ walkFree > 0 /\ walkFree' = walkFree - 1
    /\ worker' = [worker EXCEPT ![hand] = "running"]
    /\ hand' = NoFile
    /\ main' = IF \E f \in File : worker[f] = "panicked" THEN "failed" ELSE "recv"
    /\ UNCHANGED <<valid, rooted, producerVars, walkVars, channel, workFree>>

\* try_join_next reports a worker that has panicked: the loop returns, the
\* receiver is dropped.
SpawnWorker ==
    /\ main = "permit" /\ workFree > 0
    /\ workFree' = workFree - 1
    /\ worker' = [worker EXCEPT ![hand] = "running"]
    /\ hand' = NoFile
    /\ main' = IF \E f \in File : worker[f] = "panicked" THEN "failed" ELSE "recv"
    /\ UNCHANGED <<valid, rooted, producerVars, walkFree, walkVars, channel>>

\* recv returns None once every sender is gone and the channel is empty.
ChannelClosed ==
    /\ main = "recv" /\ channel = <<>>
    /\ producer \in {"ok", "failed"}
    /\ main' = "await"
    /\ UNCHANGED <<valid, rooted, producerVars, walkFree, walkVars, channel, hand, workVars>>

AwaitProducer ==
    /\ main = "await"
    /\ main' = IF producer = "ok" THEN "join" ELSE "failed"
    /\ UNCHANGED <<valid, rooted, producerVars, walkFree, walkVars, channel, hand, workVars>>

\* Mutant: the workers are left to themselves.
ReturnAtOnce ==
    /\ main = "join"
    /\ main' = "ok" /\ rooted' = {}
    /\ UNCHANGED <<valid, producerVars, walkFree, walkVars, channel, hand, workVars>>

\* A panic is an error, else every worker is awaited and the roots dropped.
JoinWorkers ==
    /\ main = "join"
    /\ \/ /\ \E f \in File : worker[f] = "panicked"
          /\ main' = "failed"
       \/ /\ \A f \in File : worker[f] \in {"none", "done"}
          /\ main' = "ok"
    /\ rooted' = {}
    /\ UNCHANGED <<valid, producerVars, walkFree, walkVars, channel, hand, workVars>>

\* The runtime goes, and all tasks with it.
ExitFailed ==
    /\ main = "failed"
    /\ main' = "exited" /\ rooted' = {}
    /\ UNCHANGED <<valid, producerVars, walkFree, walkVars, channel, hand, workVars>>

Work(f) ==
    /\ worker[f] = "running"
    /\ worker' = [worker EXCEPT ![f] = "done"] /\ workFree' = workFree + 1
    /\ UNCHANGED <<valid, rooted, producerVars, walkFree, walkVars, channel, mainVars>>

Panic(f) ==
    /\ worker[f] = "running"
    /\ worker' = [worker EXCEPT ![f] = "panicked"] /\ workFree' = workFree + 1
    /\ UNCHANGED <<valid, rooted, producerVars, walkFree, walkVars, channel, mainVars>>
-----------------------------------------------------------------------------
\* A collection by another process.
Collect(p) ==
    /\ p \in valid \ rooted
    /\ valid' = valid \ {p}
    /\ UNCHANGED <<rooted, producerVars, walkFree, walkVars, channel, mainVars, workVars>>

Running == main # "exited"

Producer  == Running /\ (ValidStorePaths \/ TakePath \/ AddRoot \/ CheckValid \/ AllTaken
                         \/ JoinWalks \/ PanicJoined)
Walker(p) == Running /\ (ListFiles(p) \/ SendFile(p) \/ EndWalk(p))
Main      == Receive \/ SpawnWorker \/ ChannelClosed \/ AwaitProducer \/ JoinWorkers
             \/ ExitFailed
Worker(f) == Running /\ Work(f)

Next ==
    \/ Producer \/ Main
    \/ \E p \in Path : Walker(p) \/ Collect(p)
    \/ \E f \in File : Worker(f)
    \/ Running /\ (ProducerFails \/ \E p \in Path : WalkFails(p) \/ WalkPanics(p))
    \/ Running /\ \E f \in File : Panic(f)

\* Each task is run by the scheduler again and again; a blocking call ends.
Fairness ==
    /\ WF_vars(Producer) /\ WF_vars(Main)
    /\ \A p \in Path : WF_vars(Walker(p))
    /\ \A f \in File : WF_vars(Worker(f))

Spec     == Init /\ [][Next]_vars
FairSpec == Spec /\ Fairness
-----------------------------------------------------------------------------
Waiting(f) ==
    \/ worker[f] = "running" \/ hand = f
    \/ \E i \in DOMAIN channel : channel[i] = f

\* A path that is being walked, or whose files are waiting or being linked, is
\* not collected: it is rooted before it is found valid, and stays rooted until
\* the last worker is done (the comment before `anyhow::Ok(temp_roots)`).  An
\* error of the producer or a panic gives the roots up earlier.
WorkedPathsKept ==
    producer # "failed" /\ main \notin {"failed", "exited"} =>
        \A p \in Path :
            walk[p] \in {"list", "send"} \/ (\E f \in FilesOf[p] : Waiting(f)) => p \in valid

\* A run that succeeds has worked on every file of every path that was there,
\* the unreadable ones apart, and has left no task behind ("all tasks joined").
NothingLeftOut ==
    main = "ok" =>
        /\ \A p \in Path : WalkOver(p)
        /\ \A f \in File : worker[f] # "running" /\ ~Waiting(f)
        /\ \A p \in valid : walk[p] = "unreadable" \/ \A f \in FilesOf[p] : worker[f] = "done"

\* At most one file list per walk permit is in memory (the comment at the
\* permit's drop).
ListsBounded == Cardinality({p \in Path : walk[p] \in {"list", "send"}}) <= Jobs

\* The run ends, whatever fails: producer, walks and loop never wait for each
\* other in a circle (the comment on the two pools).
RunEnds == <>(main \in {"ok", "exited"})
=============================================================================
