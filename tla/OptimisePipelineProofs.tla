------------------------- MODULE OptimisePipelineProofs -------------------------
(***************************************************************************)
(* A path the optimiser works on is not collected, and no more file lists  *)
(* are in memory than there are walk permits, for any store and any number *)
(* of jobs, failures and panics included.                                  *)
(*                                                                         *)
(* The argument: a walk starts between a root and the end of the producer, *)
(* a file is on its way from the walk's send to the worker's end, and the  *)
(* roots outlive both.  Each walk holds the permit its path was taken      *)
(* with, and a path is taken once.                                         *)
(***************************************************************************)
EXTENDS OptimisePipeline, FiniteSetTheorems, TLAPS

Walking == {p \in Path : walk[p] \in {"list", "send"}}
InHand  == IF producer \in {"add", "check"} THEN 1 ELSE 0

TaskTypes ==
    /\ valid \subseteq Path /\ rooted \subseteq Path
    /\ producer \in {"query", "acquire", "add", "check", "join", "ok", "failed"}
    /\ todo \subseteq Path /\ current \in Path \cup {NoPath}
    /\ walkFree \in Nat
    /\ walk \in [Path -> {"none", "list", "send", "ended", "unreadable", "broken"}]
    /\ found \in [Path -> SUBSET File]
    /\ channel \in Seq(File)
    /\ main \in {"recv", "permit", "await", "join", "ok", "failed", "exited"}
    /\ hand \in File \cup {NoFile}
    /\ worker \in [File -> {"none", "running", "done", "panicked"}]

\* Every path is taken once, and each walk has its permit.
PermitInv ==
    /\ producer \in {"add", "check"} => current \in Path \ todo /\ walk[current] = "none"
    /\ producer = "query" => \A p \in Path : walk[p] = "none"
    /\ \A p \in todo : walk[p] = "none"
    /\ walkFree + Cardinality(Walking) + InHand = Jobs

\* No task has failed: the roots are there.
Good == producer # "failed" /\ main \notin {"failed", "exited"}

Busy(p) == walk[p] \in {"list", "send"} \/ \E f \in FilesOf[p] : Waiting(f)

\* The roots are older than the walks and younger than nothing.
RootInv ==
    /\ \A p \in Path : found[p] \subseteq FilesOf[p]
    /\ hand # NoFile => main = "permit"
    /\ producer = "ok" => ~WalkBroken /\ \A p \in Path : WalkOver(p)
    /\ main \in {"await", "join", "ok"} => channel = <<>> /\ producer \in {"ok", "failed"}
    /\ main = "ok" => \A f \in File : worker[f] # "running"
    /\ Good /\ producer = "check" => current \in rooted
    /\ Good => \A p \in Path : Busy(p) => p \in valid \cap rooted

PipelineInv == TaskTypes /\ PermitInv /\ RootInv

-------------------------------------------------------------------------------
LEMMA InitPipeline == Init => PipelineInv
<1> SUFFICES ASSUME Init PROVE PipelineInv
  OBVIOUS
<1> USE PipelineAssumption
<1>1. TaskTypes
  BY DEF Init, TaskTypes
<1>2. PermitInv
  <2>1. Walking = {}
    BY DEF Init, Walking
  <2> QED
    BY <2>1, FS_EmptySet DEF Init, PermitInv, InHand
<1>3. RootInv
  BY DEF Init, RootInv, Busy, Waiting, WalkOver, WalkBroken
<1> QED
  BY <1>1, <1>2, <1>3 DEF PipelineInv

LEMMA TypeStep == TaskTypes /\ PermitInv /\ [Next]_vars => TaskTypes'
<1> SUFFICES ASSUME TaskTypes, PermitInv, [Next]_vars PROVE TaskTypes'
  OBVIOUS
<1> USE PipelineAssumption DEF TaskTypes, producerVars, walkVars, mainVars, workVars
<1>1. CASE Producer \/ ProducerFails \/ PanicJoined
  <2>1. CASE ValidStorePaths \/ TakePath \/ AddRoot
    BY <2>1 DEF PermitInv, ValidStorePaths, TakePath, AddRoot
  <2>2. CASE CheckValid
    BY <2>2 DEF PermitInv, CheckValid
  <2>3. CASE AllTaken \/ JoinWalks
    BY <2>3 DEF AllTaken, JoinWalks
  <2>4. CASE ProducerFails \/ PanicJoined
    BY <2>4 DEF ProducerFails, PanicJoined, Fail, WalkOver
  <2> QED
    BY <1>1, <2>1, <2>2, <2>3, <2>4 DEF Producer
<1>2. ASSUME NEW p \in Path, Walker(p) \/ WalkFails(p) \/ WalkPanics(p) \/ Collect(p)
      PROVE  TaskTypes'
  <2>1. CASE SendFile(p)
    BY <2>1 DEF SendFile
  <2>2. CASE ListFiles(p)
    BY <2>2 DEF ListFiles
  <2>3. CASE EndWalk(p) \/ WalkFails(p) \/ WalkPanics(p)
    BY <2>3 DEF EndWalk, WalkFails, WalkPanics
  <2>4. CASE Collect(p)
    BY <2>4 DEF Collect
  <2> QED
    BY <1>2, <2>1, <2>2, <2>3, <2>4 DEF Walker
<1>3. CASE Main
  <2>1. CASE Receive
    BY <2>1 DEF Receive
  <2> QED
    BY <1>3, <2>1 DEF Main, SpawnWorker, ChannelClosed, AwaitProducer, JoinWorkers, ExitFailed
<1>4. ASSUME NEW f \in File, Worker(f) \/ Panic(f) PROVE TaskTypes'
  BY <1>4 DEF Worker, Work, Panic
<1>5. CASE UNCHANGED vars
  BY <1>5 DEF vars
<1> QED
  BY <1>1, <1>2, <1>3, <1>4, <1>5 DEF Next

-------------------------------------------------------------------------------
(* Permits.                                                                *)

LEMMA WalkingFacts ==
    ASSUME TaskTypes
    PROVE  IsFiniteSet(Walking) /\ Cardinality(Walking) \in Nat
<1>1. Walking \subseteq Path
  BY DEF Walking
<1>2. IsFiniteSet(Walking)
  BY <1>1, PipelineAssumption, FS_Subset
<1> QED
  BY <1>2, FS_CardinalityType

\* A walk that starts is one more, one that ends one less.
LEMMA WalkStarts ==
    ASSUME TaskTypes, NEW p \in Path, walk[p] = "none", walk' = [walk EXCEPT ![p] = "list"]
    PROVE  Cardinality(Walking') = Cardinality(Walking) + 1
<1>1. Walking' = Walking \cup {p} /\ p \notin Walking
  BY DEF TaskTypes, Walking
<1> QED
  BY <1>1, WalkingFacts, FS_AddElement

LEMMA WalkStops ==
    ASSUME TaskTypes, NEW p \in Path, walk[p] \in {"list", "send"}, NEW end \in {"ended", "unreadable", "broken"},
           walk' = [walk EXCEPT ![p] = end]
    PROVE  Cardinality(Walking') = Cardinality(Walking) - 1
<1>1. Walking' = Walking \ {p} /\ p \in Walking
  BY DEF TaskTypes, Walking
<1> QED
  BY <1>1, WalkingFacts, FS_RemoveElement

LEMMA PermitStep == TaskTypes /\ PermitInv /\ [Next]_vars => PermitInv'
<1> SUFFICES ASSUME TaskTypes, PermitInv, [Next]_vars PROVE PermitInv'
  OBVIOUS
<1> USE PipelineAssumption, WalkingFacts
        DEF TaskTypes, InHand, producerVars, walkVars, mainVars, workVars
<1>1. CASE ValidStorePaths \/ TakePath \/ AddRoot \/ AllTaken \/ JoinWalks
  <2>1. Walking' = Walking
    BY <1>1 DEF ValidStorePaths, TakePath, AddRoot, AllTaken, JoinWalks, Walking
  <2> QED
    BY <1>1, <2>1 DEF PermitInv, ValidStorePaths, TakePath, AddRoot, AllTaken, JoinWalks
<1>2. CASE CheckValid
  <2>1. CASE walk' = walk
    <3>1. Walking' = Walking
      BY <2>1 DEF Walking
    <3> QED
      BY <1>2, <2>1, <3>1 DEF PermitInv, CheckValid
  <2>2. CASE walk' # walk
    <3>1. /\ walk' = [walk EXCEPT ![current] = "list"] /\ walkFree' = walkFree
          /\ current \in Path \ todo /\ walk[current] = "none"
          /\ producer = "check" /\ producer' = "acquire" /\ todo' = todo
      BY <1>2, <2>2 DEF PermitInv, CheckValid
    <3>2. Cardinality(Walking') = Cardinality(Walking) + 1
      BY <3>1, WalkStarts
    <3> QED
      BY <3>1, <3>2 DEF PermitInv
  <2> QED
    BY <2>1, <2>2
<1>3. CASE ProducerFails \/ PanicJoined
  <2>1. Walking' = {}
    BY <1>3 DEF ProducerFails, PanicJoined, Fail, Walking, WalkOver
  <2>2. \A p \in Path : walk[p] = "none" => walk'[p] = "none"
    BY <1>3 DEF ProducerFails, PanicJoined, Fail, WalkOver
  <2> QED
    BY <1>3, <2>1, <2>2, FS_EmptySet DEF PermitInv, ProducerFails, PanicJoined, Fail
<1>4. ASSUME NEW p \in Path, ListFiles(p) \/ SendFile(p) \/ Collect(p) PROVE PermitInv'
  <2>1. Walking' = Walking /\ \A q \in Path : walk[q] = "none" <=> walk'[q] = "none"
    BY <1>4 DEF ListFiles, SendFile, Collect, Walking
  <2> QED
    BY <1>4, <2>1 DEF PermitInv, ListFiles, SendFile, Collect
<1>5. ASSUME NEW p \in Path, EndWalk(p) \/ WalkFails(p) \/ WalkPanics(p) PROVE PermitInv'
  <2>1. /\ walk[p] \in {"list", "send"} /\ walk'[p] \in {"ended", "unreadable", "broken"}
        /\ walk' = [walk EXCEPT ![p] = walk'[p]]
        /\ walkFree' = walkFree + 1 /\ UNCHANGED producerVars
    BY <1>5 DEF EndWalk, WalkFails, WalkPanics
  <2>2. Cardinality(Walking') = Cardinality(Walking) - 1
    BY <2>1, WalkStops
  <2> QED
    BY <2>1, <2>2 DEF PermitInv
<1>6. ASSUME \/ Main \/ UNCHANGED vars
             \/ \E f \in File : Worker(f) \/ Panic(f)
      PROVE  PermitInv'
  <2>1. UNCHANGED <<walk, walkFree, producer, todo, current>>
    BY <1>6 DEF Main, Receive, SpawnWorker, ChannelClosed, AwaitProducer, JoinWorkers, ExitFailed,
                Worker, Work, Panic, vars
  <2>2. Walking' = Walking
    BY <2>1 DEF Walking
  <2> QED
    BY <2>1, <2>2 DEF PermitInv
<1> QED
  BY <1>1, <1>2, <1>3, <1>4, <1>5, <1>6 DEF Next, Producer, Walker

-------------------------------------------------------------------------------
(* Roots.                                                                  *)

\* A file that is on its way belongs to one path.
LEMMA OnePath ==
    ASSUME NEW p \in Path, NEW q \in Path, NEW f \in FilesOf[p], f \in FilesOf[q]
    PROVE  p = q
  BY PipelineAssumption

LEMMA ProducerStep ==
    ASSUME PipelineInv, main # "exited", Producer \/ ProducerFails
    PROVE  RootInv'
<1> USE PipelineAssumption
        DEF PipelineInv, TaskTypes, RootInv, Good, Busy, Waiting, WalkOver, WalkBroken, walkVars, mainVars, workVars
<1>1. CASE ValidStorePaths \/ TakePath \/ AddRoot
  BY <1>1 DEF ValidStorePaths, TakePath, AddRoot
<1>2. CASE CheckValid
  BY <1>2 DEF CheckValid, IsValidPath, PermitInv
<1>3. CASE AllTaken \/ JoinWalks
  BY <1>3 DEF AllTaken, JoinWalks
<1>4. CASE ProducerFails \/ PanicJoined
  BY <1>4 DEF ProducerFails, PanicJoined, Fail
<1> QED
  BY <1>1, <1>2, <1>3, <1>4 DEF Producer

LEMMA WalkStep ==
    ASSUME PipelineInv, main # "exited", NEW p \in Path,
           Walker(p) \/ WalkFails(p) \/ WalkPanics(p) \/ Collect(p)
    PROVE  RootInv'
<1> USE PipelineAssumption
        DEF PipelineInv, TaskTypes, RootInv, Good, Busy, Waiting, WalkOver, WalkBroken, producerVars, walkVars,
            mainVars, workVars
<1>1. CASE ListFiles(p)
  BY <1>1 DEF ListFiles
<1>2. CASE SendFile(p)
  <2>1. PICK f \in found[p] : /\ channel' = Append(channel, f)
                              /\ found' = [found EXCEPT ![p] = @ \ {f}]
    BY <1>2 DEF SendFile
  <2>2. /\ walk[p] = "send" /\ main \in {"recv", "permit"} /\ f \in FilesOf[p] /\ f \in File
        /\ UNCHANGED <<valid, rooted, producerVars, walk, mainVars, workVars>>
    BY <1>2, <2>1 DEF SendFile, Receiving
  <2>3. \A g \in File : Waiting(g)' => Waiting(g) \/ g = f
    <3> TAKE g \in File
    <3>1. \A i \in DOMAIN channel' : channel'[i] = f \/ (i \in DOMAIN channel /\ channel'[i] = channel[i])
      BY <2>1, <2>2
    <3> QED
      BY <2>2, <3>1
  <2>4. \A q \in Path : Busy(q)' => Busy(q)
    BY <2>2, <2>3, OnePath
  <2> QED
    BY <2>1, <2>2, <2>4
<1>3. CASE EndWalk(p) \/ WalkFails(p) \/ WalkPanics(p)
  BY <1>3 DEF EndWalk, WalkFails, WalkPanics
<1>4. CASE Collect(p)
  BY <1>4 DEF Collect
<1> QED
  BY <1>1, <1>2, <1>3, <1>4 DEF Walker

LEMMA MainStep ==
    ASSUME PipelineInv, Main
    PROVE  RootInv'
<1> USE PipelineAssumption
        DEF PipelineInv, TaskTypes, RootInv, Good, Busy, Waiting, WalkOver, WalkBroken, producerVars, walkVars,
            mainVars, workVars
<1>1. CASE Receive
  <2>1. /\ main = "recv" /\ main' = "permit" /\ channel # <<>> /\ hand' = Head(channel)
        /\ channel' = Tail(channel) /\ hand' \in File
        /\ UNCHANGED <<valid, rooted, producerVars, walkVars, workVars>>
    BY <1>1 DEF Receive
  <2>2. \A f \in File : Waiting(f)' => Waiting(f)
    <3>1. 1 \in DOMAIN channel /\ hand' = channel[1]
      BY <2>1
    <3>2. \A i \in DOMAIN channel' : i + 1 \in DOMAIN channel /\ channel'[i] = channel[i + 1]
      BY <2>1
    <3> QED
      BY <2>1, <3>1, <3>2
  <2>3. \A p \in Path : Busy(p)' => Busy(p)
    BY <2>1, <2>2
  <2> QED
    BY <2>1, <2>3
<1>2. CASE SpawnWorker
  <2>1. CASE hand = NoFile
    BY <1>2, <2>1 DEF SpawnWorker
  <2>2. CASE hand # NoFile
    BY <1>2, <2>2 DEF SpawnWorker
  <2> QED
    BY <2>1, <2>2
<1>3. CASE ChannelClosed \/ AwaitProducer
  BY <1>3 DEF ChannelClosed, AwaitProducer
<1>4. CASE JoinWorkers
  BY <1>4 DEF JoinWorkers
<1>5. CASE ExitFailed
  BY <1>5 DEF ExitFailed
<1> QED
  BY <1>1, <1>2, <1>3, <1>4, <1>5 DEF Main

LEMMA WorkerStep ==
    ASSUME PipelineInv, NEW f \in File, Work(f) \/ Panic(f)
    PROVE  RootInv'
<1> USE DEF PipelineInv, TaskTypes, RootInv, Good, Busy, Waiting, WalkOver, WalkBroken
<1>1. /\ UNCHANGED <<valid, rooted, producer, current, walk, found, channel, main, hand>>
      /\ \A g \in File : worker'[g] = "running" => worker[g] = "running"
  BY DEF Work, Panic, producerVars, walkVars, mainVars
<1>2. \A p \in Path : Busy(p)' => Busy(p)
  BY <1>1, PipelineAssumption
<1> QED
  BY <1>1, <1>2

LEMMA RootStep == PipelineInv /\ [Next]_vars => RootInv'
<1> SUFFICES ASSUME PipelineInv, [Next]_vars PROVE RootInv'
  OBVIOUS
<1>1. ASSUME NEW p \in Path, Collect(p), main = "exited" PROVE RootInv'
  BY <1>1 DEF PipelineInv, TaskTypes, RootInv, Good, Collect, WalkOver, WalkBroken, producerVars, walkVars,
              mainVars, workVars
<1>2. CASE UNCHANGED vars
  BY <1>2 DEF vars, PipelineInv, RootInv, Good, Busy, Waiting, WalkOver, WalkBroken, producerVars, walkVars,
              mainVars, workVars
<1> QED
  BY <1>1, <1>2, ProducerStep, WalkStep, MainStep, WorkerStep
     DEF Next, Producer, Walker, Worker, Running

-------------------------------------------------------------------------------
(* What a run that succeeds has done.                                      *)

Worked(f) == worker[f] \in {"done", "panicked"}

\* A path is taken up as long as it is valid; a file its walk has listed is still
\* to be sent, under way or worked on.
DoneInv ==
    /\ main \in {"join", "ok"} => producer = "ok"
    /\ main = "ok" => \A f \in File : worker[f] \in {"none", "done"}
    /\ producer \in {"join", "ok"} => todo = {}
    /\ Good =>
         /\ producer # "query" => \A p \in valid :
               p \in todo \/ walk[p] # "none" \/ (producer \in {"add", "check"} /\ p = current)
         /\ \A p \in Path : walk[p] = "send" =>
               \A f \in FilesOf[p] \ found[p] : Waiting(f) \/ Worked(f)
         /\ \A p \in Path : walk[p] = "ended" => \A f \in FilesOf[p] : Waiting(f) \/ Worked(f)

LEMMA DoneProducer ==
    ASSUME PipelineInv, DoneInv, main # "exited", Producer \/ ProducerFails
    PROVE  DoneInv'
<1> USE PipelineAssumption
        DEF PipelineInv, TaskTypes, RootInv, DoneInv, Good, Waiting, Worked, walkVars, mainVars, workVars
<1>1. CASE ValidStorePaths \/ TakePath \/ AddRoot
  BY <1>1 DEF ValidStorePaths, TakePath, AddRoot
<1>2. CASE CheckValid
  BY <1>2 DEF CheckValid, IsValidPath, PermitInv
<1>3. CASE AllTaken \/ JoinWalks
  BY <1>3 DEF AllTaken, JoinWalks
<1>4. CASE ProducerFails \/ PanicJoined
  BY <1>4 DEF ProducerFails, PanicJoined, Fail
<1> QED
  BY <1>1, <1>2, <1>3, <1>4 DEF Producer

LEMMA DoneWalk ==
    ASSUME PipelineInv, DoneInv, NEW p \in Path,
           (main # "exited" /\ (Walker(p) \/ WalkFails(p) \/ WalkPanics(p))) \/ Collect(p)
    PROVE  DoneInv'
<1> USE PipelineAssumption
        DEF PipelineInv, TaskTypes, RootInv, DoneInv, Good, Waiting, Worked, producerVars, walkVars,
            mainVars, workVars
<1>1. CASE ListFiles(p)
  BY <1>1 DEF ListFiles
<1>2. CASE SendFile(p)
  <2>1. PICK f \in found[p] : /\ channel' = Append(channel, f)
                              /\ found' = [found EXCEPT ![p] = @ \ {f}]
    BY <1>2 DEF SendFile
  <2>2. f \in File /\ UNCHANGED <<valid, producerVars, walk, mainVars, workVars>>
    BY <1>2, <2>1 DEF SendFile
  <2>3. Waiting(f)' /\ \A g \in File : Waiting(g) => Waiting(g)'
    <3>1. Len(channel) + 1 \in DOMAIN channel' /\ channel'[Len(channel) + 1] = f
      BY <2>1, <2>2
    <3>2. \A i \in DOMAIN channel : i \in DOMAIN channel' /\ channel'[i] = channel[i]
      BY <2>1, <2>2
    <3> QED
      BY <2>2, <3>1, <3>2
  <2> HIDE DEF Waiting
  <2>4. \A q \in Path : found'[q] = IF q = p THEN found[p] \ {f} ELSE found[q]
    BY <2>1
  <2> QED
    BY <2>2, <2>3, <2>4
<1>3. CASE EndWalk(p)
  <2>1. CASE found[p] = {}
    BY <1>3, <2>1 DEF EndWalk
  <2>2. CASE found[p] # {}
    <3>1. walk[p] = "send" /\ ~Receiving
      BY <1>3, <2>2 DEF EndWalk
    <3>2. ~Good
      BY <3>1 DEF Receiving, WalkOver
    <3> QED
      BY <1>3, <3>2 DEF EndWalk
  <2> QED
    BY <2>1, <2>2
<1>4. CASE WalkFails(p) \/ WalkPanics(p)
  BY <1>4 DEF WalkFails, WalkPanics
<1>5. CASE Collect(p)
  BY <1>5 DEF Collect
<1> QED
  BY <1>1, <1>2, <1>3, <1>4, <1>5 DEF Walker

\* What waits goes on waiting, or is worked on, until it is.
LEMMA DoneFiles ==
    ASSUME PipelineInv, DoneInv,
           UNCHANGED <<valid, producerVars, walkVars>>,
           Good' => Good,
           main' \in {"join", "ok"} => producer = "ok",
           main' = "ok" => \A f \in File : worker'[f] \in {"none", "done"},
           \A f \in File : Waiting(f) \/ Worked(f) => Waiting(f)' \/ Worked(f)'
    PROVE  DoneInv'
  BY PipelineAssumption DEF DoneInv, producerVars, walkVars

LEMMA DoneMain ==
    ASSUME PipelineInv, DoneInv, Main
    PROVE  DoneInv'
<1> USE PipelineAssumption
        DEF PipelineInv, TaskTypes, RootInv, Good, Waiting, Worked, mainVars, workVars
<1>1. CASE Receive
  <2>1. /\ main' = "permit" /\ main = "recv" /\ channel # <<>> /\ hand' = Head(channel)
        /\ channel' = Tail(channel) /\ UNCHANGED <<valid, producerVars, walkVars, worker>>
    BY <1>1 DEF Receive
  <2>2. \A f \in File : Waiting(f) => Waiting(f)'
    <3> SUFFICES ASSUME NEW f \in File, Waiting(f) PROVE Waiting(f)'
      OBVIOUS
    <3>1. CASE worker[f] = "running"
      BY <2>1, <3>1
    <3>2. ASSUME NEW i \in DOMAIN channel, channel[i] = f PROVE Waiting(f)'
      <4>1. CASE i = 1
        BY <2>1, <3>2, <4>1
      <4>2. CASE i # 1
        <5>1. i - 1 \in DOMAIN channel' /\ channel'[i - 1] = f
          BY <2>1, <3>2, <4>2
        <5> QED
          BY <5>1
      <4> QED
        BY <4>1, <4>2
    <3>3. hand = NoFile
      BY <2>1
    <3> QED
      BY <3>1, <3>2, <3>3
  <2>3. Good' => Good
    BY <2>1 DEF producerVars
  <2>4. main' \notin {"join", "ok"} /\ UNCHANGED <<valid, producerVars, walkVars>>
    BY <2>1
  <2>5. \A f \in File : Waiting(f) \/ Worked(f) => Waiting(f)' \/ Worked(f)'
    <3> SUFFICES ASSUME NEW f \in File, ~Waiting(f), Worked(f) PROVE Worked(f)'
      BY <2>2
    <3> QED
      BY <2>1
  <2> HIDE DEF PipelineInv, Good, Waiting, Worked
  <2> QED
    BY <2>3, <2>4, <2>5, DoneFiles
<1>2. CASE SpawnWorker
  <2>1. /\ main' \in {"recv", "failed"} /\ main = "permit" /\ hand' = NoFile
        /\ worker' = [worker EXCEPT ![hand] = "running"]
        /\ UNCHANGED <<valid, producerVars, walkVars, channel>>
    BY <1>2 DEF SpawnWorker
  <2>2. \A f \in File : Waiting(f) \/ Worked(f) => Waiting(f)' \/ Worked(f)'
    BY <2>1
  <2>3. Good' => Good
    BY <2>1 DEF producerVars
  <2>4. main' \notin {"join", "ok"} /\ UNCHANGED <<valid, producerVars, walkVars>>
    BY <2>1
  <2> HIDE DEF PipelineInv, Good, Waiting, Worked
  <2> QED
    BY <2>2, <2>3, <2>4, DoneFiles
<1>3. CASE ChannelClosed \/ AwaitProducer \/ JoinWorkers \/ ExitFailed
  <2>1. UNCHANGED <<valid, producerVars, walkVars, channel, hand, worker>>
    BY <1>3 DEF ChannelClosed, AwaitProducer, JoinWorkers, ExitFailed
  <2>2. Good' => Good
    BY <1>3, <2>1 DEF ChannelClosed, AwaitProducer, JoinWorkers, ExitFailed, producerVars
  <2>3. main' \in {"join", "ok"} => producer = "ok"
    BY <1>3 DEF ChannelClosed, AwaitProducer, JoinWorkers, ExitFailed, DoneInv
  <2>4. main' = "ok" => \A f \in File : worker'[f] \in {"none", "done"}
    BY <1>3, <2>1 DEF ChannelClosed, AwaitProducer, JoinWorkers, ExitFailed
  <2>5. \A f \in File : Waiting(f) \/ Worked(f) => Waiting(f)' \/ Worked(f)'
    BY <2>1
  <2> HIDE DEF Good, Waiting, Worked
  <2> QED
    BY <2>1, <2>2, <2>3, <2>4, <2>5, DoneFiles
<1> QED
  BY <1>1, <1>2, <1>3 DEF Main

LEMMA DoneStep == PipelineInv /\ DoneInv /\ [Next]_vars => DoneInv'
<1> SUFFICES ASSUME PipelineInv, DoneInv, [Next]_vars PROVE DoneInv'
  OBVIOUS
<1>1. ASSUME NEW f \in File, Work(f) \/ Panic(f) PROVE DoneInv'
  <2>1. /\ UNCHANGED <<valid, producerVars, walkVars, channel, main, hand>>
        /\ worker[f] = "running" /\ worker'[f] \in {"done", "panicked"}
        /\ worker' = [worker EXCEPT ![f] = worker'[f]]
    BY <1>1 DEF Work, Panic, mainVars, PipelineInv, TaskTypes
  <2>2. \A g \in File : Waiting(g) \/ Worked(g) => Waiting(g)' \/ Worked(g)'
    BY <2>1 DEF Waiting, Worked, PipelineInv, TaskTypes
  <2>3. main # "ok"
    BY <2>1 DEF PipelineInv, RootInv
  <2>4. main' = main /\ producer' = producer
    BY <2>1 DEF producerVars
  <2> QED
    BY <2>1, <2>2, <2>3, <2>4, DoneFiles DEF Good, DoneInv
<1>2. CASE UNCHANGED vars
  BY <1>2, DoneFiles DEF vars, DoneInv, Good, Waiting, Worked, producerVars, mainVars, workVars
<1> QED
  BY <1>1, <1>2, DoneProducer, DoneWalk, DoneMain DEF Next, Producer, Walker, Worker, Running

LEMMA InitDone == Init => DoneInv
  BY DEF Init, DoneInv, Good

-------------------------------------------------------------------------------
THEOREM PipelineInvariant == Spec => []PipelineInv
<1>1. PipelineInv /\ [Next]_vars => PipelineInv'
  BY TypeStep, PermitStep, RootStep DEF PipelineInv
<1> QED
  BY InitPipeline, <1>1, PTL DEF Spec

\* No collection takes a path that is being walked or whose files are under way.
THEOREM WorkedPathsStay == Spec => []WorkedPathsKept
<1>1. PipelineInv => WorkedPathsKept
  BY DEF PipelineInv, RootInv, Good, Busy, WorkedPathsKept
<1> QED
  BY <1>1, PipelineInvariant, PTL

\* The file lists in memory are at most as many as the jobs.
THEOREM ListsAreBounded == Spec => []ListsBounded
<1>1. PipelineInv => ListsBounded
  BY WalkingFacts, PipelineAssumption DEF PipelineInv, TaskTypes, PermitInv, InHand, Walking, ListsBounded
<1> QED
  BY <1>1, PipelineInvariant, PTL

\* A run that succeeds has no walk or worker left, and each path that is still
\* valid was unreadable or has had all its files worked on.
THEOREM NothingIsLeftOut == Spec => []NothingLeftOut
<1>1. PipelineInv /\ DoneInv => NothingLeftOut
  <2> SUFFICES ASSUME PipelineInv, DoneInv, main = "ok" PROVE NothingLeftOut
    BY DEF NothingLeftOut
  <2> USE DEF PipelineInv, TaskTypes, RootInv, DoneInv
  <2>1. producer = "ok" /\ todo = {} /\ \A p \in Path : WalkOver(p) /\ walk[p] # "broken"
    BY DEF WalkBroken
  <2>2. \A f \in File : worker[f] # "running" /\ ~Waiting(f)
    BY PipelineAssumption DEF Waiting
  <2>3. ASSUME NEW p \in valid
        PROVE  walk[p] = "unreadable" \/ \A f \in FilesOf[p] : worker[f] = "done"
    <3>1. walk[p] \in {"ended", "unreadable"}
      BY <2>1 DEF WalkOver, Good
    <3>2. ASSUME walk[p] = "ended", NEW f \in FilesOf[p] PROVE worker[f] = "done"
      BY <2>1, <2>2, <3>2, PipelineAssumption DEF Good, Worked
    <3> QED
      BY <3>1, <3>2
  <2> QED
    BY <2>1, <2>2, <2>3 DEF NothingLeftOut
<1> QED
  BY <1>1, PipelineInvariant, InitDone, DoneStep, PTL DEF Spec
===============================================================================
