------------------------------- MODULE GcSocket -------------------------------
(***************************************************************************)
(* crates/gc/src/gc_socket.rs: the LiveSet shared by the deletion loop and *)
(* the gc-socket, one handler thread per connected builder, and the        *)
(* teardown in GcSocketServer::drop.                                       *)
(*                                                                         *)
(* The LiveSet is a monitor (a mutex and a condition variable): every      *)
(* operator below that touches it is one critical section of the code.     *)
(* The module is composed with the deletion loop in GcDelete, which says   *)
(* what the rest of the system does meanwhile.                             *)
(***************************************************************************)
EXTENDS StoreGraph

CONSTANTS
    Path,    \* the store basenames
    Node,    \* those with a row in the graph snapshot
    Edge,    \* the snapshot's edges
    Client,  \* builder processes, one connection each
    NoPath   \* no request in progress

ASSUME GraphAssumption ==
    /\ IsFiniteSet(Path)
    /\ Node \subseteq Path
    /\ Edge \in [Node -> SUBSET Node]
    /\ NoPath \notin Path

ASSUME ClientFinite == IsFiniteSet(Client)

VARIABLES
    protected,         \* nodes flagged "do not delete"
    protectedUnknown,  \* protected basenames outside the graph
    pendingNodes,      \* nodes being deleted
    pendingUnknown,    \* basenames outside the graph being deleted
    cancelled,         \* protect() must stop waiting
    server,            \* the server's life
    shut,              \* connections Drop has shut down
    handler,           \* where each connection's handler thread is
    want,              \* the basename whose protect() is in progress
    waitFor            \* that call's wait_for

liveVars == <<protected, protectedUnknown, pendingNodes, pendingUnknown, cancelled>>
callVars == <<want, waitFor>>
connVars == <<handler, callVars>>
markVars == <<protected, protectedUnknown, cancelled, server, shut>>
socketVars == <<markVars, pendingNodes, pendingUnknown, connVars>>

HandlerState == {"closed", "read", "asleep", "woken", "ack"}
ServerState  == {"serving", "closing", "stopped", "joining", "down"}

SocketTypeOK ==
    /\ protected \subseteq Node
    /\ protectedUnknown \subseteq Path
    /\ pendingNodes \subseteq Node
    /\ pendingUnknown \subseteq Path
    /\ cancelled \in BOOLEAN
    /\ server \in ServerState
    /\ shut \subseteq Client
    /\ handler \in [Client -> HandlerState]
    /\ want \in [Client -> Path \cup {NoPath}]
    /\ waitFor \in [Client -> SUBSET Node]

\* The roots the early server took, replayed by basename when they are not in
\* the graph, are the only state the server starts with.
SocketInit(earlyUnknown) ==
    /\ protected = {}
    /\ protectedUnknown = earlyUnknown
    /\ pendingNodes = {}
    /\ pendingUnknown = {}
    /\ cancelled = FALSE
    /\ server = "serving"
    /\ shut = {}
    /\ handler = [c \in Client |-> "closed"]
    /\ want = [c \in Client |-> NoPath]
    /\ waitFor = [c \in Client |-> {}]

\* What a dead process leaves: no server, no connection, no LiveSet.
SocketGone ==
    /\ protected' = {} /\ protectedUnknown' = {}
    /\ pendingNodes' = {} /\ pendingUnknown' = {}
    /\ cancelled' = FALSE
    /\ server' = "down"
    /\ shut' = {}
    /\ handler' = [c \in Client |-> "closed"]
    /\ want' = [c \in Client |-> NoPath]
    /\ waitFor' = [c \in Client |-> {}]

\* compute_closure of a single node.
Reach == ReachFrom(Edge)

-------------------------------------------------------------------------------
(* The condition variable.                                                 *)

NotifyAll == [c \in Client |-> IF handler[c] = "asleep" THEN "woken" ELSE handler[c]]

-------------------------------------------------------------------------------
(* The LiveSet as the deletion loop uses it.                               *)

ClaimNodes(nodes) == pendingNodes' = pendingNodes \cup (nodes \ protected)

\* Mutant: the deleter goes on without waking anyone.
EndDeleteWithoutNotify(nodes) ==
    /\ pendingNodes' = pendingNodes \ nodes
    /\ handler' = handler

EndDeleteNodes(nodes) ==
    /\ pendingNodes' = pendingNodes \ nodes
    /\ handler' = IF nodes = {} THEN handler ELSE NotifyAll

\* Mutant: a root that arrived meanwhile is overlooked.
TryBeginRegardless(p) == pendingUnknown' = pendingUnknown \cup {p}

TryBeginDeleteUnknown(p) ==
    pendingUnknown' = IF p \in protectedUnknown THEN pendingUnknown
                                                ELSE pendingUnknown \cup {p}

EndDeleteUnknown(p) ==
    /\ pendingUnknown' = pendingUnknown \ {p}
    /\ handler' = NotifyAll

-------------------------------------------------------------------------------
(* protect(), called by a handler thread for one line of its connection.   *)

ProtectSet(p) == IF p \in Node THEN Reach[p] ELSE {}

Conflict(p, nodes) == nodes \cap pendingNodes # {} \/ p \in pendingUnknown

\* Mark the closure, then wait on what of it is being deleted: one critical
\* section up to the wait.
Enter(c, p, marks, wait) ==
    /\ protected' = protected \cup marks
    /\ protectedUnknown' = protectedUnknown \cup ({p} \ Node)
    /\ want' = [want EXCEPT ![c] = p]
    /\ waitFor' = [waitFor EXCEPT ![c] = wait]
    /\ handler' = [handler EXCEPT ![c] =
                      IF Conflict(p, wait) /\ ~cancelled THEN "asleep" ELSE "ack"]

\* Mutants of Protect: bugs the properties must notice.
ProtectFlagsEveryName(c, p) ==
    Enter(c, p, ProtectSet(p) \cup {p}, ProtectSet(p) \cap pendingNodes)
ProtectMarksRootOnly(c, p) ==
    Enter(c, p, {p} \cap Node, ProtectSet(p) \cap pendingNodes)
ProtectWaitsForNewOnly(c, p) ==
    Enter(c, p, ProtectSet(p), (ProtectSet(p) \ protected) \cap pendingNodes)

Protect(c, p) == Enter(c, p, ProtectSet(p), ProtectSet(p) \cap pendingNodes)

\* Awake again with the mutex held: the while condition is evaluated anew.
WakeUp(c) ==
    /\ handler[c] = "woken"
    /\ handler' = [handler EXCEPT ![c] =
                      IF Conflict(want[c], waitFor[c]) /\ ~cancelled THEN "asleep" ELSE "ack"]

-------------------------------------------------------------------------------
(* accept_loop and handle_client.                                          *)

\* While the accept thread runs; one last connection may be taken between the
\* shutdown flag and the thread's next look at it.
Accept(c) ==
    /\ server \in {"serving", "closing"}
    /\ handler[c] = "closed"
    /\ handler' = [handler EXCEPT ![c] = "read"]
    /\ server' = IF server = "closing" THEN "stopped" ELSE server
    /\ UNCHANGED <<liveVars, callVars, shut>>

\* A line is read; lines already queued are served even during teardown.
ReadLine(c, p) ==
    /\ handler[c] = "read"
    /\ Protect(c, p)
    /\ UNCHANGED <<pendingNodes, pendingUnknown, cancelled, server, shut>>

\* The '1' reaches the builder and the handler reads on.
AckDelivered(c) ==
    /\ handler[c] = "ack"
    /\ c \notin shut
    /\ handler' = [handler EXCEPT ![c] = "read"]
    /\ want' = [want EXCEPT ![c] = NoPath]
    /\ waitFor' = [waitFor EXCEPT ![c] = {}]

\* The builder hung up or Drop shut the stream: the write fails, the handler ends.
AckFails(c) ==
    /\ handler[c] = "ack"
    /\ handler' = [handler EXCEPT ![c] = "closed"]
    /\ want' = [want EXCEPT ![c] = NoPath]
    /\ waitFor' = [waitFor EXCEPT ![c] = {}]

\* read_line returns 0 (or an error, or an overlong line).
Eof(c) ==
    /\ handler[c] = "read"
    /\ handler' = [handler EXCEPT ![c] = "closed"]
    /\ UNCHANGED callVars

-------------------------------------------------------------------------------
(* GcSocketServer::drop.                                                   *)

CloseListener ==
    /\ server = "serving"
    /\ server' = "closing"
    /\ UNCHANGED <<liveVars, connVars, shut>>

\* Mutant: the handlers are joined while some still sleep.
JoinWithoutCancel ==
    /\ server \in {"closing", "stopped"}
    /\ server' = "joining"
    /\ UNCHANGED <<liveVars, connVars, shut>>

\* The accept thread is joined, then every sleeping protect() is released.
Cancel ==
    /\ server \in {"closing", "stopped"}
    /\ server' = "joining"
    /\ cancelled' = TRUE
    /\ handler' = NotifyAll
    /\ UNCHANGED <<protected, protectedUnknown, pendingNodes, pendingUnknown, callVars, shut>>

\* The connections are shut down one at a time, each handler joined before the next.
ShutDown(c) ==
    /\ server = "joining"
    /\ handler[c] # "closed"
    /\ c \notin shut
    /\ \A d \in shut : handler[d] = "closed"
    /\ shut' = shut \cup {c}
    /\ UNCHANGED <<liveVars, connVars, server>>

Joined ==
    /\ server = "joining"
    /\ \A c \in Client : handler[c] = "closed"
    /\ server' = "down"
    /\ UNCHANGED <<liveVars, connVars, shut>>
===============================================================================
