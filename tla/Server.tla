------------------------------- MODULE Server -------------------------------
(***************************************************************************)
(* Server::run and the tasks it spawns: the accept loop with its semaphore *)
(* of max_connections permits, the watch channel that carries the shutdown *)
(* signal, the connection tasks (a TLS handshake, then the protocol), and  *)
(* the drain that ends the run.  A session's traffic is in Connection;     *)
(* here a task only serves, until it ends by itself or is told to.         *)
(*                                                                         *)
(* run waits for the handles of its tasks in order and aborts the ones     *)
(* that remain when the time is over.  Since a task that is done stays     *)
(* done, that is the same as waiting for a set of handles.                 *)
(***************************************************************************)
EXTENDS Integers, FiniteSets

CONSTANTS
    Clients,         \* clients, each of which connects once
    MaxConnections,  \* max_connections
    Tls,             \* is_tls
    Silent,          \* clients that may never take part in the handshake
    DrainZeros,      \* whether drain_timeout may be 0, and may be more
    MaxSends         \* bound on sends into the watch channel

ASSUME ServerAssumption ==
    /\ IsFiniteSet(Clients) /\ Silent \subseteq Clients
    /\ MaxConnections \in Nat /\ MaxSends \in Nat
    /\ Tls \in BOOLEAN /\ DrainZeros \subseteq BOOLEAN

VARIABLES
    pc,        \* where run is
    free,      \* permits in the semaphore
    handles,   \* connection_handles
    conn,      \* each client's connection
    channel,   \* the watch channel: its last value and the number of sends
    runSeen,   \* the version self.shutdown_rx has seen
    seen,      \* the version each task's receiver has seen
    stopped,   \* history: true was sent
    drainZero  \* drain_timeout is 0; it is set before run and stays

vars == <<pc, free, handles, conn, channel, runSeen, seen, stopped, drainZero>>

RunAt == {"new", "acquire", "select", "backoff", "drain", "returned", "failed"}
ConnState == {"away", "backlog", "handshake", "serving", "aborting", "done"}

\* Connections that have a task, and so a permit.
Live == {c \in Clients : conn[c] \in {"handshake", "serving", "aborting"}}

\* The loop body holds a permit from its acquisition to its last line.
HoldsPermit == pc \in {"select", "backoff"}

Init ==
    /\ pc = "new" /\ free = MaxConnections /\ handles = {}
    /\ conn = [c \in Clients |-> "away"]
    /\ channel = [value |-> FALSE, version |-> 0]
    /\ runSeen = 0 /\ seen = [c \in Clients |-> 0]
    /\ stopped = FALSE /\ drainZero \in DrainZeros

-----------------------------------------------------------------------------
(* Clients and the watch channel                                           *)

\* The operating system completes a connection and keeps it in the backlog.
Connect(c) ==
    /\ pc \notin {"new", "failed"} /\ conn[c] = "away"
    /\ conn' = [conn EXCEPT ![c] = "backlog"]
    /\ UNCHANGED <<pc, free, handles, channel, runSeen, seen, stopped, drainZero>>

\* Server::shutdown sends true; a holder of the shutdown handle sends either.
Send(v) ==
    /\ channel.version < MaxSends
    /\ channel' = [value |-> v, version |-> channel.version + 1]
    /\ stopped' = (stopped \/ v)
    /\ UNCHANGED <<pc, free, handles, conn, runSeen, seen, drainZero>>

-----------------------------------------------------------------------------
(* The accept loop                                                         *)

\* Mutant: only the connections that are serving are kept.
RetainServing(hs) == {c \in hs : conn[c] = "serving"}

\* The top of the loop: handles of finished tasks are dropped.
Retain(hs) == {c \in hs : conn[c] # "done"}

\* Mutant: run returns when the time is over and leaves the tasks running.
ReturnWithoutAbort == pc' = "returned" /\ UNCHANGED conn

\* The drain time is over: the tasks that are left are aborted, and run
\* returns without waiting for them.
AbortRest ==
    /\ conn' = [c \in Clients |-> IF c \in Retain(handles) THEN "aborting" ELSE conn[c]]
    /\ pc' = "returned"

\* Out of the accept loop into the drain.  A drain_timeout of 0 has elapsed
\* before the first wait.
LeaveLoop ==
    IF drainZero /\ Retain(handles) # {} THEN AbortRest
                                        ELSE pc' = "drain" /\ UNCHANGED conn

Start ==
    /\ pc = "new" /\ pc' = "acquire"
    /\ UNCHANGED <<free, handles, conn, channel, runSeen, seen, stopped, drainZero>>

\* No handler factory, or the address cannot be bound: run returns an error.
StartFails ==
    /\ pc = "new" /\ pc' = "failed"
    /\ UNCHANGED <<free, handles, conn, channel, runSeen, seen, stopped, drainZero>>

\* Mutant: a permit is taken though none is free.
AcquireUnguarded ==
    /\ pc = "acquire"
    /\ free' = free - 1 /\ pc' = "select"
    /\ UNCHANGED <<handles, conn, channel, runSeen, seen, stopped, drainZero>>

\* acquire_owned waits for a permit, and for nothing else.  There is no
\* semaphore when max_connections is 0: `None => break`.
Acquire ==
    /\ pc = "acquire"
    /\ IF MaxConnections = 0
       THEN LeaveLoop /\ UNCHANGED free
       ELSE free > 0 /\ free' = free - 1 /\ pc' = "select" /\ UNCHANGED conn
    /\ UNCHANGED <<handles, channel, runSeen, seen, stopped, drainZero>>

\* Mutant: the task subscribes anew, and takes what was sent before as seen.
AcceptSubscribes(c) ==
    /\ pc = "select" /\ conn[c] = "backlog"
    /\ conn' = [conn EXCEPT ![c] = IF Tls THEN "handshake" ELSE "serving"]
    /\ seen' = [seen EXCEPT ![c] = channel.version]
    /\ handles' = Retain(handles) \cup {c}
    /\ pc' = "acquire"
    /\ UNCHANGED <<free, channel, runSeen, stopped, drainZero>>

\* The receiver is cloned with the version run has seen, and the permit moves
\* into the task.
Accept(c) ==
    /\ pc = "select" /\ conn[c] = "backlog"
    /\ conn' = [conn EXCEPT ![c] = IF Tls THEN "handshake" ELSE "serving"]
    /\ seen' = [seen EXCEPT ![c] = runSeen]
    /\ handles' = Retain(handles) \cup {c}
    /\ pc' = "acquire"
    /\ UNCHANGED <<free, channel, runSeen, stopped, drainZero>>

AcceptFails ==
    /\ pc = "select" /\ pc' = "backoff"
    /\ UNCHANGED <<free, handles, conn, channel, runSeen, seen, stopped, drainZero>>

\* Mutant: the permit is not given back when accept failed.
BackoffLeaksPermit ==
    /\ pc = "backoff" /\ pc' = "acquire"
    /\ handles' = Retain(handles)
    /\ UNCHANGED <<free, conn, channel, runSeen, seen, stopped, drainZero>>

BackoffOver ==
    /\ pc = "backoff" /\ pc' = "acquire"
    /\ free' = free + 1 /\ handles' = Retain(handles)
    /\ UNCHANGED <<conn, channel, runSeen, seen, stopped, drainZero>>

\* Mutant: any change stops the server, whatever the value.
RunSignalAnyValue ==
    /\ pc \in {"select", "backoff"} /\ runSeen < channel.version
    /\ runSeen' = channel.version
    /\ free' = free + 1
    /\ LeaveLoop
    /\ UNCHANGED <<handles, channel, seen, stopped, drainZero>>

\* changed() fires in the select of the accept or of the backoff.  Either way
\* the iteration, and with it the permit, is over.
RunSignal ==
    /\ pc \in {"select", "backoff"} /\ runSeen < channel.version
    /\ runSeen' = channel.version
    /\ free' = free + 1
    /\ \/ channel.value /\ LeaveLoop /\ UNCHANGED handles
       \/ /\ ~channel.value
          /\ pc' = "acquire" /\ handles' = Retain(handles) /\ UNCHANGED conn
    /\ UNCHANGED <<channel, seen, stopped, drainZero>>

\* Every handle has been joined.
DrainDone ==
    /\ pc = "drain" /\ Retain(handles) = {}
    /\ pc' = "returned"
    /\ UNCHANGED <<free, handles, conn, channel, runSeen, seen, stopped, drainZero>>

\* Mutant: the drain gives up on sessions and still waits for handshakes.
DrainAwaitsHandshakes ==
    /\ pc = "drain" /\ Retain(handles) # {}
    /\ \A c \in Retain(handles) : conn[c] # "handshake"
    /\ AbortRest
    /\ UNCHANGED <<free, handles, channel, runSeen, seen, stopped, drainZero>>

DrainExpires ==
    /\ pc = "drain" /\ Retain(handles) # {}
    /\ AbortRest
    /\ UNCHANGED <<free, handles, channel, runSeen, seen, stopped, drainZero>>

-----------------------------------------------------------------------------
(* The connection tasks                                                    *)

\* Mutant: the permit is not dropped with the task.
EndsKeepingPermit(c) ==
    /\ conn' = [conn EXCEPT ![c] = "done"]
    /\ UNCHANGED <<pc, free, handles, channel, runSeen, seen, stopped, drainZero>>

\* A task is over, and its permit with it.
Ends(c) ==
    /\ conn' = [conn EXCEPT ![c] = "done"]
    /\ free' = free + 1
    /\ UNCHANGED <<pc, handles, channel, runSeen, seen, stopped, drainZero>>

\* The handshake is awaited outside the select and without a timeout.
HandshakeDone(c) ==
    /\ conn[c] = "handshake"
    /\ conn' = [conn EXCEPT ![c] = "serving"]
    /\ UNCHANGED <<pc, free, handles, channel, runSeen, seen, stopped, drainZero>>

\* The handshake fails, the peer goes, a transport error, Finish, a panic.
TaskEnds(c) ==
    /\ conn[c] \in {"handshake", "serving"}
    /\ Ends(c)

\* changed() fires in the task's select: true ends it.
TaskSignal(c) ==
    /\ conn[c] = "serving" /\ seen[c] < channel.version
    /\ \/ channel.value /\ Ends(c)
       \/ /\ ~channel.value
          /\ seen' = [seen EXCEPT ![c] = channel.version]
          /\ UNCHANGED <<pc, free, handles, conn, channel, runSeen, stopped, drainZero>>

\* An aborted task is dropped at its next await.
TaskAborted(c) ==
    /\ conn[c] = "aborting"
    /\ Ends(c)

-----------------------------------------------------------------------------
RunStep ==
    \/ Start \/ Acquire \/ BackoffOver \/ DrainDone \/ DrainExpires

\* run has returned and no task is left.
Finished ==
    /\ pc \in {"returned", "failed"} /\ Live = {}
    /\ UNCHANGED vars

Next ==
    \/ \E c \in Clients :
           Connect(c) \/ Accept(c) \/ HandshakeDone(c)
               \/ TaskEnds(c) \/ TaskSignal(c) \/ TaskAborted(c)
    \/ \E v \in BOOLEAN : Send(v)
    \/ RunStep \/ StartFails \/ AcceptFails \/ RunSignal
    \/ Finished

Spec == Init /\ [][Next]_vars

\* The runtime schedules run and every task, timers expire, and select! picks
\* among the branches that are ready at random, so that changed() is not
\* passed over for ever.  A client that is not silent completes its handshake.
\* Nothing says that a session ends or that accept succeeds.
Fairness ==
    /\ WF_vars(RunStep) /\ SF_vars(RunSignal)
    /\ \A c \in Clients : WF_vars(TaskSignal(c)) /\ WF_vars(TaskAborted(c))
    /\ \A c \in Clients \ Silent : WF_vars(HandshakeDone(c))

FairSpec == Spec /\ Fairness

-----------------------------------------------------------------------------
TypeOK ==
    /\ pc \in RunAt
    /\ free \in Nat
    /\ handles \subseteq Clients
    /\ conn \in [Clients -> ConnState]
    /\ channel \in [value : BOOLEAN, version : Nat]
    /\ runSeen \in Nat /\ seen \in [Clients -> Nat]
    /\ stopped \in BOOLEAN /\ drainZero \in BOOLEAN

\* Permits are neither lost nor made: each is in the semaphore, with the
\* iteration of the loop, or with one task, on every path out of the loop and
\* out of a task.  A permit lost would in time stop the server accepting.
PermitsConserved ==
    free + (IF HoldsPermit THEN 1 ELSE 0) + Cardinality(Live) = MaxConnections

\* run still has the handle of every task, so that the drain misses none.
HandlesCoverTasks == Live \subseteq handles

\* Once run has returned every task is over or has been aborted.
NoneServedAfterReturn ==
    pc = "returned" =>
        \A c \in Clients : conn[c] \notin {"handshake", "serving"}

\* While true is the last value sent, run in its loop and every task,
\* those spawned after the send and those still in their handshake included,
\* have yet to see it: nobody has consumed the signal and gone on.
NobodyMissesShutdown ==
    channel.value =>
        /\ pc \in {"new", "acquire", "select", "backoff"} => runSeen < channel.version
        /\ \A c \in Clients :
               conn[c] \in {"handshake", "serving"} => seen[c] < channel.version

\* run stops only because it was told to.
StopsOnlyWhenTold == pc \in {"drain", "returned"} => stopped

\* run returns once true has been sent, unless false is sent after it, as
\* server.rs says of the shutdown handle: "sending true through this handle
\* causes Self::run to break out of its accept loop and return".  While silent
\* clients hold every permit, it does not.
ShutdownReturns ==
    channel.value ~> (pc \in {"returned", "failed"} \/ ~channel.value)

\* If sessions end, the loop always comes back to its accept or is over,
\* however often accept fails: the clients in the backlog, which are not
\* rejected, are not forgotten there either.
BacklogServed ==
    (\A c \in Clients : WF_vars(TaskEnds(c))) => []<>(pc \notin {"acquire", "backoff"})

-----------------------------------------------------------------------------
(* What the documentation says, and the code does not do.                  *)

\* server.rs on set_max_connections: "0 means unlimited".  run returns at once.
ZeroMeansUnlimited == MaxConnections = 0 => StopsOnlyWhenTold

\* server.rs on set_drain_timeout: "0 means no timeout (wait forever)".  All
\* tasks are aborted at once.
ZeroWaitsForever == drainZero => \A c \in Clients : conn[c] # "aborting"

=============================================================================
