------------------------------- MODULE Client -------------------------------
(***************************************************************************)
(* A client object over its lifetime: the methods of ClientTL the caller   *)
(* uses, one at a time since they take &mut self, and the background ping  *)
(* tasks they start and stop.  They share the stream slot and the in-flight *)
(* lock, both tokio mutexes, and the should_stop flag.  What is said on a  *)
(* connection is in Connection; here an exchange or a ping succeeds or     *)
(* fails, and a connection is dirty while an answer is owed on it.         *)
(*                                                                         *)
(* Connections are numbered as they are made, and a ping task has the      *)
(* number of the connection it was started for.  Time is left out: a sleep *)
(* may end, and a ping be due, at any moment.                              *)
(***************************************************************************)
EXTENDS Integers, FiniteSets

CONSTANTS
    Runtimes,     \* one thread, several (tokio's multi-thread runtime), or either
    MaxTries,     \* DEFAULT_MAX_CONNECT_RETRIES
    MaxConns,     \* bound on connections made
    MaxOps,       \* bound on calls of the caller
    MaxCancels    \* bound on futures the caller drops before they are ready

ASSUME ClientAssumption ==
    /\ Runtimes \subseteq BOOLEAN /\ MaxTries \in Nat \ {0}
    /\ {MaxConns, MaxOps, MaxCancels} \subseteq Nat

VARIABLES
    parallel,    \* tasks run on several threads; of the runtime, and fixed
    keep_alive, command_has_answer,
    pings,       \* ping_interval is not 0
    enabled,     \* PingConfig::enabled
    stream,      \* the connection in the stream slot; 0 is None
    streamLock,  \* who holds the slot's mutex
    in_flight,   \* who holds the in-flight mutex
    should_stop,
    handle,      \* the task in task_handle; 0 is None
    aborted,     \* tasks whose handle was aborted
    task,        \* where each ping task is
    at,          \* where the caller's call is
    op,          \* what it is doing: [name, temporary, tries]
    mode,        \* history: what the caller last set command_has_answer to
    steady,      \* history: connect has started the task for the connection in
                 \* the slot, and no setting has changed since
    made,        \* connections made
    dirty,       \* history: connections on which an answer is owed
    ops, cancels

settings == <<parallel, keep_alive, pings, enabled, steady>>
answers == <<command_has_answer, mode>>
shared == <<stream, streamLock, in_flight, should_stop, dirty>>
tasks == <<handle, aborted, task>>
caller == <<at, op, made, ops, cancels>>
vars == <<settings, answers, shared, tasks, caller>>

Conn == 1 .. MaxConns
Owner == 0      \* the caller, as the holder of a lock
CallerAt == {"idle", "check", "dial", "giveUp", "install", "restart", "start",
             "acquire", "lock", "exchange", "clear", "shutdown", "dropped"}
TaskAt == {"none", "sleep", "stopCheck", "due", "lockStream", "ping", "pong", "done"}

Running(t) == task[t] \notin {"none", "done"}
NoOp == [name |-> "none", temporary |-> FALSE, tries |-> 0]

\* A new client, or one with set_keep_alive(true) called on it.
Init ==
    /\ parallel \in Runtimes
    /\ keep_alive \in BOOLEAN /\ pings = TRUE /\ enabled = TRUE /\ steady = TRUE
    /\ command_has_answer = TRUE /\ mode = TRUE
    /\ stream = 0 /\ streamLock = {} /\ in_flight = {} /\ should_stop = FALSE
    /\ handle = 0 /\ aborted = {} /\ task = [t \in Conn |-> "none"]
    /\ at = "idle" /\ op = NoOp
    /\ made = 0 /\ dirty = {} /\ ops = 0 /\ cancels = 0

-----------------------------------------------------------------------------
(* The caller                                                              *)

Begins(name, temporary, next) ==
    /\ at = "idle" /\ ops < MaxOps /\ ops' = ops + 1
    /\ at' = next
    /\ op' = [NoOp EXCEPT !.name = name, !.temporary = temporary]
    /\ UNCHANGED <<made, cancels>>

\* The methods that only change settings and wait for nobody.
Sets ==
    /\ at = "idle" /\ ops < MaxOps /\ ops' = ops + 1
    /\ UNCHANGED <<at, op, made, cancels>>

\* The guard of handle_message_with_no_answer sets the mode to TRUE when it
\* is dropped, whatever it was.
GuardDrops ==
    /\ command_has_answer' = (command_has_answer \/ op.temporary)
    /\ UNCHANGED mode

Returns ==
    /\ at' = "idle" /\ op' = NoOp
    /\ GuardDrops
    /\ UNCHANGED <<made, ops, cancels>>

\* connect() has returned Ok, to the caller or to handle_message.
Connected ==
    IF op.name = "connect"
    THEN Returns
    ELSE at' = "acquire" /\ UNCHANGED <<op, made, ops, cancels, answers>>

\* Mutant: the task is only asked to stop, and not aborted.
StopPingTaskByFlag ==
    /\ should_stop' = TRUE /\ handle' = 0
    /\ UNCHANGED aborted

\* stop_ping_task.  The flag is missed if a task on another thread has its
\* lock at this moment; the handle's lock is never contended.
StopPingTask ==
    /\ should_stop' \in {TRUE} \cup
           (IF parallel /\ \E t \in Conn : task[t] = "stopCheck" THEN {should_stop} ELSE {})
    /\ aborted' = aborted \cup ({handle} \ {0})
    /\ handle' = 0

HandleMessage(temporary) ==
    /\ Begins("call", temporary, IF keep_alive THEN "check" ELSE "dial")
    /\ command_has_answer' = (command_has_answer /\ ~temporary)
    /\ UNCHANGED <<settings, mode, shared, tasks>>

\* With keep_alive, is there a connection?  The lock is given back at once.
CheckStream ==
    /\ at = "check" /\ streamLock = {}
    /\ at' = IF stream = 0 THEN "dial" ELSE "acquire"
    /\ UNCHANGED <<op, made, ops, cancels, settings, answers, shared, tasks>>

Connect ==
    /\ Begins("connect", FALSE, "dial")
    /\ UNCHANGED <<settings, answers, shared, tasks>>

DialSucceeds ==
    /\ at = "dial" /\ made < MaxConns
    /\ made' = made + 1 /\ at' = "install"
    /\ UNCHANGED <<op, ops, cancels, settings, answers, shared, tasks>>

\* Mutant: one try more.
DialFailsOnceMore ==
    /\ at = "dial"
    /\ op' = [op EXCEPT !.tries = @ + 1]
    /\ at' = IF op.tries < MaxTries THEN "dial" ELSE "giveUp"
    /\ UNCHANGED <<made, ops, cancels, settings, answers, shared, tasks>>

\* Refused or timed out; a pause, and the next try.
DialFails ==
    /\ at = "dial"
    /\ op' = [op EXCEPT !.tries = @ + 1]
    /\ at' = IF op.tries + 1 < MaxTries THEN "dial" ELSE "giveUp"
    /\ UNCHANGED <<made, ops, cancels, settings, answers, shared, tasks>>

\* After the last try: an error, unless there is a connection from before.
GiveUp ==
    /\ at = "giveUp" /\ streamLock = {}
    /\ IF stream = 0 THEN Returns ELSE Connected
    /\ UNCHANGED <<settings, shared, tasks>>

\* connect_total is over, or the TLS handshake fails.  On one thread nobody
\* holds a lock for which connect would wait when it starts the ping.
ConnectFails ==
    /\ at \in {"dial", "giveUp", "install", "start"}
    /\ at = "start" => parallel
    /\ Returns
    /\ UNCHANGED <<settings, shared, tasks>>

Install ==
    /\ at = "install" /\ streamLock = {}
    /\ stream' = made /\ at' = "restart" /\ steady' = FALSE
    /\ UNCHANGED <<op, made, ops, cancels, parallel, keep_alive, pings, enabled, answers,
                   streamLock, in_flight, should_stop, dirty, tasks>>

\* Mutant: the task of the connection before is left running.
RestartKeepingOld ==
    /\ at = "restart"
    /\ \/ /\ keep_alive /\ enabled
          /\ at' = "start"
          /\ UNCHANGED <<op, made, ops, cancels, settings, answers>>
       \/ ~(keep_alive /\ enabled) /\ Connected /\ UNCHANGED settings
    /\ UNCHANGED <<shared, tasks>>

\* The new connection is in place; then the old task is stopped and, with
\* keep_alive, a new one is to be started.
RestartPing ==
    /\ at = "restart"
    /\ StopPingTask
    /\ \/ /\ keep_alive /\ enabled
          /\ at' = "start"
          /\ UNCHANGED <<op, made, ops, cancels, settings, answers>>
       \/ ~(keep_alive /\ enabled) /\ Connected /\ UNCHANGED settings
    /\ UNCHANGED <<stream, streamLock, in_flight, dirty, task>>

\* Mutant: the new task starts with the flag that stopped the old one.
StartKeepingFlag ==
    /\ at = "start"
    /\ handle' = made /\ task' = [task EXCEPT ![made] = "sleep"]
    /\ Connected /\ steady' = TRUE
    /\ UNCHANGED <<parallel, keep_alive, pings, enabled, shared, aborted>>

\* start_ping_task.
StartPing ==
    /\ at = "start"
    /\ should_stop' = FALSE
    /\ handle' = made /\ task' = [task EXCEPT ![made] = "sleep"]
    /\ Connected /\ steady' = TRUE
    /\ UNCHANGED <<parallel, keep_alive, pings, enabled, stream, streamLock, in_flight, dirty, aborted>>

AcquireInFlight ==
    /\ at = "acquire" /\ in_flight = {}
    /\ in_flight' = {Owner} /\ at' = "lock"
    /\ UNCHANGED <<op, made, ops, cancels, settings, answers, stream,
                   streamLock, should_stop, dirty, tasks>>

\* The slot may have been emptied since it was looked at: NotConnected.
LockStream ==
    /\ at = "lock" /\ streamLock = {}
    /\ IF stream = 0
       THEN in_flight' = {} /\ Returns /\ UNCHANGED streamLock
       ELSE /\ streamLock' = {Owner} /\ at' = "exchange"
            /\ UNCHANGED <<in_flight, op, made, ops, cancels, answers>>
    /\ UNCHANGED <<settings, stream, should_stop, dirty, tasks>>

ExchangeSucceeds ==
    /\ at = "exchange"
    /\ streamLock' = {} /\ in_flight' = {}
    /\ Returns
    /\ UNCHANGED <<settings, stream, should_stop, dirty, tasks>>

ExchangeFails ==
    /\ at = "exchange"
    /\ stream' = 0 /\ StopPingTask
    /\ streamLock' = {} /\ in_flight' = {}
    /\ Returns
    /\ UNCHANGED <<settings, dirty, task>>

Disconnect ==
    /\ Begins("disconnect", FALSE, "clear")
    /\ StopPingTask
    /\ UNCHANGED <<settings, answers, stream, streamLock, in_flight, dirty, task>>

SetKeepAlive(on) ==
    /\ \/ /\ ~on /\ keep_alive
          /\ Begins("setKeepAlive", FALSE, "clear") /\ StopPingTask
          /\ UNCHANGED <<settings, stream, streamLock, in_flight, dirty, task>>
       \/ /\ on \/ ~keep_alive
          /\ Sets
          /\ keep_alive' = on /\ enabled' = (on /\ pings) /\ steady' = FALSE
          /\ UNCHANGED <<parallel, pings, shared, tasks>>
    /\ UNCHANGED answers

\* disconnect has a connection to shut down, with the slot's lock in hand.
LockForShutdown ==
    /\ at = "clear" /\ op.name = "disconnect" /\ streamLock = {} /\ stream # 0
    /\ streamLock' = {Owner} /\ at' = "shutdown"
    /\ UNCHANGED <<op, made, ops, cancels, settings, answers, stream, in_flight,
                   should_stop, dirty, tasks>>

\* It is shut down, or that fails.  Nothing but the peer and the network says
\* when: there is no timeout.
ShutdownStream ==
    /\ at = "shutdown"
    /\ stream' = 0 /\ streamLock' = {}
    /\ Returns
    /\ UNCHANGED <<settings, in_flight, should_stop, dirty, tasks>>

\* set_keep_alive(false) drops what is in the slot, and disconnect finds
\* nothing there.
ClearStream ==
    /\ at = "clear" /\ streamLock = {}
    /\ op.name = "setKeepAlive" \/ stream = 0
    /\ stream' = 0
    /\ IF op.name = "setKeepAlive"
       THEN keep_alive' = FALSE /\ enabled' = FALSE /\ steady' = FALSE /\ UNCHANGED <<parallel, pings>>
       ELSE UNCHANGED settings
    /\ Returns
    /\ UNCHANGED <<streamLock, in_flight, should_stop, dirty, tasks>>

SetTimeoutConfig(interval) ==
    /\ Sets
    /\ pings' = interval /\ enabled' = (keep_alive /\ interval) /\ steady' = FALSE
    /\ UNCHANGED <<parallel, keep_alive, answers, shared, tasks>>

SetCommandHasAnswer(value) ==
    /\ Sets
    /\ command_has_answer' = value /\ mode' = value
    /\ UNCHANGED <<settings, shared, tasks>>

\* A call can be dropped where it waits.
MayCancel ==
    /\ at \notin {"idle", "dropped", "restart"} /\ cancels < MaxCancels
    /\ at = "start" => parallel

\* Mutant: a dropped future does not restore the mode.
CancelForgettingMode ==
    /\ MayCancel
    /\ cancels' = cancels + 1
    /\ streamLock' = streamLock \ {Owner} /\ in_flight' = in_flight \ {Owner}
    /\ dirty' = IF at = "exchange" THEN dirty \cup {stream} ELSE dirty
    /\ at' = "idle" /\ op' = NoOp
    /\ UNCHANGED <<made, ops, settings, answers, stream, should_stop, tasks>>

\* The caller drops the future of its call, at an await.  The locks are given
\* back and the mode restored; the connection stays, mid-exchange or not.
Cancel ==
    /\ MayCancel
    /\ cancels' = cancels + 1
    /\ streamLock' = streamLock \ {Owner} /\ in_flight' = in_flight \ {Owner}
    /\ dirty' = IF at = "exchange" THEN dirty \cup {stream} ELSE dirty
    /\ at' = "idle" /\ op' = NoOp /\ GuardDrops
    /\ UNCHANGED <<made, ops, settings, stream, should_stop, tasks>>

\* Mutant: the object is dropped and its task goes on.
DropKeepingTask ==
    /\ at = "idle" /\ at' = "dropped"
    /\ UNCHANGED <<op, made, ops, cancels, settings, answers, shared, tasks>>

DropClient ==
    /\ at = "idle" /\ at' = "dropped"
    /\ StopPingTask
    /\ UNCHANGED <<op, made, ops, cancels, settings, answers, stream,
                   streamLock, in_flight, dirty, task>>

-----------------------------------------------------------------------------
(* The ping tasks                                                          *)

\* On one thread an aborted task never runs again, and none runs between two
\* statements of the caller that do not wait.  On several threads a task that
\* is running when it is aborted goes on to the next await that is not ready.
MayRun(t) == parallel \/ (t \notin aborted /\ at \notin {"restart", "start"})

Goes(t, from, to) == task[t] = from /\ MayRun(t) /\ task' = [task EXCEPT ![t] = to]

Wake(t) ==
    /\ Goes(t, "sleep", "stopCheck") /\ t \notin aborted
    /\ UNCHANGED <<settings, answers, shared, handle, aborted, caller>>

CheckStop(t) ==
    /\ Goes(t, "stopCheck", IF should_stop THEN "done" ELSE "due")
    /\ UNCHANGED <<settings, answers, shared, handle, aborted, caller>>

\* There was activity within the interval, or a request is in flight.
Skip(t) ==
    /\ Goes(t, "due", "sleep") /\ (pings \/ in_flight # {})
    /\ UNCHANGED <<settings, answers, shared, handle, aborted, caller>>

TryInFlight(t) ==
    /\ Goes(t, "due", "lockStream") /\ in_flight = {}
    /\ in_flight' = {t}
    /\ UNCHANGED <<settings, answers, stream, streamLock, should_stop, dirty,
                   handle, aborted, caller>>

\* The slot is empty: the task ends.
FindNoStream(t) ==
    /\ Goes(t, "lockStream", "done") /\ streamLock = {} /\ stream = 0
    /\ in_flight' = in_flight \ {t} /\ should_stop' = TRUE
    /\ UNCHANGED <<settings, answers, stream, streamLock, dirty, handle, aborted, caller>>

TakeStream(t) ==
    /\ Goes(t, "lockStream", "ping") /\ streamLock = {} /\ stream # 0
    /\ streamLock' = {t}
    /\ UNCHANGED <<settings, answers, stream, in_flight, should_stop, dirty,
                   handle, aborted, caller>>

SendPing(t) ==
    /\ Goes(t, "ping", "pong")
    /\ dirty' = dirty \cup {stream}
    /\ UNCHANGED <<settings, answers, stream, streamLock, in_flight, should_stop,
                   handle, aborted, caller>>

ReceivePong(t) ==
    /\ Goes(t, "pong", "sleep")
    /\ dirty' = dirty \ {stream}
    /\ streamLock' = {} /\ in_flight' = {}
    /\ UNCHANGED <<settings, answers, stream, should_stop, handle, aborted, caller>>

\* Mutant: a failed ping is forgotten, and the connection kept.
PingForgotten(t) ==
    /\ \E from \in {"ping", "pong"} : Goes(t, from, "sleep")
    /\ streamLock' = {} /\ in_flight' = {}
    /\ UNCHANGED <<settings, answers, stream, should_stop, dirty, handle, aborted, caller>>

PingFails(t) ==
    /\ \E from \in {"ping", "pong"} : Goes(t, from, "done")
    /\ stream' = 0 /\ should_stop' = TRUE
    /\ streamLock' = {} /\ in_flight' = {}
    /\ UNCHANGED <<settings, answers, dirty, handle, aborted, caller>>

\* Mutant: a task that is dropped keeps its locks.
DiesLocked(t) ==
    /\ t \in aborted /\ Running(t)
    /\ task' = [task EXCEPT ![t] = "done"]
    /\ UNCHANGED <<settings, answers, shared, handle, aborted, caller>>

\* The runtime drops an aborted task, and with it the locks it holds.
Dies(t) ==
    /\ t \in aborted /\ Running(t)
    /\ task' = [task EXCEPT ![t] = "done"]
    /\ streamLock' = streamLock \ {t} /\ in_flight' = in_flight \ {t}
    /\ UNCHANGED <<settings, answers, stream, should_stop, dirty, handle, aborted, caller>>

-----------------------------------------------------------------------------
CallStep ==
    \/ CheckStream \/ DialSucceeds \/ DialFails \/ GiveUp \/ ConnectFails
    \/ Install \/ RestartPing \/ StartPing \/ AcquireInFlight \/ LockStream
    \/ ExchangeSucceeds \/ ExchangeFails
    \/ LockForShutdown \/ ShutdownStream \/ ClearStream

PingStep(t) ==
    \/ CheckStop(t) \/ Skip(t) \/ TryInFlight(t) \/ FindNoStream(t) \/ TakeStream(t)
    \/ SendPing(t) \/ ReceivePong(t) \/ PingFails(t)

\* The object is gone and so are its tasks.
Finished ==
    /\ at = "dropped" /\ \A t \in Conn : ~Running(t)
    /\ UNCHANGED vars

Next ==
    \/ \E b \in BOOLEAN : HandleMessage(b) \/ SetKeepAlive(b) \/ SetTimeoutConfig(b)
                            \/ SetCommandHasAnswer(b)
    \/ Connect \/ Disconnect \/ Cancel \/ DropClient
    \/ CallStep
    \/ \E t \in Conn : Wake(t) \/ PingStep(t) \/ Dies(t)
    \/ Finished

Spec == Init /\ [][Next]_vars

\* The write of a ping, made with both locks in hand, has no timeout.
PingWrite(t) == task[t] = "ping" /\ PingStep(t)

\* Timeouts end whatever waits for the network but that write and the shutdown
\* of a stream, tokio's mutexes serve their waiters in order, which a try_lock
\* does not overtake, and the runtime runs every task.
FairSpec ==
    /\ Spec
    /\ SF_vars(at # "shutdown" /\ CallStep)
    /\ \A t \in Conn :
           SF_vars(task[t] # "ping" /\ PingStep(t)) /\ WF_vars(Wake(t)) /\ WF_vars(Dies(t))

-----------------------------------------------------------------------------
\* The types, with the bound on connect's tries; nobody exchanges or pings on an
\* empty slot, which would make connection 0 dirty.
TypeOK ==
    /\ {parallel, keep_alive, pings, enabled, steady} \subseteq BOOLEAN
    /\ {command_has_answer, mode, should_stop} \subseteq BOOLEAN
    /\ stream \in 0 .. MaxConns /\ handle \in 0 .. MaxConns
    /\ streamLock \subseteq 0 .. MaxConns /\ in_flight \subseteq 0 .. MaxConns
    /\ aborted \subseteq Conn /\ dirty \subseteq Conn
    /\ task \in [Conn -> TaskAt] /\ at \in CallerAt
    /\ op \in [name : {"none", "call", "connect", "disconnect", "setKeepAlive"},
               temporary : BOOLEAN, tries : 0 .. MaxTries]
    /\ made \in 0 .. MaxConns /\ ops \in 0 .. MaxOps /\ cancels \in 0 .. MaxCancels

\* A client has one ping task at most that nobody told to end, the one whose
\* handle it has: no reconnection leaves one behind that nobody can stop.
OnePinger == {t \in Conn : Running(t)} \ aborted \subseteq {handle}

\* An exchange starts on a connection with no answer owed on it: the pong of
\* a ping is never there to be taken for the acknowledgement of a request, and
\* the in-flight mutex keeps pings from racing with requests.
CleanExchange == (at = "exchange" /\ cancels = 0) => stream \notin dirty

\* So it is where all tasks run on one thread.
CleanOnOneThread == ~parallel => CleanExchange

\* Without keep_alive, on one thread, nobody but the caller empties the slot,
\* so that a call which has connected never returns NotConnected.  (With
\* keep_alive a ping that fails may empty it after the call has looked; on
\* several threads so may a task that was aborted.)
SlotIsTheCallers ==
    (at \in {"acquire", "lock"} /\ ~keep_alive /\ ~parallel) => stream # 0

\* Between calls a connection kept alive has a task that pings it, which the
\* end of the task before has not stopped as well.  (Settings that change on
\* a live connection neither start nor stop the task.)
KeptAlive ==
    (/\ at = "idle" /\ keep_alive /\ enabled /\ stream # 0
     /\ steady /\ cancels = 0)
    => handle # 0 /\ Running(handle) /\ ~should_stop

\* A caller that uses answers has them after handle_message_with_no_answer,
\* however that call ends.  (One that does not has them too, unasked.)
AnswerMode == (at = "idle" /\ mode) => command_has_answer

\* Every call returns, if the peer takes the few bytes of a ping in the end and
\* a shutdown comes to its end: no order of locks, and no task that ends with a
\* lock in its hand, makes the caller wait for ever.  (A call that waits for a
\* ping's lock has no timeout of its own, and neither has disconnect.)
CallsReturn ==
    (WF_vars(ShutdownStream) /\ \A t \in Conn : WF_vars(PingWrite(t)))
    => ((at \notin {"idle", "dropped"}) ~> (at = "idle"))

\* A dropped client leaves no task behind to keep its connection open.
DropEndsTasks == (at = "dropped") ~> (\A t \in Conn : ~Running(t))
=============================================================================
