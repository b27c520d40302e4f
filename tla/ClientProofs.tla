---------------------------- MODULE ClientProofs ----------------------------
(***************************************************************************)
(* The client object and its ping tasks, for any number of connections,    *)
(* calls, tries and cancelled futures, on one thread and on several.       *)
(***************************************************************************)
EXTENDS Client, TLAPS

-----------------------------------------------------------------------------
(* The inductive invariant                                                 *)

\* The places of a task in which it holds a lock.
InFlightAt == {"lockStream", "ping", "pong"}
StreamAt == {"ping", "pong"}

\* Each lock has one holder at most, and the places of the caller and of the
\* tasks say who it is.  Who talks on the connection has one to talk on.
Locks ==
    /\ \A x, y \in in_flight : x = y
    /\ Owner \in in_flight <=> at \in {"lock", "exchange"}
    /\ \A t \in Conn : t \in in_flight <=> task[t] \in InFlightAt
    /\ \A x, y \in streamLock : x = y
    /\ Owner \in streamLock <=> at \in {"exchange", "shutdown"}
    /\ \A t \in Conn : t \in streamLock <=> task[t] \in StreamAt
    /\ streamLock # {} => stream # 0

\* The call under way: what it does, and that it has a connection in hand when
\* it is about to use it.
Calls ==
    /\ at \in {"idle", "dropped"} => op = NoOp
    /\ at \in {"check", "dial"} => op.tries < MaxTries
    /\ at \in {"install", "restart", "start"} => made # 0
    /\ stream <= made /\ (at = "install" => stream # made)

\* Only tasks that were started are aborted or have their handle kept, and a
\* connection that is being installed has none.  The handle is of the one task
\* that is not aborted; without keep_alive, and while the client stops its
\* task, there is none.
Started(t) == task[t] # "none"
Handles ==
    /\ \A t \in Conn : Started(t) =>
           t <= made /\ (at \in {"install", "restart", "start"} => t # made)
    /\ \A t \in aborted : Started(t)
    /\ handle # 0 => Started(handle) /\ handle \notin aborted
    /\ at \in {"start", "clear", "shutdown", "dropped"} => handle = 0
    /\ at = "start" => keep_alive
    /\ ~keep_alive => handle = 0
    /\ OnePinger

\* On one thread nothing of the old task is left where connect restarts it: no
\* task runs between the change of the connection and the new start.
OneThread ==
    ~parallel =>
        /\ at \in {"restart", "start"} => streamLock = {} /\ stream = made
        /\ SlotIsTheCallers

\* An answer is owed on the connection in the slot only while somebody reads it
\* or is about to drop the connection.
Owed ==
    /\ \A c \in dirty : c <= made /\ (at = "install" => c # made)
    /\ (~parallel /\ cancels = 0) =>
           /\ at \in {"restart", "start"} => made \notin dirty
           /\ \A t \in aborted : task[t] \in StreamAt => at \in {"clear", "dropped"}
           /\ stream \in dirty => \/ at \in {"clear", "shutdown", "dropped"}
                                  \/ \E t \in Conn : task[t] = "pong"

\* From StartPing on the task of the connection in the slot goes on.
Pinged ==
    /\ (/\ at \notin {"clear", "shutdown", "dropped"} /\ keep_alive /\ enabled /\ stream # 0
        /\ steady /\ cancels = 0)
       => handle # 0 /\ Running(handle) /\ ~should_stop
    /\ at \in {"restart", "start"} => ~steady

\* What the caller last chose is in force, or put off by the call under way.
Modes == mode => (command_has_answer \/ op.temporary)

Inv == TypeOK /\ Locks /\ Calls /\ Modes /\ Handles /\ OneThread /\ Owed /\ Pinged

\* Abbreviations the proofs see through everywhere.
USE ClientAssumption
USE DEF Inv, Conn, Owner, NoOp, InFlightAt, StreamAt, Started, Running,
        settings, answers, shared, tasks, caller

Op == [name : {"none", "call", "connect", "disconnect", "setKeepAlive"},
       temporary : BOOLEAN, tries : 0 .. MaxTries]

\* The types of what the helpers of the caller's operations change.
LEMMA BeginsTypes ==
    ASSUME TypeOK, NEW temporary \in BOOLEAN, NEW next \in CallerAt,
           NEW name \in {"call", "connect", "disconnect", "setKeepAlive"},
           Begins(name, temporary, next)
    PROVE  /\ op' \in Op /\ at' = next /\ op'.temporary = temporary /\ op'.tries = 0
           /\ at = "idle" /\ ops' \in 0 .. MaxOps /\ made' = made /\ cancels' = cancels
<1>1. op' = [name |-> name, temporary |-> temporary, tries |-> 0]  BY DEF Begins
<1> QED  BY <1>1 DEF Begins, TypeOK, Op

LEMMA ReturnsTypes ==
    ASSUME TypeOK, Returns
    PROVE  /\ op' = NoOp /\ op' \in Op /\ at' = "idle" /\ at' \in CallerAt
           /\ command_has_answer' \in BOOLEAN /\ mode' = mode
           /\ command_has_answer' = (command_has_answer \/ op.temporary)
           /\ made' = made /\ ops' = ops /\ cancels' = cancels
<1>1. op.temporary \in BOOLEAN /\ command_has_answer \in BOOLEAN  BY DEF TypeOK
<1> QED  BY <1>1 DEF Returns, GuardDrops, Op, CallerAt

LEMMA ConnectedTypes ==
    ASSUME TypeOK, Connected
    PROVE  /\ at' \in {"idle", "acquire"} /\ at' \in CallerAt
           /\ op' \in Op /\ (at' = "idle" => op' = NoOp)
           /\ command_has_answer' \in BOOLEAN /\ mode' = mode
           /\ made' = made /\ ops' = ops /\ cancels' = cancels
           /\ Modes => Modes'
<1>1. CASE Returns
  <2>1. Modes => Modes'  BY <1>1, ReturnsTypes DEF Modes
  <2> QED  BY <1>1, <2>1, ReturnsTypes
<1>2. CASE at' = "acquire" /\ UNCHANGED <<op, made, ops, cancels, answers>>
  BY <1>2 DEF TypeOK, Op, CallerAt, Modes
<1> QED  BY <1>1, <1>2 DEF Connected

LEMMA StopTypes ==
    ASSUME TypeOK, StopPingTask
    PROVE  should_stop' \in BOOLEAN /\ aborted' \subseteq Conn /\ handle' = 0
<1>1. should_stop' \in {TRUE, should_stop} /\ handle' = 0
  BY DEF StopPingTask
<1>2. aborted' \subseteq Conn  BY DEF TypeOK, StopPingTask
<1>3. should_stop \in BOOLEAN  BY DEF TypeOK
<1> QED  BY <1>1, <1>2, <1>3

\* The client stops its task and goes on to empty the slot.
LEMMA StoppingKeeps ==
    ASSUME Inv, NEW name \in {"disconnect", "setKeepAlive"},
           Begins(name, FALSE, "clear"), StopPingTask,
           UNCHANGED <<settings, answers, stream, streamLock, in_flight, dirty, task>>
    PROVE  Inv'
<1>1. /\ op' \in Op /\ at' = "clear" /\ op'.tries = 0 /\ at = "idle"
      /\ ops' \in 0 .. MaxOps /\ made' = made /\ cancels' = cancels
  BY BeginsTypes DEF CallerAt
<1>2. TypeOK'  BY <1>1, StopTypes, SMTT(30) DEF TypeOK, Op, CallerAt
<1>3. Locks' /\ Calls'  BY <1>1 DEF Locks, Calls
<1>4. Modes'  BY <1>1 DEF Calls, Modes
<1>5. Handles'  BY <1>1 DEF StopPingTask, TypeOK, Handles, OnePinger
<1>6. OneThread' /\ Owed' /\ Pinged'
  BY <1>1 DEF OneThread, SlotIsTheCallers, Owed, Pinged
<1> QED  BY <1>2, <1>3, <1>4, <1>5, <1>6

-----------------------------------------------------------------------------
(* The caller's steps                                                      *)

LEMMA HandleMessageKeeps == ASSUME Inv, NEW b \in BOOLEAN, HandleMessage(b) PROVE Inv'
<1>1. /\ op' \in Op /\ at' \in {"check", "dial"} /\ op'.temporary = b /\ op'.tries = 0
      /\ at = "idle" /\ ops' \in 0 .. MaxOps /\ made' = made /\ cancels' = cancels
  BY BeginsTypes DEF HandleMessage, CallerAt
<1>2. /\ command_has_answer' \in BOOLEAN /\ mode' = mode
      /\ command_has_answer' = (command_has_answer /\ ~b)
  BY DEF HandleMessage, TypeOK
<1>3. UNCHANGED <<settings, shared, tasks>>  BY DEF HandleMessage
<1>4. TypeOK'  BY <1>1, <1>2, <1>3 DEF TypeOK, Op, CallerAt
<1>5. Locks' /\ Calls'  BY <1>1, <1>3 DEF Locks, Calls
<1>6. Modes'
  <2>1. mode => command_has_answer  BY <1>1 DEF Calls, Modes
  <2>2. CASE b  BY <1>1, <2>2 DEF Modes
  <2>3. CASE ~b  BY <1>2, <2>1, <2>3 DEF Modes
  <2> QED  BY <2>2, <2>3
<1>7. Handles' /\ OneThread'
  BY <1>1, <1>3 DEF Handles, OnePinger, OneThread, SlotIsTheCallers
<1>8. Owed' /\ Pinged'  BY <1>1, <1>3 DEF Owed, Pinged
<1> QED  BY <1>4, <1>5, <1>6, <1>7, <1>8

LEMMA CheckStreamKeeps == ASSUME Inv, CheckStream PROVE Inv'
<1>1. TypeOK'  BY DEF CheckStream, TypeOK, CallerAt
<1>2. Locks' /\ Calls' /\ Modes'  BY DEF CheckStream, TypeOK, Locks, Calls, Modes
<1>3. Handles' /\ OneThread'
  BY DEF CheckStream, TypeOK, Handles, OnePinger, OneThread, SlotIsTheCallers
<1>4. Owed' /\ Pinged'  BY DEF CheckStream, TypeOK, Owed, Pinged
<1> QED  BY <1>1, <1>2, <1>3, <1>4

LEMMA ConnectKeeps == ASSUME Inv, Connect PROVE Inv'
<1>1. /\ op' \in Op /\ at' = "dial" /\ op'.tries = 0 /\ at = "idle"
      /\ ops' \in 0 .. MaxOps /\ made' = made /\ cancels' = cancels
  BY BeginsTypes DEF Connect, CallerAt
<1>2. UNCHANGED <<settings, answers, shared, tasks>>  BY DEF Connect
<1>3. TypeOK'  BY <1>1, <1>2 DEF TypeOK, Op, CallerAt
<1>4. Locks' /\ Calls'  BY <1>1, <1>2 DEF Locks, Calls
<1>5. Modes'  BY <1>1, <1>2 DEF Calls, Modes
<1>6. Handles' /\ OneThread'
  BY <1>1, <1>2 DEF Handles, OnePinger, OneThread, SlotIsTheCallers
<1>7. Owed' /\ Pinged'  BY <1>1, <1>2 DEF Owed, Pinged
<1> QED  BY <1>3, <1>4, <1>5, <1>6, <1>7

LEMMA DialSucceedsKeeps == ASSUME Inv, DialSucceeds PROVE Inv'
<1>1. TypeOK'  BY DEF DialSucceeds, TypeOK, CallerAt
<1>2. Locks' /\ Calls' /\ Modes'  BY DEF DialSucceeds, TypeOK, Locks, Calls, Modes
<1>3. Handles' /\ OneThread'
  BY DEF DialSucceeds, TypeOK, Handles, OnePinger, OneThread, SlotIsTheCallers
<1>4. Owed' /\ Pinged'  BY DEF DialSucceeds, TypeOK, Owed, Calls, Pinged
<1> QED  BY <1>1, <1>2, <1>3, <1>4

LEMMA DialFailsKeeps == ASSUME Inv, DialFails PROVE Inv'
<1>1. TypeOK'  BY SMTT(30) DEF DialFails, TypeOK, Calls, CallerAt
<1>2. Locks' /\ Calls'  BY DEF DialFails, TypeOK, Locks, Calls
<1>3. Modes'  BY DEF DialFails, TypeOK, Modes
<1>4. Handles' /\ OneThread'
  BY DEF DialFails, TypeOK, Handles, OnePinger, OneThread, SlotIsTheCallers
<1>5. Owed' /\ Pinged'  BY DEF DialFails, TypeOK, Owed, Pinged
<1> QED  BY <1>1, <1>2, <1>3, <1>4, <1>5

LEMMA GiveUpKeeps == ASSUME Inv, GiveUp PROVE Inv'
<1>1. TypeOK'  BY ReturnsTypes, ConnectedTypes DEF GiveUp, TypeOK, Op
<1>2. Locks'  BY ReturnsTypes, ConnectedTypes DEF GiveUp, TypeOK, Locks
<1>3. Calls' /\ Modes'
  <2>1. CASE Returns  BY <2>1, ReturnsTypes, SMTT(30) DEF GiveUp, TypeOK, Calls, Modes
  <2>2. CASE Connected  BY <2>2, ConnectedTypes DEF GiveUp, Calls
  <2> QED  BY <2>1, <2>2 DEF GiveUp
<1>4. Handles' /\ OneThread'
  BY ReturnsTypes, ConnectedTypes DEF GiveUp, TypeOK, Handles, OnePinger,
     OneThread, SlotIsTheCallers
<1>5. Owed' /\ Pinged'
  BY ReturnsTypes, ConnectedTypes DEF GiveUp, TypeOK, Owed, Pinged
<1> QED  BY <1>1, <1>2, <1>3, <1>4, <1>5

LEMMA ConnectFailsKeeps == ASSUME Inv, ConnectFails PROVE Inv'
<1>1. TypeOK'  BY ReturnsTypes DEF ConnectFails, TypeOK, Op
<1>2. Locks' /\ Calls'  BY ReturnsTypes DEF ConnectFails, TypeOK, Locks, Calls
<1>3. Modes'  BY ReturnsTypes DEF ConnectFails, TypeOK, Modes
<1>4. Handles' /\ OneThread'
  BY ReturnsTypes DEF ConnectFails, TypeOK, Handles, OnePinger, OneThread,
     SlotIsTheCallers
<1>5. Owed' /\ Pinged'  BY ReturnsTypes DEF ConnectFails, TypeOK, Owed, Pinged
<1> QED  BY <1>1, <1>2, <1>3, <1>4, <1>5

LEMMA InstallKeeps == ASSUME Inv, Install PROVE Inv'
<1>1. TypeOK'  BY DEF Install, TypeOK, CallerAt
<1>2. Locks'  BY DEF Install, TypeOK, Locks, Calls
<1>3. Calls' /\ Modes'  BY DEF Install, TypeOK, Calls, Modes
<1>4. Handles' /\ OneThread'
  BY DEF Install, TypeOK, Handles, OnePinger, OneThread, SlotIsTheCallers
<1>5. Owed'  BY DEF Install, TypeOK, Owed, Locks
<1>6. Pinged'  BY DEF Install, TypeOK, Pinged
<1> QED  BY <1>1, <1>2, <1>3, <1>4, <1>5, <1>6

LEMMA RestartPingKeeps == ASSUME Inv, RestartPing PROVE Inv'
<1>1. TypeOK'
  <2>1. should_stop' \in BOOLEAN /\ aborted' \subseteq Conn /\ handle' = 0
    BY StopTypes DEF RestartPing
  <2>2. CASE at' = "start" /\ UNCHANGED <<op, made, ops, cancels, settings, answers>>
    BY <2>1, <2>2 DEF RestartPing, TypeOK, CallerAt
  <2>3. CASE Connected /\ UNCHANGED settings
    <3>1. /\ at' \in CallerAt /\ op' \in Op
          /\ command_has_answer' \in BOOLEAN /\ mode' = mode
          /\ made' = made /\ ops' = ops /\ cancels' = cancels
      BY <2>3, ConnectedTypes
    <3> QED  BY <2>1, <2>3, <3>1 DEF RestartPing, TypeOK, Op
  <2> QED  BY <2>2, <2>3 DEF RestartPing
<1>2. Locks'  BY DEF RestartPing, Connected, Returns, TypeOK, Locks
<1>3. Calls' /\ Modes'  BY ConnectedTypes DEF RestartPing, TypeOK, Calls, Modes
<1>4. Handles'
  BY ConnectedTypes, SMTT(30) DEF RestartPing, StopPingTask, TypeOK, Handles, OnePinger
<1>5. OneThread'
  BY ConnectedTypes DEF RestartPing, TypeOK, Calls, OneThread, SlotIsTheCallers
<1>6. Owed'
  BY ConnectedTypes, SMTT(30) DEF RestartPing, StopPingTask, TypeOK, Locks, OneThread, Owed
<1>7. Pinged'  BY ConnectedTypes DEF RestartPing, TypeOK, Pinged
<1> QED  BY <1>1, <1>2, <1>3, <1>4, <1>5, <1>6, <1>7

LEMMA StartPingKeeps == ASSUME Inv, StartPing PROVE Inv'
<1>1. made \in Conn /\ task[made] = "none" /\ made \notin aborted
  BY DEF StartPing, TypeOK, Calls, Handles
<1>2. TypeOK'  BY <1>1, ConnectedTypes DEF StartPing, TypeOK, TaskAt, Op
<1>3. Locks'  BY <1>1, ConnectedTypes, SMTT(30) DEF StartPing, TypeOK, Locks
<1>4. Calls' /\ Modes'  BY ConnectedTypes DEF StartPing, TypeOK, Calls
<1>5. Handles'
  BY <1>1, ConnectedTypes, SMTT(30) DEF StartPing, TypeOK, Handles, OnePinger
<1>6. OneThread'
  BY ConnectedTypes DEF StartPing, TypeOK, Handles, OneThread, SlotIsTheCallers
<1>7. Owed'
  BY <1>1, ConnectedTypes, SMTT(30) DEF StartPing, TypeOK, Locks, OneThread, Owed
<1>8. Pinged'  BY <1>1, ConnectedTypes DEF StartPing, TypeOK, Pinged
<1> QED  BY <1>2, <1>3, <1>4, <1>5, <1>6, <1>7, <1>8

LEMMA AcquireInFlightKeeps == ASSUME Inv, AcquireInFlight PROVE Inv'
<1>1. TypeOK'  BY DEF AcquireInFlight, TypeOK, CallerAt
<1>2. Locks'  BY DEF AcquireInFlight, TypeOK, Locks
<1>3. Calls' /\ Modes'  BY DEF AcquireInFlight, TypeOK, Calls, Modes
<1>4. Handles' /\ OneThread'
  BY DEF AcquireInFlight, TypeOK, Handles, OnePinger, OneThread, SlotIsTheCallers
<1>5. Owed' /\ Pinged'  BY DEF AcquireInFlight, TypeOK, Owed, Pinged
<1> QED  BY <1>1, <1>2, <1>3, <1>4, <1>5

LEMMA LockStreamKeeps == ASSUME Inv, LockStream PROVE Inv'
<1>1. CASE stream = 0
  <2>1. in_flight' = {} /\ Returns
        /\ UNCHANGED <<streamLock, settings, stream, should_stop, dirty, tasks>>
    BY <1>1 DEF LockStream
  <2>2. TypeOK'  BY <2>1, ReturnsTypes DEF TypeOK, Op
  <2>3. Locks'  BY <2>1, ReturnsTypes DEF LockStream, TypeOK, Locks
  <2>4. Calls' /\ Modes'  BY <2>1, ReturnsTypes, SMTT(30) DEF TypeOK, Calls, Modes
  <2>5. Handles' /\ OneThread'
    BY <2>1, ReturnsTypes DEF LockStream, Handles, OnePinger, OneThread,
       SlotIsTheCallers
  <2>6. Owed' /\ Pinged'  BY <2>1, ReturnsTypes DEF LockStream, Owed, Pinged
  <2> QED  BY <2>2, <2>3, <2>4, <2>5, <2>6
<1>2. CASE stream # 0
  <2>1. streamLock' = {Owner} /\ at' = "exchange"
        /\ UNCHANGED <<in_flight, op, made, ops, cancels, answers, settings, stream,
                       should_stop, dirty, tasks>>
    BY <1>2 DEF LockStream
  <2>2. TypeOK'  BY <2>1 DEF TypeOK, CallerAt
  <2>3. Locks'  BY <1>2, <2>1 DEF LockStream, TypeOK, Locks
  <2>4. Calls' /\ Modes'  BY <2>1 DEF Calls, Modes
  <2>5. Handles' /\ OneThread'
    BY <2>1 DEF LockStream, Handles, OnePinger, OneThread, SlotIsTheCallers
  <2>6. Owed' /\ Pinged'  BY <2>1 DEF LockStream, Owed, Pinged
  <2> QED  BY <2>2, <2>3, <2>4, <2>5, <2>6
<1> QED  BY <1>1, <1>2

LEMMA ExchangeSucceedsKeeps == ASSUME Inv, ExchangeSucceeds PROVE Inv'
<1>1. TypeOK'  BY ReturnsTypes DEF ExchangeSucceeds, TypeOK, Op
<1>2. Locks'  BY ReturnsTypes, SMTT(30) DEF ExchangeSucceeds, TypeOK, Locks
<1>3. Calls' /\ Modes'  BY ReturnsTypes DEF ExchangeSucceeds, TypeOK, Calls, Modes
<1>4. Handles' /\ OneThread'
  BY ReturnsTypes DEF ExchangeSucceeds, TypeOK, Handles, OnePinger, OneThread,
     SlotIsTheCallers
<1>5. Owed' /\ Pinged'  BY ReturnsTypes DEF ExchangeSucceeds, TypeOK, Owed, Pinged
<1> QED  BY <1>1, <1>2, <1>3, <1>4, <1>5

LEMMA ExchangeFailsKeeps == ASSUME Inv, ExchangeFails PROVE Inv'
<1>1. TypeOK'
  <2>1. should_stop' \in BOOLEAN /\ aborted' \subseteq Conn /\ handle' = 0
    BY StopTypes DEF ExchangeFails
  <2>2. /\ op' \in Op /\ at' \in CallerAt
        /\ command_has_answer' \in BOOLEAN /\ mode' = mode
        /\ made' = made /\ ops' = ops /\ cancels' = cancels
    BY ReturnsTypes DEF ExchangeFails
  <2> QED  BY <2>1, <2>2 DEF ExchangeFails, TypeOK, Op
<1>2. Locks'
  <2>1. \A t \in Conn : task[t] \notin InFlightAt
    BY DEF ExchangeFails, TypeOK, Locks
  <2> QED  BY <2>1, ReturnsTypes DEF ExchangeFails, Locks
<1>3. Calls' /\ Modes'
  BY ReturnsTypes, StopTypes, SMTT(30) DEF ExchangeFails, TypeOK, Calls, Modes
<1>4. Handles'
  BY ReturnsTypes, StopTypes, SMTT(30) DEF ExchangeFails, TypeOK, Handles, OnePinger,
     StopPingTask
<1>5. OneThread'
  BY ReturnsTypes, StopTypes DEF ExchangeFails, TypeOK, OneThread, SlotIsTheCallers
<1>6. Owed'
  BY ReturnsTypes, StopTypes, SMTT(30) DEF ExchangeFails, TypeOK, Owed, StopPingTask, Locks
<1>7. Pinged'  BY ReturnsTypes, StopTypes DEF ExchangeFails, TypeOK, Pinged
<1> QED  BY <1>1, <1>2, <1>3, <1>4, <1>5, <1>6, <1>7

LEMMA DisconnectKeeps == ASSUME Inv, Disconnect PROVE Inv'
BY StoppingKeeps DEF Disconnect

LEMMA SetKeepAliveKeeps == ASSUME Inv, NEW b \in BOOLEAN, SetKeepAlive(b) PROVE Inv'
<1>1. CASE /\ Begins("setKeepAlive", FALSE, "clear") /\ StopPingTask
           /\ UNCHANGED <<settings, answers, stream, streamLock, in_flight, dirty, task>>
  BY <1>1, StoppingKeeps
<1>2. CASE /\ b \/ ~keep_alive
           /\ Sets
           /\ keep_alive' = b /\ enabled' = (b /\ pings) /\ steady' = FALSE
           /\ UNCHANGED <<parallel, pings, shared, tasks, answers>>
  <2>1. TypeOK'
    <3>1. /\ keep_alive' \in BOOLEAN /\ enabled' \in BOOLEAN /\ steady' \in BOOLEAN
          /\ parallel' \in BOOLEAN /\ pings' \in BOOLEAN
      BY <1>2 DEF TypeOK
    <3> QED  BY <1>2, <3>1 DEF Sets, TypeOK
  <2>2. Locks' /\ Calls' /\ Modes'  BY <1>2 DEF Sets, Locks, Calls, Modes
  <2>3. Handles' /\ OneThread'
    BY <1>2 DEF Sets, Handles, OnePinger, OneThread, SlotIsTheCallers
  <2>4. Owed' /\ Pinged'  BY <1>2 DEF Sets, Owed, Pinged
  <2> QED  BY <2>1, <2>2, <2>3, <2>4
<1> QED  BY <1>1, <1>2 DEF SetKeepAlive

\* disconnect takes the lock of the slot, which no task then has.
LEMMA LockForShutdownKeeps == ASSUME Inv, LockForShutdown PROVE Inv'
<1>1. /\ at = "clear" /\ at' = "shutdown" /\ streamLock = {} /\ stream # 0
      /\ streamLock' = {Owner}
      /\ UNCHANGED <<op, made, ops, cancels, settings, answers, stream, in_flight,
                     should_stop, dirty, tasks>>
  BY DEF LockForShutdown
<1>2. TypeOK'  BY <1>1 DEF TypeOK, CallerAt
<1>3. Locks'  BY <1>1 DEF Locks, TypeOK
<1>4. Calls' /\ Modes'  BY <1>1 DEF Calls, Modes
<1>5. Handles' /\ OneThread'
  BY <1>1 DEF Handles, OnePinger, OneThread, SlotIsTheCallers
<1>6. Owed'  BY <1>1 DEF TypeOK, Locks, Owed
<1>7. Pinged'  BY <1>1 DEF Pinged
<1> QED  BY <1>2, <1>3, <1>4, <1>5, <1>6, <1>7

\* The stream that is shut down leaves the slot, whatever is owed on it.
LEMMA ShutdownStreamKeeps == ASSUME Inv, ShutdownStream PROVE Inv'
<1>1. /\ stream' = 0 /\ streamLock' = {} /\ Returns /\ at = "shutdown"
      /\ UNCHANGED <<settings, in_flight, should_stop, dirty, tasks>>
  BY DEF ShutdownStream
<1>2. TypeOK'
  <2>1. /\ at' \in CallerAt /\ op' \in Op
        /\ command_has_answer' \in BOOLEAN /\ mode' = mode
        /\ made' = made /\ ops' = ops /\ cancels' = cancels
    BY <1>1, ReturnsTypes
  <2> QED  BY <1>1, <2>1 DEF TypeOK, Op
<1>3. Locks'  BY <1>1, ReturnsTypes DEF Locks, TypeOK
<1>4. Calls' /\ Modes'  BY <1>1, ReturnsTypes DEF TypeOK, Calls, Modes
<1>5. Handles' /\ OneThread'
  BY <1>1, ReturnsTypes DEF Handles, OnePinger, OneThread, SlotIsTheCallers
<1>6. Owed'  BY <1>1, ReturnsTypes, SMTT(30) DEF TypeOK, Locks, Owed
<1>7. Pinged'  BY <1>1, ReturnsTypes DEF Pinged
<1> QED  BY <1>2, <1>3, <1>4, <1>5, <1>6, <1>7

LEMMA ClearStreamKeeps == ASSUME Inv, ClearStream PROVE Inv'
<1>1. /\ stream' = 0 /\ Returns /\ at = "clear" /\ streamLock = {}
      /\ UNCHANGED <<parallel, pings, streamLock, in_flight, should_stop, dirty, tasks>>
      /\ keep_alive' \in {keep_alive, FALSE} /\ enabled' \in {enabled, FALSE}
      /\ steady' \in {steady, FALSE}
  BY DEF ClearStream
<1>2. TypeOK'
  <2>1. /\ keep_alive' \in BOOLEAN /\ enabled' \in BOOLEAN /\ steady' \in BOOLEAN
        /\ parallel' \in BOOLEAN /\ pings' \in BOOLEAN
    BY <1>1 DEF TypeOK
  <2>2. /\ at' \in CallerAt /\ op' \in Op
        /\ command_has_answer' \in BOOLEAN /\ mode' = mode
        /\ made' = made /\ ops' = ops /\ cancels' = cancels
    BY <1>1, ReturnsTypes
  <2> QED  BY <1>1, <2>1, <2>2 DEF TypeOK, Op
<1>3. Locks'  BY <1>1, ReturnsTypes DEF Locks
<1>4. Calls' /\ Modes'  BY <1>1, ReturnsTypes DEF TypeOK, Calls, Modes
<1>5. Handles' /\ OneThread'
  BY <1>1, ReturnsTypes DEF Handles, OnePinger, OneThread, SlotIsTheCallers
<1>6. Owed'  BY <1>1, ReturnsTypes, SMTT(30) DEF TypeOK, Locks, Owed
<1>7. Pinged'  BY <1>1, ReturnsTypes DEF Pinged
<1> QED  BY <1>2, <1>3, <1>4, <1>5, <1>6, <1>7

LEMMA SetTimeoutConfigKeeps ==
    ASSUME Inv, NEW b \in BOOLEAN, SetTimeoutConfig(b)
    PROVE  Inv'
<1>1. keep_alive \in BOOLEAN /\ enabled' \in BOOLEAN /\ pings' \in BOOLEAN
  BY DEF SetTimeoutConfig, TypeOK
<1>2. TypeOK'
  <2>1. steady' \in BOOLEAN /\ parallel' \in BOOLEAN  BY DEF SetTimeoutConfig, TypeOK
  <2> QED  BY <1>1, <2>1 DEF SetTimeoutConfig, Sets, TypeOK
<1>3. Locks' /\ Calls' /\ Modes'  BY DEF SetTimeoutConfig, Sets, Locks, Calls, Modes
<1>4. Handles' /\ OneThread'
  BY DEF SetTimeoutConfig, Sets, Handles, OnePinger, OneThread, SlotIsTheCallers
<1>5. Owed' /\ Pinged'  BY DEF SetTimeoutConfig, Sets, Owed, Pinged
<1> QED  BY <1>2, <1>3, <1>4, <1>5

LEMMA SetCommandHasAnswerKeeps ==
    ASSUME Inv, NEW b \in BOOLEAN, SetCommandHasAnswer(b)
    PROVE  Inv'
<1>1. TypeOK'  BY DEF SetCommandHasAnswer, Sets, TypeOK
<1>2. Locks' /\ Calls'  BY DEF SetCommandHasAnswer, Sets, TypeOK, Locks, Calls
<1>3. Modes'  BY DEF SetCommandHasAnswer, Sets, TypeOK, Modes
<1>4. Handles' /\ OneThread'
  BY DEF SetCommandHasAnswer, Sets, TypeOK, Handles, OnePinger, OneThread,
     SlotIsTheCallers
<1>5. Owed' /\ Pinged'  BY DEF SetCommandHasAnswer, Sets, TypeOK, Owed, Pinged
<1> QED  BY <1>1, <1>2, <1>3, <1>4, <1>5

LEMMA CancelKeeps == ASSUME Inv, Cancel PROVE Inv'
<1>1. TypeOK'  BY DEF Cancel, MayCancel, TypeOK, GuardDrops, Locks, CallerAt
<1>2. Locks'  BY DEF Cancel, MayCancel, TypeOK, Locks
<1>3. Calls'  BY DEF Cancel, MayCancel, TypeOK, Calls
<1>4. Modes'  BY DEF Cancel, MayCancel, TypeOK, Modes, GuardDrops
<1>5. Handles' /\ OneThread'
  BY DEF Cancel, MayCancel, TypeOK, Handles, OnePinger, OneThread, SlotIsTheCallers
<1>6. Owed'  BY DEF Cancel, MayCancel, TypeOK, Owed, Locks, Calls
<1>7. Pinged'  BY DEF Cancel, MayCancel, TypeOK, Pinged
<1> QED  BY <1>1, <1>2, <1>3, <1>4, <1>5, <1>6, <1>7

LEMMA DropClientKeeps == ASSUME Inv, DropClient PROVE Inv'
<1>1. TypeOK'  BY StopTypes, SMTT(30) DEF DropClient, TypeOK, CallerAt
<1>2. Locks' /\ Calls' /\ Modes'  BY DEF DropClient, Locks, Calls, Modes
<1>3. Handles'  BY DEF DropClient, StopPingTask, TypeOK, Handles, OnePinger
<1>4. OneThread' /\ Owed' /\ Pinged'
  BY DEF DropClient, OneThread, SlotIsTheCallers, Owed, Pinged
<1> QED  BY <1>1, <1>2, <1>3, <1>4

-----------------------------------------------------------------------------
(* The steps of the ping tasks                                             *)

\* A task that neither has nor gets a lock moves on.
LEMMA IdleMoves ==
    ASSUME Inv, NEW t \in Conn,
           NEW from \in {"sleep", "stopCheck", "due"},
           NEW to \in {"sleep", "stopCheck", "due", "done"}, to = "done" => should_stop,
           Goes(t, from, to),
           UNCHANGED <<settings, answers, shared, handle, aborted, caller>>
    PROVE  Inv'
<1>1. TypeOK'  BY DEF Goes, TypeOK, TaskAt
<1>2. Locks'  BY SMTT(30) DEF Goes, TypeOK, Locks
<1>3. Calls' /\ Modes'  BY DEF Calls, Modes
<1>4. Handles'  BY DEF Goes, TypeOK, Handles, OnePinger
<1>5. OneThread'  BY DEF OneThread, SlotIsTheCallers
<1>6. Owed'  BY DEF Goes, TypeOK, Owed
<1>7. Pinged'  BY DEF Goes, TypeOK, Pinged
<1> QED  BY <1>1, <1>2, <1>3, <1>4, <1>5, <1>6, <1>7

LEMMA WakeKeeps == ASSUME Inv, NEW t \in Conn, Wake(t) PROVE Inv'
BY IdleMoves DEF Wake

LEMMA CheckStopKeeps == ASSUME Inv, NEW t \in Conn, CheckStop(t) PROVE Inv'
BY IdleMoves DEF CheckStop

LEMMA SkipKeeps == ASSUME Inv, NEW t \in Conn, Skip(t) PROVE Inv'
BY IdleMoves DEF Skip

LEMMA TryInFlightKeeps == ASSUME Inv, NEW t \in Conn, TryInFlight(t) PROVE Inv'
<1>1. TypeOK'  BY DEF TryInFlight, Goes, TypeOK, TaskAt
<1>2. Locks'  BY DEF TryInFlight, Goes, TypeOK, Locks
<1>3. Calls' /\ Modes'  BY DEF TryInFlight, Goes, TypeOK, Calls, Modes
<1>4. Handles'  BY DEF TryInFlight, Goes, TypeOK, Handles, OnePinger
<1>5. OneThread'  BY DEF TryInFlight, Goes, TypeOK, OneThread, SlotIsTheCallers
<1>6. Owed'  BY DEF TryInFlight, Goes, TypeOK, Owed
<1>7. Pinged'  BY DEF TryInFlight, Goes, TypeOK, Pinged, Handles
<1> QED  BY <1>1, <1>2, <1>3, <1>4, <1>5, <1>6, <1>7

LEMMA FindNoStreamKeeps == ASSUME Inv, NEW t \in Conn, FindNoStream(t) PROVE Inv'
<1>1. TypeOK'  BY DEF FindNoStream, Goes, TypeOK, TaskAt
<1>2. Locks'  BY DEF FindNoStream, Goes, TypeOK, Locks
<1>3. Calls' /\ Modes'  BY DEF FindNoStream, Goes, TypeOK, Calls, Modes
<1>4. Handles'  BY DEF FindNoStream, Goes, TypeOK, Handles, OnePinger
<1>5. OneThread'  BY DEF FindNoStream, Goes, TypeOK, OneThread, SlotIsTheCallers
<1>6. Owed'  BY DEF FindNoStream, Goes, TypeOK, Owed, MayRun, Locks
<1>7. Pinged'  BY DEF FindNoStream, Goes, TypeOK, Pinged, Handles
<1> QED  BY <1>1, <1>2, <1>3, <1>4, <1>5, <1>6, <1>7

LEMMA TakeStreamKeeps == ASSUME Inv, NEW t \in Conn, TakeStream(t) PROVE Inv'
<1>1. TypeOK'  BY DEF TakeStream, Goes, TypeOK, TaskAt
<1>2. Locks'  BY DEF TakeStream, Goes, TypeOK, Locks
<1>3. Calls' /\ Modes'  BY DEF TakeStream, Goes, TypeOK, Calls, Modes
<1>4. Handles'  BY DEF TakeStream, Goes, TypeOK, Handles, OnePinger
<1>5. OneThread'
  BY DEF TakeStream, Goes, TypeOK, OneThread, SlotIsTheCallers, MayRun
<1>6. Owed'  BY DEF TakeStream, Goes, TypeOK, Owed, MayRun, Locks
<1>7. Pinged'  BY DEF TakeStream, Goes, TypeOK, Pinged, Handles
<1> QED  BY <1>1, <1>2, <1>3, <1>4, <1>5, <1>6, <1>7

LEMMA SendPingKeeps == ASSUME Inv, NEW t \in Conn, SendPing(t) PROVE Inv'
<1>1. TypeOK'  BY DEF SendPing, Goes, TypeOK, Locks, TaskAt
<1>2. Locks'  BY DEF SendPing, Goes, TypeOK, Locks
<1>3. Calls' /\ Modes'  BY DEF SendPing, Calls, Modes
<1>4. Handles'  BY DEF SendPing, Goes, TypeOK, Handles, OnePinger
<1>5. OneThread'  BY DEF SendPing, Goes, MayRun, OneThread, SlotIsTheCallers
<1>6. Owed'
  <2>1. task'[t] = "pong" /\ t \in streamLock  BY DEF SendPing, Goes, TypeOK, Locks
  <2>2. stream \in 0 .. made /\ at # "exchange"  BY <2>1 DEF Locks, Calls, TypeOK
  <2>3. \A c \in dirty' : c <= made' /\ (at' = "install" => c # made')
    BY <2>1, <2>2 DEF SendPing, TypeOK, Calls, Owed
  <2> QED  BY <2>1, <2>3 DEF SendPing, Goes, MayRun, TypeOK, Owed
<1>7. Pinged'  BY DEF SendPing, Goes, TypeOK, Pinged
<1> QED  BY <1>1, <1>2, <1>3, <1>4, <1>5, <1>6, <1>7

LEMMA ReceivePongKeeps == ASSUME Inv, NEW t \in Conn, ReceivePong(t) PROVE Inv'
<1>1. TypeOK'  BY DEF ReceivePong, Goes, TypeOK, TaskAt
<1>2. Locks'  BY DEF ReceivePong, Goes, TypeOK, Locks
<1>3. Calls' /\ Modes'  BY DEF ReceivePong, Goes, TypeOK, Calls, Modes
<1>4. Handles'  BY DEF ReceivePong, Goes, TypeOK, Handles, OnePinger
<1>5. OneThread'  BY DEF ReceivePong, Goes, TypeOK, OneThread, SlotIsTheCallers
<1>6. Owed'  BY DEF ReceivePong, Goes, TypeOK, Owed, Locks
<1>7. Pinged'  BY DEF ReceivePong, Goes, TypeOK, Pinged, Handles
<1> QED  BY <1>1, <1>2, <1>3, <1>4, <1>5, <1>6, <1>7

LEMMA PingFailsKeeps == ASSUME Inv, NEW t \in Conn, PingFails(t) PROVE Inv'
<1>1. TypeOK'  BY DEF PingFails, Goes, TypeOK, TaskAt
<1>2. Locks'  BY DEF PingFails, Goes, TypeOK, Locks
<1>3. Calls' /\ Modes'  BY DEF PingFails, Goes, TypeOK, Calls, Modes
<1>4. Handles'  BY DEF PingFails, Goes, TypeOK, Handles, OnePinger
<1>5. OneThread'
  BY SMTT(30) DEF PingFails, Goes, TypeOK, OneThread, SlotIsTheCallers, MayRun, Handles,
     OnePinger
<1>6. Owed'  BY DEF PingFails, Goes, TypeOK, Owed, MayRun, Locks
<1>7. Pinged'  BY DEF PingFails, Goes, TypeOK, Pinged, Handles
<1> QED  BY <1>1, <1>2, <1>3, <1>4, <1>5, <1>6, <1>7

LEMMA DiesKeeps == ASSUME Inv, NEW t \in Conn, Dies(t) PROVE Inv'
<1>1. TypeOK'  BY DEF Dies, TypeOK, TaskAt
<1>2. Locks'  BY SMTT(30) DEF Dies, TypeOK, Locks
<1>3. Calls' /\ Modes'  BY DEF Dies, TypeOK, Calls, Modes
<1>4. Handles'  BY DEF Dies, TypeOK, Handles, OnePinger
<1>5. OneThread'  BY DEF Dies, TypeOK, OneThread, SlotIsTheCallers, Locks
<1>6. Owed'  BY DEF Dies, TypeOK, Owed, Locks
<1>7. Pinged'  BY DEF Dies, TypeOK, Pinged, Handles
<1> QED  BY <1>1, <1>2, <1>3, <1>4, <1>5, <1>6, <1>7
-----------------------------------------------------------------------------
LEMMA InitInv == Init => Inv
<1> SUFFICES ASSUME Init PROVE Inv  OBVIOUS
<1>1. TypeOK
  <2>1. parallel \in BOOLEAN /\ keep_alive \in BOOLEAN  BY DEF Init
  <2>2. op \in Op /\ task \in [Conn -> TaskAt] /\ at \in CallerAt
    BY DEF Init, Op, TaskAt, CallerAt
  <2>3. 0 \in 0 .. MaxConns /\ 0 \in 0 .. MaxOps /\ 0 \in 0 .. MaxCancels  OBVIOUS
  <2> QED  BY <2>1, <2>2, <2>3 DEF Init, TypeOK, Op
<1>2. Locks /\ Calls /\ Modes  BY DEF Init, Locks, Calls, Modes
<1>3. Handles /\ OneThread  BY DEF Init, Handles, OnePinger, OneThread, SlotIsTheCallers
<1>4. Owed /\ Pinged  BY DEF Init, Owed, Pinged
<1> QED  BY <1>1, <1>2, <1>3, <1>4

LEMMA StutterKeeps == ASSUME Inv, UNCHANGED vars PROVE Inv'
<1>1. TypeOK' /\ Locks'  BY DEF vars, TypeOK, Locks
<1>2. Calls' /\ Modes'  BY DEF vars, Calls, Modes
<1>3. Handles' /\ OneThread'
  BY DEF vars, Handles, OnePinger, OneThread, SlotIsTheCallers
<1>4. Owed' /\ Pinged'  BY DEF vars, Owed, Pinged
<1> QED  BY <1>1, <1>2, <1>3, <1>4

LEMMA NextInv == Inv /\ [Next]_vars => Inv'
<1> SUFFICES ASSUME Inv, [Next]_vars PROVE Inv'  OBVIOUS
<1>1. ASSUME NEW b \in BOOLEAN,
             \/ HandleMessage(b) \/ SetKeepAlive(b)
             \/ SetTimeoutConfig(b) \/ SetCommandHasAnswer(b)
      PROVE  Inv'
  BY <1>1, HandleMessageKeeps, SetKeepAliveKeeps, SetTimeoutConfigKeeps,
     SetCommandHasAnswerKeeps
<1>2. CASE Connect \/ Disconnect \/ Cancel \/ DropClient
  BY <1>2, ConnectKeeps, DisconnectKeeps, CancelKeeps, DropClientKeeps
<1>3. CASE CallStep
  BY <1>3, CheckStreamKeeps, DialSucceedsKeeps, DialFailsKeeps, GiveUpKeeps,
     ConnectFailsKeeps, InstallKeeps, RestartPingKeeps, StartPingKeeps,
     AcquireInFlightKeeps, LockStreamKeeps, ExchangeSucceedsKeeps, ExchangeFailsKeeps,
     LockForShutdownKeeps, ShutdownStreamKeeps, ClearStreamKeeps DEF CallStep
<1>4. ASSUME NEW t \in Conn, Wake(t) \/ PingStep(t) \/ Dies(t)
      PROVE  Inv'
  BY <1>4, WakeKeeps, CheckStopKeeps, SkipKeeps, TryInFlightKeeps, FindNoStreamKeeps,
     TakeStreamKeeps, SendPingKeeps, ReceivePongKeeps, PingFailsKeeps, DiesKeeps
     DEF PingStep
<1>5. CASE Finished \/ UNCHANGED vars  BY <1>5, StutterKeeps DEF Finished
<1> QED  BY <1>1, <1>2, <1>3, <1>4, <1>5 DEF Next

\* The inductive invariant holds in every state of every client.
THEOREM Invariance == Spec => []Inv
BY InitInv, NextInv, PTL DEF Spec

\* Every variable of a client keeps its type; in particular nobody pings or
\* exchanges on an empty slot, which would mark connection 0 as dirty.
THEOREM TypeCorrect == Spec => []TypeOK
<1>1. Inv => TypeOK  OBVIOUS
<1> QED  BY Invariance, <1>1, PTL

\* The in-flight mutex of ping.rs and the slot's mutex do their work, on several
\* threads also: no byte of a ping is written or awaited during an exchange of
\* handle_message, and no two tasks ping at a time, old and new connections,
\* aborted tasks and dropped futures included.
THEOREM PingsExcludeExchanges ==
    Spec => []( /\ \A t \in Conn : task[t] \in StreamAt => at # "exchange"
                /\ \A t, u \in Conn : task[t] \in StreamAt /\ task[u] \in StreamAt => t = u )
<1> DEFINE Excluded ==
        /\ \A t \in Conn : task[t] \in StreamAt => at # "exchange"
        /\ \A t, u \in Conn : task[t] \in StreamAt /\ task[u] \in StreamAt => t = u
<1>1. Inv => Excluded  BY DEF Locks
<1> QED  BY Invariance, <1>1, PTL

\* No sequence of connects, failures, settings and dropped futures leaves a ping
\* task that the client can no longer stop.
THEOREM OnePingTask == Spec => []OnePinger
<1>1. Inv => OnePinger  BY DEF Handles
<1> QED  BY Invariance, <1>1, PTL

\* On one thread a request never meets the pong of an earlier ping: the
\* connection of every exchange is clean, unless a call was dropped midway.
THEOREM CleanExchanges == Spec => []CleanOnOneThread
<1>1. Inv => CleanOnOneThread
  BY DEF CleanOnOneThread, CleanExchange, Owed, Locks
<1> QED  BY Invariance, <1>1, PTL

\* On one thread and without keep-alive a call that has connected finds its
\* connection in the slot.
THEOREM ConnectedCallsHaveTheSlot == Spec => []SlotIsTheCallers
<1>1. Inv => SlotIsTheCallers  BY DEF OneThread, SlotIsTheCallers
<1> QED  BY Invariance, <1>1, PTL

\* A connection kept alive has a ping task that runs and was not told to stop,
\* although the stop of the task before may come late.
THEOREM KeptConnectionsArePinged == Spec => []KeptAlive
<1>1. Inv => KeptAlive  BY DEF KeptAlive, Pinged
<1> QED  BY Invariance, <1>1, PTL

\* A caller that waits for answers does so again after
\* handle_message_with_no_answer, whether that returned, failed or was dropped.
\* Of a caller that had turned answers off nothing is said: the code turns them
\* on (client_tl.rs:551).
THEOREM ModeRestored == Spec => []AnswerMode
<1>1. Inv => AnswerMode  BY DEF AnswerMode, Calls, Modes
<1> QED  BY Invariance, <1>1, PTL
=============================================================================
