------------------------------ MODULE KeepAlive ------------------------------
(***************************************************************************)
(* Time on a connection that is kept alive: the client's ping task, which  *)
(* sleeps, looks how long ago the last activity was and pings, against the *)
(* server's task, which waits read_header for the next command and then    *)
(* closes.  The question is which settings keep an idle connection open.   *)
(*                                                                         *)
(* Clocks count units of time since an event or until one; Tick advances   *)
(* them together and is not possible while something is due at once.       *)
(* Locks are in Client and bytes in Connection: here a message takes up to *)
(* Delay from its write to its read, the scheduling of both ends included. *)
(* keep_alive is on.  That an old ping task may still ping the connection  *)
(* that replaces its own, on several threads, is in Client.                *)
(***************************************************************************)
EXTENDS TimeoutConfig

CONSTANTS
    Default,            \* TimeoutConfig::default()
    Requests,           \* what the caller may ask set_timeout_config for
    ServerReadHeader,   \* read_header of the server, its own setting
    Delay,              \* bound on the time a message takes
    Tail,               \* PING_OLD_FORMAT_READ_TIMEOUT
    MaxIdle             \* where the age of the last activity stops counting

ASSUME KeepAliveAssumption ==
    /\ Requests \subseteq Config /\ Default \in Config /\ Validate(Default)
    /\ ServerReadHeader \in Nat /\ Delay \in Nat /\ Tail \in Nat /\ MaxIdle \in Nat
    /\ Default.ping_interval <= MaxIdle
    /\ \A r \in Requests : r.ping_interval <= MaxIdle /\ r.read_header <= MaxIdle

VARIABLES
    cfg,        \* timeout_config, of the client and of its ping task
    task,       \* the ping task runs
    nap,        \* what is left of its sleep
    idle,       \* age of last_activity
    link,       \* the connection, and what is under way on it
    by,         \* who holds the in-flight lock: nobody, a call or the ping
    transit,    \* age of the message under way, or of the wait for a tail
    patience,   \* what is left of the wait for a pong
    wait,       \* how long the server has waited for a command
    dialed,     \* connect has a connection that is not in the slot yet
    ahead,      \* how long the server of that one has waited for a command
    fit         \* history: all settings since connect are Effective

dial == <<dialed, ahead>>
client == <<cfg, task, nap, idle, fit, dialed, ahead>>
vars == <<client, link, by, transit, patience, wait>>

LinkAt == {"closed", "quiet", "toServer", "serving", "toClient", "tail", "cut"}

\* The server is in read_command.  It is as soon as it has answered.
Reading == link \in {"quiet", "toServer", "toClient", "tail"}

\* The ping task is in sleep.
Sleeping == task /\ by # "ping"

\* Something is under way for a bounded time, and for how long at most.
Timed == link \in {"toServer", "toClient", "tail"} \/ (link = "cut" /\ by # "none")
Limit == IF link = "tail" THEN Tail ELSE Delay

AwaitsPong == by = "ping" /\ link \in {"toServer", "toClient"}

\* connect has nothing to wait for: the slot's lock is free.
InstallDue == dialed /\ by # "ping"

\* The settings with which pings do their work: the last check before the
\* interval is over comes just too early, the next one a check interval
\* later, and its ping takes a delay.  The activity the interval counts from
\* is what the client saw, up to three delays and a tail after the server
\* began to wait: the pong may be one on the connection before, for whose end
\* connect had to wait.
Effective(c) ==
    /\ c.ping_interval + CheckInterval(c.ping_interval) + 4 * Delay + Tail < ServerReadHeader
    /\ c.read_header > 2 * Delay

Init ==
    /\ cfg = Default /\ fit = FALSE
    /\ task = FALSE /\ nap = 0 /\ idle = 0
    /\ link = "closed" /\ by = "none"
    /\ transit = 0 /\ patience = 0 /\ wait = 0
    /\ dialed = FALSE /\ ahead = 0

-----------------------------------------------------------------------------
Tick ==
    /\ Sleeping => nap > 0
    /\ Timed => transit < Limit
    /\ AwaitsPong => patience > 0
    /\ Reading => wait < ServerReadHeader
    /\ ~InstallDue
    /\ nap' = IF Sleeping THEN nap - 1 ELSE nap
    /\ idle' = IF idle < MaxIdle THEN idle + 1 ELSE idle
    /\ transit' = IF Timed THEN transit + 1 ELSE transit
    /\ patience' = IF AwaitsPong THEN patience - 1 ELSE patience
    /\ wait' = IF Reading THEN wait + 1 ELSE wait
    /\ ahead' = IF dialed THEN ahead + 1 ELSE ahead
    /\ UNCHANGED <<cfg, task, link, by, fit, dialed>>

\* The stream in the slot and its ping task are gone.
Close ==
    /\ link' = "closed" /\ by' = "none" /\ task' = FALSE
    /\ nap' = 0 /\ transit' = 0 /\ patience' = 0 /\ wait' = 0
    /\ UNCHANGED <<cfg, idle, fit, dial>>

\* What is under way becomes next, by whom.
Moves(next, who) ==
    /\ link' = next /\ by' = who /\ transit' = 0

-----------------------------------------------------------------------------
(* The caller                                                              *)

\* connect has a connection, in place of an old one or of none.  Its server
\* reads from now on, and connect asks for the lock of the slot, which a ping
\* on the old connection may hold.
Dial ==
    /\ by # "call" /\ ~dialed
    /\ dialed' = TRUE /\ ahead' \in 0 .. Delay
    /\ UNCHANGED <<cfg, task, nap, idle, fit, link, by, transit, patience, wait>>

\* connect has the lock: the new connection is in the slot, and a new task in
\* place of the old one.  The last activity is the one on the connection
\* before.  The new server may have given up already.
Install ==
    /\ InstallDue
    /\ \/ ahead <= ServerReadHeader /\ Moves("quiet", "none") /\ wait' = ahead
       \/ ahead >= ServerReadHeader /\ Moves("cut", "none") /\ wait' = 0
    /\ patience' = 0
    /\ task' = (cfg.ping_interval > 0)
    /\ nap' = IF cfg.ping_interval > 0 THEN CheckInterval(cfg.ping_interval) ELSE 0
    /\ fit' = Effective(cfg)
    /\ dialed' = FALSE /\ ahead' = 0
    /\ UNCHANGED <<cfg, idle>>

\* connect_total is over, or the caller drops connect: the new connection is
\* dropped with it, and the old one stays.
AbandonDial ==
    /\ dialed
    /\ dialed' = FALSE /\ ahead' = 0
    /\ UNCHANGED <<cfg, task, nap, idle, fit, link, by, transit, patience, wait>>

\* A ping under way is aborted.
Disconnect == link # "closed" /\ by # "call" /\ ~dialed /\ Close

\* Mutant: the settings are taken as they are asked for.
SetUnvalidated(r) ==
    /\ by # "call" /\ ~dialed
    /\ cfg' = r /\ fit' = (fit /\ Effective(cfg'))
    /\ UNCHANGED <<task, nap, idle, link, by, transit, patience, wait, dial>>

\* Settings that are not valid are refused.  A running task goes on with its
\* sleep, and goes on also when the interval is now 0.
SetTimeoutConfig(r) ==
    LET config == WithPingInterval(r, r.ping_interval) IN
    /\ by # "call" /\ ~dialed
    /\ Validate(config)
    /\ cfg' = config /\ fit' = (fit /\ Effective(config))
    /\ UNCHANGED <<task, nap, idle, link, by, transit, patience, wait, dial>>

StartCall ==
    /\ by = "none" /\ link \in {"quiet", "cut"} /\ ~dialed
    /\ Moves(IF link = "cut" THEN "cut" ELSE "toServer", "call")
    /\ UNCHANGED <<client, patience, wait>>

\* The call returns Ok: touch_activity.
ReceiveReply ==
    /\ by = "call" /\ link = "toClient"
    /\ Moves("quiet", "none") /\ idle' = 0
    /\ UNCHANGED <<cfg, task, nap, fit, patience, wait, dial>>

\* A call fails for whatever reason, and its connection is dropped.
CallFails == by = "call" /\ Close

-----------------------------------------------------------------------------
(* The ping task                                                           *)

\* Mutant: a look at the clock counts as activity.
CheckTouches ==
    /\ Sleeping /\ nap = 0
    /\ idle < cfg.ping_interval \/ by = "call"
    /\ nap' = CheckInterval(cfg.ping_interval) /\ idle' = 0
    /\ UNCHANGED <<cfg, task, fit, link, by, transit, patience, wait, dial>>

\* Mutant: the task sleeps for the whole interval.
CheckSleepsInterval ==
    /\ Sleeping /\ nap = 0
    /\ idle < cfg.ping_interval \/ by = "call"
    /\ nap' = cfg.ping_interval
    /\ UNCHANGED <<cfg, task, idle, fit, link, by, transit, patience, wait, dial>>

\* Not due yet, or a call is in flight: sleep again.
CheckSkips ==
    /\ Sleeping /\ nap = 0
    /\ idle < cfg.ping_interval \/ by = "call"
    /\ nap' = CheckInterval(cfg.ping_interval)
    /\ UNCHANGED <<cfg, task, idle, fit, link, by, transit, patience, wait, dial>>

\* Mutant: the pong is waited for as long as a pong may take to write.
CheckPingsHasty ==
    /\ Sleeping /\ nap = 0
    /\ idle >= cfg.ping_interval /\ by = "none"
    /\ Moves(IF link = "cut" THEN "cut" ELSE "toServer", "ping")
    /\ patience' = cfg.ping_write
    /\ UNCHANGED <<client, wait>>

\* Due.  A server that has gone is found only now.
CheckPings ==
    /\ Sleeping /\ nap = 0
    /\ idle >= cfg.ping_interval /\ by = "none"
    /\ Moves(IF link = "cut" THEN "cut" ELSE "toServer", "ping")
    /\ patience' = cfg.read_header
    /\ UNCHANGED <<client, wait>>

ReceivePong ==
    /\ by = "ping" /\ link = "toClient"
    /\ Moves("tail", "ping") /\ patience' = 0
    /\ UNCHANGED <<client, wait>>

\* The 10 ms are over, or the four more bytes of an old server have come.
TailOver ==
    /\ link = "tail"
    /\ Moves("quiet", "none") /\ idle' = 0
    /\ nap' = CheckInterval(cfg.ping_interval)
    /\ UNCHANGED <<cfg, task, fit, patience, wait, dial>>

PingTimesOut == AwaitsPong /\ patience = 0 /\ Close

\* Mutant: a ping that finds the server gone is not taken for a failure.
NoticeCutKeeps ==
    /\ by # "none" /\ link = "cut"
    /\ Moves("cut", "none") /\ patience' = 0 /\ idle' = 0
    /\ nap' = CheckInterval(cfg.ping_interval)
    /\ UNCHANGED <<cfg, task, fit, wait, dial>>

\* A call or a ping meets the end of the stream.
NoticeCut == by # "none" /\ link = "cut" /\ Close

-----------------------------------------------------------------------------
(* The server                                                              *)

\* A call's header has come; a ping is answered at once, and the server reads
\* again.
Arrive ==
    /\ link = "toServer"
    /\ Moves(IF by = "ping" THEN "toClient" ELSE "serving", by) /\ wait' = 0
    /\ UNCHANGED <<client, patience>>

\* The handler may take any time.
Reply ==
    /\ link = "serving"
    /\ Moves("toClient", by) /\ wait' = 0
    /\ UNCHANGED <<client, patience>>

\* No command within read_header: handle_next fails, and the task ends.
ServerTimesOut ==
    /\ Reading /\ wait >= ServerReadHeader
    /\ Moves("cut", by) /\ patience' = 0 /\ wait' = 0
    /\ UNCHANGED client

-----------------------------------------------------------------------------
PingStep ==
    CheckSkips \/ CheckPings \/ ReceivePong \/ TailOver \/ PingTimesOut \/ NoticeCut

Next ==
    \/ Tick
    \/ Dial \/ Install \/ AbandonDial \/ Disconnect
    \/ StartCall \/ ReceiveReply \/ CallFails
    \/ \E r \in Requests : SetTimeoutConfig(r)
    \/ PingStep
    \/ Arrive \/ Reply \/ ServerTimesOut

Spec == Init /\ [][Next]_vars

\* Time goes on, whatever is dialed and abandoned in a moment; the runtime runs
\* the task and a connect that has its lock, and bytes that were written arrive.
FairSpec ==
    /\ Spec
    /\ SF_vars(Tick) /\ WF_vars(Install)
    /\ WF_vars(PingStep) /\ WF_vars(Arrive) /\ WF_vars(ServerTimesOut)

-----------------------------------------------------------------------------
\* The settings in use are valid, as set_timeout_config demands, and the clocks
\* bounded: nobody waits longer than the timeouts and delays allow.
TypeOK ==
    /\ cfg \in Config /\ Validate(cfg)
    /\ task \in BOOLEAN /\ fit \in BOOLEAN /\ dialed \in BOOLEAN
    /\ nap \in Nat /\ idle \in 0 .. MaxIdle
    /\ link \in LinkAt /\ by \in {"none", "call", "ping"}
    /\ transit \in Nat /\ patience \in Nat /\ wait \in Nat
    /\ transit <= Delay + Tail /\ wait <= ServerReadHeader
    /\ ahead \in 0 .. 4 * Delay + Tail

\* With effective settings the server never gives up on a connection that has
\* its ping task, whatever calls are made, whenever the settings change from
\* one effective value to another, and however long connect had to wait for a
\* ping on the connection before.
KeptOpen == (task /\ fit) => link # "cut"

\* With effective settings no ping is given up while its pong may still come.
PongInTime == (AwaitsPong /\ fit) => patience > 0

\* The client's idea of how long the connection has been idle is at most three
\* delays and a tail behind the server's, however calls, pings, settings and
\* reconnections follow each other: an interval counts from about when the
\* server's does, also if connect waited for the lock of a ping whose pong is
\* then the last activity.
IdleTracksServer == (link = "quiet" /\ idle < MaxIdle) => wait <= idle + 3 * Delay + Tail

\* A connection the server has closed does not stay in the slot for ever: the
\* ping task finds it, also when there are no calls.
CutIsNoticed == (task /\ link = "cut") ~> (link # "cut")

\* timeout_config.rs says when an interval is effective: when it is less than
\* read_header, to which it is clamped and for which it is validated.
LessIsEffective == (task /\ cfg.read_header = ServerReadHeader) => link # "cut"
=============================================================================
