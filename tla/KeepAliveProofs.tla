--------------------------- MODULE KeepAliveProofs ---------------------------
(***************************************************************************)
(* TimeoutConfig and KeepAlive for every value of the durations: a clamped *)
(* interval is valid, and effective settings keep a connection open.       *)
(***************************************************************************)
EXTENDS KeepAlive, TLAPS

\* The assumptions on single numbers, in one place for the arithmetic.
LEMMA Numbers ==
    /\ PingClampSubtraction \in Nat /\ PingClampSubtraction # 0
    /\ PingClampHalveThreshold \in Nat
    /\ MinPingCheckInterval \in Nat /\ MinPingCheckInterval # 0
    /\ ServerReadHeader \in Nat /\ Delay \in Nat /\ Tail \in Nat /\ MaxIdle \in Nat
BY TimeoutConfigAssumption, KeepAliveAssumption

\* Half of a duration is one, and is shorter unless there is nothing to halve.
LEMMA Halving ==
    ASSUME NEW n \in Nat
    PROVE  /\ n \div 2 \in Nat /\ n \div 2 <= n /\ (n # 0 => n \div 2 < n)
           /\ n \div 4 \in Nat
OBVIOUS

\* The pause of the ping task is a duration, and never nothing.
LEMMA CheckIntervalNat ==
    ASSUME NEW i \in Nat
    PROVE  CheckInterval(i) \in Nat /\ CheckInterval(i) > 0
BY Numbers, Halving DEF CheckInterval

\* What with_ping_interval sets is a duration, is shorter than read_header
\* unless that is nothing, and is no longer than what was asked for or than
\* read_header.
LEMMA ClampBelow ==
    ASSUME NEW rh \in Nat
    PROVE  Clamp(rh) \in Nat /\ Clamp(rh) <= rh /\ (rh # 0 => Clamp(rh) < rh)
<1>1. CASE rh > PingClampSubtraction
  <2>1. Clamp(rh) = rh - PingClampSubtraction  BY <1>1, Numbers DEF Clamp
  <2>. QED  BY <1>1, <2>1, Numbers
<1>2. CASE rh <= PingClampSubtraction /\ rh >= PingClampHalveThreshold
  <2>1. Clamp(rh) = rh \div 2  BY <1>2, Numbers DEF Clamp
  <2>. QED  BY <2>1, Halving
<1>3. CASE rh <= PingClampSubtraction /\ rh < PingClampHalveThreshold
  <2>1. Clamp(rh) = 0  BY <1>3, Numbers DEF Clamp
  <2>. QED  BY <2>1
<1>. QED  BY <1>1, <1>2, <1>3, Numbers

\* set_timeout_config refuses no settings for their ping interval, unless
\* read_header is nothing: the clamp always makes the interval shorter than
\* read_header, also where it halves and where it rounds down to nothing.
THEOREM ClampIsValid ==
    ASSUME NEW c \in Config, NEW i \in Nat,
           c.connect_total # 0, c.ping_write # 0, c.read_header # 0
    PROVE  Validate(WithPingInterval(c, i)) /\ WithPingInterval(c, i) \in Config
<1>. DEFINE w == WithPingInterval(c, i)
<1>1. /\ w.connect_total = c.connect_total /\ w.ping_write = c.ping_write
      /\ w.read_header = c.read_header
      /\ w.ping_interval = IF i >= c.read_header THEN Clamp(c.read_header) ELSE i
  BY DEF WithPingInterval, Config
<1>2. c.read_header \in Nat  BY DEF Config
<1>3. w.ping_interval \in Nat /\ w.ping_interval < w.read_header
  BY <1>1, <1>2, ClampBelow
<1>4. w \in Config
  BY <1>1, <1>3 DEF WithPingInterval, Config
<1>. QED  BY <1>1, <1>3, <1>4 DEF Validate

-----------------------------------------------------------------------------
(* The inductive invariant                                                 *)

\* Who is doing what fits what is under way.
Roles ==
    /\ by = "none" => link \in {"closed", "quiet", "cut"}
    /\ by = "call" => link \in {"toServer", "serving", "toClient", "cut"}
    /\ by = "ping" => link \in {"toServer", "toClient", "tail", "cut"} /\ task
    /\ task => link # "closed"
    /\ Timed => transit <= Limit

\* After an answer the server has waited as long as the answer is under way,
\* and the client counts from its arrival.
ServerClock ==
    /\ link = "toClient" => wait <= transit
    /\ link = "tail" => wait <= Delay + transit
    /\ IdleTracksServer

\* A connection that is dialed waits for one ping at most.  Its server's wait
\* is a delay at the dial, and grows with the way of the ping, that of the pong
\* and the wait for a tail, or until the end of the old stream is met.  A pong
\* on the old connection sets the client's clock when that is over, and no
\* other ping begins before connect has the lock.
DialClock ==
    dialed =>
        /\ by # "call"
        /\ (by = "ping" /\ idle < MaxIdle) => ahead <= idle + Delay
        /\ (by = "none" /\ idle < MaxIdle) => ahead <= idle + 3 * Delay + Tail
        /\ (by = "none" /\ task /\ nap = 0) => ahead <= Delay
        /\ (by = "ping" /\ link = "toServer") => ahead <= Delay + transit
        /\ (by = "ping" /\ link = "toClient") => ahead <= 2 * Delay + transit
        /\ (by = "ping" /\ link = "tail") => ahead <= 3 * Delay + transit
        /\ (by = "ping" /\ link = "cut") => ahead <= 3 * Delay + Tail + transit
        /\ ServerReadHeader > Delay + Tail =>
              /\ (by = "ping" /\ link = "cut") => ahead <= 2 * Delay + transit
              /\ by = "none" => ahead <= 3 * Delay + Tail

\* The settings in use, while all since connect are effective, and what the
\* task still sleeps under an earlier one.
Settings ==
    /\ cfg.ping_interval <= MaxIdle
    /\ fit => Effective(cfg)
    /\ (fit /\ Sleeping) => nap + 2 * Delay + Tail < ServerReadHeader

\* Whatever the task decides at its next check, a message will be at the
\* server in time.
InTime ==
    (task /\ fit) =>
        /\ link # "cut"
        /\ link = "quiet" => wait + nap + Delay < ServerReadHeader
        /\ link = "toServer" => wait + (Delay - transit) < ServerReadHeader

\* So will its pong.
Pong ==
    (AwaitsPong /\ fit) =>
        /\ link = "toServer" => patience + transit > 2 * Delay
        /\ link = "toClient" => patience + transit > Delay

Inv == TypeOK /\ Roles /\ ServerClock /\ DialClock /\ Settings /\ InTime /\ Pong

\* The clocks and the settings are numbers, the pause of the task too.
LEMMA InvTypes ==
    ASSUME Inv
    PROVE  /\ cfg.ping_interval \in Nat /\ cfg.read_header \in Nat /\ cfg.ping_write \in Nat
           /\ CheckInterval(cfg.ping_interval) \in Nat /\ CheckInterval(cfg.ping_interval) > 0
BY CheckIntervalNat DEF Inv, TypeOK, Config

\* Nothing is under way at first.
LEMMA InitInv == Init => Inv
<1>. SUFFICES ASSUME Init PROVE Inv  OBVIOUS
<1>0. task \in BOOLEAN /\ fit \in BOOLEAN /\ dialed \in BOOLEAN
  BY DEF Init
<1>1. TypeOK
  BY <1>0, Numbers, KeepAliveAssumption DEF Init, TypeOK, LinkAt
<1>2. Roles /\ ServerClock /\ DialClock /\ InTime /\ Pong
  BY DEF Init, DialClock, Roles, Timed, ServerClock, IdleTracksServer, InTime, Pong, AwaitsPong
<1>3. Settings
  BY KeepAliveAssumption DEF Init, Settings
<1>. QED  BY <1>1, <1>2, <1>3 DEF Inv

\* Time passes: what is awaited comes nearer as fast as its limit.
LEMMA TickInv == Inv /\ Tick => Inv'
<1>. SUFFICES ASSUME Inv, Tick PROVE Inv'  OBVIOUS
<1>. USE Numbers, InvTypes
<1>1. (Roles /\ ServerClock /\ Settings /\ InTime /\ Pong)'
  BY DEF Tick, Inv, TypeOK, LinkAt, Roles, Timed, Limit, ServerClock, IdleTracksServer,
         Settings, Effective, Sleeping, InTime, Pong, AwaitsPong, Reading
<1>2. DialClock'
  BY DEF Tick, InstallDue, Inv, TypeOK, LinkAt, Roles, Timed, Limit, DialClock
<1>3. dialed => by = "ping" /\ link \in {"toServer", "toClient", "tail", "cut"}
  BY DEF Tick, InstallDue, Inv, TypeOK, Roles, DialClock
<1>4. ahead' \in 0 .. 4 * Delay + Tail
  BY <1>3 DEF Tick, Inv, TypeOK, Roles, Timed, Limit, DialClock
<1>5. TypeOK'
  BY <1>4 DEF Tick, Inv, TypeOK, LinkAt, Validate, Roles, Timed, Limit, Sleeping, AwaitsPong, Reading
<1>. QED  BY <1>1, <1>2, <1>5 DEF Inv

\* Any way to lose the connection.
LEMMA CloseInv == Inv /\ Close => Inv'
<1>. SUFFICES ASSUME Inv, Close PROVE Inv'  OBVIOUS
<1>0. task' \in BOOLEAN /\ fit' \in BOOLEAN /\ dialed' \in BOOLEAN
  BY DEF Close, dial, Inv, TypeOK
<1>1. TypeOK'
  BY <1>0, Numbers DEF Close, dial, Inv, TypeOK, LinkAt, Validate
<1>2. (Roles /\ ServerClock /\ InTime /\ Pong)'
  BY DEF Close, Roles, Timed, ServerClock, IdleTracksServer, InTime, Pong, AwaitsPong
<1>3. Settings'
  BY DEF Close, Inv, Settings, Effective, Sleeping
<1>4. DialClock'
  BY Numbers DEF Close, dial, Inv, TypeOK, Roles, Timed, Limit, DialClock
<1>. QED  BY <1>1, <1>2, <1>3, <1>4 DEF Inv

\* A new connection, which only its own server's clock knows of, and the end
\* of one that is not waited for.
LEMMA DialInv == Inv /\ (Dial \/ AbandonDial) => Inv'
<1>. SUFFICES ASSUME Inv, Dial \/ AbandonDial PROVE Inv'  OBVIOUS
<1>. USE Numbers
<1>1. UNCHANGED <<cfg, task, nap, idle, fit, link, by, transit, patience, wait>>
  BY DEF Dial, AbandonDial
<1>2. /\ dialed' \in BOOLEAN /\ ahead' \in 0 .. Delay
      /\ dialed' => by # "call"
  <2>1. dialed' \in BOOLEAN  BY DEF Dial, AbandonDial
  <2>2. ahead' \in 0 .. Delay  BY DEF Dial, AbandonDial
  <2>3. dialed' => by # "call"  BY DEF Dial, AbandonDial
  <2>. QED  BY <2>1, <2>2, <2>3
<1>3. TypeOK'
  BY <1>1, <1>2 DEF Inv, TypeOK, LinkAt, Validate
<1>4. DialClock'
  BY <1>1, <1>2 DEF Inv, TypeOK, DialClock
<1>5. (Roles /\ ServerClock /\ Settings /\ InTime /\ Pong)'
  BY <1>1 DEF Inv, Roles, Timed, Limit, ServerClock, IdleTracksServer, Settings, Effective,
              Sleeping, InTime, Pong, AwaitsPong
<1>. QED  BY <1>3, <1>4, <1>5 DEF Inv

\* A new connection is in the slot.  Its server has waited for the lock too,
\* but not too long for the first check of the new task.
LEMMA InstallInv == Inv /\ Install => Inv'
<1>. SUFFICES ASSUME Inv, Install PROVE Inv'  OBVIOUS
<1>. USE Numbers, InvTypes
<1>0. /\ fit' = Effective(cfg) /\ cfg' = cfg /\ idle' = idle /\ by' = "none"
      /\ dialed' = FALSE /\ ahead' = 0 /\ transit' = 0 /\ patience' = 0
  BY DEF Install, Moves
<1>1. dialed /\ by = "none" /\ ahead \in Nat
  BY DEF Install, InstallDue, Inv, TypeOK, DialClock
<1>2. \/ link' = "quiet" /\ wait' = ahead /\ ahead <= ServerReadHeader
      \/ link' = "cut" /\ wait' = 0 /\ ahead >= ServerReadHeader
  BY DEF Install, Moves
<1>3. task' => nap' = CheckInterval(cfg.ping_interval) /\ cfg.ping_interval > 0
  BY DEF Install
<1>4. TypeOK'
  <2>1. Effective(cfg) \in BOOLEAN  BY DEF Effective
  <2>2. (cfg.ping_interval > 0) \in BOOLEAN  OBVIOUS
  <2>3. task' \in BOOLEAN /\ fit' \in BOOLEAN /\ dialed' \in BOOLEAN
    BY <1>0, <2>1, <2>2 DEF Install
  <2>4. nap' \in Nat  BY DEF Install
  <2>. QED  BY <1>0, <1>1, <1>2, <2>3, <2>4 DEF Inv, TypeOK, LinkAt, Validate
<1>5. (Roles /\ ServerClock /\ DialClock /\ Pong)'
  <2>1. (idle < MaxIdle) => ahead <= idle + 3 * Delay + Tail
    BY <1>1 DEF Inv, DialClock
  <2>. QED  BY <1>0, <1>1, <1>2, <1>4, <2>1 DEF TypeOK, Roles, Timed, ServerClock,
                 IdleTracksServer, DialClock, Pong, AwaitsPong
<1>6. Settings'
  <2>1. (fit => Effective(cfg))'  BY <1>0 DEF Effective
  <2>. QED  BY <1>0, <1>3, <2>1 DEF Inv, Settings, Effective, Sleeping
<1>7. InTime'
  <2>1. Effective(cfg) =>
            /\ CheckInterval(cfg.ping_interval) + 4 * Delay + Tail < ServerReadHeader
            /\ ServerReadHeader > 3 * Delay + Tail /\ ServerReadHeader > Delay + Tail
    BY DEF Effective
  <2>2. Effective(cfg) => ahead <= 3 * Delay + Tail
    BY <1>1, <2>1 DEF Inv, DialClock
  <2>3. Effective(cfg) => link' = "quiet" /\ wait' = ahead
    BY <1>1, <1>2, <2>1, <2>2
  <2>4. (Effective(cfg) /\ task') => wait' + nap' + Delay < ServerReadHeader
    BY <1>1, <1>3, <2>1, <2>2, <2>3
  <2>. QED  BY <1>0, <2>3, <2>4 DEF InTime
<1>. QED  BY <1>4, <1>5, <1>6, <1>7 DEF Inv

\* Settings change under a sleep that goes on.
LEMMA SetTimeoutConfigInv ==
    ASSUME Inv, NEW r \in Requests, SetTimeoutConfig(r)
    PROVE  Inv'
<1>. DEFINE w == WithPingInterval(r, r.ping_interval)
<1>1. r \in Config /\ r.ping_interval \in Nat /\ r.read_header \in Nat
      /\ r.ping_interval <= MaxIdle /\ r.read_header <= MaxIdle
  BY KeepAliveAssumption DEF Config
<1>2. Validate(w) /\ cfg' = w  BY DEF SetTimeoutConfig
<1>3. w.ping_interval = (IF r.ping_interval >= r.read_header THEN Clamp(r.read_header) ELSE r.ping_interval)
  BY <1>1 DEF WithPingInterval, Config
<1>4. w.ping_interval \in Nat /\ w.ping_interval <= MaxIdle
  BY <1>1, <1>3, ClampBelow, Numbers
<1>5. w \in Config
  BY <1>1, <1>4 DEF WithPingInterval, Config
<1>6. /\ cfg' \in Config /\ Validate(cfg)' /\ (cfg.ping_interval <= MaxIdle)'
      /\ fit' = (fit /\ Effective(cfg)') /\ fit \in BOOLEAN
  BY <1>2, <1>4, <1>5 DEF SetTimeoutConfig, Validate, Effective, Inv, TypeOK
<1>7. UNCHANGED <<task, nap, idle, link, by, transit, patience, wait, dialed, ahead>>
  BY DEF SetTimeoutConfig, dial
<1>. HIDE DEF w
<1>8. Effective(cfg)' \in BOOLEAN /\ fit' \in BOOLEAN /\ (fit' => fit /\ Effective(cfg)')
  BY <1>6 DEF Effective
<1>. QED
  BY <1>6, <1>7, <1>8, Numbers DEF Inv, TypeOK, LinkAt, Roles, Timed, Limit, ServerClock,
       DialClock, IdleTracksServer, Settings, Sleeping, InTime, Pong, AwaitsPong

\* The caller starts an exchange and ends it.
LEMMA CallInv == Inv /\ (StartCall \/ ReceiveReply) => Inv'
BY Numbers, InvTypes
   DEF StartCall, ReceiveReply, Moves, client, dial, Inv, TypeOK, LinkAt, Roles, Timed, Limit, ServerClock,
       DialClock, IdleTracksServer, Settings, Effective, Sleeping, InTime, Pong, AwaitsPong, Reading

\* A check that does not ping: not due, so that the server has not waited for
\* the interval either.
LEMMA CheckSkipsInv == Inv /\ CheckSkips => Inv'
BY Numbers, InvTypes
   DEF CheckSkips, dial, Inv, TypeOK, LinkAt, Roles, Timed, Limit, ServerClock,
       DialClock, IdleTracksServer, Settings, Effective, Sleeping, InTime, Pong, AwaitsPong, Reading

\* A check that does: the sleep is over, so there is time for the way.
LEMMA CheckPingsInv == Inv /\ CheckPings => Inv'
<1>. SUFFICES ASSUME Inv, CheckPings PROVE Inv'  OBVIOUS
<1>. USE Numbers, InvTypes
<1>1. TypeOK' /\ Roles'
  BY DEF CheckPings, Moves, client, Inv, TypeOK, LinkAt, Validate, Roles, Sleeping, Timed, Limit
<1>2. ServerClock'
  BY DEF CheckPings, Moves, ServerClock, IdleTracksServer
<1>3. InTime'
  <2>1. nap = 0 /\ task /\ link \in {"quiet", "cut"}
    BY DEF CheckPings, Sleeping, Inv, TypeOK, Roles
  <2>. QED  BY <2>1 DEF CheckPings, Moves, client, Inv, TypeOK, InTime
<1>4. Settings' /\ Pong'
  BY DEF CheckPings, Moves, client, Inv, Settings, Effective, Sleeping, Pong, AwaitsPong
<1>5. DialClock'
  BY DEF CheckPings, Moves, client, Sleeping, Inv, TypeOK, DialClock
<1>. QED  BY <1>1, <1>2, <1>3, <1>4, <1>5 DEF Inv

\* The pong, and the wait for more of it.
LEMMA PongInv == Inv /\ (ReceivePong \/ TailOver) => Inv'
BY Numbers, InvTypes
   DEF ReceivePong, TailOver, Moves, client, dial, Inv, TypeOK, LinkAt, Roles, Timed, Limit, ServerClock,
       DialClock, IdleTracksServer, Settings, Effective, Sleeping, InTime, Pong, AwaitsPong, Reading

\* The server takes a message, and answers.
LEMMA ServerInv == Inv /\ (Arrive \/ Reply) => Inv'
BY Numbers, InvTypes
   DEF Arrive, Reply, Moves, client, Inv, TypeOK, LinkAt, Roles, Timed, Limit, ServerClock,
       DialClock, IdleTracksServer, Settings, Effective, Sleeping, InTime, Pong, AwaitsPong, Reading

\* The server gives up, which effective settings exclude.
LEMMA ServerTimesOutInv == Inv /\ ServerTimesOut => Inv'
BY Numbers, InvTypes
   DEF ServerTimesOut, Reading, Moves, client, Inv, TypeOK, LinkAt, Roles, Timed, Limit, ServerClock,
       DialClock, IdleTracksServer, Settings, Effective, Sleeping, InTime, Pong, AwaitsPong, Reading

\* One step of anybody.
LEMMA NextInv == Inv /\ [Next]_vars => Inv'
<1>. SUFFICES ASSUME Inv, [Next]_vars PROVE Inv'  OBVIOUS
<1>1. CASE UNCHANGED vars
  BY <1>1 DEF vars, client, Inv, TypeOK, LinkAt, Roles, Timed, Limit, ServerClock,
       DialClock, IdleTracksServer, Settings, Effective, Sleeping, InTime, Pong, AwaitsPong, Reading
<1>2. CASE Disconnect \/ CallFails \/ PingTimesOut \/ NoticeCut
  BY <1>2, CloseInv DEF Disconnect, CallFails, PingTimesOut, NoticeCut
<1>3. CASE \E r \in Requests : SetTimeoutConfig(r)
  BY <1>3, SetTimeoutConfigInv
<1>. QED
  BY <1>1, <1>2, <1>3, TickInv, DialInv, InstallInv, CallInv, CheckSkipsInv, CheckPingsInv, PongInv,
     ServerInv, ServerTimesOutInv DEF Next, PingStep

\* The invariant of the proofs: roles, clocks, settings in use, and that there
\* is time for the next message and for its pong.
THEOREM InvHolds == Spec => []Inv
BY InitInv, NextInv, PTL DEF Spec

\* Settings stay valid, and the clocks within their bounds.
THEOREM TypeCorrect == Spec => []TypeOK
BY InvHolds, PTL DEF Inv

\* For every read_header of the server, every delay and all settings: if they
\* are effective, the server never times out on a connection with a ping task
\* (start_ping_task against read_command), also if connect had to wait for the
\* lock of the slot while a ping was under way on the connection before.
THEOREM EffectiveKeepsOpen == Spec => []KeptOpen
<1>1. Inv => KeptOpen  BY DEF Inv, InTime, KeptOpen
<1>. QED  BY <1>1, InvHolds, PTL

\* With effective settings the pong comes before receive_ping_response gives
\* up.
THEOREM PongsComeInTime == Spec => []PongInTime
<1>1. Inv => PongInTime
  BY Numbers DEF Inv, TypeOK, Roles, Timed, Limit, Pong, PongInTime, AwaitsPong
<1>. QED  BY <1>1, InvHolds, PTL

\* The server has waited no longer than the age of last_activity, three delays
\* and a tail, whatever the settings: also on a connection for which connect
\* had to wait for the lock of the slot.
THEOREM IdleTracks == Spec => []IdleTracksServer
<1>1. Inv => IdleTracksServer  BY DEF Inv, ServerClock
<1>. QED  BY <1>1, InvHolds, PTL
=============================================================================
