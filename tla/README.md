# wagonet in TLA+

wagonet is a Rust framework for binary request/response protocols over TCP and
TLS, on tokio. A client sends a command number and a payload; a server runs a
user-written `ProtocolCommandHandler` and sends back a status and a payload.
This directory holds a TLA+ model of the library, the TLC runs that check it on
small instances, and theorems about it that TLAPS proves for all instances.
Paths below are relative to the repository; `server.rs` means `src/server.rs`.

## 1. Inventory

| Component | State | Operations | Hard behaviours | What makes it correct |
|---|---|---|---|---|
| Wire codec (`request_header.rs`, `response_header.rs`, `protocol_structs.rs`) | none | encode, decode, encoded_len | 32-bit casts, two lengths of response header, the size limit | decoding undoes encoding; both sides compute the same lengths |
| Client exchange (`client_tl.rs`, `client_tls.rs`: `handle_message` and the `*_locked` functions) | the stream, the buffer | header, acknowledgement, data, response header, acknowledgement, data | a timeout or a broken write at any await, half a frame on the wire | one result per call; Ok means executed; the next exchange starts at a frame boundary |
| Server transport (`server_tl.rs`, `server_tls.rs`, `common.rs`, `transport.rs`) | the stream, the last header | read_command, receive_data, send_data | peer gone in mid-frame, oversized data, a ping in place of a command | a command is run as it was sent or not at all |
| Protocol and connection handler (`protocol_handler.rs`, `connection_handler.rs`) | the task's shutdown receiver | handle_next in a select! with the shutdown signal | handle_next dropped at any await; a failure of the failure report | the task ends when its client goes, or when told to |
| Server accept loop (`server.rs`) | permits, task handles, the watch channel | run, shutdown, shutdown_handle | permits on every path out of the loop, the signal while waiting for a permit, drain against late tasks | no permit is lost; nobody misses the signal; run returns; nobody is served after it |
| Client lifecycle (`client_tl.rs`, `client_tls.rs`) | stream slot, keep_alive, command_has_answer, timeouts | connect, disconnect, set_*, handle_message, Drop | retries, cancelled futures, a connection replaced under a ping, a shutdown without a timeout | a call starts on a clean connection and returns |
| Keep-alive ping (`ping.rs`) | in-flight lock, should_stop, task handle | start, stop, the task's loop | abort of a running task, two locks, an old task beside a new connection | one task the client can stop; its end does not stop the next one |
| Timeout configuration (`timeout_config.rs`) | durations | validate, with_ping_interval, set_timeout_config | a ping that comes too late for the server's read_header; settings that change under a running task | no valid settings are refused; it is known which ones keep an idle connection open |

Interactions. `Server::run` spawns a task per connection, which owns a permit, a
clone of the shutdown receiver and a `ServerTL` or `ServerTLS`. That task talks to
one client's stream only. At the other end the caller and the ping task share the
stream slot and the in-flight lock. The two ends share nothing but bytes.

Not modelled, and why: the text of errors and logs; TLS records, certificates and
domains (the platform's; a handshake succeeds, fails or stalls); buffer
reservation in `set_max_buffer_size` (one number, before traffic); the traits
`ToBytes` and `FromBytes` (no implementation in the library); a second `run` of the
same `Server`, which binds again and fails because the listener of the first is
still open; the configuration mutexes of `PingState`, which are held for a moment
and under which nobody waits; examples and tests. A `handle_message` future that is dropped
midway while its stream stays in the slot is an action of `Client` (`Cancel`, which marks the
connection as dirty and which `CleanOnOneThread` excepts) and none of `Connection`: what the next
call meets on such a stream is not modelled byte by byte.

## 2. Modules

| Module | Models | State and actions |
|---|---|---|
| `Wire` | the codec | pure operators on byte sequences: `ToBeBytes`, `EncodeRequestHeader`, `DecodeResponseHeader`, `ResponseEncodedLen`, `Fits` (max_buffer_size) |
| `Rpc` | what a connection promises (abstract) | `calls`, `log`, `results`; `Call`, `Execute`, `ReturnOk`, `ReturnErr` |
| `Connection` | both ends of one established connection and the bytes between | `cpc` and `spc` stand at the awaits of the client and of the server's task; `c2s` and `s2c` are the bytes under way; one action per read or write that succeeds, one each for failed writes and reads, end of stream, shutdown and a spurious signal |
| `Server` | `Server::run` and the life of its tasks | `pc` of run, `free` permits, `handles`, `conn` of each client, the watch channel with a version that `runSeen` and `seen` compare with |
| `Client` | the client object and its ping tasks | `at` of the caller's call, `stream` slot, the two locks as sets of holders, `should_stop`, `handle`, `aborted`, the place `task` of each ping task |
| `TimeoutConfig` | the settings | pure operators: `WithPingInterval` with its `Clamp`, `Validate`, `CheckInterval` (how often the ping task looks at the clock) |
| `KeepAlive` | time on a connection that is kept alive, both ends | `nap` of the ping task, `idle` since the last activity, `wait` of the server for a command, `patience` for a pong, `link` with the one message under way, `dialed` and `ahead` for a connection that waits for the slot's lock; `Tick`, the client's operations, the task's checks, the server's timeout |
| `MCConnection`, `MCServer`, `MCClient`, `MCKeepAlive` | - | values for the constants |
| `WireProofs`, `ConnectionProofs`, `FramingProofs`, `ServerProofs`, `ClientProofs`, `KeepAliveProofs` | - | theorems and proofs; each extends the module it is about, and `FramingProofs` extends `ConnectionProofs`, which extends `WireProofs` |

`Connection` extends `Wire` and instantiates `Rpc` as its abstract specification.
`Client` sees an exchange as one step that succeeds or fails, and `Server` sees a
session as a task that serves, because `Connection` shows what happens in between. `KeepAlive` extends
`TimeoutConfig` and adds the clock, which the others do without; it leaves the locks to
`Client` and the bytes to `Connection`.

How the code is read:

* A read takes exactly the bytes the code asks for, when they are there. A write
  appends its buffer, or fails after any prefix of it. A timeout may fire at any
  await, since bytes may be arbitrarily late; so a timeout needs no clock.
* `select!` in `ConnectionHandler::run` drops `handle_next` wherever it is. `Shutdown`
  then ends the task and may leave any prefix of a write; `SpuriousSignal` is the
  same with `false` in the channel: the loop goes on with a fresh `handle_next`.
* `peer` says which server is at the other end: the framework's (`send_data` with
  `Some`), a loop of one's own over `ServerTL` that answers with `None`, or an old server with
  a 5-byte pong. `ping.rs` supports the last, and `send_data` the second.
* In `Server` the drain joins handles one by one with a common deadline. As a task
  that is done stays done, this is a wait for a set of handles.
* `drainZero` in `Server` says whether drain_timeout is 0. Then it has elapsed before the
  first wait, and every task that is left is aborted at once.
* `parallel` in `Client` says which runtime the program has. On one thread no ping task
  runs between two statements without an await, and an aborted task never runs
  again. On several an aborted task that is running goes on to its next await that is not
  ready, and `try_lock` of the flag may fail: `Dies` may come at any later moment.
* `dirty` in `Client` marks a connection on which an answer is owed: a ping was sent
  and its pong not read, or an exchange was cut off.
* `KeepAlive` counts in units of time. `Tick` waits for what is due at once, so that a sleep
  or a timeout ends when it should; `Delay` bounds how late a message may be, the
  scheduling of both ends included. `connect` is two steps: `Dial`, with which the new server
  begins to count, and `Install`, for which it waits until a ping on the old connection has given
  the slot's lock back; connect_total may be over before (`AbandonDial`). `connect` does not touch last_activity, so `idle`
  survives it, and a pong on the old connection counts for the new one. A task goes on when the interval becomes 0. The server's read_header is
  a constant of its own: the client validates its interval against its own
  read_header and does not know the server's.
* `ClientTLS` and `ServerTLS` are the code of `ClientTL` and `ServerTL` over another
  stream type; the map names the lines of both.

## 3. Runs

| Run | Shows |
|---|---|
| `Connection` | Two calls and a ping with all failures, to the three kinds of server. The handler runs the calls in order, once at most and as sent (`ExecutedAsSent`); Ok means executed and returns this call's reply (`OkMeansExecuted`); statuses are the handler's (`StatusIsTheHandlers`); each call has one result (`OneResultPerCall`); the two ends never wait for each other (`NoStall`); nothing is left on the stream between exchanges (`InSync`); and all of it is an `Rpc` (`ImplementsRpc`) |
| `ConnectionLive` | Every call returns although no timeout need fire (`CallReturns`), and a task notices that its client has gone (`ServerNoticesClose`) |
| `Server` | Permits are conserved, `handles` has every live task, nobody is served after run has returned, nobody has consumed a `true` and gone on, run stops only when told and returns when told (`ShutdownReturns`); if sessions end, it comes back to its accept however often accept fails (`BacklogServed`) |
| `Client` | On one thread and on several: one ping task the client can stop (`OnePinger`), a kept connection has its ping task (`KeptAlive`), a caller who waits for answers does so again after a no-answer call (`AnswerMode`), calls return (`CallsReturn`) and a dropped client leaves no task (`DropEndsTasks`). On one thread also: exchanges on clean connections (`CleanOnOneThread`) and NotConnected only with keep-alive (`SlotIsTheCallers`) |
| `KeepAlive` | With settings that are `Effective` the server never gives up on a connection that has its ping task (`KeptOpen`) and no ping is given up while its pong may come (`PongInTime`). For all settings: the client's clock lags the server's by three delays and a tail at most (`IdleTracksServer`), and a connection the server has closed is found without a call (`CutIsNoticed`) |
| `DocSignals`, `DocFailure`, `DocUnlimited`, `DocDrainZero`, `DocPingInterval`, `DocStalledHandshake`, `DocStalePing` | violations: section 6 |

`Effective` is the answer to which settings keep an idle connection open:
ping_interval, the check interval (a quarter of it, at least 100 ms), four delays and the
10 ms of the wait for an old server's tail must together be less than the *server's*
read_header, and the client's own read_header must be more than two delays. Three of the delays
and the tail are what a new connection may lose in `connect`: the dial's own, and a ping on the
connection before, whose lock it waits for and whose pong then starts the interval; the fourth is
the way of the next ping. The bound is one unit from the best: with an interval of 7, a check interval
of 1, a delay and a tail of 1 TLC finds the server giving up for a read_header of 12, one less than the
sum, and not for 13.
The defaults are effective (30 s + 7.5 s against 60 s); the clamp of `with_ping_interval`
(59 s + 14.75 s) is not. On several threads the old task may in addition ping the new connection
before it is stopped, which is in `Client` (`DocStalePing`).

Bounds, and why they are enough:

* `MaxCalls = 2`, `MaxPings = 1`: an exchange can only disturb the next one through what
  it leaves on the stream or in the two ends' places, so two exchanges of which
  either may be a call or a ping show it. `Connection` uses payloads of 0, 1 and 3
  bytes with both limits at 2: empty, allowed and too large, with bytes that could
  pass for a status or an acknowledgement. Commands are 0, which is the ping's, and
  1. `ConnectionLive` has smaller payloads and one spurious signal.
* `Clients` of 3 with 2 permits: one waits while others hold, with one that may stall
  in its handshake and so a permit to spare. `MaxSends = 3`: true, false, true.
* `MaxConns = 3`: an old task, a new one, and one after it. `MaxOps = 3`, with keep-alive on
  or off at the start, is connect, an interruption and a call. `MaxTries` is 2 for
  10: what matters is that a try is or is not the last. `MaxCancels = 1`.
* `KeepAlive`: the server's read_header is 13 units, delay and tail are 1. Settings that are
  asked for have a read_header of nothing, too small to halve, halved, less than two
  delays and the server's, and intervals of nothing, effective, just not effective and
  clamped; two more are refused for another field. Ages count to `MaxIdle = 13`, beyond every
  interval in force. `DocPingInterval` has no delay and no tail at all, the clamped interval of 12 from the
  start and no change of settings, so that only the check interval, and a call between two
  checks, is left to blame.

There is no symmetry reduction: liveness is checked in the same runs.

Fairness, and what in the code justifies it:

* `Connection`: weak fairness of each side's progress. The runtime polls both tasks,
  bytes that were written arrive, and the command handler returns. No timeout is
  assumed to fire, so `CallReturns` does not rest on them.
* `Server`: weak fairness of run and the tasks. Strong fairness of `RunSignal`, because
  `select!` picks a ready branch at random and so does not pass over `changed()` for
  ever. Clients outside `Silent` finish their handshake. That sessions end is a hypothesis of
  `BacklogServed` and not of the other properties: a session may last for ever.
* `Client`: strong fairness of the caller's and the tasks' steps, because tokio's mutex
  is first come, first served and each step of the exchange has a timeout. Two
  waits for the network have none, and hold the slot's lock meanwhile: the write of a ping, and the
  shutdown of the stream in `disconnect` (`client_tl.rs:256`, `client_tls.rs:310`). That they end are the
  hypotheses of `CallsReturn`, and without them a peer that stops reading stalls the calls.
* `KeepAlive`: time passes (strong fairness of `Tick`, so that no sequence of dials and abandoned
  dials stops the clock), the runtime runs the ping task and a `connect` that has its lock,
  written bytes arrive.

Deadlock is checked in every run; `Finished` marks the states in which the system has
really stopped.

## 4. Proofs

Proved with TLAPS for every value of the constants the assumptions allow.

`WireProofs`. `RequestHeaderRoundTrip` and `ResponseHeaderRoundTrip`: decoding an encoded
header gives it back, for all 32-bit commands and sizes and in both forms of the
response header. The argument is the arithmetic of four base-256 digits
(`BeBytesRoundTrip`) and what `Take` and `Drop` do to a concatenation
(`TakeDropConcat`). `AnnouncedSizeWraps`: the size the server decodes is the payload's modulo
2^32, so it is right exactly below 4 GiB; no instance for TLC has such a payload.

`ServerProofs`. From `ServerAssumption` (finitely many clients, the rest of any value):
`TypeCorrect`, `PermitSafety`, `HandlesComplete`, `DrainSafety`, `ShutdownHeard`, and `StopsWhenTold` for
`max_connections # 0`. The inductive invariant is the conjunction of these with two
strengthenings: `ChannelOK`, no receiver is ahead of the channel's version (without it
a new send need not be news), and `HandlesAreTasks`, a handle is of an accepted
connection (without it the abort at the end of the drain could give a permit to a
client in the backlog). `PermitsConserved` counts tasks, so each action has a lemma that
says by how much it changes the cardinality of `Live`.

`ConnectionProofs`. From `ConnectionAssumption`: `TypeCorrect` and `ResultsBalanced`. Neither is
inductive alone: that the bytes a client writes are bytes needs that a call
exists while its exchange is under way, which is `OneResultPerCall`; and that needs the
types. The invariant is their conjunction, with one lemma per action.

`FramingProofs`. From the invariant of `ConnectionProofs`, `ConnectionAssumption` and one hypothesis,
`SizesAnnounced`: `CommandsAsSent`, `OkIsTheHandlers`, `RefusalIsTheHandlers`, `FrameBoundary`,
`TurnsAlwaysAgree`, and `ConnectionIsRpc`, the refinement of `Rpc`. So these hold for all commands,
payloads and replies that `SizesAnnounced` admits and all limits, for all three kinds of server and any
number of calls and pings. What a byte on a stream means depends on where both ends are, and none of
the six properties says what is on the streams, so none is inductive.
`FramingInv` says it:

* `Outbound` goes by the place of the server: where the client can be meanwhile, what of
  which frame is on `c2s`, and whether the handler has run the last call (`Ran`,
  `Unrun`). Frames overlap: the server may still wait for the acknowledgement of
  a reply while the header of the next call, or of a ping, is behind it.
* `Inbound` goes by the place of the client: `s2c` begins with the frame it
  waits for, or with bytes that it cannot take for an Ok (`Stale`), which is what an
  earlier exchange may leave there.
* `Counted`: the handler is one call behind at most, and not behind between calls. `Tidy`:
  when every call reads all of its answer nothing is left over.
* `History`: the properties about `log` and `results`, with `AllOk` (no call follows a failed one)
  and `Logged` (what a handler may answer).

It was checked by TLC on the instance of the run `Connection` before it was proved. The
proof has a lemma per action and stream, and uses of the codec only the round-trip
theorems and what `Take` and `Drop` do to a concatenation. Three facts were missing at
first and were found by steps that failed: before the client reads the
acknowledgement of its header, the reply header follows it immediately and whole; a
client that has gone while the server waits for an acknowledgement has left more than
that one byte only after a reply with status Ok; and no call is behind when a ping starts.

`SizesAnnounced` says that commands and sizes fit in 32 bits, and that the first size byte of a
reply is not 1. The second is needed: after a no-answer call to the
framework's server the size bytes are still on the stream, and the next call would take
a first byte of 1 (a reply of 16 MiB or more and less than 32; `send_data` has no limit) for its
acknowledgement. `MCConnection` assumes it, so TLC shows that its instances satisfy it.
After a `send(false)` the framing is lost, as `DocSignals` shows; the theorems are for
`signals = 0`, which the properties say themselves or the theorem adds. The refinement maps `calls`, `log` and
`results` to themselves; `HandleMessage` is `Call`, `RunHandler` is `Execute`, every return is `ReturnOk` or
`ReturnErr`, and all other steps are silent.

`ClientProofs`. From `ClientAssumption`, on one thread and on several, for any number of
connections, operations, tries and dropped futures: `TypeCorrect`, `PingsExcludeExchanges`,
`OnePingTask`, `CleanExchanges`, `ConnectedCallsHaveTheSlot`, `KeptConnectionsArePinged` and `ModeRestored`.
The invariant has these parts: `Locks`, each lock has one holder and the places say who
(`PingsExcludeExchanges` follows); `Calls`, a connection in hand where one is used;
`Handles`, with which the start of a task never overwrites another: a connection that is being installed
has no task yet; `OneThread`, `Owed` and `Pinged`, which carry `SlotIsTheCallers`, `CleanOnOneThread` and
`KeptAlive` through `connect`, where the slot holds the new connection while the old task is
being stopped; and `Modes`, which is about a caller who waits for answers: for one who had turned them
off the code turns them on (section 6), and `ModeRestored` says nothing. Two strengthenings were found by steps that failed: the tries are already
bounded when `connect` looks at the flag, and the connection in the slot is not the one
being installed.

`KeepAliveProofs`. `ClampIsValid`: the clamp makes every interval valid unless read_header is
0, wherever the two thresholds are. From `TimeoutConfigAssumption` and
`KeepAliveAssumption` (all durations naturals, the clamp's subtraction and the least check interval
not 0, the default valid): `TypeCorrect`,
`EffectiveKeepsOpen`, `PongsComeInTime` and `IdleTracks`, for every length of every
duration and all settings the caller may ask for. The invariant `Inv` adds to the
types: who may hold the in-flight lock in each place of `link` (`Roles`); how far the server's
clock is ahead of the client's in each of them (`ServerClock`), from which `IdleTracksServer`
follows; how long the server of a connection that is dialed has waited, by where the ping is for
whose lock `connect` waits (`DialClock`): one ping at most, since the next check is at least
MIN_PING_CHECK_INTERVAL away and the lock goes to `connect` first; that `fit` stands for the settings in force, and how long the task can still sleep
under earlier ones (`Settings`); that what the server has waited, what is left of the
sleep and a delay are together less than its read_header, and so for a message that is
under way (`InTime`); and that
the patience for a pong covers the delays still to come (`Pong`). `KeptOpen` alone is not
inductive: nothing in it says that the next check comes in time.

Model-checked only: the liveness properties (`CallReturns`, `ServerNoticesClose`, `ShutdownReturns`,
`BacklogServed`, `CallsReturn`, `DropEndsTasks`, `CutIsNoticed`), because they rest on fairness, which is
outside of what TLAPS handles here. Every invariant, action property and refinement that a passing run
checks has a theorem.

## 5. Plan

Done: `Wire`, `Rpc`, `Connection`, `Server`, `Client`, `TimeoutConfig`, `KeepAlive`, and the proofs
above. Next:

1. Action properties for `Connection`: `calls`, `log` and `results` only grow, and no step of a side reads
   bytes that are not there; as theorems of the refinement.
2. A weaker hypothesis in `FramingProofs`: which of its results survive a reply whose first size
   byte is 1.
3. The safety half of the liveness properties: for `CallReturns`, that in every state with a call under
   way one of the two sides can take a step (without `ENABLED`, as a disjunction of guards).
4. Composition of `Client` and `Connection`: which of the connections a client makes run which calls.

## 6. Where documentation and code differ

Each has a run in which TLC finds the counterexample:

| Run | The text | The code |
|---|---|---|
| `DocSignals` | `server.rs:201`: multiple sends through the handle are safe | a `send(false)` restarts `handle_next` in mid-exchange (`connection_handler.rs:89`), and what is left of the exchange is read as a header: in the trace the acknowledgement of a reply and seven bytes of the next header |
| `DocFailure` | `protocol_handler.rs:36`: after a transport failure the connection is unusable | the failure to send a failed handler's status is discarded (`protocol_handler.rs:59`) |
| `DocUnlimited` | `server.rs:157`: max_connections 0 is unlimited | there is no semaphore and the loop breaks at once (`server.rs:266`) |
| `DocDrainZero` | `server.rs:168`: drain_timeout 0 waits for ever | it has elapsed at the first look, and every task is aborted at once (`server.rs:328`) |
| `DocPingInterval` | `timeout_config.rs:45`: an interval must be less than read_header to be effective | the task looks at the clock every quarter of the interval (`ping.rs:207`): with 59 s of 60 s and a call between two looks, the server gives up first. In the trace: interval 12 of 13, a look every 3, and a call 1 after the first connect; the look at 11 comes too early, the next at 14 too late |
| `DocStalledHandshake` | `server.rs:198`: sending true makes run return | run waits for a permit without listening, and handshakes have no timeout (`server.rs:262`) |
| `DocStalePing` | `ping.rs:60`: the mutex prevents a ping from racing with requests | the old task, aborted while it runs, may ping the new connection and be dropped before the pong (`client_tl.rs:211`) |

Others, visible in the model's actions and without a run of their own:

* Oversized request: `client_tl.rs:379` expects a status; `RequestHeader::decode` fails first
  (`server_tl.rs:117`) and the connection closes.
* No-answer mode: `client_tl.rs:127` says that it does not wait for a response header; a 1-byte
  header is read (`client_tl.rs:412`).
* `lib.rs:83`: ConnectionClosed is a close at a frame boundary; it is also reported when
  the server goes between a reply's header and its data (`client_tl.rs:447`).
* `protocol_command_handler.rs:58` and `:62`: a Finish reply carries its payload, and after
  an Error the connection stays open; the client treats every status but Ok as an
  error, reads no payload and drops the stream (`client_tl.rs:428`).
* `ping.rs:297`: old servers are supported; their 4 further bytes are left on the stream
  when they come after 10 ms (`ping.rs:329`), and the next exchange meets them.
* `ping.rs:290`: the write timeout is the caller's; the caller has none.
* `client_tl.rs:468`: a missing connection is established; if a ping fails between the look at
  the slot and its lock the call returns NotConnected (`client_tl.rs:484`).
* `client_tl.rs:144`: without keep-alive each call opens a connection; after the last failed try
  an older stream in the slot is used (`client_tl.rs:235`).
* `ping.rs:42`: pings are disabled when `enabled` is false; a running task does not look at it.
* `docs/architecture.md:148`: keep-alive holds idle connections; enabled on an open connection
  it starts no ping (`client_tl.rs:475`).
* `client_tl.rs:525`: the original answer setting is restored; the guard sets it to true
  (`client_tl.rs:551`).
* `client_tl.rs:412`: in no-answer mode one byte of the response header is read; the size bytes
  that stay on the stream look like an acknowledgement to the next call when the reply has 16 to
  32 MiB (section 4, `SizesAnnounced`).
* `README.md:16`: one bounded retry; `handle_message` does not retry.
