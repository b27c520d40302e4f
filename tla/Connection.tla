----------------------------- MODULE Connection -----------------------------
(***************************************************************************)
(* One established connection, from the moment both ends hold a stream to  *)
(* the moment both have dropped it: ClientTL::handle_message and the ping  *)
(* of ping.rs at one end, ConnectionHandler::run, ProtocolHandler::        *)
(* handle_next and ServerTL at the other, and the bytes between them.      *)
(*                                                                         *)
(* A program counter stands at every await of a side.  A read waits for    *)
(* the number of bytes the code asks for and takes exactly those; a write  *)
(* puts its whole buffer on the stream, or fails after any prefix of it.   *)
(* A timeout may fire at any await, since a byte that was written may be   *)
(* arbitrarily late.                                                       *)
(***************************************************************************)
EXTENDS Wire, FiniteSets

CONSTANTS
    Command,        \* commands the caller uses; 0 is reserved but not refused
    Body,           \* request payloads
    Reply,          \* payloads the command handler may return
    Answers,        \* values of command_has_answer the caller uses
    Peers,          \* kinds of server: [none, old]
    ClientMax,      \* max_buffer_size of the client
    ServerMax,      \* max_buffer_size of the server
    MaxCalls,       \* bound on handle_message calls
    MaxPings,       \* bound on pings
    MaxSignals      \* bound on send(false) through the shutdown handle

ASSUME ConnectionAssumption ==
    /\ Command \subseteq Nat /\ Answers \subseteq BOOLEAN
    /\ Body \subseteq Seq(Byte) /\ Reply \subseteq Seq(Byte)
    /\ Peers \subseteq [none : BOOLEAN, old : BOOLEAN]
    /\ {ClientMax, ServerMax, MaxCalls, MaxPings, MaxSignals} \subseteq Nat

\* A command is a u32, and a size fits the four bytes that announce it.  The
\* first of the size bytes of a reply, which a no-answer call leaves on the
\* stream, is not a status Ok: no reply has 16 MiB or more but less than 32.
SizesAnnounced ==
    /\ \A c \in Command : U32(c)
    /\ \A b \in Body : U32(Len(b))
    /\ \A r \in Reply : U32(Len(r)) /\ HighByte(Len(r)) # StatusOk

VARIABLES
    peer,     \* the server's kind.  none: its own loop over ServerTL answers with
              \* send_data(status, None); ProtocolHandler always sends Some(_).
              \* old: it answers a ping with a 5-byte header
    cpc,      \* where the client is
    calls,    \* the handle_message calls made
    reply,    \* the response header the client decoded last
    results,  \* what the calls returned
    spc,      \* where the server's connection task is
    req,      \* the request header the server decoded last
    body,     \* the request payload the server received last
    resp,     \* what the handler returned; failed: it returned Err
    log,      \* history: what the handler ran
    c2s, s2c, \* bytes on their way
    pings,    \* pings sent
    signals,  \* send(false) calls made
    ignored   \* history: a failed send_response was ignored by handle_next

\* peer never changes: a step of either side leaves it alone with the other's.
clientVars == <<cpc, calls, reply, results, pings, peer>>
serverVars == <<spc, req, body, resp, log, signals, ignored, peer>>
vars == <<clientVars, serverVars, c2s, s2c>>

ClientAt == {"idle", "sendHeader", "readAck", "sendData", "readReply",
             "sendAck", "readData", "sendPing", "readPong", "pongTail", "closed"}
ServerAt == {"readCommand", "ackCommand", "pong", "refusePing", "receiveData",
             "run", "sendHeader", "readAck", "sendBody", "closed"}

Errors == {"none", "response", "overflow", "closed", "midFrame", "io", "timeout"}

Init ==
    /\ peer \in Peers
    /\ cpc = "idle" /\ spc = "readCommand"
    /\ calls = <<>> /\ results = <<>> /\ log = <<>>
    /\ reply = [status |-> 0, data_size |-> 0]
    /\ req = [command |-> 0, data_size |-> 0]
    /\ body = <<>>
    /\ resp = [status |-> 0, data |-> <<>>, failed |-> FALSE]
    /\ c2s = <<>> /\ s2c = <<>>
    /\ pings = 0 /\ signals = 0 /\ ignored = FALSE

-----------------------------------------------------------------------------
(* The client                                                              *)

Current == calls[Len(calls)]
InCall == Len(results) < Len(calls)

\* Mutant: the stream is kept after an error.
ReturnsKeepingStream(err, status, data) ==
    /\ results' = Append(results, [err |-> err, status |-> status, data |-> data])
    /\ cpc' = "idle"

\* Mutant: the client starts to reconnect after an error.
ReturnsReconnecting(err, status, data) ==
    /\ results' = Append(results, [err |-> err, status |-> status, data |-> data])
    /\ cpc' = IF err = "none" THEN "idle" ELSE "connecting"

\* handle_message returns; on an error it has dropped the stream.
Returns(err, status, data) ==
    /\ results' = Append(results, [err |-> err, status |-> status, data |-> data])
    /\ cpc' = IF err = "none" THEN "idle" ELSE "closed"

\* Mutant: a failed ping is reported as the failure of a call.
ExchangeFailsAlwaysReturns(err, status) ==
    /\ Returns(err, status, <<>>)
    /\ UNCHANGED <<calls, reply, pings>>

\* The exchange in progress fails: a call returns the error, a ping is only
\* logged; either way the stream is set to None.
ExchangeFails(err, status) ==
    /\ IF InCall THEN Returns(err, status, <<>>)
                 ELSE cpc' = "closed" /\ UNCHANGED results
    /\ UNCHANGED <<calls, reply, pings>>

\* What the client is writing.
ClientOut ==
    CASE cpc = "sendHeader" -> EncodeRequestHeader(Current.command, Len(Current.body))
      [] cpc = "sendData"   -> Current.body
      [] cpc = "sendAck"    -> EncodeResponseHeader(StatusOk, 0, TRUE)
      [] cpc = "sendPing"   -> EncodeRequestHeader(Ping, 0)
      [] OTHER              -> <<>>

\* How many bytes the client is waiting for.
ClientNeeds ==
    CASE cpc \in {"readAck", "readPong"} -> DefaultResponseHeaderSize
      [] cpc = "readReply" -> ResponseEncodedLen(FALSE, Current.answer)
      [] cpc = "readData"  -> reply.data_size
      [] cpc = "pongTail"  -> 4
      [] OTHER             -> 0

ClientReading == cpc \in {"readAck", "readReply", "readData", "readPong", "pongTail"}
ClientWriting == cpc \in {"sendHeader", "sendData", "sendAck", "sendPing"}

\* A write of the whole buffer succeeds, and the client goes on to `next`.
ClientSends(next) ==
    /\ c2s' = c2s \o ClientOut
    /\ cpc' = next
    /\ UNCHANGED <<s2c, serverVars>>

\* A read has its bytes.
ClientTakes ==
    /\ Len(s2c) >= ClientNeeds
    /\ s2c' = Drop(s2c, ClientNeeds)
    /\ UNCHANGED <<c2s, serverVars>>
Taken == Take(s2c, ClientNeeds)

\* handle_message on a live connection; the in-flight lock is held from here
\* to the return, so no ping starts meanwhile.
HandleMessage(c, b, a) ==
    /\ cpc = "idle" /\ Len(calls) < MaxCalls
    /\ calls' = Append(calls, [command |-> c, body |-> b, answer |-> a])
    /\ cpc' = "sendHeader"
    /\ UNCHANGED <<reply, results, pings, serverVars, c2s, s2c>>

SendRequestHeader ==
    /\ cpc = "sendHeader"
    /\ ClientSends("readAck")
    /\ UNCHANGED <<calls, reply, results, pings>>

\* The 1-byte acknowledgement of the request header.
ReceiveAck ==
    /\ cpc = "readAck" /\ ClientTakes
    /\ LET ack == DecodeResponseHeader(Taken, TRUE)
       IN IF ack.status = StatusOk
          THEN cpc' = "sendData" /\ UNCHANGED <<calls, reply, results, pings>>
          ELSE ExchangeFails("response", ack.status)

SendRequestData ==
    /\ cpc = "sendData"
    /\ ClientSends("readReply")
    /\ UNCHANGED <<calls, reply, results, pings>>

\* The response header: 5 bytes, or 1 in no-answer mode.
ReceiveReplyHeader ==
    /\ cpc = "readReply" /\ ClientTakes
    /\ LET header == DecodeResponseHeader(Taken, ~Current.answer)
       IN IF Fits(header, ClientMax)
          THEN /\ reply' = header /\ cpc' = "sendAck"
               /\ UNCHANGED <<calls, results, pings>>
          ELSE ExchangeFails("overflow", 0)

\* Mutant: the status is not looked at.
AckReplyAnyStatus ==
    /\ cpc = "sendAck"
    /\ c2s' = c2s \o ClientOut
    /\ IF reply.data_size = 0 THEN Returns("none", StatusOk, <<>>)
                              ELSE cpc' = "readData" /\ UNCHANGED results
    /\ UNCHANGED <<calls, reply, pings, s2c, serverVars>>

\* Mutant: the reply's data is never read.
AckReplySkipsData ==
    /\ cpc = "sendAck"
    /\ c2s' = c2s \o ClientOut
    /\ IF reply.status = StatusOk THEN Returns("none", StatusOk, <<>>)
                                  ELSE Returns("response", reply.status, <<>>)
    /\ UNCHANGED <<calls, reply, pings, s2c, serverVars>>

\* The client acknowledges before it looks at the status; then it refuses a
\* status other than Ok, returns an empty reply, or goes on to read the data.
AckReply ==
    /\ cpc = "sendAck"
    /\ c2s' = c2s \o ClientOut
    /\ CASE reply.status # StatusOk -> Returns("response", reply.status, <<>>)
         [] reply.status = StatusOk /\ reply.data_size = 0 -> Returns("none", StatusOk, <<>>)
         [] OTHER -> cpc' = "readData" /\ UNCHANGED results
    /\ UNCHANGED <<calls, reply, pings, s2c, serverVars>>

ReceiveReplyData ==
    /\ cpc = "readData" /\ ClientTakes
    /\ Returns("none", StatusOk, Taken)
    /\ UNCHANGED <<calls, reply, pings>>

\* The background task pings an idle connection.
SendPing ==
    /\ cpc = "sendPing"
    /\ ClientSends("readPong")
    /\ UNCHANGED <<calls, reply, results, pings>>

StartPing ==
    /\ cpc = "idle" /\ pings < MaxPings
    /\ cpc' = "sendPing" /\ pings' = pings + 1
    /\ UNCHANGED <<calls, reply, results, serverVars, c2s, s2c>>

ReceivePong ==
    /\ cpc = "readPong" /\ ClientTakes
    /\ IF Taken[1] = StatusOk
       THEN cpc' = "pongTail" /\ UNCHANGED <<calls, reply, results, pings>>
       ELSE ExchangeFails("response", Taken[1])

\* The read of an old server's 4 further bytes, for 10 ms.
ReceivePongTail ==
    /\ cpc = "pongTail" /\ ClientTakes
    /\ IF FromBeBytes(Taken) = 0
       THEN cpc' = "idle" /\ UNCHANGED <<calls, reply, results, pings>>
       ELSE ExchangeFails("io", 0)

\* When the 10 ms are over the response is taken to be a new server's; what
\* the abandoned read had already taken is lost.
PongTailTimeout ==
    /\ cpc = "pongTail"
    /\ \E k \in 0 .. 3 : k <= Len(s2c) /\ s2c' = Drop(s2c, k)
    /\ cpc' = "idle"
    /\ UNCHANGED <<calls, reply, results, pings, c2s, serverVars>>

\* A write times out or breaks after any part of the buffer.
ClientWriteFails ==
    /\ ClientWriting
    /\ \E k \in 0 .. Len(ClientOut), e \in {"io", "timeout"} :
           c2s' = c2s \o Take(ClientOut, k) /\ ExchangeFails(e, 0)
    /\ UNCHANGED <<s2c, serverVars>>

ClientReadFails ==
    /\ ClientReading /\ cpc # "pongTail"
    /\ \E e \in {"io", "timeout"} : ExchangeFails(e, 0)
    /\ UNCHANGED <<c2s, s2c, serverVars>>

\* The server has dropped the stream and what it sent is not enough.  The
\* reads of a header use read_exact (an I/O error), the read of the reply
\* data read_exact_or_closed.
ClientEof ==
    /\ ClientReading /\ spc = "closed" /\ Len(s2c) < ClientNeeds
    /\ ExchangeFails(CASE cpc = "readData" /\ s2c = <<>> -> "closed"
                       [] cpc = "readData" /\ s2c # <<>> -> "midFrame"
                       [] OTHER -> "io", 0)
    /\ UNCHANGED <<c2s, s2c, serverVars>>

\* disconnect(), set_keep_alive(false) or Drop, between two exchanges.
Disconnect ==
    /\ cpc = "idle" /\ cpc' = "closed"
    /\ UNCHANGED <<calls, reply, results, pings, serverVars, c2s, s2c>>

-----------------------------------------------------------------------------
(* The server's connection task                                            *)

\* Mutant: an empty payload is sent as None.
SendsNoneForEmpty == peer.none \/ resp.data = <<>>

\* send_data: None gives a 1-byte header and no payload.
SendsNone == peer.none

ServerOut ==
    CASE spc = "ackCommand" -> EncodeResponseHeader(StatusOk, 0, TRUE)
      [] spc = "pong"       -> EncodeResponseHeader(StatusOk, 0, ~peer.old)
      [] spc = "refusePing" -> EncodeResponseHeader(InvalidDataSize, 0, TRUE)
      [] spc = "sendHeader" -> EncodeResponseHeader(resp.status, Len(resp.data), SendsNone)
      [] spc = "sendBody"   -> IF SendsNone THEN <<>> ELSE resp.data
      [] OTHER              -> <<>>

ServerNeeds ==
    CASE spc = "readCommand" -> RequestHeaderSize
      [] spc = "receiveData" -> req.data_size
      [] spc = "readAck"     -> DefaultResponseHeaderSize
      [] OTHER               -> 0

ServerReading == spc \in {"readCommand", "receiveData", "readAck"}
ServerWriting == spc \in {"ackCommand", "pong", "refusePing", "sendHeader", "sendBody"}

ServerTakes ==
    /\ Len(c2s) >= ServerNeeds
    /\ c2s' = Drop(c2s, ServerNeeds)
    /\ UNCHANGED <<s2c, clientVars>>
Got == Take(c2s, ServerNeeds)

\* A transport failure.  handle_next returns it and the task ends, except
\* when it was sending the status of a failed handler: then it is ignored and
\* the task reads the next command.
TransportFails ==
    LET swallowed == resp.failed /\ spc \in {"sendHeader", "readAck", "sendBody"}
    IN /\ spc' = IF swallowed THEN "readCommand" ELSE "closed"
       /\ ignored' = (ignored \/ swallowed)
       /\ UNCHANGED <<req, body, resp, log, signals>>

\* Mutant: a ping is not recognised.
ReadCommandWithoutPing ==
    /\ spc = "readCommand" /\ ServerTakes
    /\ LET header == DecodeRequestHeader(Got)
       IN \/ /\ ~Fits(header, ServerMax)
             /\ TransportFails
          \/ /\ Fits(header, ServerMax)
             /\ req' = header /\ spc' = "ackCommand"
             /\ UNCHANGED <<body, resp, log, signals, ignored>>

\* read_command: decode refuses an oversized request, a ping is answered
\* here, any other request is acknowledged.
ReadCommand ==
    /\ spc = "readCommand" /\ ServerTakes
    /\ LET header == DecodeRequestHeader(Got)
       IN \/ /\ ~Fits(header, ServerMax)
             /\ TransportFails
          \/ /\ Fits(header, ServerMax)
             /\ req' = header
             /\ spc' = CASE header.command # Ping -> "ackCommand"
                         [] header.command = Ping /\ header.data_size = 0 -> "pong"
                         [] OTHER -> "refusePing"
             /\ UNCHANGED <<body, resp, log, signals, ignored>>

ReceiveRequestData ==
    /\ spc = "receiveData" /\ ServerTakes
    /\ body' = Got /\ spc' = "run"
    /\ UNCHANGED <<req, resp, log, signals, ignored>>

\* The command handler: a status and a payload, or an Err.
RunHandler ==
    /\ spc = "run"
    /\ \E r \in [status : {StatusOk, StatusFinish, StatusError}, data : Reply, failed : {FALSE}]
             \cup {[status |-> StatusError, data |-> <<>>, failed |-> TRUE]} :
           /\ resp' = r
           /\ log' = Append(log, [command |-> req.command, data |-> body,
                                  status |-> r.status, reply |-> r.data])
    /\ spc' = "sendHeader"
    /\ UNCHANGED <<req, body, signals, ignored, c2s, s2c, clientVars>>

\* A write of the whole buffer succeeds.
ServerSends ==
    /\ ServerWriting
    /\ s2c' = s2c \o ServerOut
    /\ spc' = CASE spc = "ackCommand" -> "receiveData"
                [] spc = "pong" -> "readCommand"
                [] spc = "refusePing" -> "closed"
                [] spc = "sendHeader" -> "readAck"
                [] OTHER -> IF resp.status = StatusFinish THEN "closed" ELSE "readCommand"
    /\ UNCHANGED <<req, body, resp, log, signals, ignored, c2s, clientVars>>

\* send_data waits for the client's acknowledgement before the payload.
ReceiveReplyAck ==
    /\ spc = "readAck" /\ ServerTakes
    /\ IF DecodeResponseHeader(Got, TRUE).status = StatusOk
       THEN spc' = "sendBody" /\ UNCHANGED <<req, body, resp, log, signals, ignored>>
       ELSE TransportFails

ServerWriteFails ==
    /\ ServerWriting
    /\ \E k \in 0 .. Len(ServerOut) : s2c' = s2c \o Take(ServerOut, k)
    /\ TransportFails
    /\ UNCHANGED <<c2s, clientVars>>

ServerReadFails ==
    /\ ServerReading
    /\ TransportFails
    /\ UNCHANGED <<c2s, s2c, clientVars>>

\* Mutant: the end of the stream is noticed at a frame boundary only.
ServerEofAtBoundary ==
    /\ ServerReading /\ cpc = "closed" /\ c2s = <<>> /\ ServerNeeds > 0
    /\ TransportFails
    /\ UNCHANGED <<c2s, s2c, clientVars>>

ServerEof ==
    /\ ServerReading /\ cpc = "closed" /\ Len(c2s) < ServerNeeds
    /\ TransportFails
    /\ UNCHANGED <<c2s, s2c, clientVars>>

\* Shutdown: select! drops handle_next wherever it is, a write half done
\* included, and the loop ends.  A drain timeout (abort) and a handler that
\* panics end the task the same way.
Shutdown ==
    /\ spc # "closed" /\ spc' = "closed"
    /\ \E k \in 0 .. Len(ServerOut) : s2c' = s2c \o Take(ServerOut, k)
    /\ UNCHANGED <<req, body, resp, log, signals, ignored, c2s, clientVars>>

\* send(false) through the shutdown handle: changed() fires, handle_next is
\* dropped with what it had read or written, and the loop starts it afresh.
SpuriousSignal ==
    /\ spc # "closed" /\ signals < MaxSignals
    /\ signals' = signals + 1
    /\ \E k \in 0 .. Len(ServerOut) : s2c' = s2c \o Take(ServerOut, k)
    /\ \E k \in 0 .. Len(c2s) :
           (k = 0 \/ k < ServerNeeds) /\ c2s' = Drop(c2s, k)
    /\ spc' = "readCommand"
    /\ UNCHANGED <<req, body, resp, log, ignored, clientVars>>

-----------------------------------------------------------------------------
\* What each side does when the network and the peer do their part.
ClientProgress ==
    \/ SendRequestHeader \/ ReceiveAck \/ SendRequestData \/ ReceiveReplyHeader
    \/ AckReply \/ ReceiveReplyData
    \/ SendPing \/ ReceivePong \/ ReceivePongTail \/ PongTailTimeout
    \/ ClientEof

ServerProgress ==
    \/ ReadCommand \/ ReceiveRequestData \/ RunHandler \/ ServerSends
    \/ ReceiveReplyAck \/ ServerEof

\* Timeouts and broken writes.
Failure == ClientWriteFails \/ ClientReadFails \/ ServerWriteFails \/ ServerReadFails

\* Both ends have dropped the stream: nothing is left to happen.
Finished ==
    /\ cpc = "closed" /\ spc = "closed"
    /\ UNCHANGED vars

Next ==
    \/ \E c \in Command, b \in Body, a \in Answers : HandleMessage(c, b, a)
    \/ StartPing \/ Disconnect
    \/ ClientProgress \/ ServerProgress
    \/ Failure \/ Shutdown \/ SpuriousSignal
    \/ Finished

Spec == Init /\ [][Next]_vars

\* Each side is a task the runtime keeps scheduling, bytes that were written
\* arrive, and the command handler returns.  Nothing says a timeout ever fires.
FairSpec == Spec /\ WF_vars(ClientProgress) /\ WF_vars(ServerProgress)
-----------------------------------------------------------------------------
TypeOK ==
    /\ peer \in Peers /\ cpc \in ClientAt /\ spc \in ServerAt
    /\ calls \in Seq([command : Command, body : Body, answer : Answers])
    /\ reply \in [status : Byte, data_size : Nat]
    /\ results \in Seq([err : Errors, status : Byte, data : Seq(Byte)])
    /\ req \in [command : Nat, data_size : Nat]
    /\ body \in Seq(Byte)
    /\ resp \in [status : Byte, data : Seq(Byte), failed : BOOLEAN]
    /\ log \in Seq([command : Nat, data : Seq(Byte), status : Byte, reply : Seq(Byte)])
    /\ c2s \in Seq(Byte) /\ s2c \in Seq(Byte)
    /\ pings \in Nat /\ signals \in Nat /\ ignored \in BOOLEAN

\* No answered call is made to a server that answers with None (the client
\* would wait for 4 bytes nobody sends), and no call uses the ping's command.
Compatible ==
    \A j \in DOMAIN calls :
        /\ peer.none => ~calls[j].answer
        /\ calls[j].command # Ping

CallStates == {"sendHeader", "readAck", "sendData", "readReply", "sendAck", "readData"}

\* A call is outstanding exactly while its exchange is under way: a call
\* returns once and not twice, also when the connection breaks, and a ping
\* that fails is not taken for a call that failed.
OneResultPerCall ==
    Len(calls) = Len(results) + (IF cpc \in CallStates THEN 1 ELSE 0)

\* The handler runs the calls in order, each at most once, and with the bytes
\* the caller passed: no header, acknowledgement or ping is ever taken for
\* data and no data for a header, whatever times out, breaks or is cut short.
ExecutedAsSent ==
    signals = 0 =>
        /\ Len(log) <= Len(calls)
        /\ \A j \in DOMAIN log : /\ log[j].command = calls[j].command
                                /\ log[j].data = calls[j].body

\* A call that returned Ok was run, with status Ok, and an answered one
\* returned the payload the handler gave for this call and not for another.
OkMeansExecuted ==
    \A j \in DOMAIN results :
        results[j].err = "none" =>
            /\ j \in DOMAIN log /\ log[j].status = StatusOk
            /\ (calls[j].answer /\ ~peer.none) => results[j].data = log[j].reply

\* A status reported to an answered call is the one the handler returned for
\* it, or the refusal of a ping with data.
StatusIsTheHandlers ==
    \A j \in DOMAIN results :
        (results[j].err = "response" /\ ~peer.old /\ \A i \in 1 .. j : calls[i].answer) =>
            \/ j \in DOMAIN log /\ results[j].status = log[j].status
            \/ calls[j].command = Ping /\ results[j].status = InvalidDataSize

\* Each side waits for bytes the other will not send before it gets some.
Stalled ==
    /\ ClientReading /\ cpc # "pongTail" /\ Len(s2c) < ClientNeeds
    /\ ServerReading /\ Len(c2s) < ServerNeeds

\* Client and server never wait for each other: both agree at every moment
\* about whose turn it is and how many bytes it takes.  (They do wait for
\* each other after a failure handle_next ignored, and when handle_next is
\* restarted; then only a timeout ends it.)
NoStall == (Compatible /\ ~ignored /\ signals = 0) => ~Stalled

\* Between exchanges nothing is left on the stream, so the next exchange
\* starts at a frame boundary; the rule that Some(&[]) still has a 5-byte
\* header is there for this.
InSync ==
    (/\ cpc = "idle" /\ spc = "readCommand"
     /\ signals = 0 /\ ~peer.old
     /\ \A j \in DOMAIN calls : calls[j].answer = ~peer.none)
    => c2s = <<>> /\ s2c = <<>>

\* The connection, bytes and pings and all, is a remote procedure call.
Promise == INSTANCE Rpc WITH Status <- {StatusOk, StatusFinish, StatusError}
ImplementsRpc == Promise!Spec

\* No call hangs, even if no timeout ever fires: the exchange itself, or the
\* end of the peer, returns it.  (After an ignored failure, or when
\* handle_next was restarted, it may.)
CallReturns ==
    \A n \in 1 .. MaxCalls :
        (Len(calls) = n /\ Compatible)
            ~> (Len(results) = n \/ ignored \/ signals > 0)

\* When the client has gone the connection's task ends, so that its permit is
\* released, whatever the client had sent of the exchange.
ServerNoticesClose == (cpc = "closed") ~> (spc = "closed")
-----------------------------------------------------------------------------
(* What the documentation and the comments say, and the code does not do.  *)

Executes(j) == log[j].command = calls[j].command /\ log[j].data = calls[j].body

\* server.rs on the shutdown handle: "multiple sends through this handle or
\* Self::shutdown are safe".  A send(false) restarts handle_next in the middle
\* of an exchange, and the handler may run a command that nobody sent.
SignalsAreSafe == \A j \in DOMAIN log : j \in DOMAIN calls /\ Executes(j)

\* protocol_handler.rs: "Err(e) on transport-level failures; the connection
\* is unusable".  The failure to send a failed handler's status is ignored.
TransportFailureEndsTask ==
    [][(ServerWriteFails \/ ServerReadFails \/ ServerEof) => spc' = "closed"]_vars
=============================================================================
