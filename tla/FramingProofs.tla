--------------------------- MODULE FramingProofs ---------------------------
(***************************************************************************)
(* Framing: on one connection the two sides always agree which bytes are   *)
(* header, payload, acknowledgement, reply and ping, for all limits and    *)
(* numbers of calls and pings, for the commands, payloads and replies that *)
(* SizesAnnounced admits (below 4 GiB, and no reply of 16 MiB to less than *)
(* 32), and wherever a write was cut short or a timeout fired.  From this  *)
(* follow what the handler runs, what a result says, that the sides never  *)
(* wait for each other, and that the connection is a remote procedure call *)
(* (Rpc).                                                                  *)
(*                                                                         *)
(* The streams carry no marks, so what a byte is depends on where both     *)
(* sides are.  The invariant says, for each place of the server, in which  *)
(* places the client can be meanwhile and what is then on each stream, and *)
(* whether the handler has run the last call.  After a send(false) nothing *)
(* of this holds (SignalsAreSafe fails), so it is claimed for signals = 0. *)
(***************************************************************************)
EXTENDS ConnectionProofs

-----------------------------------------------------------------------------
(* The framing invariant.                                                  *)

\* s is a beginning of t.
Starts(s, t) == Len(s) <= Len(t) /\ \A i \in 1 .. Len(s) : s[i] = t[i]

\* Bytes none of which can be taken for a status Ok.
Zeros(s) == \A i \in 1 .. Len(s) : s[i] = 0

\* Bytes of which a reader of an acknowledgement makes a refusal, if anything:
\* what an earlier exchange may have left on the stream.
Stale(s) == s = <<>> \/ s[1] # StatusOk

\* The frames of the exchange in progress.
Header == EncodeRequestHeader(Current.command, Len(Current.body))
PingHeader == EncodeRequestHeader(Ping, 0)
Ack == EncodeResponseHeader(StatusOk, 0, TRUE)
Last == log[Len(log)]
ReplyHeader == EncodeResponseHeader(Last.status, Len(Last.reply), peer.none)

\* The last call was run, is next to be run.
Ran == Len(log) = Len(calls)
Unrun == Len(calls) = Len(log) + 1

\* The client has had no byte of the exchange it is in, if any.
Waiting == {"idle", "sendHeader", "readAck", "sendPing", "readPong"}
Settled == IF cpc \in CallStates THEN Unrun ELSE Ran
Sent == CASE cpc = "readAck"  -> Header
          [] cpc = "readPong" -> PingHeader
          [] OTHER            -> <<>>

\* The client is past its request header and before the end of the call.
Asking == {"readAck", "sendData", "readReply", "sendAck"}

\* The acknowledgement, and what may follow it.
Accepted(s) ==
    /\ s # <<>> /\ s[1] = StatusOk
    /\ Ran => Starts(Drop(s, 1), ReplyHeader)
    /\ Unrun => Zeros(Drop(s, 1))

\* What is on its way to the client, by what the client is doing.
Inbound ==
    /\ cpc \in {"idle", "sendHeader", "sendPing"} => Stale(s2c)
    /\ cpc = "readAck" => Stale(s2c) \/ Accepted(s2c)
    /\ cpc \in {"sendData", "readReply"} =>
           /\ Ran => Starts(s2c, ReplyHeader)
           /\ Unrun => Zeros(s2c)
    /\ cpc = "sendAck" =>
           /\ Stale(s2c)
           /\ Ran => /\ reply.status = Last.status
                     /\ Current.answer => /\ ~peer.none /\ s2c = <<>>
                                          /\ reply.data_size = Len(Last.reply)
                     /\ ~Current.answer => /\ reply.data_size = 0
           /\ Unrun => reply.status # StatusOk
    /\ cpc = "readData" =>
           /\ Ran /\ Last.status = StatusOk /\ Current.answer /\ ~peer.none
           /\ reply.data_size = Len(Last.reply) /\ Last.reply # <<>>
           /\ Starts(s2c, Last.reply)
    /\ cpc = "readPong" => Stale(s2c) \/ (s2c[1] = StatusOk /\ Zeros(Drop(s2c, 1)))
    /\ cpc = "pongTail" => Zeros(s2c)

\* The call the server has begun is the last one made.
Begun ==
    /\ Unrun
    /\ req = [command |-> Current.command, data_size |-> Len(Current.body)]

\* The server is giving the answer it logged last.
Answering ==
    /\ Len(log) > 0
    /\ resp.status = Last.status /\ resp.data = Last.reply
    /\ resp.failed => Last.status = StatusError /\ Last.reply = <<>>

\* What a client that has gone may have left where a header is expected.
Rest(s) == Len(s) < RequestHeaderSize \/ (Unrun /\ s = Header) \/ s = PingHeader

\* The client has read nothing of the call, if anything came it is the
\* acknowledgement: all its payload is sent, being empty.
JustAcked == s2c # <<>> /\ (s2c[1] = StatusOk => s2c = Ack)

\* What is on its way to the server, by what the server is doing.
AtReadCommand ==
    \/ cpc \in Waiting /\ Settled /\ c2s = Sent /\ Stale(s2c)
    \/ cpc \in {"readPong", "pongTail"} /\ Ran /\ c2s = <<>> /\ (cpc = "readPong" => s2c # <<>>)
    \/ /\ cpc \in Asking /\ Unrun /\ c2s = <<>>
       /\ Current.command = Ping /\ Current.body = <<>>
    \/ /\ cpc \in Asking /\ Ran /\ c2s = <<>>
       /\ Last.status = StatusError /\ ignored
       /\ cpc \in {"readAck", "sendData"} => Current.body = <<>>
    \/ cpc = "readData" /\ Ran /\ c2s = <<>> /\ s2c = Last.reply
    \/ cpc = "closed" /\ Rest(c2s)
AtAck ==
    /\ c2s = <<>>
    /\ \/ cpc \in {"readAck", "closed"} /\ Begun
       \/ spc = "pong" /\ cpc = "readPong" /\ Ran
       \/ spc = "pong" /\ cpc = "closed"
    /\ cpc # "closed" => Stale(s2c)
    /\ spc = "pong" <=> (req.command = Ping /\ req.data_size = 0)
    /\ spc = "ackCommand" <=> req.command # Ping
AtReceiveData ==
    /\ Begun
    /\ \/ cpc = "readAck" /\ c2s = <<>> /\ JustAcked
       \/ cpc = "sendData" /\ c2s = <<>> /\ s2c = <<>>
       \/ cpc = "readReply" /\ c2s = Current.body /\ s2c = <<>>
       \/ cpc = "closed" /\ Starts(c2s, Current.body)
Working ==
    /\ c2s = <<>>
    /\ \/ cpc = "readAck" /\ Current.body = <<>> /\ JustAcked
       \/ cpc = "sendData" /\ Current.body = <<>> /\ s2c = <<>>
       \/ cpc = "readReply" /\ s2c = <<>>
       \/ cpc = "closed"
AtRun == Begun /\ body = Current.body /\ Working
AtSendHeader == Ran /\ Answering /\ Working
AtReadAck ==
    /\ Answering
    /\ \/ /\ cpc \in Asking /\ Ran /\ c2s = <<>>
          /\ cpc \in {"readAck", "sendData"} => Current.body = <<>>
          /\ cpc \in {"sendData", "readReply"} => s2c = ReplyHeader
          /\ cpc = "readAck" => s2c # <<>> /\ (s2c[1] = StatusOk => s2c = Ack \o ReplyHeader)
          /\ cpc = "sendAck" /\ ~Current.answer /\ ~peer.none => s2c # <<>>
       \/ cpc = "readData" /\ c2s = Ack /\ s2c = <<>>
       \/ /\ cpc \in Waiting /\ Settled /\ c2s = Ack \o Sent /\ Stale(s2c)
          /\ Last.status = StatusOk
          /\ s2c # <<>> \/ peer.none \/ Last.reply = <<>>
       \/ /\ cpc = "closed"
          /\ \/ c2s = <<>> \/ c2s = Ack
             \/ /\ Last.status = StatusOk /\ c2s # <<>>
                /\ c2s[1] = StatusOk /\ Rest(Drop(c2s, 1))
AtSendBody ==
    /\ Answering
    /\ \/ cpc = "readData" /\ c2s = <<>> /\ s2c = <<>>
       \/ /\ cpc \in Waiting /\ Settled /\ c2s = Sent /\ Stale(s2c)
          /\ Last.status = StatusOk
          /\ s2c # <<>> \/ peer.none \/ Last.reply = <<>>
       \/ cpc = "closed" /\ Rest(c2s)
Outbound ==
    /\ spc = "readCommand" => AtReadCommand
    /\ spc \in {"ackCommand", "refusePing", "pong"} => AtAck
    /\ spc = "receiveData" => AtReceiveData
    /\ spc = "run" => AtRun
    /\ spc = "sendHeader" => AtSendHeader
    /\ spc = "readAck" => AtReadAck
    /\ spc = "sendBody" => AtSendBody

\* The handler is at most one call behind, and not behind between calls.
Counted ==
    /\ cpc \in CallStates => Ran \/ Unrun
    /\ cpc \notin CallStates /\ cpc # "closed" => Ran
    /\ Len(log) <= Len(calls)

\* No call leaves a byte for the next.
Matched == ~peer.old /\ \A i \in DOMAIN calls : calls[i].answer \/ peer.none
Tidy ==
    Matched =>
    /\ cpc \in {"idle", "sendHeader", "sendPing", "pongTail", "sendAck"} => s2c = <<>>
    /\ cpc = "readPong" => s2c = <<>> \/ s2c = Ack
    /\ cpc = "readAck" => \/ s2c = <<>>
                          \/ s2c[1] = StatusOk /\ (Unrun => s2c = Ack)
                          \/ /\ s2c = <<InvalidDataSize>> /\ Current.command = Ping
                             /\ spc = "closed"
    /\ cpc \in {"sendData", "readReply"} /\ Unrun => s2c = <<>>
    /\ cpc = "sendAck" => Ran

Streams == Inbound /\ Outbound /\ Counted /\ Tidy

\* Only the last call of a connection fails.
AllOk == cpc # "closed" => \A j \in DOMAIN results : results[j].err = "none"

\* What the handler may answer.
Logged ==
    \A j \in DOMAIN log : /\ log[j].status \in {StatusOk, StatusFinish, StatusError}
                          /\ log[j].reply \in Reply \cup {<<>>}

History == AllOk /\ Logged /\ ExecutedAsSent /\ OkMeansExecuted /\ StatusIsTheHandlers

FramingInv == Inv /\ (signals = 0 => Streams /\ History)
-----------------------------------------------------------------------------
(* Streams: what is left of one when bytes are put on it or taken from it. *)

LEMMA EmptyStream ==
    /\ <<>> \in Seq(Byte) /\ Len(<<>>) = 0
    /\ Stale(<<>>) /\ Zeros(<<>>)
    /\ \A t \in Seq(Byte) : Starts(<<>>, t) /\ <<>> \o t = t /\ t \o <<>> = t
    /\ \A s \in Seq(Byte) : Len(s) = 0 <=> s = <<>>
<1>1. <<>> \in Seq(Byte) /\ Len(<<>>) = 0  BY EmptySeq
<1>2. \A s \in Seq(Byte) : Len(s) = 0 <=> s = <<>>  BY EmptySeq
<1>3. \A t \in Seq(Byte) : <<>> \o t = t /\ t \o <<>> = t  BY ConcatEmptySeq
<1>4. \A t \in Seq(Byte) : Starts(<<>>, t)  BY <1>1 DEF Starts
<1> QED  BY <1>1, <1>2, <1>3, <1>4 DEF Stale, Zeros

\* Bytes put on a stream do not change the ones before them.
LEMMA Concat ==
    ASSUME NEW s \in Seq(Byte), NEW t \in Seq(Byte)
    PROVE  /\ s \o t \in Seq(Byte) /\ Len(s \o t) = Len(s) + Len(t)
           /\ \A i \in 1 .. Len(s) : (s \o t)[i] = s[i]
           /\ s # <<>> => s \o t # <<>> /\ (s \o t)[1] = s[1]
           /\ Stale(s) /\ (s # <<>> \/ Stale(t)) => Stale(s \o t)
<1>1. /\ s \o t \in Seq(Byte) /\ Len(s \o t) = Len(s) + Len(t)
      /\ \A i \in 1 .. Len(s) + Len(t) : (s \o t)[i] = IF i <= Len(s) THEN s[i] ELSE t[i - Len(s)]
  BY ConcatProperties
<1>2. Len(s) \in Nat /\ Len(t) \in Nat  OBVIOUS
<1>3. \A i \in 1 .. Len(s) : (s \o t)[i] = s[i]  BY <1>1, <1>2
<1>4. s # <<>> => s \o t # <<>> /\ (s \o t)[1] = s[1]
  <2>1. s # <<>> => Len(s) > 0  BY <1>2, EmptyStream
  <2> QED  BY <1>1, <1>2, <1>3, <2>1, EmptyStream
<1>5. s = <<>> => s \o t = t  BY EmptyStream
<1> QED  BY <1>1, <1>3, <1>4, <1>5 DEF Stale

LEMMA ConcatTwice ==
    ASSUME NEW s \in Seq(Byte), NEW t \in Seq(Byte), NEW u \in Seq(Byte)
    PROVE  (s \o t) \o u = s \o (t \o u)
BY ConcatAssociative

\* The whole of a stream, and nothing of it.
LEMMA TakeAll ==
    ASSUME NEW s \in Seq(Byte)
    PROVE  /\ Take(s, Len(s)) = s /\ Drop(s, Len(s)) = <<>>
           /\ Take(s, 0) = <<>> /\ Drop(s, 0) = s
<1>1. Take(s \o <<>>, Len(s)) = s /\ Drop(s \o <<>>, Len(s)) = <<>>
  BY EmptyStream, TakeDropConcat
<1>2. Take(<<>> \o s, Len(<<>>)) = <<>> /\ Drop(<<>> \o s, Len(<<>>)) = s
  BY EmptyStream, TakeDropConcat
<1> QED  BY <1>1, <1>2, EmptyStream

\* A write that is cut short has sent a beginning.
LEMMA TakeStarts ==
    ASSUME NEW t \in Seq(Byte), NEW k \in 0 .. Len(t)
    PROVE  Take(t, k) \in Seq(Byte) /\ Len(Take(t, k)) = k /\ Starts(Take(t, k), t)
<1>1. k \in Nat /\ k <= Len(t)  OBVIOUS
<1> QED  BY <1>1, TakeDropType DEF Starts

LEMMA StartsWhole ==
    ASSUME NEW s \in Seq(Byte), NEW t \in Seq(Byte), Starts(s, t), Len(s) >= Len(t)
    PROVE  s = t
<1>1. Len(s) = Len(t) /\ \A i \in 1 .. Len(s) : s[i] = t[i]  BY DEF Starts
<1> QED  BY <1>1, SeqEqual

LEMMA StartsItself == ASSUME NEW t \in Seq(Byte) PROVE Starts(t, t)
BY DEF Starts

LEMMA ZerosLemma ==
    ASSUME NEW s \in Seq(Byte), Zeros(s)
    PROVE  /\ Stale(s) /\ (s # <<>> => s[1] = 0)
           /\ \A k \in 0 .. Len(s) : Zeros(Drop(s, k)) /\ Drop(s, k) \in Seq(Byte)
<1>1. Len(s) \in Nat /\ (s # <<>> => Len(s) > 0)  BY EmptyStream
<1>2. s # <<>> => s[1] = 0  BY <1>1 DEF Zeros
<1>3. Stale(s)  BY <1>2 DEF Stale, StatusOk
<1>4. ASSUME NEW k \in 0 .. Len(s) PROVE Zeros(Drop(s, k)) /\ Drop(s, k) \in Seq(Byte)
  <2>1. k \in Nat /\ k <= Len(s)  BY <1>1
  <2>2. /\ Drop(s, k) \in Seq(Byte) /\ Len(Drop(s, k)) = Len(s) - k
        /\ \A i \in 1 .. Len(s) - k : Drop(s, k)[i] = s[k + i]
    BY <2>1, TakeDropType
  <2> QED  BY <1>1, <2>1, <2>2 DEF Zeros
<1> QED  BY <1>2, <1>3, <1>4

\* The beginning of a frame with the frame's first byte taken off.
LEMMA StartsTail ==
    ASSUME NEW x \in Byte, NEW b \in Seq(Byte), NEW s \in Seq(Byte), s # <<>>
    PROVE  /\ Drop(s, 1) \in Seq(Byte) /\ Take(s, 1) \in Seq(Byte)
           /\ Len(Take(s, 1)) = 1 /\ Take(s, 1)[1] = s[1] /\ Len(s) >= 1
           /\ Starts(s, <<x>> \o b) => s[1] = x /\ Starts(Drop(s, 1), b)
<1>1. Len(s) \in Nat /\ Len(s) > 0 /\ 1 \in Nat /\ 1 <= Len(s)  BY EmptyStream
<1>2. /\ Drop(s, 1) \in Seq(Byte) /\ Len(Drop(s, 1)) = Len(s) - 1
      /\ \A i \in 1 .. Len(s) - 1 : Drop(s, 1)[i] = s[1 + i]
      /\ Take(s, 1) \in Seq(Byte) /\ Len(Take(s, 1)) = 1
      /\ \A i \in 1 .. 1 : Take(s, 1)[i] = s[i]
  BY <1>1, TakeDropType
<1>a. Take(s, 1)[1] = s[1]  BY <1>2
<1>3. ASSUME Starts(s, <<x>> \o b) PROVE s[1] = x /\ Starts(Drop(s, 1), b)
  <2> DEFINE t == <<x>> \o b
  <2>1. <<x>> \in Seq(Byte) /\ Len(<<x>>) = 1 /\ <<x>>[1] = x /\ Len(b) \in Nat  OBVIOUS
  <2>2. /\ Len(t) = 1 + Len(b)
        /\ \A i \in 1 .. 1 + Len(b) : t[i] = IF i <= 1 THEN <<x>>[i] ELSE b[i - 1]
    BY <2>1, ConcatProperties
  <2>3. Len(s) <= Len(t) /\ \A i \in 1 .. Len(s) : s[i] = t[i]  BY <1>3 DEF Starts
  <2> HIDE DEF t
  <2>4. s[1] = x  BY <1>1, <2>1, <2>2, <2>3
  <2>5. ASSUME NEW i \in 1 .. Len(s) - 1 PROVE Drop(s, 1)[i] = b[i]
    <3>1. 1 + i \in 1 .. Len(s) /\ 1 + i \in 1 .. 1 + Len(b) /\ ~(1 + i <= 1) /\ (1 + i) - 1 = i
      BY <1>1, <2>1, <2>2, <2>3
    <3> QED  BY <1>2, <2>2, <2>3, <3>1
  <2>6. Len(Drop(s, 1)) <= Len(b)  BY <1>1, <1>2, <2>1, <2>2, <2>3
  <2> QED  BY <1>2, <2>4, <2>5, <2>6 DEF Starts
<1> QED  BY <1>1, <1>2, <1>a, <1>3

\* The acknowledgement is one byte.
LEMMA AckByte ==
    /\ Ack = <<StatusOk>> /\ Ack \in Seq(Byte) /\ Len(Ack) = 1 /\ Ack[1] = StatusOk
    /\ Ack # <<>> /\ Drop(Ack, 1) = <<>>
<1>1. Ack = <<StatusOk>>  BY DEF Ack, EncodeResponseHeader
<1>2. Ack \in Seq(Byte) /\ Len(Ack) = 1 /\ Ack[1] = StatusOk
  BY <1>1, StatusBytes
<1>3. Ack # <<>>  BY <1>1
<1>4. Drop(Ack, 1) = <<>>  BY <1>2, TakeAll
<1> QED  BY <1>1, <1>2, <1>3, <1>4

LEMMA AckPart == ASSUME NEW k \in 0 .. Len(Ack) PROVE Take(Ack, k) = <<>> \/ Take(Ack, k) = Ack
<1>1. k = 0 \/ k = Len(Ack)  BY AckByte
<1> QED  BY <1>1, AckByte, TakeAll

\* An acknowledgement before other bytes.
LEMMA AckConcat ==
    ASSUME NEW t \in Seq(Byte)
    PROVE  /\ Drop(Ack \o t, 1) = t /\ (Ack \o t)[1] = StatusOk
           /\ Len(Ack \o t) = 1 + Len(t) /\ Ack \o t \in Seq(Byte) /\ Ack \o t # <<>>
<1>1. Ack \in Seq(Byte) /\ Len(Ack) = 1 /\ Ack[1] = StatusOk /\ Ack # <<>>  BY AckByte
<1>2. Drop(Ack \o t, Len(Ack)) = t  BY <1>1, TakeDropConcat
<1>3. /\ Ack \o t \in Seq(Byte) /\ Len(Ack \o t) = Len(Ack) + Len(t)
      /\ Ack \o t # <<>> /\ (Ack \o t)[1] = Ack[1]
  BY <1>1, Concat
<1> QED  BY <1>1, <1>2, <1>3
-----------------------------------------------------------------------------
(* The frames, and what the variables hold.                                *)

LEMMA Types ==
    ASSUME Inv
    PROVE  /\ c2s \in Seq(Byte) /\ s2c \in Seq(Byte)
           /\ Len(calls) \in Nat /\ Len(log) \in Nat /\ Len(results) \in Nat
           /\ peer.none \in BOOLEAN /\ peer.old \in BOOLEAN
           /\ cpc \in ClientAt /\ spc \in ServerAt
<1>1. Len(calls) \in Nat /\ Len(log) \in Nat /\ Len(results) \in Nat
  BY LenProperties DEF Inv, TypeOK
<1> QED  BY <1>1, ConnectionAssumption DEF Inv, TypeOK

\* The call that was made last, also when the client has gone.
LEMMA LastCall ==
    ASSUME Inv, Len(calls) > 0, SizesAnnounced
    PROVE  /\ Current \in [command : Command, body : Body, answer : Answers]
           /\ Current.body \in Seq(Byte) /\ Len(Current.body) \in Nat
           /\ Current.answer \in BOOLEAN
           /\ Header \in Seq(Byte) /\ Len(Header) = RequestHeaderSize
           /\ DecodeRequestHeader(Header)
                = [command |-> Current.command, data_size |-> Len(Current.body)]
<1>1. Len(calls) \in 1 .. Len(calls)  BY Types
<1>2. calls \in Seq([command : Command, body : Body, answer : Answers])  BY DEF Inv, TypeOK
<1>3. Current \in [command : Command, body : Body, answer : Answers]
  BY <1>1, <1>2, ElementOfSeq DEF Current
<1>4. Current.body \in Seq(Byte) /\ Current.answer \in BOOLEAN
  BY <1>3, ConnectionAssumption
<1>5. Len(Current.body) \in Nat  BY <1>4, LenProperties
<1>6. U32(Current.command) /\ U32(Len(Current.body))  BY <1>3 DEF SizesAnnounced
<1> QED  BY <1>3, <1>4, <1>5, <1>6, RequestHeaderRoundTrip DEF Header

LEMMA PingFrame ==
    /\ PingHeader \in Seq(Byte) /\ Len(PingHeader) = RequestHeaderSize
    /\ DecodeRequestHeader(PingHeader) = [command |-> Ping, data_size |-> 0]
<1>1. U32(Ping) /\ U32(0)  BY SMT DEF U32, Ping
<1> QED  BY <1>1, RequestHeaderRoundTrip DEF PingHeader

\* A whole request header is what read_command takes, and nothing is left.
LEMMA ReadsHeader ==
    ASSUME NEW h \in Seq(Byte), Len(h) = RequestHeaderSize
    PROVE  Take(h, RequestHeaderSize) = h /\ Drop(h, RequestHeaderSize) = <<>>
BY TakeAll

\* The answer that was logged last.
LEMMA LastAnswer ==
    ASSUME Inv, Logged, Len(log) > 0, SizesAnnounced
    PROVE  /\ Last.status \in Byte /\ Last.reply \in Seq(Byte)
           /\ Last.status \in {StatusOk, StatusFinish, StatusError}
           /\ U32(Len(Last.reply)) /\ Len(Last.reply) \in Nat
           /\ HighByte(Len(Last.reply)) # StatusOk
<1>1. Len(log) \in 1 .. Len(log)  BY Types
<1>2. log \in Seq([command : Nat, data : Seq(Byte), status : Byte, reply : Seq(Byte)])
  BY DEF Inv, TypeOK
<1>3. Last \in [command : Nat, data : Seq(Byte), status : Byte, reply : Seq(Byte)]
  BY <1>1, <1>2, ElementOfSeq DEF Last
<1>4. DOMAIN log = 1 .. Len(log)  BY <1>2, LenProperties
<1>5. /\ Last.status \in {StatusOk, StatusFinish, StatusError}
      /\ Last.reply \in Reply \cup {<<>>}
  BY <1>1, <1>4 DEF Logged, Last
<1>6. U32(0) /\ HighByte(0) # StatusOk  BY SMT DEF U32, HighByte, StatusOk
<1> DEFINE Announced(r) == U32(Len(r)) /\ HighByte(Len(r)) # StatusOk
<1>7. Announced(Last.reply)
  <2>1. \A r \in Reply : Announced(r)  BY DEF SizesAnnounced
  <2>2. Announced(<<>>)  BY <1>6, EmptyStream
  <2> HIDE DEF Announced
  <2>3. Last.reply \in Reply \/ Last.reply = <<>>  BY <1>5
  <2> QED  BY <2>1, <2>2, <2>3
<1> QED  BY <1>3, <1>5, <1>7, LenProperties

\* A reply header that is sent whole is the one that is received; of one that
\* is read in no-answer mode the bytes that are left are not an Ok.
LEMMA ReplyFrame ==
    ASSUME Inv, Logged, Len(log) > 0, SizesAnnounced
    PROVE  /\ ReplyHeader \in Seq(Byte)
           /\ peer.none => Len(ReplyHeader) = 1
           /\ ~peer.none => /\ Len(ReplyHeader) = 5
                            /\ DecodeResponseHeader(ReplyHeader, FALSE)
                                 = [status |-> Last.status, data_size |-> Len(Last.reply)]
           /\ ReplyHeader # <<>>
           /\ \A s \in Seq(Byte) :
                  s # <<>> /\ Starts(s, ReplyHeader) =>
                      s[1] = Last.status /\ Stale(Drop(s, 1)) /\ (peer.none => Drop(s, 1) = <<>>)
<1> DEFINE size == Len(Last.reply)
           b == ToBeBytes(size)
<1> HIDE DEF b
<1>1. /\ Last.status \in Byte /\ U32(size) /\ size \in Nat /\ HighByte(size) # StatusOk
      /\ peer.none \in BOOLEAN
  BY LastAnswer, Types
<1>2. /\ ReplyHeader \in Seq(Byte) /\ Len(ReplyHeader) = ResponseEncodedLen(peer.none, TRUE)
      /\ DecodeResponseHeader(ReplyHeader, peer.none)
           = [status |-> Last.status, data_size |-> IF peer.none THEN 0 ELSE size]
  BY <1>1, ResponseHeaderRoundTrip DEF ReplyHeader
<1>3. /\ peer.none => Len(ReplyHeader) = 1
      /\ ~peer.none => Len(ReplyHeader) = 5
  BY <1>2 DEF ResponseEncodedLen, DefaultResponseHeaderSize, ResponseHeaderFullSize
<1>4. ~peer.none => DecodeResponseHeader(ReplyHeader, FALSE)
                      = [status |-> Last.status, data_size |-> size]
  <2> SUFFICES ASSUME ~peer.none
               PROVE  DecodeResponseHeader(ReplyHeader, FALSE)
                        = [status |-> Last.status, data_size |-> size]
    OBVIOUS
  <2>1. peer.none = FALSE  BY <1>1
  <2> QED  BY <1>2, <2>1
<1>5. ReplyHeader # <<>>
  <2>1. Len(ReplyHeader) = 1 \/ Len(ReplyHeader) = 5  BY <1>1, <1>3
  <2> QED  BY <2>1, EmptyStream
<1>6. b \in Seq(Byte) /\ Len(b) = 4 /\ b[1] # StatusOk
  <2> HIDE DEF size
  <2> USE DEF b
  <2>1. b \in Seq(Byte) /\ Len(b) = 4 /\ b[1] = (size \div 16777216) % 256
    BY <1>1, ToBeBytesElements, SMT
  <2>2. (size \div 16777216) % 256 = size \div 16777216
    <3>1. size \div 16777216 < 256 /\ size \div 16777216 \in Nat  BY <1>1, SMT DEF U32
    <3> QED  BY <3>1, SMT
  <2>3. b[1] = HighByte(size)
    <3> HIDE DEF b
    <3> QED  BY <2>1, <2>2, SMT DEF HighByte
  <2> QED  BY <1>1, <2>1, <2>3, SMT
<1> HIDE DEF b
<1>7. ASSUME NEW s \in Seq(Byte), s # <<>>, Starts(s, ReplyHeader)
      PROVE  s[1] = Last.status /\ Stale(Drop(s, 1)) /\ (peer.none => Drop(s, 1) = <<>>)
  <2>1. CASE peer.none
    <3> DEFINE tail == <<>>
    <3>1. ReplyHeader = <<Last.status>> \o tail /\ tail \in Seq(Byte)
      BY <1>1, <2>1, EmptyStream DEF ReplyHeader, EncodeResponseHeader
    <3>2. /\ s[1] = Last.status /\ Starts(Drop(s, 1), tail) /\ Drop(s, 1) \in Seq(Byte)
      <4> HIDE DEF tail
      <4>1. Starts(s, <<Last.status>> \o tail)  BY <1>7, <3>1
      <4> QED  BY <1>1, <1>7, <3>1, <4>1, StartsTail
    <3>3. Drop(s, 1) = <<>>
      <4>1. Len(Drop(s, 1)) >= Len(<<>>)  BY <3>2, EmptyStream
      <4> QED  BY <3>2, <4>1, EmptyStream, StartsWhole
    <3> QED  BY <3>2, <3>3, EmptyStream
  <2>2. CASE ~peer.none
    <3>1. ReplyHeader = <<Last.status>> \o b
      BY <2>2 DEF ReplyHeader, EncodeResponseHeader, b
    <3>2. s[1] = Last.status /\ Starts(Drop(s, 1), b) /\ Drop(s, 1) \in Seq(Byte)
      BY <1>1, <1>6, <1>7, <3>1, StartsTail
    <3>3. Stale(Drop(s, 1))
      <4>1. CASE Drop(s, 1) = <<>>  BY <4>1, EmptyStream
      <4>2. CASE Drop(s, 1) # <<>>
        <5>1. Len(Drop(s, 1)) \in Nat /\ Len(Drop(s, 1)) > 0  BY <3>2, <4>2, EmptyStream
        <5>2. Drop(s, 1)[1] = b[1]  BY <3>2, <5>1 DEF Starts
        <5> QED  BY <1>6, <5>2 DEF Stale
      <4> QED  BY <4>1, <4>2
    <3> QED  BY <2>2, <3>2, <3>3
  <2> QED  BY <1>1, <2>1, <2>2
<1> QED  BY <1>2, <1>3, <1>4, <1>5, <1>7

\* What depends on the calls and the log only.
LEMMA SameCalls ==
    ASSUME UNCHANGED <<calls, log, peer>>
    PROVE  /\ Current' = Current /\ Header' = Header /\ PingHeader' = PingHeader /\ Ack' = Ack
           /\ Last' = Last /\ ReplyHeader' = ReplyHeader
           /\ Ran' <=> Ran
           /\ Unrun' <=> Unrun
           /\ Matched' <=> Matched
BY DEF Current, Header, PingHeader, Ack, Last, ReplyHeader, Ran, Unrun, Matched
-----------------------------------------------------------------------------
(* The client's steps.                                                     *)

\* The client drops the stream, perhaps in the middle of a write: the server
\* finds a beginning of a frame, or the frame, where it expects one.
LEMMA ClientGone ==
    ASSUME SizesAnnounced, Inv, Streams, UNCHANGED <<calls, log, peer>>,
           UNCHANGED <<spc, req, body, resp, ignored>>, cpc' = "closed",
           NEW k \in 0 .. Len(ClientOut), c2s' = c2s \o Take(ClientOut, k)
    PROVE  Streams'
<1> USE DEF Waiting, Asking, CallStates, Settled, Sent, RequestHeaderSize
<1> DEFINE x == Take(ClientOut, k)
<1>1. /\ Current' = Current /\ Header' = Header /\ PingHeader' = PingHeader /\ Ack' = Ack
      /\ Last' = Last
      /\ Unrun' <=> Unrun
      /\ Ran' <=> Ran
  BY SameCalls
<1>2. /\ c2s \in Seq(Byte) /\ Len(calls) \in Nat /\ Len(log) \in Nat /\ cpc \in ClientAt
      /\ <<>> \o x = x /\ c2s \o <<>> = c2s
  <2>1. x \in Seq(Byte)  BY ClientOutType, TakeStarts
  <2> QED  BY <2>1, Types, EmptyStream
<1>3. x \in Seq(Byte) /\ Len(x) = k /\ Len(x) \in Nat /\ Starts(x, ClientOut) /\ ClientOut \in Seq(Byte)
  BY ClientOutType, TakeStarts
<1>4. Inbound' /\ Counted' /\ Tidy'
  BY DEF Inbound, Counted, Tidy, Streams, Ran, Unrun
<1>5. Outbound /\ Counted  BY DEF Streams
<1> HIDE DEF x
<1>6. c2s' = c2s \o x  BY DEF x
<1>7. Len(calls) > 0 => /\ Current.body \in Seq(Byte) /\ Starts(<<>>, Current.body)
                        /\ Starts(Current.body, Current.body)
                        /\ Header \in Seq(Byte) /\ Len(Header) = 8
  BY LastCall, EmptyStream, StartsItself
<1>8. PingHeader \in Seq(Byte) /\ Len(PingHeader) = 8 /\ Len(<<>>) = 0  BY PingFrame, EmptySeq
<1>9. cpc \in CallStates \/ Unrun => Len(calls) > 0
  BY <1>2, CurrentType DEF Unrun
\* What the client was writing, and a reader may find of it.
<1>10. /\ cpc \notin {"sendHeader", "sendData", "sendAck", "sendPing"} => c2s' = c2s
       /\ cpc = "sendHeader" => Len(x) < 8 \/ x = Header
       /\ cpc = "sendPing" => Len(x) < 8 \/ x = PingHeader
       /\ cpc = "sendData" => Starts(x, Current.body) /\ (Current.body = <<>> => x = <<>>)
       /\ cpc = "sendAck" => x = <<>> \/ x = Ack
  <2>1. CASE cpc \notin {"sendHeader", "sendData", "sendAck", "sendPing"}
    <3>1. ClientOut = <<>>  BY <2>1 DEF ClientOut
    <3>2. x = <<>>  BY <1>3, <3>1, EmptyStream
    <3> QED  BY <1>2, <1>6, <2>1, <3>2
  <2>2. CASE cpc = "sendHeader"
    <3>1. ClientOut = Header  BY <2>2 DEF ClientOut, Header
    <3>2. Len(x) >= 8 => x = Header  BY <1>3, <1>7, <1>9, <2>2, <3>1, StartsWhole
    <3> QED  BY <1>3, <2>2, <3>2
  <2>3. CASE cpc = "sendPing"
    <3>1. ClientOut = PingHeader  BY <2>3 DEF ClientOut, PingHeader
    <3>2. Len(x) >= 8 => x = PingHeader  BY <1>3, <1>8, <3>1, StartsWhole
    <3> QED  BY <1>3, <2>3, <3>2
  <2>4. CASE cpc = "sendData"
    <3>1. ClientOut = Current.body  BY <2>4 DEF ClientOut
    <3>2. Current.body = <<>> => x = <<>>
      BY <1>3, <3>1, EmptyStream
    <3> QED  BY <1>3, <2>4, <3>1, <3>2
  <2>5. CASE cpc = "sendAck"
    <3>1. ClientOut = Ack  BY <2>5 DEF ClientOut, Ack
    <3> QED  BY <2>5, <3>1, AckPart DEF x
  <2> QED  BY <2>1, <2>2, <2>3, <2>4, <2>5
<1>a. ASSUME cpc \in Waiting, Settled
      PROVE  Sent \o x \in Seq(Byte) /\ Sent \in Seq(Byte) /\ Rest(Sent \o x)
  <2>1. CASE cpc \in {"idle", "sendHeader", "sendPing"}
    <3>1. Sent = <<>>  BY <2>1
    <3>2. Len(x) < 8 \/ (Unrun /\ x = Header) \/ x = PingHeader
      <4>1. CASE cpc = "idle"
        <5>1. ClientOut = <<>>  BY <4>1 DEF ClientOut
        <5> QED  BY <1>3, <1>8, <5>1
      <4>2. CASE cpc = "sendHeader"  BY <1>a, <1>10, <4>2
      <4>3. CASE cpc = "sendPing"  BY <1>10, <4>3
      <4> QED  BY <2>1, <4>1, <4>2, <4>3
    <3>3. Sent \o x = x  BY <1>3, <3>1, EmptyStream
    <3> QED  BY <1>3, <3>1, <3>2, <3>3, EmptyStream DEF Rest
  <2>2. CASE cpc \in {"readAck", "readPong"}
    <3>1. ClientOut = <<>>  BY <2>2 DEF ClientOut
    <3>2. x = <<>>  BY <1>3, <3>1, EmptyStream
    <3>3. Sent \in Seq(Byte) /\ ((Unrun /\ Sent = Header) \/ Sent = PingHeader)
      BY <1>7, <1>8, <1>9, <1>a, <2>2
    <3>4. Sent \o x = Sent  BY <3>2, <3>3, EmptyStream
    <3> QED  BY <3>3, <3>4 DEF Rest
  <2> QED  BY <1>a, <2>1, <2>2
<1>11. spc = "readCommand" => AtReadCommand'
  <2> SUFFICES ASSUME spc = "readCommand" PROVE Rest(c2s)'
    BY DEF AtReadCommand
  <2>1. CASE cpc \in Waiting /\ Settled /\ c2s = Sent
    BY <1>1, <1>6, <1>a, <2>1 DEF Rest
  <2>2. CASE cpc = "closed" /\ Rest(c2s)
    BY <1>1, <1>10, <2>2 DEF Rest
  <2>3. CASE c2s = <<>> /\ cpc \in {"readPong", "pongTail", "readData"}
    BY <1>8, <1>10, <2>3 DEF Rest
  <2>4. CASE c2s = <<>> /\ cpc \in Asking /\ (cpc \in {"readAck", "sendData"} => Current.body = <<>>)
    <3>1. c2s' = <<>> \/ c2s' = Ack  BY <1>2, <1>6, <1>10, <2>4
    <3>2. Len(Ack) < 8  BY AckByte
    <3> QED  BY <1>8, <3>1, <3>2 DEF Rest
  <2> QED  BY <1>5, <2>1, <2>2, <2>3, <2>4 DEF Outbound, AtReadCommand
<1>12. spc \in {"ackCommand", "refusePing", "pong"} => AtAck'
  BY <1>1, <1>2, <1>5, <1>6, <1>10 DEF Outbound, AtAck, Begun
<1>13. spc = "receiveData" => AtReceiveData'
  BY <1>1, <1>2, <1>5, <1>6, <1>7, <1>9, <1>10 DEF Outbound, AtReceiveData, Begun
<1>14. spc = "run" => AtRun'
  BY <1>1, <1>2, <1>5, <1>6, <1>10 DEF Outbound, AtRun, Working, Begun
<1>15. spc = "sendHeader" => AtSendHeader'
  BY <1>1, <1>2, <1>5, <1>6, <1>10 DEF Outbound, AtSendHeader, Working, Answering
<1>16. spc = "readAck" => AtReadAck'
  <2> SUFFICES ASSUME spc = "readAck"
               PROVE  \/ c2s' = <<>> \/ c2s' = Ack
                      \/ Last.status = StatusOk /\ c2s' # <<>> /\ c2s'[1] = StatusOk /\ Rest(Drop(c2s, 1))'
    BY <1>1, <1>5 DEF Outbound, AtReadAck, Answering
  <2>1. CASE cpc \in Waiting /\ Settled /\ c2s = Ack \o Sent /\ Last.status = StatusOk
    <3>1. c2s' = Ack \o (Sent \o x)
      <4>1. Ack \in Seq(Byte) /\ Sent \in Seq(Byte)  BY <1>a, <2>1, AckByte
      <4> HIDE DEF Sent
      <4>2. (Ack \o Sent) \o x = Ack \o (Sent \o x)  BY <1>3, <4>1, ConcatTwice
      <4> QED  BY <1>6, <2>1, <4>2
    <3>2. Drop(c2s', 1) = Sent \o x /\ c2s'[1] = StatusOk /\ c2s' # <<>>
      <4>1. Sent \o x \in Seq(Byte)  BY <1>a, <2>1
      <4> HIDE DEF Sent
      <4> QED  BY <3>1, <4>1, AckConcat
    <3> QED  BY <1>1, <1>a, <2>1, <3>2 DEF Rest
  <2>2. CASE cpc = "closed"
    BY <1>1, <1>5, <1>10, <2>2 DEF Outbound, AtReadAck, Rest
  <2>3. CASE cpc = "readData" /\ c2s = Ack  BY <1>10, <2>3
  <2>4. CASE c2s = <<>> /\ cpc \in Asking /\ (cpc \in {"readAck", "sendData"} => Current.body = <<>>)
    BY <1>2, <1>6, <1>10, <2>4
  <2> QED  BY <1>5, <2>1, <2>2, <2>3, <2>4 DEF Outbound, AtReadAck
<1>17. spc = "sendBody" => AtSendBody'
  <2> SUFFICES ASSUME spc = "sendBody" PROVE Rest(c2s)'
    BY <1>1, <1>5 DEF Outbound, AtSendBody, Answering
  <2>1. CASE cpc \in Waiting /\ Settled /\ c2s = Sent  BY <1>1, <1>6, <1>a, <2>1 DEF Rest
  <2>2. CASE cpc = "closed" /\ Rest(c2s)  BY <1>1, <1>10, <2>2 DEF Rest
  <2>3. CASE c2s = <<>> /\ cpc = "readData"  BY <1>8, <1>10, <2>3 DEF Rest
  <2> QED  BY <1>5, <2>1, <2>2, <2>3 DEF Outbound, AtSendBody
<1> QED  BY <1>4, <1>11, <1>12, <1>13, <1>14, <1>15, <1>16, <1>17 DEF Streams, Outbound

LEMMA StartPingFrames == ASSUME Inv, Streams, StartPing PROVE Streams'
<1> USE DEF Waiting, Asking, CallStates, Settled, Sent
<1>1. /\ cpc = "idle" /\ cpc' = "sendPing" /\ UNCHANGED <<calls, log, peer, c2s, s2c>>
      /\ UNCHANGED <<spc, req, body, resp, ignored>>
  BY DEF StartPing, serverVars
<1>2. /\ Current' = Current /\ Last' = Last /\ ReplyHeader' = ReplyHeader
      /\ Ran' <=> Ran
      /\ Unrun' <=> Unrun
      /\ Matched' <=> Matched
  BY <1>1, SameCalls
<1>3. Inbound'  BY <1>1 DEF Inbound, Streams
<1>4. Counted' /\ Tidy'  BY <1>1, <1>2 DEF Counted, Tidy, Streams
<1>5. Outbound'
  BY <1>1, <1>2 DEF Streams, Outbound, AtReadCommand, AtAck, AtReceiveData, AtRun, AtSendHeader,
     Working, AtReadAck, AtSendBody, Answering
<1> QED  BY <1>3, <1>4, <1>5 DEF Streams

\* A call begins: what an earlier one left on the stream stays there.
LEMMA HandleMessageFrames ==
    ASSUME Inv, Streams, NEW c \in Command, NEW b \in Body, NEW a \in Answers,
           HandleMessage(c, b, a)
    PROVE  Streams'
<1> USE DEF Waiting, Asking, CallStates, Settled, Sent
<1>1. /\ cpc = "idle" /\ cpc' = "sendHeader" /\ UNCHANGED <<log, peer, c2s, s2c>>
      /\ UNCHANGED <<spc, req, body, resp, ignored>>
      /\ calls' = Append(calls, [command |-> c, body |-> b, answer |-> a])
  BY DEF HandleMessage, serverVars
<1>2. Len(calls') = Len(calls) + 1 /\ Len(calls) \in Nat /\ Len(log) \in Nat
      /\ \A i \in 1 .. Len(calls) : calls'[i] = calls[i]
      /\ DOMAIN calls = 1 .. Len(calls) /\ DOMAIN calls' = 1 .. Len(calls) + 1
  <2> DEFINE C == [command : Command, body : Body, answer : Answers]
  <2>1. calls \in Seq(C) /\ [command |-> c, body |-> b, answer |-> a] \in C  BY DEF Inv, TypeOK
  <2> HIDE DEF C
  <2> QED  BY <1>1, <2>1, Types, AppendProperties, LenProperties
<1>3. Ran /\ Unrun' /\ ~Ran'  BY <1>1, <1>2 DEF Streams, Counted, Ran, Unrun
<1>4. Last' = Last  BY <1>1 DEF Last
<1>5. Matched' => Matched  BY <1>1, <1>2 DEF Matched
<1>6. Inbound'  BY <1>1 DEF Inbound, Streams
<1>7. Counted' /\ Tidy'  BY <1>1, <1>2, <1>3, <1>5 DEF Counted, Tidy, Streams
<1>8. Outbound'
  BY <1>1, <1>3, <1>4 DEF Streams, Outbound, AtReadCommand, AtAck, AtReceiveData, AtRun,
     AtSendHeader, Working, AtReadAck, AtSendBody, Answering
<1> QED  BY <1>6, <1>7, <1>8 DEF Streams

\* A request header, of a call or a ping, is put on an empty stream or
\* behind the acknowledgement the server has yet to read.
LEMMA SendHeaderFrames ==
    ASSUME SizesAnnounced, Inv, Streams, SendRequestHeader \/ SendPing
    PROVE  Streams'
<1> USE DEF Waiting, Asking, CallStates, Settled
<1>1. /\ \/ cpc = "sendHeader" /\ cpc' = "readAck" /\ c2s' = c2s \o Header
         \/ cpc = "sendPing" /\ cpc' = "readPong" /\ c2s' = c2s \o PingHeader
      /\ UNCHANGED <<calls, log, peer, s2c, spc, req, body, resp, ignored>>
  BY DEF SendRequestHeader, SendPing, ClientSends, ClientOut, Header, PingHeader, serverVars
<1>2. /\ Current' = Current /\ Header' = Header /\ PingHeader' = PingHeader /\ Ack' = Ack
      /\ Last' = Last /\ ReplyHeader' = ReplyHeader
      /\ Ran' <=> Ran
      /\ Unrun' <=> Unrun
      /\ Matched' <=> Matched
  BY <1>1, SameCalls
<1>3. /\ Sent' \in Seq(Byte) /\ c2s' = c2s \o Sent' /\ Sent = <<>>
  <2>1. cpc = "sendHeader" => Len(calls) > 0  BY CurrentType
  <2>2. PingHeader \in Seq(Byte) /\ (cpc = "sendHeader" => Header \in Seq(Byte))
    BY <2>1, LastCall, PingFrame
  <2> QED  BY <1>1, <1>2, <2>2 DEF Sent
<1>4. Inbound'  BY <1>1 DEF Inbound, Streams
<1>5. Counted' /\ Tidy'  BY <1>1, <1>2 DEF Counted, Tidy, Streams
<1>6. /\ c2s = <<>> => c2s' = Sent'
      /\ c2s = Ack \o <<>> => c2s' = Ack \o Sent'
  BY <1>3, EmptyStream, AckByte
<1>7. Outbound'
  BY <1>1, <1>2, <1>3, <1>6 DEF Streams, Outbound, AtReadCommand, AtAck, AtReceiveData, AtRun,
     AtSendHeader, Working, AtReadAck, AtSendBody, Answering
<1> QED  BY <1>4, <1>5, <1>7 DEF Streams

LEMMA ClientGoneReading ==
    ASSUME SizesAnnounced, Inv, Streams, UNCHANGED <<calls, log, peer>>,
           UNCHANGED <<spc, req, body, resp, ignored>>, cpc' = "closed", c2s' = c2s
    PROVE  Streams'
<1>1. c2s \in Seq(Byte) /\ ClientOut \in Seq(Byte)  BY Types, ClientOutType
<1>2. 0 \in 0 .. Len(ClientOut)  BY <1>1, LenProperties
<1>3. c2s' = c2s \o Take(ClientOut, 0)  BY <1>1, TakeAll, EmptyStream
<1> QED  BY <1>2, <1>3, ClientGone

\* The acknowledgement is read: it is the server's, and not what an earlier
\* exchange left.
LEMMA ReceiveAckFrames ==
    ASSUME SizesAnnounced, Inv, Logged, Streams, ReceiveAck, cpc' = "sendData"
    PROVE  Streams'
<1> USE DEF Waiting, Asking, CallStates, Settled
<1>1. /\ cpc = "readAck" /\ UNCHANGED <<calls, log, peer, c2s, spc, req, body, resp, ignored>>
      /\ Len(s2c) >= 1 /\ s2c' = Drop(s2c, 1)
      /\ DecodeResponseHeader(Take(s2c, 1), TRUE).status = StatusOk
  BY DEF ReceiveAck, ClientTakes, Taken, ClientNeeds, DefaultResponseHeaderSize, ExchangeFails,
     Returns, serverVars
<1>2. /\ Current' = Current /\ Header' = Header /\ PingHeader' = PingHeader /\ Ack' = Ack
      /\ Last' = Last /\ ReplyHeader' = ReplyHeader
      /\ Ran' <=> Ran
      /\ Unrun' <=> Unrun
      /\ Matched' <=> Matched
  BY <1>1, SameCalls
<1>3. s2c # <<>> /\ s2c[1] = StatusOk /\ ~Stale(s2c)
  <2>1. s2c # <<>> /\ s2c \in Seq(Byte)  BY <1>1, Types, EmptyStream
  <2>2. Take(s2c, 1)[1] = s2c[1]
    <3>1. 0 \in Byte /\ <<>> \in Seq(Byte)  BY StatusBytes, EmptyStream
    <3> QED  BY <2>1, <3>1, StartsTail
  <2> QED  BY <1>1, <2>1, <2>2 DEF DecodeResponseHeader, Stale
<1>4. s2c = Ack => s2c' = <<>>  BY <1>1, AckByte
<1>5. Ran /\ s2c = Ack \o ReplyHeader => s2c' = ReplyHeader
  <2>1. Ran => Len(log) > 0  BY <1>1, CurrentType DEF Ran
  <2>2. Ran => ReplyHeader \in Seq(Byte)  BY <2>1, ReplyFrame
  <2> QED  BY <1>1, <2>2, AckConcat
<1>6. Inbound'  BY <1>1, <1>2, <1>3 DEF Inbound, Streams, Accepted
<1>7. Counted' /\ Tidy'  
  <2>1. InvalidDataSize # StatusOk /\ <<InvalidDataSize>>[1] = InvalidDataSize
    BY DEF InvalidDataSize, StatusOk
  <2> QED  BY <1>1, <1>2, <1>3, <1>4, <2>1 DEF Counted, Tidy, Streams
<1>8. Outbound'
  BY <1>1, <1>2, <1>3, <1>4, <1>5 DEF Streams, Outbound, AtReadCommand, AtAck, AtReceiveData, AtRun,
     AtSendHeader, Working, AtReadAck, AtSendBody, Answering, Begun, JustAcked
<1> QED  BY <1>6, <1>7, <1>8 DEF Streams

\* The request's payload is written: to a server that waits for it, or it is
\* empty.
LEMMA SendRequestDataFrames ==
    ASSUME SizesAnnounced, Inv, Streams, SendRequestData
    PROVE  Streams'
<1> USE DEF Waiting, Asking, CallStates, Settled
<1>1. /\ cpc = "sendData" /\ cpc' = "readReply" /\ c2s' = c2s \o Current.body
      /\ UNCHANGED <<calls, log, peer, s2c, spc, req, body, resp, ignored>>
  BY DEF SendRequestData, ClientSends, ClientOut, serverVars
<1>2. /\ Current' = Current /\ Header' = Header /\ PingHeader' = PingHeader /\ Ack' = Ack
      /\ Last' = Last /\ ReplyHeader' = ReplyHeader
      /\ Ran' <=> Ran
      /\ Unrun' <=> Unrun
      /\ Matched' <=> Matched
  BY <1>1, SameCalls
<1>3. /\ c2s = <<>> => c2s' = Current.body
      /\ Current.body = <<>> => c2s' = c2s
  <2>1. c2s \in Seq(Byte) /\ Current.body \in Seq(Byte)  BY <1>1, Types, CurrentType
  <2> QED  BY <1>1, <2>1, EmptyStream
<1>4. Inbound'  BY <1>1, <1>2 DEF Inbound, Streams
<1>5. Counted' /\ Tidy'  BY <1>1, <1>2 DEF Counted, Tidy, Streams
<1>6. Outbound'
  BY <1>1, <1>2, <1>3 DEF Streams, Outbound, AtReadCommand, AtAck, AtReceiveData, AtRun,
     AtSendHeader, Working, AtReadAck, AtSendBody, Answering, Begun
<1> QED  BY <1>4, <1>5, <1>6 DEF Streams

\* The response header is read: of a call that was run it is the handler's
\* status and the size of its reply.
LEMMA ReceiveReplyHeaderFrames ==
    ASSUME SizesAnnounced, Inv, Logged, Streams, ReceiveReplyHeader, cpc' = "sendAck"
    PROVE  Streams'
<1> USE DEF Waiting, Asking, CallStates, Settled
<1> DEFINE need == ResponseEncodedLen(FALSE, Current.answer)
<1>1. /\ cpc = "readReply" /\ UNCHANGED <<calls, log, peer, c2s, spc, req, body, resp, ignored>>
      /\ Len(s2c) >= need /\ s2c' = Drop(s2c, need)
      /\ reply' = DecodeResponseHeader(Take(s2c, need), ~Current.answer)
  BY DEF ReceiveReplyHeader, ClientTakes, Taken, ClientNeeds, ExchangeFails, Returns, serverVars
<1>2. /\ Current' = Current /\ Header' = Header /\ PingHeader' = PingHeader /\ Ack' = Ack
      /\ Last' = Last /\ ReplyHeader' = ReplyHeader
      /\ Ran' <=> Ran
      /\ Unrun' <=> Unrun
      /\ Matched' <=> Matched
  BY <1>1, SameCalls
<1>3. /\ s2c \in Seq(Byte) /\ Current.answer \in BOOLEAN /\ peer.none \in BOOLEAN
      /\ Len(calls) \in Nat /\ Len(calls) > 0 /\ Len(s2c) \in Nat
  BY <1>1, Types, CurrentType, LenProperties
<1>4. (Current.answer => need = 5) /\ (~Current.answer => need = 1)
  BY DEF ResponseEncodedLen, DefaultResponseHeaderSize, ResponseHeaderFullSize
<1> HIDE DEF need
<1>5. s2c # <<>>  BY <1>1, <1>3, <1>4, EmptyStream
<1>6. need \in 0 .. Len(s2c) /\ need >= 1  BY <1>1, <1>3, <1>4
<1>7. reply'.status = s2c[1] /\ (~Current.answer => reply'.data_size = 0)
  <2>1. Take(s2c, need)[1] = s2c[1]
    BY <1>3, <1>6, TakeStarts DEF Starts
  <2> QED  BY <1>1, <2>1 DEF DecodeResponseHeader
<1>8. ASSUME Unrun
      PROVE  reply'.status # StatusOk /\ Stale(s2c')
  <2>1. Zeros(s2c)  BY <1>1, <1>8 DEF Streams, Inbound
  <2>2. s2c[1] = 0 /\ Zeros(s2c') /\ s2c' \in Seq(Byte)
    BY <1>1, <1>3, <1>5, <1>6, <2>1, ZerosLemma
  <2> QED  BY <1>7, <2>2, ZerosLemma DEF StatusOk
<1>9. ASSUME Ran
      PROVE  /\ reply'.status = Last.status /\ Stale(s2c')
             /\ Current.answer => /\ ~peer.none /\ s2c' = <<>> 
                                  /\ reply'.data_size = Len(Last.reply)
             /\ peer.none => s2c' = <<>>
             /\ ~Current.answer /\ ~peer.none /\ s2c = ReplyHeader => s2c' # <<>>
  <2>1. Len(log) > 0  BY <1>3, <1>9 DEF Ran
  <2>2. Starts(s2c, ReplyHeader)  BY <1>1, <1>9 DEF Streams, Inbound
  <2>3. /\ ReplyHeader \in Seq(Byte) /\ (peer.none => Len(ReplyHeader) = 1)
        /\ ~peer.none => /\ Len(ReplyHeader) = 5
                         /\ DecodeResponseHeader(ReplyHeader, FALSE)
                              = [status |-> Last.status, data_size |-> Len(Last.reply)]
        /\ s2c[1] = Last.status /\ Stale(Drop(s2c, 1)) /\ (peer.none => Drop(s2c, 1) = <<>>)
    BY <1>3, <1>5, <2>1, <2>2, ReplyFrame
  <2>4. CASE Current.answer
    <3>1. Len(s2c) >= 5 /\ Len(s2c) <= Len(ReplyHeader)  BY <1>1, <1>4, <2>2, <2>4 DEF Starts
    <3>2. ~peer.none
      <4> SUFFICES ASSUME peer.none PROVE FALSE  OBVIOUS
      <4>1. Len(ReplyHeader) = 1  BY <2>3
      <4> QED  BY <1>3, <3>1, <4>1
    <3>3. s2c = ReplyHeader /\ need = Len(s2c)
      <4>1. Len(s2c) >= Len(ReplyHeader)  BY <1>3, <2>3, <3>1, <3>2
      <4>2. s2c = ReplyHeader  BY <1>3, <2>2, <2>3, <4>1, StartsWhole
      <4> QED  BY <1>4, <2>3, <2>4, <3>2, <4>2
    <3>4. s2c' = <<>> /\ Take(s2c, need) = s2c  BY <1>1, <1>3, <3>3, TakeAll
    <3>5. reply' = DecodeResponseHeader(s2c, FALSE)  BY <1>1, <2>4, <3>4
    <3>6. reply'.data_size = Len(Last.reply)
      <4>1. reply' = [status |-> Last.status, data_size |-> Len(Last.reply)]
        BY <2>3, <3>2, <3>3, <3>5, Zenon
      <4> QED  BY <4>1
    <3> QED  BY <1>7, <2>3, <2>4, <3>2, <3>4, <3>6, EmptyStream
  <2>5. CASE ~Current.answer
    <3>1. s2c' = Drop(s2c, 1)  BY <1>1, <1>4, <2>5
    <3>2. ~peer.none /\ s2c = ReplyHeader => s2c' # <<>>
      <4>1. 1 \in Nat /\ 1 <= Len(s2c)  BY <1>3, <1>6
      <4>2. Len(s2c') = Len(s2c) - 1  BY <1>3, <3>1, <4>1, TakeDropType
      <4>3. ~peer.none => Len(ReplyHeader) = 5  BY <2>3
      <4> QED  BY <4>2, <4>3, EmptyStream
    <3> QED  BY <1>7, <2>3, <2>5, <3>1, <3>2
  <2> QED  BY <1>3, <2>4, <2>5
<1>10. Inbound'
  BY <1>1, <1>2, <1>7, <1>8, <1>9 DEF Inbound, Streams, Counted
<1>11. Counted' /\ Tidy'
  <2>1. Matched => Ran /\ s2c' = <<>>
    <3>1. Matched => Current.answer \/ peer.none
      <4>1. Len(calls) \in DOMAIN calls  BY <1>3, LenProperties DEF Inv, TypeOK
      <4> QED  BY <4>1 DEF Matched, Current
    <3> QED  BY <1>1, <1>5, <1>9, <3>1 DEF Streams, Counted, Tidy
  <2> QED  BY <1>1, <1>2, <2>1 DEF Counted, Tidy, Streams
<1>12. Outbound'
  BY <1>1, <1>2, <1>5, <1>9 DEF Streams, Outbound, AtReadCommand, AtAck, AtReceiveData, AtRun,
     AtSendHeader, Working, AtReadAck, AtSendBody, Answering, Begun
<1> QED  BY <1>10, <1>11, <1>12 DEF Streams

\* The response header is acknowledged.  A call that goes on was run with
\* status Ok, so the server waits for the acknowledgement.
LEMMA AckReplyFrames ==
    ASSUME SizesAnnounced, Inv, Logged, Streams, AckReply
    PROVE  Streams'
<1> USE DEF Waiting, Asking, CallStates, Settled
<1>1. /\ cpc = "sendAck" /\ c2s' = c2s \o Ack
      /\ UNCHANGED <<calls, log, peer, s2c, reply, spc, req, body, resp, ignored>>
  BY DEF AckReply, ClientOut, Ack, serverVars
<1>2. /\ Current' = Current /\ Header' = Header /\ PingHeader' = PingHeader /\ Ack' = Ack
      /\ Last' = Last /\ ReplyHeader' = ReplyHeader
      /\ Ran' <=> Ran
      /\ Unrun' <=> Unrun
      /\ Matched' <=> Matched
  BY <1>1, SameCalls
<1>3. \/ cpc' = "closed"
      \/ cpc' = "idle" /\ reply.status = StatusOk /\ reply.data_size = 0
      \/ cpc' = "readData" /\ reply.status = StatusOk /\ reply.data_size # 0
  BY DEF AckReply, Returns
<1>4. CASE cpc' = "closed"
  <2>1. ClientOut = Ack  BY <1>1 DEF ClientOut, Ack
  <2>2. 1 \in 0 .. Len(ClientOut)  BY <2>1, AckByte
  <2>3. Take(ClientOut, 1) = Ack
    <3>1. Len(Ack) = 1 /\ Ack \in Seq(Byte)  BY AckByte
    <3>2. Take(Ack, Len(Ack)) = Ack  BY <3>1, TakeAll
    <3> QED  BY <2>1, <3>1, <3>2
  <2> QED  BY <1>1, <1>4, <2>2, <2>3, ClientGone
<1>5. CASE cpc' # "closed"
  <2>1. reply.status = StatusOk  BY <1>3, <1>5
  <2>2. Ran /\ Last.status = StatusOk
    BY <1>1, <2>1 DEF Streams, Inbound, Counted
  <2>3. Last.status # StatusError  BY <2>2 DEF StatusOk, StatusError
  <2>4. c2s = <<>> => c2s' = Ack /\ c2s' = Ack \o <<>>  BY <1>1, AckByte, EmptyStream
  <2>5. /\ Stale(s2c) /\ Current.answer \in BOOLEAN
        /\ Current.answer => ~peer.none /\ s2c = <<>> /\ reply.data_size = Len(Last.reply)
        /\ ~Current.answer => reply.data_size = 0
    BY <1>1, <2>2, CurrentType DEF Streams, Inbound
  <2>6. Len(log) > 0
    <3>1. Len(calls) > 0  BY <1>1, CurrentType
    <3> QED  BY <2>2, <3>1 DEF Ran
  <2>7. Last.reply \in Seq(Byte) /\ (Len(Last.reply) = 0 <=> Last.reply = <<>>)
    BY <2>6, LastAnswer, EmptyStream
  <2>8. ~Unrun  BY <2>2, Types DEF Ran, Unrun
  <2>9. CASE cpc' = "idle"
    <3>1. reply.data_size = 0  BY <1>3, <2>9
    <3>2. Inbound' /\ Counted' /\ Tidy'
      BY <1>1, <1>2, <2>2, <2>5, <2>9 DEF Inbound, Counted, Tidy, Streams
    <3>3. spc = "readAck" => (s2c # <<>> \/ peer.none \/ Last.reply = <<>>) /\ c2s = <<>>
      BY <1>1, <2>5, <2>7, <3>1 DEF Streams, Outbound, AtReadAck
    <3>4. Sent' = <<>>  BY <2>9 DEF Sent
    <3>5. Outbound'
      BY <1>1, <1>2, <2>2, <2>3, <2>4, <2>5, <2>8, <2>9, <3>3, <3>4
      DEF Streams, Outbound, AtReadCommand, AtAck, AtReceiveData, AtRun,
          AtSendHeader, Working, AtReadAck, AtSendBody, Answering
    <3> QED  BY <3>2, <3>5 DEF Streams
  <2>10. CASE cpc' = "readData"
    <3>1. reply.data_size # 0  BY <1>3, <2>10
    <3>2. Current.answer /\ ~peer.none /\ s2c = <<>> /\ reply.data_size = Len(Last.reply)
      BY <2>5, <3>1
    <3>3. Last.reply # <<>> /\ Starts(s2c, Last.reply)  BY <2>7, <3>1, <3>2, EmptyStream
    <3>4. Inbound' /\ Counted' /\ Tidy'
      BY <1>1, <1>2, <2>2, <2>10, <3>2, <3>3 DEF Inbound, Counted, Tidy, Streams
    <3>5. Outbound'
      BY <1>1, <1>2, <2>2, <2>3, <2>4, <2>8, <2>10, <3>2
      DEF Streams, Outbound, AtReadCommand, AtAck, AtReceiveData, AtRun,
          AtSendHeader, Working, AtReadAck, AtSendBody, Answering
    <3> QED  BY <3>4, <3>5 DEF Streams
  <2> QED  BY <1>3, <1>5, <2>9, <2>10
<1> QED  BY <1>4, <1>5

\* What a client that waits for the payload takes is the handler's reply.
LEMMA ReplyTaken ==
    ASSUME SizesAnnounced, Inv, Logged, Streams, cpc = "readData", ClientTakes
    PROVE  /\ Ran /\ Last.status = StatusOk /\ Current.answer
           /\ s2c = Last.reply /\ Taken = Last.reply /\ s2c' = <<>>
<1>1. /\ Ran /\ Last.status = StatusOk /\ Current.answer /\ Starts(s2c, Last.reply)
      /\ reply.data_size = Len(Last.reply)
  BY DEF Streams, Inbound
<1>2. Len(s2c) >= Len(Last.reply) /\ s2c' = Drop(s2c, Len(Last.reply))
      /\ Taken = Take(s2c, Len(Last.reply))
  BY <1>1 DEF ClientTakes, ClientNeeds, Taken
<1>3. Len(log) > 0
  <2>1. Len(calls) > 0  BY CurrentType DEF CallStates
  <2> QED  BY <1>1, <2>1 DEF Ran
<1>4. Last.reply \in Seq(Byte) /\ s2c \in Seq(Byte)  BY <1>3, LastAnswer, Types
<1>5. s2c = Last.reply  BY <1>1, <1>2, <1>4, StartsWhole
<1> QED  BY <1>1, <1>2, <1>4, <1>5, TakeAll

LEMMA ReceiveReplyDataFrames ==
    ASSUME SizesAnnounced, Inv, Logged, Streams, ReceiveReplyData
    PROVE  Streams'
<1> USE DEF Waiting, Asking, CallStates, Settled
<1>1. /\ cpc = "readData" /\ cpc' = "idle" /\ ClientTakes
      /\ UNCHANGED <<calls, log, peer, c2s, spc, req, body, resp, ignored>>
  BY DEF ReceiveReplyData, ClientTakes, Returns, serverVars
<1>2. /\ Current' = Current /\ Last' = Last /\ ReplyHeader' = ReplyHeader
      /\ Ran' <=> Ran
      /\ Unrun' <=> Unrun
      /\ Matched' <=> Matched
  BY <1>1, SameCalls
<1>3. Ran /\ s2c = Last.reply /\ s2c' = <<>> /\ s2c # <<>> /\ Stale(s2c')
  BY <1>1, ReplyTaken, EmptyStream DEF Streams, Inbound
<1>4. Sent' = <<>>  BY <1>1 DEF Sent
<1>5. Inbound' /\ Counted' /\ Tidy'
  BY <1>1, <1>2, <1>3 DEF Inbound, Counted, Tidy, Streams
<1>6. Outbound'
  BY <1>1, <1>2, <1>3, <1>4 DEF Streams, Outbound, AtReadCommand, AtAck, AtReceiveData, AtRun,
     AtSendHeader, Working, AtReadAck, AtSendBody, Answering
<1> QED  BY <1>5, <1>6 DEF Streams

LEMMA ReceivePongFrames ==
    ASSUME Inv, Streams, ReceivePong, cpc' = "pongTail"
    PROVE  Streams'
<1> USE DEF Waiting, Asking, CallStates, Settled
<1>1. /\ cpc = "readPong" /\ UNCHANGED <<calls, log, peer, c2s, spc, req, body, resp, ignored>>
      /\ Len(s2c) >= 1 /\ s2c' = Drop(s2c, 1) /\ Take(s2c, 1)[1] = StatusOk
  BY DEF ReceivePong, ClientTakes, Taken, ClientNeeds, DefaultResponseHeaderSize, ExchangeFails,
     Returns, serverVars
<1>2. /\ Current' = Current /\ Last' = Last /\ ReplyHeader' = ReplyHeader
      /\ Ran' <=> Ran
      /\ Unrun' <=> Unrun
      /\ Matched' <=> Matched
  BY <1>1, SameCalls
<1>3. s2c # <<>> /\ s2c[1] = StatusOk /\ ~Stale(s2c)
  <2>1. s2c # <<>> /\ s2c \in Seq(Byte)  BY <1>1, Types, EmptyStream
  <2>2. Take(s2c, 1)[1] = s2c[1]
    <3>1. 0 \in Byte /\ <<>> \in Seq(Byte)  BY StatusBytes, EmptyStream
    <3> QED  BY <2>1, <3>1, StartsTail
  <2> QED  BY <1>1, <2>1, <2>2 DEF Stale
<1>4. s2c = Ack => s2c' = <<>>  BY <1>1, AckByte
<1>5. Inbound' /\ Counted' /\ Tidy'
  BY <1>1, <1>2, <1>3, <1>4 DEF Inbound, Counted, Tidy, Streams
<1>6. Outbound'
  BY <1>1, <1>2, <1>3 DEF Streams, Outbound, AtReadCommand, AtAck, AtReceiveData, AtRun,
     AtSendHeader, Working, AtReadAck, AtSendBody, Answering
<1> QED  BY <1>5, <1>6 DEF Streams

\* After the tail of a pong, or the 10 ms, some zeros may be left.
LEMMA PongTailFrames ==
    ASSUME Inv, Streams, ReceivePongTail \/ PongTailTimeout, cpc' = "idle"
    PROVE  Streams'
<1> USE DEF Waiting, Asking, CallStates, Settled
<1>1. /\ cpc = "pongTail" /\ UNCHANGED <<calls, log, peer, c2s, spc, req, body, resp, ignored>>
      /\ \E k \in 0 .. 4 : k <= Len(s2c) /\ s2c' = Drop(s2c, k)
  <2>1. CASE ReceivePongTail
    <3>1. /\ cpc = "pongTail" /\ 4 <= Len(s2c) /\ s2c' = Drop(s2c, 4)
          /\ UNCHANGED <<calls, log, peer, c2s, spc, req, body, resp, ignored>>
      BY <2>1 DEF ReceivePongTail, ClientTakes, ClientNeeds, ExchangeFails, serverVars
    <3>2. 4 \in 0 .. 4  OBVIOUS
    <3> QED  BY <3>1, <3>2
  <2>2. CASE PongTailTimeout
    <3>1. PICK k \in 0 .. 3 : k <= Len(s2c) /\ s2c' = Drop(s2c, k)  BY <2>2 DEF PongTailTimeout
    <3>2. k \in 0 .. 4  OBVIOUS
    <3>3. cpc = "pongTail" /\ UNCHANGED <<calls, log, peer, c2s, spc, req, body, resp, ignored>>
      BY <2>2 DEF PongTailTimeout, serverVars
    <3> QED  BY <3>1, <3>2, <3>3
  <2> QED  BY <2>1, <2>2
<1>2. /\ Current' = Current /\ Last' = Last /\ ReplyHeader' = ReplyHeader
      /\ Ran' <=> Ran
      /\ Unrun' <=> Unrun
      /\ Matched' <=> Matched
  BY <1>1, SameCalls
<1>3. Stale(s2c') /\ (s2c = <<>> => s2c' = <<>>)
  <2>1. PICK k \in 0 .. 4 : k <= Len(s2c) /\ s2c' = Drop(s2c, k)  BY <1>1
  <2>2. Zeros(s2c) /\ s2c \in Seq(Byte) /\ k \in 0 .. Len(s2c)
    BY <1>1, <2>1, Types DEF Streams, Inbound
  <2>3. Zeros(s2c') /\ s2c' \in Seq(Byte)  BY <2>1, <2>2, ZerosLemma
  <2>4. s2c = <<>> => s2c' = <<>>
    <3>1. s2c = <<>> => k = Len(s2c)  BY <2>2, EmptyStream
    <3> QED  BY <2>1, <2>2, <3>1, TakeAll
  <2> QED  BY <2>3, <2>4, ZerosLemma
<1>4. Sent' = <<>>  BY DEF Sent
<1>5. Inbound' /\ Counted' /\ Tidy'
  BY <1>1, <1>2, <1>3 DEF Inbound, Counted, Tidy, Streams
<1>6. Outbound'
  BY <1>1, <1>2, <1>3, <1>4 DEF Streams, Outbound, AtReadCommand, AtAck, AtReceiveData, AtRun,
     AtSendHeader, Working, AtReadAck, AtSendBody, Answering
<1> QED  BY <1>5, <1>6 DEF Streams
-----------------------------------------------------------------------------
(* The server's steps.                                                     *)

\* What a pong may look like when it is cut short.
LEMMA PongPart ==
    ASSUME NEW old \in BOOLEAN, NEW k \in 0 .. Len(EncodeResponseHeader(StatusOk, 0, ~old))
    PROVE  LET x == Take(EncodeResponseHeader(StatusOk, 0, ~old), k)
           IN  /\ x \in Seq(Byte)
               /\ x # <<>> => x[1] = StatusOk /\ Zeros(Drop(x, 1))
               /\ ~old => x = <<>> \/ x = Ack
               /\ k = Len(EncodeResponseHeader(StatusOk, 0, ~old)) => x # <<>>
<1> DEFINE p == EncodeResponseHeader(StatusOk, 0, ~old)
           x == Take(p, k)
           z == ToBeBytes(0)
<1>1. StatusOk \in Byte /\ 0 \in Nat /\ k \in 0 .. Len(p)  BY StatusBytes
<1>2. p \in Seq(Byte)  BY <1>1, HeaderTypes
<1>3. z \in Seq(Byte) /\ Zeros(z)
  <2>1. z = <<0, 0, 0, 0>>  BY SMT DEF ToBeBytes
  <2>2. z \in Seq(Byte) /\ Len(z) = 4  BY ToBeBytesElements, SMT
  <2> HIDE DEF z
  <2>3. \A i \in 1 .. 4 : z[i] = 0  BY <2>1
  <2> QED  BY <2>2, <2>3 DEF Zeros
<1> HIDE DEF z
<1>4. ~old => p = Ack  BY DEF Ack
<1>5. old => p = <<StatusOk>> \o z  BY DEF EncodeResponseHeader, z
<1>6. x \in Seq(Byte) /\ Starts(x, p) /\ Len(x) = k
  <2> HIDE DEF p
  <2> QED  BY <1>1, <1>2, TakeStarts
<1>7. ~old => x = <<>> \/ x = Ack
  <2> SUFFICES ASSUME ~old PROVE x = <<>> \/ x = Ack  OBVIOUS
  <2>1. p = Ack  BY <1>4
  <2>2. k \in 0 .. Len(Ack)  BY <2>1
  <2>3. x = Take(Ack, k)  BY <2>1
  <2> HIDE DEF x, p
  <2> QED  BY <2>2, <2>3, AckPart
<1>8. x # <<>> => x[1] = StatusOk /\ Zeros(Drop(x, 1))
  <2> HIDE DEF x, p
  <2> SUFFICES ASSUME x # <<>> PROVE x[1] = StatusOk /\ Zeros(Drop(x, 1))  OBVIOUS
  <2>1. CASE ~old  BY <1>7, <2>1, AckByte, EmptyStream
  <2>2. CASE old
    <3>0. Starts(x, <<StatusOk>> \o z)  BY <1>5, <1>6, <2>2
    <3>1. /\ x[1] = StatusOk /\ Starts(Drop(x, 1), z) /\ Drop(x, 1) \in Seq(Byte)
      BY <1>1, <1>3, <1>6, <3>0, StartsTail
    <3>2. Zeros(Drop(x, 1))
      <4>1. Len(Drop(x, 1)) \in Nat /\ Len(z) \in Nat  BY <1>3, <3>1, LenProperties
      <4> QED  BY <1>3, <3>1, <4>1 DEF Zeros, Starts
    <3> QED  BY <3>1, <3>2
  <2> QED  BY <2>1, <2>2
<1>9. k = Len(p) => x # <<>>
  <2>1. Len(p) > 0
    <3>1. CASE old
      <4>1. <<StatusOk>> \in Seq(Byte) /\ Len(<<StatusOk>>) = 1  BY <1>1
      <4>2. Len(p) = Len(<<StatusOk>>) + Len(z) /\ Len(z) \in Nat
        <5> HIDE DEF p
        <5> QED  BY <1>3, <1>5, <3>1, <4>1, Concat, LenProperties
      <4> HIDE DEF p
      <4> QED  BY <4>1, <4>2
    <3>2. CASE ~old  
      <4> HIDE DEF p
      <4> QED  BY <1>4, <3>2, AckByte
    <3> QED  BY <3>1, <3>2
  <2> HIDE DEF x, p
  <2> QED  BY <1>6, <2>1, EmptyStream
<1> QED  BY <1>6, <1>7, <1>8, <1>9

\* What the server writes, whole or cut short, by what it is doing.
LEMMA ServerPart ==
    ASSUME SizesAnnounced, Inv, Streams, NEW k \in 0 .. Len(ServerOut)
    PROVE  LET x == Take(ServerOut, k)
           IN  /\ x \in Seq(Byte)
               /\ spc \notin {"ackCommand", "pong", "refusePing", "sendHeader", "sendBody"} => x = <<>>
               /\ spc = "ackCommand" => x = <<>> \/ x = Ack
               /\ spc = "pong" => /\ x # <<>> => x[1] = StatusOk /\ Zeros(Drop(x, 1))
                                  /\ ~peer.old => x = <<>> \/ x = Ack
               /\ spc = "refusePing" => x = <<>> \/ x = <<InvalidDataSize>>
               /\ spc = "sendHeader" => Starts(x, ReplyHeader)
               /\ spc = "sendBody" => /\ Starts(x, Last.reply)
                                      /\ peer.none \/ Last.reply = <<>> => x = <<>>
<1> DEFINE x == Take(ServerOut, k)
<1>1. x \in Seq(Byte) /\ ServerOut \in Seq(Byte) /\ Starts(x, ServerOut) /\ Len(x) = k
      /\ (ServerOut = <<>> => x = <<>>)
  <2>1. ServerOut \in Seq(Byte)  BY ServerOutType DEF Inv
  <2>2. x \in Seq(Byte) /\ Starts(x, ServerOut) /\ Len(x) = k  BY <2>1, TakeStarts
  <2>3. ServerOut = <<>> => x = <<>>
    <3> HIDE DEF x
    <3> QED  BY <2>2, EmptyStream
  <2> QED  BY <2>1, <2>2, <2>3
<1>2. CASE spc \notin {"ackCommand", "pong", "refusePing", "sendHeader", "sendBody"}
  <2>1. ServerOut = <<>>  BY <1>2 DEF ServerOut
  <2> HIDE DEF x
  <2> QED  BY <1>1, <1>2, <2>1 DEF x
<1>3. CASE spc = "ackCommand"
  <2>1. ServerOut = Ack  BY <1>3 DEF ServerOut, Ack
  <2>2. x = <<>> \/ x = Ack  BY <2>1, AckPart
  <2> QED  BY <1>1, <1>3, <2>2
<1>4. CASE spc = "pong"
  <2>1. ServerOut = EncodeResponseHeader(StatusOk, 0, ~peer.old)  BY <1>4 DEF ServerOut
  <2>2. peer.old \in BOOLEAN  BY Types
  <2>3. /\ x # <<>> => x[1] = StatusOk /\ Zeros(Drop(x, 1))
        /\ ~peer.old => x = <<>> \/ x = Ack
    BY <2>1, <2>2, PongPart
  <2> QED  BY <1>1, <1>4, <2>3
<1>5. CASE spc = "refusePing"
  <2>1. ServerOut = <<InvalidDataSize>>  BY <1>5 DEF ServerOut, EncodeResponseHeader
  <2>2. k = 0 \/ k = Len(ServerOut)  BY <2>1
  <2>3. x = <<>> \/ x = <<InvalidDataSize>>  BY <1>1, <2>1, <2>2, TakeAll
  <2> QED  BY <1>1, <1>5, <2>3
<1>6. CASE spc = "sendHeader"
  <2>1. Answering  BY <1>6 DEF Streams, Outbound, AtSendHeader
  <2>2. ServerOut = ReplyHeader
    BY <1>6, <2>1 DEF ServerOut, Answering, ReplyHeader, SendsNone
  <2> QED  BY <1>1, <1>6, <2>2
<1>7. CASE spc = "sendBody"
  <2>1. Answering  BY <1>7 DEF Streams, Outbound, AtSendBody
  <2>2. ServerOut = IF peer.none THEN <<>> ELSE Last.reply
    BY <1>7, <2>1 DEF ServerOut, Answering, SendsNone
  <2>3. Last.reply \in Seq(Byte)
    <3>1. resp.data \in Seq(Byte)  BY DEF Inv, TypeOK
    <3> QED  BY <2>1, <3>1 DEF Answering
  <2>4. peer.none \/ Last.reply = <<>> => x = <<>>
    <3> HIDE DEF x
    <3> QED  BY <1>1, <2>2
  <2>5. Starts(x, Last.reply)
    <3> HIDE DEF x
    <3>1. CASE peer.none  BY <2>3, <2>4, <3>1, EmptyStream
    <3>2. CASE ~peer.none  BY <1>1, <2>2, <3>2
    <3> QED  BY <3>1, <3>2
  <2> QED  BY <1>1, <1>7, <2>4, <2>5
<1> QED  BY <1>2, <1>3, <1>4, <1>5, <1>6, <1>7

\* Whatever part of it reaches the stream, the client reads it as it should.
LEMMA ServerWrites ==
    ASSUME SizesAnnounced, Inv, Logged, Streams, spc # "closed",
           UNCHANGED <<cpc, calls, reply, log, peer>>,
           NEW k \in 0 .. Len(ServerOut), s2c' = s2c \o Take(ServerOut, k),
           spc = "refusePing" => spc' = "closed"
    PROVE  Inbound' /\ Counted' /\ Tidy'
<1> USE DEF Waiting, Asking, CallStates, Settled
<1> DEFINE x == Take(ServerOut, k)
<1>1. /\ Current' = Current /\ Header' = Header /\ PingHeader' = PingHeader /\ Ack' = Ack
      /\ Last' = Last /\ ReplyHeader' = ReplyHeader
      /\ Ran' <=> Ran
      /\ Unrun' <=> Unrun
      /\ Matched' <=> Matched
  BY SameCalls
<1>2. s2c \in Seq(Byte) /\ x \in Seq(Byte) /\ s2c' = s2c \o x
  BY Types, ServerPart
<1>3. /\ spc \notin {"ackCommand", "pong", "refusePing", "sendHeader", "sendBody"} => x = <<>>
      /\ spc = "ackCommand" => x = <<>> \/ x = Ack
      /\ spc = "pong" => /\ x # <<>> => x[1] = StatusOk /\ Zeros(Drop(x, 1))
                         /\ ~peer.old => x = <<>> \/ x = Ack
      /\ spc = "refusePing" => x = <<>> \/ x = <<InvalidDataSize>>
      /\ spc = "sendHeader" => Starts(x, ReplyHeader)
      /\ spc = "sendBody" => /\ Starts(x, Last.reply)
                             /\ peer.none \/ Last.reply = <<>> => x = <<>>
  BY ServerPart
<1> HIDE DEF x
<1>4. /\ x = <<>> => s2c' = s2c
      /\ s2c = <<>> => s2c' = x
      /\ s2c = Ack => s2c' # <<>> /\ s2c'[1] = StatusOk /\ Drop(s2c', 1) = x
      /\ Stale(s2c) /\ (s2c # <<>> \/ Stale(x)) => Stale(s2c')
  <2>1. s2c = Ack => s2c' # <<>> /\ s2c'[1] = StatusOk /\ Drop(s2c', 1) = x
    BY <1>2, AckConcat
  <2> QED  BY <1>2, <2>1, EmptyStream, Concat
<1>5. Counted'  BY <1>1 DEF Streams, Counted
<1>6. Stale(<<>>) /\ Zeros(<<>>) /\ Ack # <<>> /\ Ack[1] = StatusOk /\ Drop(Ack, 1) = <<>>
  BY EmptyStream, AckByte
<1>7. /\ Stale(<<InvalidDataSize>>) /\ <<InvalidDataSize>>[1] # StatusOk
  BY DEF Stale, InvalidDataSize, StatusOk
<1>8. ~(Ran /\ Unrun)  BY Types DEF Ran, Unrun
<1>9. Inbound /\ Outbound /\ Tidy  BY DEF Streams
<1>10. CASE x = <<>>
  BY <1>1, <1>4, <1>5, <1>9, <1>10 DEF Inbound, Tidy, Accepted
<1>11. CASE spc = "ackCommand" /\ x = Ack
  <2>1. cpc = "closed" \/ (cpc = "readAck" /\ Stale(s2c) /\ Unrun)
    BY <1>9, <1>11 DEF Outbound, AtAck, Begun
  <2>2. Matched /\ cpc = "readAck" => s2c = <<>>
    BY <1>9, <2>1 DEF Tidy, Stale
  <2>3. Inbound'  BY <1>1, <1>4, <1>6, <1>8, <1>11, <2>1 DEF Inbound, Accepted
  <2>4. Tidy'  BY <1>1, <1>4, <1>6, <1>11, <2>1, <2>2 DEF Tidy
  <2> QED  BY <1>5, <2>3, <2>4
<1>12. CASE spc = "pong" /\ x # <<>>
  <2>1. cpc = "closed" \/ (cpc = "readAck" /\ Stale(s2c) /\ Unrun) \/ (cpc = "readPong" /\ Stale(s2c))
    BY <1>9, <1>12 DEF Outbound, AtAck, Begun
  <2>2. Matched /\ cpc \in {"readAck", "readPong"} => s2c = <<>>
    BY <1>6, <1>9, <2>1 DEF Tidy, Stale
  <2>3. Matched => x = Ack  BY <1>3, <1>12 DEF Matched
  <2>4. Inbound'  BY <1>1, <1>3, <1>4, <1>6, <1>8, <1>12, <2>1 DEF Inbound, Accepted
  <2>5. Tidy'  BY <1>1, <1>4, <1>6, <1>12, <2>1, <2>2, <2>3 DEF Tidy
  <2> QED  BY <1>5, <2>4, <2>5
<1>13. CASE spc = "refusePing" /\ x = <<InvalidDataSize>>
  <2>1. cpc = "closed" \/ (cpc = "readAck" /\ Stale(s2c) /\ Current.command = Ping)
    BY <1>9, <1>13 DEF Outbound, AtAck, Begun
  <2>2. Matched /\ cpc = "readAck" => s2c = <<>>
    BY <1>9, <2>1 DEF Tidy, Stale
  <2>3. Inbound'  BY <1>1, <1>4, <1>7, <1>13, <2>1 DEF Inbound
  <2>4. Tidy'  BY <1>1, <1>4, <1>13, <2>1, <2>2 DEF Tidy
  <2> QED  BY <1>5, <2>3, <2>4
<1>14. CASE spc = "sendHeader"
  <2>1. /\ Ran
        /\ \/ cpc = "closed"
           \/ cpc = "readAck" /\ s2c # <<>> /\ (s2c[1] = StatusOk => s2c = Ack)
           \/ cpc \in {"sendData", "readReply"} /\ s2c = <<>>
    BY <1>9, <1>14 DEF Outbound, AtSendHeader, Working, JustAcked
  <2>2. cpc = "readAck" => Stale(s2c') \/ s2c = Ack
    BY <1>4, <2>1 DEF Stale
  <2>3. Matched /\ cpc = "readAck" => s2c = Ack
    BY <1>9, <2>1 DEF Tidy
  <2>4. Inbound'  BY <1>1, <1>3, <1>4, <1>8, <1>14, <2>1, <2>2 DEF Inbound, Accepted
  <2>5. Tidy'  BY <1>1, <1>4, <1>8, <1>14, <2>1, <2>3 DEF Tidy
  <2> QED  BY <1>5, <2>4, <2>5
<1>15. CASE spc = "sendBody" /\ x # <<>>
  <2>1. ~peer.none /\ Last.reply # <<>>  BY <1>3, <1>15
  <2>2. \/ cpc = "readData" /\ s2c = <<>>
        \/ cpc \in Waiting /\ Stale(s2c) /\ s2c # <<>>
        \/ cpc = "closed"
    BY <1>9, <1>15, <2>1 DEF Outbound, AtSendBody
  <2>3. Inbound'  BY <1>1, <1>3, <1>4, <1>9, <1>15, <2>2 DEF Inbound
  <2>4. Tidy'  BY <1>1, <1>6, <1>9, <2>2 DEF Tidy, Stale
  <2> QED  BY <1>5, <2>3, <2>4
<1> QED  BY <1>3, <1>10, <1>11, <1>12, <1>13, <1>14, <1>15

\* The server's task ends, perhaps in the middle of a write.
LEMMA ServerGone ==
    ASSUME SizesAnnounced, Inv, Logged, Streams, spc # "closed", spc' = "closed",
           UNCHANGED <<cpc, calls, reply, log, peer>>,
           NEW k \in 0 .. Len(ServerOut), s2c' = s2c \o Take(ServerOut, k)
    PROVE  Streams'
<1>1. Inbound' /\ Counted' /\ Tidy'  BY ServerWrites
<1>2. Outbound'  BY DEF Outbound
<1> QED  BY <1>1, <1>2 DEF Streams

\* The failure to send a failed handler's status is ignored: the client is
\* still in the call, and will not go on after that status.
LEMMA FailureIgnored ==
    ASSUME SizesAnnounced, Inv, Logged, Streams,
           resp.failed, spc \in {"sendHeader", "readAck", "sendBody"}, spc' = "readCommand",
           UNCHANGED <<cpc, calls, reply, log, peer, c2s>>, ignored',
           NEW k \in 0 .. Len(ServerOut), s2c' = s2c \o Take(ServerOut, k)
    PROVE  Streams'
<1> USE DEF Waiting, Asking, CallStates, Settled, RequestHeaderSize
<1>1. /\ Current' = Current /\ Header' = Header /\ PingHeader' = PingHeader /\ Ack' = Ack
      /\ Last' = Last /\ ReplyHeader' = ReplyHeader
      /\ Ran' <=> Ran
      /\ Unrun' <=> Unrun
  BY SameCalls
<1>2. Inbound' /\ Counted' /\ Tidy'  BY ServerWrites
<1>3. Last.status = StatusError /\ Last.status # StatusOk
  BY DEF Streams, Outbound, AtSendHeader, AtReadAck, AtSendBody, Answering, StatusOk, StatusError
<1>4. Len(<<>>) < 8 /\ Len(Ack) < 8  BY EmptyStream, AckByte
<1>5. \/ /\ cpc \in Asking /\ Ran /\ c2s = <<>>
         /\ cpc \in {"readAck", "sendData"} => Current.body = <<>>
      \/ cpc = "closed" /\ (c2s = <<>> \/ c2s = Ack \/ Rest(c2s))
  BY <1>3 DEF Streams, Outbound, Inbound, AtSendHeader, Working, AtReadAck, AtSendBody
<1>6. AtReadCommand'
  BY <1>1, <1>3, <1>4, <1>5 DEF AtReadCommand, Rest
<1>7. Outbound'  BY <1>6 DEF Outbound
<1> QED  BY <1>2, <1>7 DEF Streams

\* Every transport failure is one or the other.
LEMMA TransportFailsFrames ==
    ASSUME SizesAnnounced, Inv, Logged, Streams, spc # "closed", TransportFails,
           UNCHANGED clientVars, c2s' = c2s,
           NEW k \in 0 .. Len(ServerOut), s2c' = s2c \o Take(ServerOut, k)
    PROVE  Streams'
<1>1. UNCHANGED <<cpc, calls, reply, log, peer, c2s>>  BY DEF TransportFails, clientVars
<1>2. CASE resp.failed /\ spc \in {"sendHeader", "readAck", "sendBody"}
  <2>1. spc' = "readCommand" /\ ignored'  BY <1>2 DEF TransportFails
  <2> QED  BY <1>1, <1>2, <2>1, FailureIgnored
<1>3. CASE ~(resp.failed /\ spc \in {"sendHeader", "readAck", "sendBody"})
  <2>1. spc' = "closed"  BY <1>3 DEF TransportFails
  <2> QED  BY <1>1, <2>1, ServerGone
<1> QED  BY <1>2, <1>3

LEMMA TransportFailsReading ==
    ASSUME SizesAnnounced, Inv, Logged, Streams, spc # "closed", TransportFails,
           UNCHANGED <<clientVars, c2s, s2c>>
    PROVE  Streams'
<1>1. ServerOut \in Seq(Byte) /\ s2c \in Seq(Byte)  BY ServerOutType, Types DEF Inv
<1>2. 0 \in 0 .. Len(ServerOut) /\ s2c' = s2c \o Take(ServerOut, 0)
  BY <1>1, TakeAll, EmptyStream, LenProperties
<1> QED  BY <1>2, TransportFailsFrames

\* A frame sent whole.
LEMMA ServerSendsFrames ==
    ASSUME SizesAnnounced, Inv, Logged, Streams, ServerSends
    PROVE  Streams'
<1> USE DEF Waiting, Asking, CallStates, Settled, RequestHeaderSize
<1>1. /\ UNCHANGED <<cpc, calls, reply, log, peer, c2s, req, body, resp, ignored>>
      /\ s2c' = s2c \o ServerOut
      /\ spc \in {"ackCommand", "pong", "refusePing", "sendHeader", "sendBody"}
  BY DEF ServerSends, ServerWriting, clientVars
<1>2. /\ spc = "ackCommand" => spc' = "receiveData"
      /\ spc = "pong" => spc' = "readCommand"
      /\ spc = "refusePing" => spc' = "closed"
      /\ spc = "sendHeader" => spc' = "readAck"
      /\ spc = "sendBody" => spc' \in {"closed", "readCommand"}
  BY DEF ServerSends
<1>3. /\ Current' = Current /\ Header' = Header /\ PingHeader' = PingHeader /\ Ack' = Ack
      /\ Last' = Last /\ ReplyHeader' = ReplyHeader
      /\ Ran' <=> Ran
      /\ Unrun' <=> Unrun
  BY <1>1, SameCalls
<1>4. /\ ServerOut \in Seq(Byte) /\ s2c \in Seq(Byte) /\ Len(ServerOut) \in 0 .. Len(ServerOut)
      /\ Take(ServerOut, Len(ServerOut)) = ServerOut
  BY ServerOutType, Types, TakeAll, LenProperties DEF Inv
<1>5. Inbound' /\ Counted' /\ Tidy'  BY <1>1, <1>2, <1>4, ServerWrites
<1>6. /\ s2c = <<>> => s2c' = ServerOut
      /\ s2c # <<>> => s2c' # <<>> /\ s2c'[1] = s2c[1]
      /\ ServerOut = <<>> => s2c' = s2c
      /\ Stale(s2c) /\ s2c # <<>> => Stale(s2c')
  BY <1>1, <1>4, Concat, EmptyStream
<1>7. Len(<<>>) < 8 /\ (\A t \in Seq(Byte) : Starts(<<>>, t))  BY EmptyStream
<1>8. Outbound  BY DEF Streams
<1>9. CASE spc = "ackCommand"
  <2>1. ServerOut = Ack  BY <1>9 DEF ServerOut, Ack
  <2>2. c2s = <<>> /\ Begun /\ (cpc = "closed" \/ (cpc = "readAck" /\ Stale(s2c)))
    BY <1>8, <1>9 DEF Outbound, AtAck
  <2>3. cpc = "readAck" => s2c' # <<>> /\ (s2c'[1] = StatusOk => s2c' = Ack)
    BY <1>6, <2>1, <2>2, AckByte DEF Stale
  <2>4. Starts(<<>>, Current.body)
    <3>1. Len(calls) > 0  BY <2>2, Types DEF Begun, Unrun
    <3> QED  BY <1>7, <3>1, LastCall
  <2>5. AtReceiveData'
    BY <1>1, <1>3, <2>2, <2>3, <2>4 DEF AtReceiveData, Begun, JustAcked
  <2> QED  BY <1>2, <1>5, <1>9, <2>5 DEF Outbound, Streams
<1>10. CASE spc = "pong"
  <2>1. ServerOut # <<>>
    <3>1. ServerOut = EncodeResponseHeader(StatusOk, 0, ~peer.old) /\ peer.old \in BOOLEAN
      BY <1>10, Types DEF ServerOut
    <3> QED  BY <1>4, <3>1, PongPart
  <2>2. s2c' # <<>>  BY <1>6, <2>1
  <2>3. /\ c2s = <<>>
        /\ \/ cpc = "closed"
           \/ cpc = "readAck" /\ Begun /\ Current.command = Ping /\ Len(Current.body) = 0
           \/ cpc = "readPong" /\ Ran
    BY <1>8, <1>10 DEF Outbound, AtAck, Begun
  <2>4. cpc = "readAck" => Current.body = <<>>
    BY <2>3, CurrentType, EmptyStream
  <2>5. AtReadCommand'
    BY <1>1, <1>3, <1>7, <2>2, <2>3, <2>4 DEF AtReadCommand, Begun, Rest
  <2> QED  BY <1>2, <1>5, <1>10, <2>5 DEF Outbound, Streams
<1>11. CASE spc = "refusePing"
  BY <1>2, <1>5, <1>11 DEF Outbound, Streams
<1>12. CASE spc = "sendHeader"
  <2>1. AtSendHeader  BY <1>8, <1>12 DEF Outbound
  <2>2. ServerOut = ReplyHeader
    BY <1>12, <2>1 DEF AtSendHeader, ServerOut, Answering, ReplyHeader, SendsNone
  <2>3. s2c = Ack => s2c' = Ack \o ReplyHeader  BY <1>1, <2>2
  <2>4. AtReadAck'
    BY <1>1, <1>3, <1>6, <2>1, <2>2, <2>3
    DEF AtSendHeader, Working, AtReadAck, Answering, JustAcked
  <2> QED  BY <1>2, <1>5, <1>12, <2>4 DEF Outbound, Streams
<1>13. CASE spc = "sendBody"
  <2>1. AtSendBody  BY <1>8, <1>13 DEF Outbound
  <2>2. ServerOut = IF peer.none THEN <<>> ELSE Last.reply
    BY <1>13, <2>1 DEF AtSendBody, ServerOut, Answering, SendsNone
  <2>3. Sent' = Sent  BY <1>1, <1>3 DEF Sent
  <2>4. cpc \in Waiting => Stale(s2c')
    BY <1>6, <2>1, <2>2 DEF AtSendBody
  <2>5. cpc = "readData" => Ran /\ s2c' = Last.reply
    BY <1>6, <2>1, <2>2 DEF AtSendBody, Streams, Inbound
  <2>6. AtReadCommand'
    BY <1>1, <1>3, <2>1, <2>3, <2>4, <2>5 DEF AtSendBody, AtReadCommand, Rest
  <2> QED  BY <1>2, <1>5, <1>13, <2>6 DEF Outbound, Streams
<1> QED  BY <1>1, <1>9, <1>10, <1>11, <1>12, <1>13

\* The header the server takes is the one of the call or the ping under way.
LEMMA ReadCommandFrames ==
    ASSUME SizesAnnounced, Inv, Logged, Streams, ReadCommand
    PROVE  Streams'
<1> USE DEF Waiting, Asking, CallStates, Settled, RequestHeaderSize
<1> DEFINE header == DecodeRequestHeader(Take(c2s, 8))
<1>1. /\ spc = "readCommand" /\ Len(c2s) >= 8 /\ c2s' = Drop(c2s, 8)
      /\ UNCHANGED <<cpc, calls, reply, log, peer, s2c>> /\ UNCHANGED clientVars
      /\ \/ TransportFails
         \/ /\ req' = header /\ UNCHANGED <<body, resp, ignored>>
            /\ \/ header.command # Ping /\ spc' = "ackCommand"
               \/ header.command = Ping /\ header.data_size = 0 /\ spc' = "pong"
               \/ header.command = Ping /\ header.data_size # 0 /\ spc' = "refusePing"
  BY DEF ReadCommand, ServerTakes, ServerNeeds, Got, TransportFails, clientVars
<1>2. /\ Current' = Current /\ Header' = Header /\ PingHeader' = PingHeader /\ Ack' = Ack
      /\ Last' = Last /\ ReplyHeader' = ReplyHeader
      /\ Ran' <=> Ran
      /\ Unrun' <=> Unrun
      /\ Matched' <=> Matched
  BY <1>1, SameCalls
<1>3. CASE TransportFails
  <2>1. spc' = "closed"  BY <1>1, <1>3 DEF TransportFails
  <2>2. ServerOut \in Seq(Byte) /\ s2c \in Seq(Byte)  BY ServerOutType, Types DEF Inv
  <2>3. 0 \in 0 .. Len(ServerOut) /\ s2c' = s2c \o Take(ServerOut, 0)
    BY <1>1, <2>2, TakeAll, EmptyStream, LenProperties
  <2>4. spc # "closed"  BY <1>1
  <2> QED  BY <1>1, <2>1, <2>3, <2>4, ServerGone
<1>4. CASE ~TransportFails
  <2>1. Len(<<>>) = 0 /\ PingHeader \in Seq(Byte) /\ Len(PingHeader) = 8  BY EmptySeq, PingFrame
  <2>2. \/ cpc \in {"readAck", "closed"} /\ Unrun /\ c2s = Header
        \/ cpc = "readPong" /\ Ran /\ c2s = PingHeader
        \/ cpc = "closed" /\ c2s = PingHeader
    BY <1>1, <2>1 DEF Streams, Outbound, AtReadCommand, Rest, Sent
  <2>3. cpc # "closed" => Stale(s2c)
    BY <1>1, <2>1, <2>2 DEF Streams, Outbound, AtReadCommand
  <2>4. c2s' = <<>> /\ Take(c2s, 8) = c2s
    <3>1. Unrun => Len(calls) > 0  BY Types DEF Unrun
    <3>2. c2s \in Seq(Byte) /\ Len(c2s) = 8  BY <2>1, <2>2, <3>1, LastCall
    <3> QED  BY <1>1, <3>2, ReadsHeader
  <2>5. Unrun /\ c2s = Header =>
            header = [command |-> Current.command, data_size |-> Len(Current.body)]
    <3>1. Unrun => Len(calls) > 0  BY Types DEF Unrun
    <3> QED  BY <2>4, <3>1, LastCall
  <2>6. c2s = PingHeader => header = [command |-> Ping, data_size |-> 0]
    BY <2>4, PingFrame
  <2>7. Inbound' /\ Counted' /\ Tidy'
    BY <1>1, <1>2 DEF Inbound, Counted, Tidy, Streams, Accepted
  <2> HIDE DEF header
  <2>8. AtAck'
    <3>1. /\ spc' = "pong" <=> (req'.command = Ping /\ req'.data_size = 0)
          /\ spc' = "ackCommand" <=> req'.command # Ping
      BY <1>1, <1>4
    <3>2. CASE cpc \in {"readAck", "closed"} /\ Unrun /\ c2s = Header
      BY <1>1, <1>2, <1>4, <2>3, <2>4, <2>5, <3>1, <3>2 DEF AtAck, Begun
    <3>3. CASE cpc \in {"readPong", "closed"} /\ (cpc = "readPong" => Ran) /\ c2s = PingHeader
      <4>1. spc' = "pong"  BY <1>1, <1>4, <2>6, <3>3
      <4> QED  BY <1>1, <1>2, <2>3, <2>4, <3>1, <3>3, <4>1 DEF AtAck
    <3> QED  BY <2>2, <3>2, <3>3
  <2>9. spc' \in {"ackCommand", "pong", "refusePing"}  BY <1>1, <1>4
  <2> QED  BY <2>7, <2>8, <2>9 DEF Streams, Outbound
<1> QED  BY <1>3, <1>4

\* The payload the server takes is the call's.
LEMMA ReceiveRequestDataFrames ==
    ASSUME SizesAnnounced, Inv, Streams, ReceiveRequestData
    PROVE  Streams'
<1> USE DEF Waiting, Asking, CallStates, Settled
<1>1. /\ spc = "receiveData" /\ spc' = "run" /\ Len(c2s) >= req.data_size
      /\ c2s' = Drop(c2s, req.data_size) /\ body' = Take(c2s, req.data_size)
      /\ UNCHANGED <<cpc, calls, reply, log, peer, s2c, req, resp, ignored>>
  BY DEF ReceiveRequestData, ServerTakes, ServerNeeds, Got, clientVars
<1>2. /\ Current' = Current /\ Header' = Header /\ PingHeader' = PingHeader /\ Ack' = Ack
      /\ Last' = Last /\ ReplyHeader' = ReplyHeader
      /\ Ran' <=> Ran
      /\ Unrun' <=> Unrun
      /\ Matched' <=> Matched
  BY <1>1, SameCalls
<1>3. AtReceiveData /\ Begun /\ req.data_size = Len(Current.body)
  BY <1>1 DEF Streams, Outbound, AtReceiveData, Begun
<1>4. c2s \in Seq(Byte) /\ Current.body \in Seq(Byte)
  <2>1. Len(calls) > 0  BY <1>3, Types DEF Begun, Unrun
  <2> QED  BY <2>1, LastCall, Types
<1>5. c2s = Current.body /\ (cpc \in {"readAck", "sendData"} => Current.body = <<>>)
  <2>1. c2s = <<>> => Current.body = <<>>
    <3>1. Len(c2s) >= Len(Current.body) /\ Len(<<>>) = 0  BY <1>1, <1>3, EmptySeq
    <3> QED  BY <1>4, <3>1, EmptyStream
  <2>2. Starts(c2s, Current.body) => c2s = Current.body
    <3>1. Len(c2s) >= Len(Current.body)  BY <1>1, <1>3
    <3> QED  BY <1>4, <3>1, StartsWhole
  <2> QED  BY <1>3, <2>1, <2>2 DEF AtReceiveData
<1>6. c2s' = <<>> /\ body' = Current.body  BY <1>1, <1>3, <1>4, <1>5, TakeAll
<1>7. AtRun'
  BY <1>1, <1>2, <1>3, <1>5, <1>6 DEF AtReceiveData, AtRun, Begun, Working, JustAcked
<1>8. Inbound' /\ Counted' /\ Tidy'
  BY <1>1, <1>2 DEF Inbound, Counted, Tidy, Streams, Accepted
<1> QED  BY <1>1, <1>7, <1>8 DEF Streams, Outbound

\* The handler runs the call that is next, and it is the last one made.
LEMMA HandlerRuns ==
    ASSUME Inv, Streams, RunHandler
    PROVE  /\ Unrun /\ Len(log') = Len(log) + 1
           /\ \A j \in 1 .. Len(log) : log'[j] = log[j]
           /\ DOMAIN log = 1 .. Len(log) /\ DOMAIN log' = 1 .. Len(log) + 1
           /\ Last'.command = Current.command /\ Last'.data = Current.body
           /\ Last'.status \in {StatusOk, StatusFinish, StatusError}
           /\ Last'.reply \in Reply \cup {<<>>}
           /\ resp'.status = Last'.status /\ resp'.data = Last'.reply
           /\ resp'.failed => Last'.status = StatusError /\ Last'.reply = <<>>
           /\ log' = Append(log, Last') /\ Last' = [command |-> Current.command, data |-> Current.body,
                                 status |-> Last'.status, reply |-> Last'.reply]
<1> DEFINE L == [command : Nat, data : Seq(Byte), status : Byte, reply : Seq(Byte)]
<1>1. PICK r \in [status : {StatusOk, StatusFinish, StatusError}, data : Reply, failed : {FALSE}]
             \cup {[status |-> StatusError, data |-> <<>>, failed |-> TRUE]} :
          /\ resp' = r
          /\ log' = Append(log, [command |-> req.command, data |-> body,
                                 status |-> r.status, reply |-> r.data])
  BY DEF RunHandler
<1>2. AtRun  BY DEF RunHandler, Streams, Outbound
<1>3. Unrun /\ req.command = Current.command /\ body = Current.body
  BY <1>2 DEF AtRun, Begun
<1>4. /\ r.status \in {StatusOk, StatusFinish, StatusError} /\ r.data \in Reply \cup {<<>>}
      /\ r.failed => r.status = StatusError /\ r.data = <<>>
  <2>1. CASE r \in [status : {StatusOk, StatusFinish, StatusError}, data : Reply, failed : {FALSE}]
    BY <2>1
  <2>2. CASE r = [status |-> StatusError, data |-> <<>>, failed |-> TRUE]
    BY <2>2
  <2> QED  BY <1>1, <2>1, <2>2
<1> DEFINE e == [command |-> Current.command, data |-> Current.body,
                 status |-> r.status, reply |-> r.data]
<1>5. log' = Append(log, e)  BY <1>1, <1>3
<1>6. log \in Seq(L) /\ log' \in Seq(L)
  <2>1. Inv'  BY RunHandlerKeeps
  <2> QED  BY <2>1 DEF Inv, TypeOK
<1>7. /\ e.command = Current.command /\ e.data = Current.body
      /\ e.status = r.status /\ e.reply = r.data
  OBVIOUS
<1> HIDE DEF e, L
<1>8. /\ Len(log') = Len(log) + 1 /\ log'[Len(log) + 1] = e /\ Len(log) \in Nat
      /\ \A j \in 1 .. Len(log) : log'[j] = log[j]
  BY <1>5, <1>6, AppendProperties, LenProperties
<1>9. Last' = e  BY <1>8 DEF Last
<1>10. DOMAIN log = 1 .. Len(log) /\ DOMAIN log' = 1 .. Len(log) + 1
  BY <1>6, <1>8, LenProperties
<1>11. Last' = [command |-> Current.command, data |-> Current.body,
                status |-> Last'.status, reply |-> Last'.reply]
  BY <1>7, <1>9 DEF e
<1> QED  BY <1>1, <1>3, <1>4, <1>5, <1>7, <1>8, <1>9, <1>10, <1>11

LEMMA RunHandlerFrames == ASSUME SizesAnnounced, Inv, Streams, RunHandler PROVE Streams'
<1> USE DEF Waiting, Asking, CallStates, Settled
<1>1. /\ spc = "run" /\ spc' = "sendHeader"
      /\ UNCHANGED <<cpc, calls, reply, peer, c2s, s2c, req, body, ignored>>
  BY DEF RunHandler, clientVars
<1>2. /\ Unrun /\ Len(log') = Len(log) + 1 /\ Len(log) \in Nat
      /\ resp'.status = Last'.status /\ resp'.data = Last'.reply
      /\ resp'.failed => Last'.status = StatusError /\ Last'.reply = <<>>
  BY HandlerRuns, Types
<1>3. Ran' /\ ~Unrun'  BY <1>1, <1>2 DEF Ran, Unrun
<1>4. Current' = Current /\ Ack' = Ack /\ (Matched' <=> Matched)  BY <1>1 DEF Current, Ack, Matched
<1>5. AtRun  BY <1>1 DEF Streams, Outbound
<1>6. AtSendHeader'
  <2>1. Len(log') > 0  BY <1>2
  <2> QED  BY <1>1, <1>2, <1>3, <1>4, <1>5, <2>1
           DEF AtRun, AtSendHeader, Working, Answering, JustAcked
<1>7. Counted'  BY <1>1, <1>2, <1>3 DEF Counted, Ran, Streams, Unrun
<1>8. ReplyHeader' \in Seq(Byte)
  <2>1. Inv'  BY RunHandlerKeeps
  <2>2. resp'.status \in Byte /\ resp'.data \in Seq(Byte) /\ peer'.none \in BOOLEAN
    BY <2>1, ConnectionAssumption DEF Inv, TypeOK
  <2>3. Len(resp'.data) \in Nat  BY <2>2, LenProperties
  <2> QED  BY <1>2, <2>2, <2>3, HeaderTypes DEF ReplyHeader
<1>9. Inbound'
  <2>1. \/ cpc = "readAck" /\ (Stale(s2c) \/ s2c = Ack)
        \/ cpc \in {"sendData", "readReply"} /\ s2c = <<>>
        \/ cpc = "closed"
    BY <1>5 DEF AtRun, Working, JustAcked, Stale
  <2>2. Starts(<<>>, ReplyHeader')  BY <1>8, EmptyStream
  <2>3. Ack # <<>> /\ Ack[1] = StatusOk /\ Drop(Ack, 1) = <<>>  BY AckByte
  <2> QED  BY <1>1, <1>3, <1>4, <2>1, <2>2, <2>3 DEF Inbound, Accepted
<1>10. Tidy'
  BY <1>1, <1>3, <1>4, <1>5 DEF Tidy, Streams, AtRun, Working, JustAcked
<1> QED  BY <1>1, <1>6, <1>7, <1>9, <1>10 DEF Streams, Outbound

\* The acknowledgement the server takes is the client's.
LEMMA ReceiveReplyAckFrames ==
    ASSUME SizesAnnounced, Inv, Streams, ReceiveReplyAck
    PROVE  Streams'
<1> USE DEF Waiting, Asking, CallStates, Settled
<1>1. /\ spc = "readAck" /\ Len(c2s) >= 1 /\ c2s' = Drop(c2s, 1)
      /\ UNCHANGED <<cpc, calls, reply, log, peer, s2c, resp>>
      /\ Take(c2s, 1)[1] = StatusOk => spc' = "sendBody" /\ UNCHANGED <<req, body, ignored>>
  BY DEF ReceiveReplyAck, ServerTakes, ServerNeeds, Got, TransportFails, clientVars,
     DecodeResponseHeader, DefaultResponseHeaderSize
<1>2. /\ Current' = Current /\ Header' = Header /\ PingHeader' = PingHeader /\ Ack' = Ack
      /\ Last' = Last /\ ReplyHeader' = ReplyHeader
      /\ Ran' <=> Ran
      /\ Unrun' <=> Unrun
      /\ Matched' <=> Matched
  BY <1>1, SameCalls
<1>3. c2s \in Seq(Byte) /\ c2s # <<>> /\ Take(c2s, 1)[1] = c2s[1]
  <2>1. c2s \in Seq(Byte) /\ c2s # <<>>  BY <1>1, Types, EmptyStream
  <2>2. 0 \in Byte /\ <<>> \in Seq(Byte)  BY StatusBytes, EmptyStream
  <2> QED  BY <2>1, <2>2, StartsTail
<1>4. AtReadAck  BY <1>1 DEF Streams, Outbound
<1>5. cpc \in Waiting => Sent \in Seq(Byte)
  <2>1. cpc = "readAck" => Header \in Seq(Byte)
    <3>1. cpc = "readAck" => Len(calls) > 0  BY CurrentType
    <3> QED  BY <3>1, LastCall
  <2> QED  BY <2>1, PingFrame, EmptyStream DEF Sent
<1>6. /\ c2s = Ack => c2s[1] = StatusOk /\ c2s' = <<>>
      /\ cpc \in Waiting /\ c2s = Ack \o Sent => c2s[1] = StatusOk /\ c2s' = Sent
  BY <1>1, <1>5, AckByte, AckConcat
<1>7. c2s[1] = StatusOk  BY <1>3, <1>4, <1>6 DEF AtReadAck
<1>8. spc' = "sendBody" /\ Sent' = Sent  BY <1>1, <1>2, <1>3, <1>7 DEF Sent
<1>9. Len(<<>>) < RequestHeaderSize  BY EmptySeq DEF RequestHeaderSize
<1>10. AtSendBody'
  BY <1>1, <1>2, <1>3, <1>4, <1>6, <1>8, <1>9 DEF AtReadAck, AtSendBody, Answering, Rest
<1>11. Inbound' /\ Counted' /\ Tidy'
  BY <1>1, <1>2 DEF Inbound, Counted, Tidy, Streams, Accepted
<1> QED  BY <1>8, <1>10, <1>11 DEF Streams, Outbound
-----------------------------------------------------------------------------
(* What the calls returned and what the handler ran.                       *)

LEMMA Domains ==
    ASSUME Inv
    PROVE  /\ DOMAIN calls = 1 .. Len(calls) /\ DOMAIN log = 1 .. Len(log)
           /\ DOMAIN results = 1 .. Len(results)
BY LenProperties DEF Inv, TypeOK

LEMMA Counts ==
    ASSUME Inv
    PROVE  /\ Len(results) <= Len(calls)
           /\ cpc \in CallStates => Len(calls) = Len(results) + 1
           /\ cpc \notin CallStates => Len(calls) = Len(results)
<1>1. Len(calls) \in Nat /\ Len(results) \in Nat  BY Types
<1> QED  BY <1>1 DEF Inv, OneResultPerCall

LEMMA HistorySame ==
    ASSUME History, UNCHANGED <<calls, log, peer, results, signals>>,
           cpc = "closed" => cpc' = "closed"
    PROVE  History'
BY DEF History, AllOk, Logged, ExecutedAsSent, OkMeansExecuted, StatusIsTheHandlers

\* A call returns.  An Ok needs that the call was run with status Ok, a
\* refusal that its status is the handler's.
LEMMA HistoryReturns ==
    ASSUME Inv, History, cpc \in CallStates, UNCHANGED <<calls, log, peer, signals>>,
           NEW err \in Errors, NEW status \in Byte, NEW data \in Seq(Byte),
           Returns(err, status, data),
           err = "none" => /\ Ran /\ Last.status = StatusOk
                           /\ (Current.answer /\ ~peer.none) => data = Last.reply,
           err = "response" /\ Matched => \/ Ran /\ status = Last.status
                                          \/ Current.command = Ping /\ status = InvalidDataSize
    PROVE  History'
<1> DEFINE r == [err |-> err, status |-> status, data |-> data]
           n == Len(results) + 1
<1>1. results' = Append(results, r) /\ (cpc' # "closed" => err = "none")  BY DEF Returns
<1>2. r.err = err /\ r.status = status /\ r.data = data  OBVIOUS
<1>3. results \in Seq([err : Errors, status : Byte, data : Seq(Byte)])
      /\ r \in [err : Errors, status : Byte, data : Seq(Byte)]
  BY DEF Inv, TypeOK
<1> HIDE DEF r
<1>4. /\ Len(results') = n /\ results'[n] = r /\ Len(results) \in Nat
      /\ \A j \in 1 .. Len(results) : results'[j] = results[j]
      /\ results' \in Seq([err : Errors, status : Byte, data : Seq(Byte)])
  BY <1>1, <1>3, AppendProperties, LenProperties
<1>5. DOMAIN results' = 1 .. n /\ DOMAIN results = 1 .. Len(results)
  BY <1>3, <1>4, LenProperties
<1>6. Len(calls) = n /\ Len(log) \in Nat /\ DOMAIN calls = 1 .. Len(calls) /\ DOMAIN log = 1 .. Len(log)
  <2>1. Len(log) \in Nat  BY Types
  <2>2. Len(calls) = n  BY Counts
  <2> QED  BY <2>1, <2>2, Domains, Zenon
<1>7. \A j \in 1 .. n : j = n \/ j \in 1 .. Len(results)  BY <1>4
<1>8. Current = calls[n]  BY <1>6 DEF Current
<1>9. Ran => Len(log) = n /\ Last = log[n] /\ n \in DOMAIN log
  BY <1>4, <1>6 DEF Ran, Last
<1>10. AllOk'
  <2> SUFFICES ASSUME cpc' # "closed", NEW j \in 1 .. n PROVE results'[j].err = "none"
    BY <1>5 DEF AllOk
  <2>1. cpc # "closed"  BY DEF CallStates
  <2>2. CASE j = n  BY <1>1, <1>2, <1>4, <2>2
  <2>3. CASE j \in 1 .. Len(results)
    BY <1>4, <1>5, <2>1, <2>3 DEF History, AllOk
  <2> QED  BY <1>7, <2>2, <2>3
<1>11. Logged' /\ ExecutedAsSent'  BY DEF History, Logged, ExecutedAsSent
<1>12. OkMeansExecuted'
  <2> SUFFICES ASSUME NEW j \in 1 .. n, results'[j].err = "none"
               PROVE  /\ j \in DOMAIN log /\ log[j].status = StatusOk
                      /\ (calls[j].answer /\ ~peer.none) => results'[j].data = log[j].reply
    BY <1>5 DEF OkMeansExecuted
  <2>1. CASE j = n  BY <1>2, <1>4, <1>8, <1>9, <2>1
  <2>2. CASE j \in 1 .. Len(results)
    BY <1>4, <1>5, <2>2 DEF History, OkMeansExecuted
  <2> QED  BY <1>7, <2>1, <2>2
<1>13. StatusIsTheHandlers'
  <2> SUFFICES ASSUME NEW j \in 1 .. n, results'[j].err = "response", ~peer.old,
                      \A i \in 1 .. j : calls[i].answer
               PROVE  \/ j \in DOMAIN log /\ results'[j].status = log[j].status
                      \/ calls[j].command = Ping /\ results'[j].status = InvalidDataSize
    BY <1>5 DEF StatusIsTheHandlers
  <2>1. CASE j = n
    <3>1. Matched  BY <1>6, <2>1 DEF Matched
    <3> QED  BY <1>2, <1>4, <1>8, <1>9, <2>1, <3>1
  <2>2. CASE j \in 1 .. Len(results)
    BY <1>4, <1>5, <2>2 DEF History, StatusIsTheHandlers
  <2> QED  BY <1>7, <2>1, <2>2
<1> QED  BY <1>10, <1>11, <1>12, <1>13 DEF History

\* The exchange fails for a reason that is not a status: the client has gone,
\* and says no more than that.
LEMMA FailsCloses ==
    ASSUME Inv, NEW err \in Errors \ {"none"}, NEW status, ExchangeFails(err, status)
    PROVE  cpc' = "closed" /\ UNCHANGED <<calls, reply, pings>>
BY DEF ExchangeFails, Returns

LEMMA HistoryFails ==
    ASSUME Inv, History, UNCHANGED <<log, peer, signals>>,
           NEW err \in Errors \ {"none"}, NEW status \in Byte, ExchangeFails(err, status),
           err = "response" /\ cpc \in CallStates /\ Matched =>
               \/ Ran /\ status = Last.status
               \/ Current.command = Ping /\ status = InvalidDataSize
    PROVE  History'
<1>1. cpc' = "closed" /\ calls' = calls  BY FailsCloses
<1>2. CASE cpc \in CallStates
  <2>1. InCall  BY <1>2, CurrentType
  <2>2. Returns(err, status, <<>>) /\ <<>> \in Seq(Byte) /\ err \in Errors /\ err # "none"
    BY <2>1, EmptyStream DEF ExchangeFails
  <2> QED  BY <1>1, <1>2, <2>2, HistoryReturns
<1>3. CASE cpc \notin CallStates
  <2>1. ~InCall  BY <1>3, NoCall
  <2>2. results' = results  BY <2>1 DEF ExchangeFails
  <2> QED  BY <1>1, <2>2, HistorySame
<1> QED  BY <1>2, <1>3

LEMMA HandleMessageHistory ==
    ASSUME Inv, Streams, History, NEW c \in Command, NEW b \in Body, NEW a \in Answers,
           HandleMessage(c, b, a)
    PROVE  History'
<1>1. /\ cpc = "idle" /\ UNCHANGED <<log, peer, results, signals>>
      /\ calls' = Append(calls, [command |-> c, body |-> b, answer |-> a])
  BY DEF HandleMessage, serverVars
<1>2. /\ Len(calls') = Len(calls) + 1 /\ Len(calls) \in Nat /\ Len(log) \in Nat
      /\ Len(results) \in Nat /\ Len(results) <= Len(calls)
      /\ \A i \in 1 .. Len(calls) : calls'[i] = calls[i]
      /\ DOMAIN log = 1 .. Len(log) /\ DOMAIN results = 1 .. Len(results)
  <2> DEFINE C == [command : Command, body : Body, answer : Answers]
  <2>1. calls \in Seq(C) /\ [command |-> c, body |-> b, answer |-> a] \in C  BY DEF Inv, TypeOK
  <2> HIDE DEF C
  <2>2. /\ Len(calls') = Len(calls) + 1
        /\ \A i \in 1 .. Len(calls) : calls'[i] = calls[i]
    BY <1>1, <2>1, AppendProperties
  <2>3. Len(calls) \in Nat /\ Len(log) \in Nat /\ Len(results) \in Nat  BY Types
  <2>4. Len(results) <= Len(calls)  BY Counts
  <2> QED  BY <2>2, <2>3, <2>4, Domains, Zenon
<1>3. Len(log) <= Len(calls)  BY DEF Streams, Counted
<1>4. AllOk' /\ Logged'  BY <1>1 DEF History, AllOk, Logged
<1>5. ExecutedAsSent'  BY <1>1, <1>2, <1>3 DEF History, ExecutedAsSent
<1>6. OkMeansExecuted'
  <2>1. \A j \in DOMAIN results : calls'[j] = calls[j]  BY <1>2
  <2> QED  BY <1>1, <2>1 DEF History, OkMeansExecuted
<1>7. StatusIsTheHandlers'
  <2>1. \A j \in DOMAIN results : \A i \in 1 .. j : calls'[i] = calls[i]  BY <1>2
  <2>2. \A j \in DOMAIN results : calls'[j] = calls[j]  BY <1>2
  <2> QED  BY <1>1, <2>1, <2>2 DEF History, StatusIsTheHandlers
<1> QED  BY <1>4, <1>5, <1>6, <1>7 DEF History

LEMMA RunHandlerHistory == ASSUME Inv, Streams, History, RunHandler PROVE History'
<1>1. UNCHANGED <<cpc, calls, results, peer, signals>>  BY DEF RunHandler, clientVars
<1>2. /\ Unrun /\ Len(log') = Len(log) + 1
      /\ \A j \in 1 .. Len(log) : log'[j] = log[j]
      /\ DOMAIN log = 1 .. Len(log) /\ DOMAIN log' = 1 .. Len(log) + 1
      /\ Last'.command = Current.command /\ Last'.data = Current.body
      /\ Last'.status \in {StatusOk, StatusFinish, StatusError}
      /\ Last'.reply \in Reply \cup {<<>>}
  BY HandlerRuns
<1>3. Len(log) \in Nat /\ Len(calls) \in Nat /\ Len(calls) = Len(log) + 1
  BY <1>2, Types DEF Unrun
<1>4. Last' = log'[Len(log) + 1] /\ Current = calls[Len(log) + 1]
  BY <1>2, <1>3 DEF Last, Current
<1>5. \A j \in DOMAIN log' : j \in DOMAIN log \/ j = Len(log) + 1  BY <1>2, <1>3
<1>6. \A j \in DOMAIN log : j \in DOMAIN log' /\ log'[j] = log[j]  BY <1>2, <1>3
<1>7. AllOk'  BY <1>1 DEF History, AllOk
<1>8. Logged'  BY <1>2, <1>4, <1>5, <1>6 DEF History, Logged
<1>9. ExecutedAsSent'
  <2> SUFFICES ASSUME signals = 0
               PROVE  /\ Len(log') <= Len(calls)
                      /\ \A j \in DOMAIN log' : /\ log'[j].command = calls[j].command
                                                /\ log'[j].data = calls[j].body
    BY <1>1 DEF ExecutedAsSent
  <2> QED  BY <1>2, <1>3, <1>4, <1>5, <1>6 DEF History, ExecutedAsSent
<1>10. OkMeansExecuted'  BY <1>1, <1>6 DEF History, OkMeansExecuted
<1>11. StatusIsTheHandlers'  BY <1>1, <1>6 DEF History, StatusIsTheHandlers
<1> QED  BY <1>7, <1>8, <1>9, <1>10, <1>11 DEF History
-----------------------------------------------------------------------------
(* Every step that is not a send(false) keeps the streams in frame.        *)

\* An exchange that fails while the client reads.
LEMMA FailsReading ==
    ASSUME SizesAnnounced, Inv, Streams, History, c2s' = c2s, UNCHANGED serverVars,
           NEW err \in Errors \ {"none"}, NEW status \in Byte, ExchangeFails(err, status),
           err = "response" /\ cpc \in CallStates /\ Matched =>
               \/ Ran /\ status = Last.status
               \/ Current.command = Ping /\ status = InvalidDataSize
    PROVE  Streams' /\ History'
<1>1. cpc' = "closed" /\ calls' = calls  BY FailsCloses
<1>2. UNCHANGED <<spc, req, body, resp, ignored, log, peer, signals>>  BY DEF serverVars
<1>3. Streams'  BY <1>1, <1>2, ClientGoneReading
<1>4. History'  BY <1>2, HistoryFails
<1> QED  BY <1>3, <1>4

LEMMA ReceiveAckStep ==
    ASSUME SizesAnnounced, Inv, Streams, History, ReceiveAck
    PROVE  Streams' /\ History'
<1>1. /\ cpc = "readAck" /\ ClientTakes /\ c2s' = c2s /\ UNCHANGED serverVars
      /\ UNCHANGED <<log, peer, signals>>
  BY DEF ReceiveAck, ClientTakes, serverVars
<1>2. Taken \in Seq(Byte) /\ Len(Taken) = 1 /\ Taken = Take(s2c, 1) /\ Len(s2c) >= 1
  BY <1>1, ClientTakesType DEF ClientNeeds, DefaultResponseHeaderSize, Taken, ClientTakes
<1> DEFINE ack == DecodeResponseHeader(Taken, TRUE)
<1>3. ack.status = Taken[1] /\ Taken[1] \in Byte  BY <1>2, DecodeResponseType
<1>4. \/ cpc' = "sendData" /\ UNCHANGED <<calls, reply, results, pings>>
      \/ ExchangeFails("response", ack.status) /\ ack.status # StatusOk
  BY DEF ReceiveAck
<1> HIDE DEF ack
<1>5. CASE cpc' = "sendData" /\ UNCHANGED <<calls, reply, results, pings>>
  <2>1. Streams'  BY <1>5, ReceiveAckFrames DEF History
  <2>2. History'  BY <1>1, <1>5, HistorySame
  <2> QED  BY <2>1, <2>2
<1>6. CASE ExchangeFails("response", ack.status) /\ ack.status # StatusOk
  <2>1. s2c # <<>> /\ Taken[1] = s2c[1]
    <3>1. s2c # <<>> /\ s2c \in Seq(Byte) /\ 0 \in Byte /\ <<>> \in Seq(Byte)
      BY <1>2, Types, EmptyStream, StatusBytes
    <3> QED  BY <1>2, <3>1, StartsTail
  <2>2. Matched => Current.command = Ping /\ s2c = <<InvalidDataSize>>
    BY <1>1, <1>3, <1>6, <2>1 DEF Streams, Tidy
  <2>3. Matched => Current.command = Ping /\ ack.status = InvalidDataSize
    BY <1>3, <2>1, <2>2
  <2>4. "response" \in Errors \ {"none"} /\ ack.status \in Byte  BY <1>3 DEF Errors
  <2> QED  BY <1>1, <1>6, <2>3, <2>4, FailsReading
<1> QED  BY <1>4, <1>5, <1>6

LEMMA ReceiveReplyHeaderStep ==
    ASSUME SizesAnnounced, Inv, Streams, History, ReceiveReplyHeader
    PROVE  Streams' /\ History'
<1>1. /\ cpc = "readReply" /\ c2s' = c2s /\ UNCHANGED serverVars
      /\ UNCHANGED <<log, peer, signals>>
  BY DEF ReceiveReplyHeader, ClientTakes, serverVars
<1>2. \/ cpc' = "sendAck" /\ UNCHANGED <<calls, results, pings>>
      \/ ExchangeFails("overflow", 0)
  BY DEF ReceiveReplyHeader
<1>3. CASE cpc' = "sendAck" /\ UNCHANGED <<calls, results, pings>>
  <2>1. Streams'  BY <1>3, ReceiveReplyHeaderFrames DEF History
  <2>2. History'  BY <1>1, <1>3, HistorySame
  <2> QED  BY <2>1, <2>2
<1>4. CASE ExchangeFails("overflow", 0)
  <2>1. "overflow" \in Errors \ {"none"} /\ "overflow" # "response" /\ 0 \in Byte
    BY StatusBytes DEF Errors
  <2> QED  BY <1>1, <1>4, <2>1, FailsReading
<1> QED  BY <1>2, <1>3, <1>4

\* A call that returns Ok without reading data was run with status Ok, and
\* the reply of an answered one is empty.
LEMMA EmptyReply ==
    ASSUME SizesAnnounced, Inv, Streams, History, cpc = "sendAck",
           reply.status = StatusOk, reply.data_size = 0
    PROVE  Ran /\ Last.status = StatusOk /\ (Current.answer => Last.reply = <<>>)
<1>1. cpc \in CallStates  BY DEF CallStates
<1>2. Ran /\ Last.status = StatusOk  BY <1>1 DEF Streams, Inbound, Counted
<1>3. Len(log) > 0
  <2>1. Len(calls) > 0  BY <1>1, CurrentType
  <2> QED  BY <1>2, <2>1 DEF Ran
<1>4. Last.reply \in Seq(Byte)  BY <1>3, LastAnswer DEF History
<1>5. Current.answer => Len(Last.reply) = 0  BY <1>2 DEF Streams, Inbound
<1> QED  BY <1>2, <1>4, <1>5, EmptyStream

\* A call whose reply is acknowledged and empty returns; a status that is not
\* Ok is the handler's if no call has left a byte behind.
LEMMA AckReplyStep ==
    ASSUME SizesAnnounced, Inv, Streams, History, AckReply
    PROVE  Streams' /\ History'
<1>1. /\ cpc = "sendAck" /\ cpc \in CallStates /\ UNCHANGED <<calls, log, peer, signals>>
  BY DEF AckReply, serverVars, CallStates
<1>2. Streams'  BY AckReplyFrames DEF History
<1>3. /\ reply.status \in Byte /\ reply.data_size \in Nat /\ <<>> \in Seq(Byte)
      /\ {"response", "none"} \subseteq Errors /\ StatusOk \in Byte
  BY EmptyStream, StatusBytes DEF Inv, TypeOK, Errors
<1>4. CASE reply.status # StatusOk
  <2>1. Returns("response", reply.status, <<>>)  BY <1>4 DEF AckReply
  <2>2. Matched => Ran /\ reply.status = Last.status  BY <1>1 DEF Streams, Tidy, Inbound
  <2>3. History'  BY <1>1, <1>3, <2>1, <2>2, HistoryReturns
  <2> QED  BY <1>2, <2>3
<1>5. CASE reply.status = StatusOk
  <2>1. Ran /\ Last.status = StatusOk
    BY <1>1, <1>5 DEF Streams, Inbound, Counted
  <2>2. CASE reply.data_size = 0
    <3>1. Returns("none", StatusOk, <<>>)  BY <1>5, <2>2 DEF AckReply
    <3>2. Current.answer => Last.reply = <<>>  BY <1>1, <1>5, <2>2, EmptyReply
    <3>3. History'  BY <1>1, <1>3, <2>1, <3>1, <3>2, HistoryReturns
    <3> QED  BY <1>2, <3>3
  <2>3. CASE reply.data_size # 0
    <3>1. cpc' = "readData" /\ results' = results  BY <1>5, <2>3 DEF AckReply
    <3>2. History'  BY <1>1, <3>1, HistorySame
    <3> QED  BY <1>2, <3>2
  <2> QED  BY <2>2, <2>3
<1> QED  BY <1>4, <1>5

LEMMA ReceiveReplyDataStep ==
    ASSUME SizesAnnounced, Inv, Streams, History, ReceiveReplyData
    PROVE  Streams' /\ History'
<1>1. /\ cpc = "readData" /\ cpc \in CallStates /\ ClientTakes
      /\ Returns("none", StatusOk, Taken) /\ UNCHANGED <<calls, log, peer, signals>>
  BY DEF ReceiveReplyData, ClientTakes, serverVars, CallStates
<1>2. Streams'  BY ReceiveReplyDataFrames DEF History
<1>3. Ran /\ Last.status = StatusOk /\ Taken = Last.reply  BY <1>1, ReplyTaken DEF History
<1>4. Taken \in Seq(Byte)  BY <1>1, ClientTakesType
<1>5. "none" \in Errors /\ StatusOk \in Byte  BY StatusBytes DEF Errors
<1>6. History'  BY <1>1, <1>3, <1>4, <1>5, HistoryReturns
<1> QED  BY <1>2, <1>6

LEMMA PongStep ==
    ASSUME SizesAnnounced, Inv, Streams, History,
           ReceivePong \/ ReceivePongTail \/ PongTailTimeout
    PROVE  Streams' /\ History'
<1>1. /\ cpc \in {"readPong", "pongTail"} /\ c2s' = c2s /\ UNCHANGED serverVars
      /\ UNCHANGED <<log, peer, signals>> /\ cpc \notin CallStates
  BY DEF ReceivePong, ReceivePongTail, PongTailTimeout, ClientTakes, serverVars, CallStates
<1>2. \/ cpc' = "pongTail" /\ ReceivePong /\ UNCHANGED <<calls, results>>
      \/ cpc' = "idle" /\ (ReceivePongTail \/ PongTailTimeout) /\ UNCHANGED <<calls, results>>
      \/ cpc = "readPong" /\ ClientTakes /\ ExchangeFails("response", Taken[1])
      \/ ExchangeFails("io", 0)
  BY DEF ReceivePong, ReceivePongTail, PongTailTimeout
<1>3. CASE cpc' = "pongTail" /\ ReceivePong /\ UNCHANGED <<calls, results>>
  <2>1. Streams'  BY <1>3, ReceivePongFrames
  <2>2. History'  BY <1>1, <1>3, HistorySame
  <2> QED  BY <2>1, <2>2
<1>4. CASE cpc' = "idle" /\ (ReceivePongTail \/ PongTailTimeout) /\ UNCHANGED <<calls, results>>
  <2>1. Streams'  BY <1>4, PongTailFrames
  <2>2. History'  BY <1>1, <1>4, HistorySame
  <2> QED  BY <2>1, <2>2
<1>5. CASE cpc = "readPong" /\ ClientTakes /\ ExchangeFails("response", Taken[1])
  <2>1. Taken \in Seq(Byte) /\ Len(Taken) = 1
    BY <1>5, ClientTakesType DEF ClientNeeds, DefaultResponseHeaderSize
  <2>2. Taken[1] \in Byte  BY <2>1, DecodeResponseType
  <2>3. "response" \in Errors \ {"none"}  BY DEF Errors
  <2> QED  BY <1>1, <1>5, <2>2, <2>3, FailsReading
<1>6. CASE ExchangeFails("io", 0)
  <2>1. "io" \in Errors \ {"none"} /\ "io" # "response" /\ 0 \in Byte
    BY StatusBytes DEF Errors
  <2> QED  BY <1>1, <1>6, <2>1, FailsReading
<1> QED  BY <1>2, <1>3, <1>4, <1>5, <1>6

LEMMA ClientBreaks ==
    ASSUME SizesAnnounced, Inv, Streams, History,
           ClientEof \/ ClientReadFails \/ ClientWriteFails
    PROVE  Streams' /\ History'
<1>1. \A e \in {"closed", "midFrame", "io", "timeout"} :
          e \in Errors \ {"none"} /\ e # "response"
  BY DEF Errors
<1>2. 0 \in Byte  BY StatusBytes
<1>3. CASE ClientEof \/ ClientReadFails
  <2>1. c2s' = c2s /\ UNCHANGED serverVars  BY <1>3 DEF ClientEof, ClientReadFails
  <2>2. PICK e \in {"closed", "midFrame", "io", "timeout"} : ExchangeFails(e, 0)
    BY <1>3 DEF ClientEof, ClientReadFails
  <2> QED  BY <1>1, <1>2, <2>1, <2>2, FailsReading
<1>4. CASE ClientWriteFails
  <2>1. PICK k \in 0 .. Len(ClientOut), e \in {"io", "timeout"} :
            c2s' = c2s \o Take(ClientOut, k) /\ ExchangeFails(e, 0)
    BY <1>4 DEF ClientWriteFails
  <2>2. UNCHANGED <<spc, req, body, resp, ignored, log, peer, signals>>
    BY <1>4 DEF ClientWriteFails, serverVars
  <2>3. e \in Errors \ {"none"} /\ e # "response"  BY <1>1
  <2>4. cpc' = "closed" /\ calls' = calls  BY <2>1, <2>3, FailsCloses
  <2>5. Streams'  BY <2>1, <2>2, <2>4, ClientGone
  <2>6. History'  BY <1>2, <2>1, <2>2, <2>3, HistoryFails
  <2> QED  BY <2>5, <2>6
<1> QED  BY <1>3, <1>4

LEMMA ClientStep ==
    ASSUME SizesAnnounced, Inv, Streams, History, ClientProgress \/ StartPing \/ Disconnect
    PROVE  Streams' /\ History'
<1>1. CASE SendRequestHeader \/ SendPing \/ SendRequestData
  <2>1. Streams'  BY <1>1, SendHeaderFrames, SendRequestDataFrames
  <2>2. UNCHANGED <<calls, log, peer, results, signals>> /\ cpc # "closed"
    BY <1>1 DEF SendRequestHeader, SendPing, SendRequestData, ClientSends, serverVars
  <2> QED  BY <2>1, <2>2, HistorySame
<1>2. CASE StartPing
  <2>1. UNCHANGED <<calls, log, peer, results, signals>> /\ cpc # "closed"
    BY <1>2 DEF StartPing, serverVars
  <2> QED  BY <1>2, <2>1, StartPingFrames, HistorySame
<1>3. CASE Disconnect
  <2>1. /\ UNCHANGED <<calls, log, peer, results, signals>> /\ cpc' = "closed" /\ c2s' = c2s
        /\ UNCHANGED <<spc, req, body, resp, ignored>>
    BY <1>3 DEF Disconnect, serverVars
  <2>2. Streams'  BY <2>1, ClientGoneReading
  <2> QED  BY <2>1, <2>2, HistorySame
<1> QED
  BY <1>1, <1>2, <1>3, ReceiveAckStep, ReceiveReplyHeaderStep, AckReplyStep, ReceiveReplyDataStep,
     PongStep, ClientBreaks DEF ClientProgress

LEMMA ServerStep ==
    ASSUME SizesAnnounced, Inv, Streams, History,
           ServerProgress \/ ServerWriteFails \/ ServerReadFails \/ Shutdown
    PROVE  Streams' /\ History'
<1>1. Logged  BY DEF History
<1>2. CASE RunHandler  BY <1>2, RunHandlerFrames, RunHandlerHistory
<1>3. CASE ServerEof \/ ServerReadFails
  <2>1. /\ TransportFails /\ spc # "closed" /\ UNCHANGED <<clientVars, c2s, s2c>>
    BY <1>3 DEF ServerEof, ServerReadFails, ServerReading
  <2>2. UNCHANGED <<cpc, calls, log, peer, results, signals>>  BY <2>1 DEF TransportFails, clientVars
  <2>3. Streams'  BY <1>1, <2>1, TransportFailsReading
  <2> QED  BY <2>2, <2>3, HistorySame
<1>4. CASE ServerWriteFails
  <2>1. PICK k \in 0 .. Len(ServerOut) : s2c' = s2c \o Take(ServerOut, k)
    BY <1>4 DEF ServerWriteFails
  <2>2. TransportFails /\ spc # "closed" /\ c2s' = c2s /\ UNCHANGED clientVars
    BY <1>4 DEF ServerWriteFails, ServerWriting
  <2>3. UNCHANGED <<cpc, calls, log, peer, results, signals>>  BY <2>2 DEF TransportFails, clientVars
  <2>4. Streams'  BY <1>1, <2>1, <2>2, TransportFailsFrames
  <2> QED  BY <2>3, <2>4, HistorySame
<1>5. CASE Shutdown
  <2>1. PICK k \in 0 .. Len(ServerOut) : s2c' = s2c \o Take(ServerOut, k)
    BY <1>5 DEF Shutdown
  <2>2. /\ spc # "closed" /\ spc' = "closed"
        /\ UNCHANGED <<cpc, calls, reply, log, peer, results, signals>>
    BY <1>5 DEF Shutdown, clientVars
  <2>3. Streams'  BY <1>1, <2>1, <2>2, ServerGone
  <2> QED  BY <2>2, <2>3, HistorySame
<1>6. CASE ReadCommand \/ ReceiveRequestData \/ ServerSends \/ ReceiveReplyAck
  <2>1. UNCHANGED <<cpc, calls, log, peer, results, signals>>
    BY <1>6 DEF ReadCommand, ReceiveRequestData, ServerSends, ReceiveReplyAck, ServerTakes,
       TransportFails, clientVars
  <2>2. Streams'
    BY <1>1, <1>6, ReadCommandFrames, ReceiveRequestDataFrames, ServerSendsFrames,
       ReceiveReplyAckFrames
  <2> QED  BY <2>1, <2>2, HistorySame
<1> QED  BY <1>2, <1>3, <1>4, <1>5, <1>6 DEF ServerProgress

LEMMA Stutter ==
    ASSUME Inv, Streams, History, UNCHANGED vars
    PROVE  Streams' /\ History'
<1>1. /\ UNCHANGED <<calls, log, peer, results, signals, cpc, reply, c2s, s2c>>
      /\ UNCHANGED <<spc, req, body, resp, ignored>>
  BY DEF vars, clientVars, serverVars
<1>2. /\ Current' = Current /\ Header' = Header /\ PingHeader' = PingHeader /\ Ack' = Ack
      /\ Last' = Last /\ ReplyHeader' = ReplyHeader
      /\ Ran' <=> Ran
      /\ Unrun' <=> Unrun
      /\ Matched' <=> Matched
  BY <1>1, SameCalls
<1>3. Inbound' /\ Counted' /\ Tidy'
  BY <1>1, <1>2 DEF Inbound, Counted, Tidy, Streams, Accepted
<1>4. Outbound'
  BY <1>1, <1>2 DEF Streams, Outbound, AtReadCommand, AtAck, AtReceiveData, AtRun,
     AtSendHeader, Working, AtReadAck, AtSendBody, Answering, Begun, Rest, JustAcked, Settled, Sent
<1>5. History'  BY <1>1, HistorySame
<1> QED  BY <1>3, <1>4, <1>5 DEF Streams

LEMMA InitFraming == SizesAnnounced /\ Init => FramingInv
<1> SUFFICES ASSUME Init PROVE FramingInv  OBVIOUS
<1>1. /\ cpc = "idle" /\ spc = "readCommand" /\ calls = <<>> /\ results = <<>> /\ log = <<>>
      /\ c2s = <<>> /\ s2c = <<>> /\ signals = 0
  BY DEF Init
<1>2. Inv  BY InitInv
<1>3. Stale(<<>>)  BY EmptyStream
<1>4. Ran  BY <1>1 DEF Ran
<1>5. Streams
  <2>1. Inbound  BY <1>1, <1>3 DEF Inbound
  <2>2. AtReadCommand  BY <1>1, <1>3, <1>4 DEF AtReadCommand, Waiting, Settled, CallStates, Sent
  <2>3. Counted
    <3>1. Len(log) <= Len(calls)  BY <1>1, EmptySeq
    <3> QED  BY <1>1, <1>4, <3>1 DEF Counted, CallStates
  <2>4. Tidy  BY <1>1 DEF Tidy
  <2> QED  BY <1>1, <2>1, <2>2, <2>3, <2>4 DEF Streams, Outbound
<1>6. History
  <2>1. DOMAIN results = {} /\ DOMAIN log = {} /\ Len(log) <= Len(calls)
    BY <1>1, EmptySeq
  <2> QED  BY <2>1 DEF History, AllOk, Logged, ExecutedAsSent, OkMeansExecuted, StatusIsTheHandlers
<1> QED  BY <1>2, <1>5, <1>6 DEF FramingInv

LEMMA NextFraming == SizesAnnounced /\ FramingInv /\ [Next]_vars => FramingInv'
<1> SUFFICES ASSUME SizesAnnounced, FramingInv, [Next]_vars PROVE FramingInv'  OBVIOUS
<1>1. Inv /\ Inv'  BY NextInv DEF FramingInv
<1>2. signals \in Nat  BY <1>1 DEF Inv, TypeOK
<1>3. CASE SpuriousSignal
  <2>1. signals' # 0  BY <1>2, <1>3 DEF SpuriousSignal
  <2> QED  BY <1>1, <2>1 DEF FramingInv
<1>4. CASE UNCHANGED vars \/ (Next /\ ~SpuriousSignal)
  <2> SUFFICES ASSUME signals' = 0 PROVE Streams' /\ History'  BY <1>1 DEF FramingInv
  <2>1. CASE UNCHANGED vars
    <3>1. signals = 0  BY <2>1 DEF vars, serverVars
    <3>2. Streams /\ History  BY <3>1 DEF FramingInv
    <3> QED  BY <1>1, <2>1, <3>2, Stutter
  <2>2. CASE \E c \in Command, b \in Body, a \in Answers : HandleMessage(c, b, a)
    <3>1. signals = 0  BY <2>2 DEF HandleMessage, serverVars
    <3>2. Streams /\ History  BY <3>1 DEF FramingInv
    <3> QED  BY <1>1, <2>2, <3>2, HandleMessageFrames, HandleMessageHistory
  <2>3. CASE ClientProgress \/ StartPing \/ Disconnect \/ ClientReadFails \/ ClientWriteFails
    <3>1. signals = 0
      BY <2>3 DEF ClientProgress, StartPing, Disconnect, SendRequestHeader, ReceiveAck,
         SendRequestData, ReceiveReplyHeader, AckReply, ReceiveReplyData, SendPing, ReceivePong,
         ReceivePongTail, PongTailTimeout, ClientEof, ClientReadFails, ClientWriteFails,
         ClientSends, ClientTakes, serverVars
    <3>2. Streams /\ History  BY <3>1 DEF FramingInv
    <3> QED  BY <1>1, <2>3, <3>2, ClientStep, ClientBreaks
  <2>4. CASE ServerProgress \/ ServerWriteFails \/ ServerReadFails \/ Shutdown
    <3>1. signals = 0
      BY <2>4 DEF ServerProgress, ReadCommand, ReceiveRequestData, RunHandler, ServerSends,
         ReceiveReplyAck, ServerEof, ServerWriteFails, ServerReadFails, Shutdown, TransportFails
    <3>2. Streams /\ History  BY <3>1 DEF FramingInv
    <3> QED  BY <1>1, <2>4, <3>2, ServerStep
  <2> QED  BY <1>4, <2>1, <2>2, <2>3, <2>4 DEF Next, Failure, Finished
<1> QED  BY <1>3, <1>4

\* The framing invariant holds in every state of every connection.
THEOREM FramingInvariance == SizesAnnounced => (Spec => []FramingInv)
<1> SUFFICES ASSUME SizesAnnounced PROVE Spec => []FramingInv  OBVIOUS
<1>1. Init => FramingInv  BY InitFraming
<1>2. FramingInv /\ [Next]_vars => FramingInv'  BY NextFraming
<1> QED  BY <1>1, <1>2, PTL DEF Spec

-----------------------------------------------------------------------------
(* What the framing invariant says of a connection.                        *)

\* The handler runs the calls in order, at most once each, and with the bytes
\* that were passed to handle_message: for the commands, payloads and replies
\* that SizesAnnounced admits, and wherever a write of either side was cut
\* short.
THEOREM CommandsAsSent == SizesAnnounced => (Spec => []ExecutedAsSent)
<1> SUFFICES ASSUME SizesAnnounced PROVE Spec => []ExecutedAsSent  OBVIOUS
<1>1. FramingInv => ExecutedAsSent  BY DEF FramingInv, History, ExecutedAsSent
<1> QED  BY FramingInvariance, <1>1, PTL

\* While nobody sends false through the shutdown handle, an Ok from
\* handle_message means that the handler ran this call with status Ok and,
\* of a call with an answer, that the data is what it returned for this call.
THEOREM OkIsTheHandlers == SizesAnnounced => (Spec => [](signals = 0 => OkMeansExecuted))
<1> SUFFICES ASSUME SizesAnnounced PROVE Spec => [](signals = 0 => OkMeansExecuted)  OBVIOUS
<1>1. FramingInv => (signals = 0 => OkMeansExecuted)  BY DEF FramingInv, History
<1> QED  BY FramingInvariance, <1>1, PTL

\* Likewise the status an error carries is the handler's for this call, as
\* long as every call so far waited for its answer, or it is the refusal of a
\* request that took the ping's command.
THEOREM RefusalIsTheHandlers ==
    SizesAnnounced => (Spec => [](signals = 0 => StatusIsTheHandlers))
<1> SUFFICES ASSUME SizesAnnounced PROVE Spec => [](signals = 0 => StatusIsTheHandlers)  OBVIOUS
<1>1. FramingInv => (signals = 0 => StatusIsTheHandlers)  BY DEF FramingInv, History
<1> QED  BY FramingInvariance, <1>1, PTL

\* When both sides are between exchanges, after calls that read all that the
\* server sends them, both streams are empty: the next header starts where
\* the peer looks for one.
THEOREM FrameBoundary == SizesAnnounced => (Spec => []InSync)
<1> SUFFICES ASSUME SizesAnnounced PROVE Spec => []InSync  OBVIOUS
<1>1. FramingInv => InSync
  <2> SUFFICES ASSUME FramingInv, cpc = "idle", spc = "readCommand", signals = 0, ~peer.old,
                      \A j \in DOMAIN calls : calls[j].answer = ~peer.none
               PROVE  c2s = <<>> /\ s2c = <<>>
    BY DEF InSync
  <2>1. Inv /\ Streams  BY DEF FramingInv
  <2>2. Matched
    <3> SUFFICES ASSUME NEW i \in DOMAIN calls PROVE calls[i].answer \/ peer.none  BY DEF Matched
    <3> QED  BY <2>1, Types
  <2>3. s2c = <<>>  BY <2>1, <2>2 DEF Streams, Tidy
  <2>4. c2s = <<>>
    BY <2>1 DEF Streams, Outbound, AtReadCommand, Asking, Sent
  <2> QED  BY <2>3, <2>4
<1> QED  BY FramingInvariance, <1>1, PTL

\* What a server that reads is waiting for has been sent, or the client has
\* what it waits for.
LEMMA TurnsAgree ==
    ASSUME SizesAnnounced, Inv, Streams, History, Compatible, ~ignored
    PROVE  ~Stalled
<1> SUFFICES ASSUME Stalled PROVE FALSE  OBVIOUS
<1>1. /\ cpc \in {"readAck", "readReply", "readData", "readPong"} /\ Len(s2c) < ClientNeeds
      /\ spc \in {"readCommand", "receiveData", "readAck"} /\ Len(c2s) < ServerNeeds
  BY DEF Stalled, ClientReading, ServerReading
<1>2. /\ c2s \in Seq(Byte) /\ s2c \in Seq(Byte) /\ Len(c2s) \in Nat /\ Len(s2c) \in Nat
      /\ (Len(s2c) = 0 <=> s2c = <<>>)
  <2>1. c2s \in Seq(Byte) /\ s2c \in Seq(Byte)  BY Types
  <2> QED  BY <2>1, EmptyStream, LenProperties
<1>3. cpc \in {"readAck", "readPong"} => s2c = <<>>
  <2>1. cpc \in {"readAck", "readPong"} => ClientNeeds = 1
    BY DEF ClientNeeds, DefaultResponseHeaderSize
  <2> QED  BY <1>1, <1>2, <2>1
<1>4. cpc # "readPong" =>
          /\ Len(calls) > 0 /\ Current.body \in Seq(Byte) /\ Current.answer \in BOOLEAN
          /\ Current.command # Ping /\ (peer.none => ~Current.answer)
          /\ Header \in Seq(Byte) /\ Len(Header) = RequestHeaderSize
  <2> SUFFICES ASSUME cpc # "readPong"
               PROVE  /\ Len(calls) > 0 /\ Current.body \in Seq(Byte) /\ Current.answer \in BOOLEAN
                      /\ Current.command # Ping /\ (peer.none => ~Current.answer)
                      /\ Header \in Seq(Byte) /\ Len(Header) = RequestHeaderSize
    OBVIOUS
  <2>1. cpc \in CallStates  BY <1>1 DEF CallStates
  <2>2. Len(calls) > 0 /\ Len(calls) \in DOMAIN calls
    <3>1. Len(calls) \in Nat \ {0}  BY <2>1, CurrentType
    <3> QED  BY <3>1, Domains
  <2>3. Current.command # Ping /\ (peer.none => ~Current.answer)
    BY <2>2 DEF Compatible, Current
  <2> QED  BY <2>2, <2>3, LastCall
<1>5. Sent \in Seq(Byte) /\ Len(Sent) \in Nat
      /\ (cpc \in {"readAck", "readPong"} => Len(Sent) = RequestHeaderSize)
  <2>1. CASE cpc = "readAck"  BY <1>4, <2>1, LenProperties DEF Sent
  <2>2. CASE cpc = "readPong"  BY <2>2, PingFrame, LenProperties DEF Sent
  <2>3. CASE cpc \notin {"readAck", "readPong"}  BY <2>3, EmptyStream DEF Sent
  <2> QED  BY <2>1, <2>2, <2>3
<1>6. CASE spc = "readCommand"
  <2>1. ServerNeeds = RequestHeaderSize  BY <1>6 DEF ServerNeeds
  <2>2. ~(cpc \in {"readAck", "readPong"} /\ c2s = Sent)  BY <1>1, <1>5, <2>1
  <2>3. cpc = "readData" /\ s2c = Last.reply
    BY <1>1, <1>3, <1>4, <1>6, <2>2 DEF Streams, Outbound, AtReadCommand, Waiting, Asking
  <2>4. ClientNeeds = Len(Last.reply)
    BY <2>3 DEF Streams, Inbound, ClientNeeds
  <2> QED  BY <1>1, <1>2, <2>3, <2>4
<1>7. CASE spc = "receiveData"
  <2>1. ServerNeeds = Len(Current.body)
    BY <1>7 DEF ServerNeeds, Streams, Outbound, AtReceiveData, Begun
  <2>2. c2s = Current.body
    BY <1>1, <1>3, <1>7 DEF Streams, Outbound, AtReceiveData, JustAcked
  <2> QED  BY <1>1, <1>2, <2>1, <2>2
<1>8. CASE spc = "readAck"
  <2>1. c2s = <<>>
    <3>1. ServerNeeds = 1  BY <1>8 DEF ServerNeeds, DefaultResponseHeaderSize
    <3> QED  BY <1>1, <1>2, <3>1, EmptyStream
  <2>2. c2s # Ack /\ c2s # Ack \o Sent
    <3>1. Ack # <<>> /\ Ack \o Sent # <<>>  BY <1>5, AckByte, AckConcat
    <3> QED  BY <2>1, <3>1
  <2>3. cpc = "readReply" /\ s2c = ReplyHeader /\ Len(log) > 0
    BY <1>1, <1>3, <1>8, <2>2 DEF Streams, Outbound, AtReadAck, Answering, Asking
  <2>4. ClientNeeds = IF Current.answer THEN 5 ELSE 1
    <3>1. ClientNeeds = ResponseEncodedLen(FALSE, Current.answer)  BY <2>3 DEF ClientNeeds
    <3> QED
      BY <1>4, <2>3, <3>1 DEF ResponseEncodedLen, DefaultResponseHeaderSize, ResponseHeaderFullSize
  <2>5. /\ peer.none => Len(ReplyHeader) = 1
        /\ ~peer.none => Len(ReplyHeader) = 5
    BY <2>3, ReplyFrame DEF History
  <2>6. peer.none => ~Current.answer  BY <1>4, <2>3
  <2>7. ClientNeeds <= Len(ReplyHeader)
    <3>1. CASE peer.none
      <4>1. ClientNeeds = 1 /\ Len(ReplyHeader) = 1  BY <2>4, <2>5, <2>6, <3>1
      <4> QED  BY <4>1
    <3>2. CASE ~peer.none
      <4>1. Len(ReplyHeader) = 5  BY <2>5, <3>2
      <4>2. ClientNeeds = 5 \/ ClientNeeds = 1  BY <2>4
      <4> QED  BY <4>1, <4>2
    <3> QED  BY <3>1, <3>2
  <2> QED  BY <1>1, <1>2, <2>3, <2>7, NeedsType
<1> QED  BY <1>1, <1>6, <1>7, <1>8

\* Client and server never wait for each other, whatever was cut short before,
\* for payloads below 4 GiB and replies below 16 MiB or from 32 MiB to 4 GiB,
\* which is what SizesAnnounced admits.
THEOREM TurnsAlwaysAgree == SizesAnnounced => (Spec => []NoStall)
<1> SUFFICES ASSUME SizesAnnounced PROVE Spec => []NoStall  OBVIOUS
<1>1. FramingInv => NoStall  BY TurnsAgree DEF FramingInv, NoStall
<1> QED  BY FramingInvariance, <1>1, PTL

-----------------------------------------------------------------------------
(* The connection implements Rpc.  Of the variables of a connection Rpc    *)
(* knows the calls, the log and the results; a step either leaves all      *)
(* three alone or is the making of a call, its execution or its return.    *)

LEMMA StepIsSilent ==
    ASSUME UNCHANGED <<calls, log, results>>
    PROVE  [Promise!Next]_(Promise!vars)
BY DEF Promise!vars

LEMMA CallRefines ==
    ASSUME Inv, History, NEW c \in Command, NEW b \in Body, NEW a \in Answers,
           HandleMessage(c, b, a)
    PROVE  Promise!Call
<1>1. /\ cpc = "idle" /\ UNCHANGED <<log, results>>
      /\ calls' = Append(calls, [command |-> c, body |-> b, answer |-> a])
  BY DEF HandleMessage, serverVars
<1>2. Len(results) = Len(calls)  BY <1>1, Counts DEF CallStates
<1>3. \A j \in DOMAIN results : results[j].err = "none"  BY <1>1 DEF History, AllOk
<1>4. a \in BOOLEAN  BY ConnectionAssumption
<1> QED  BY <1>1, <1>2, <1>3, <1>4 DEF Promise!Call

LEMMA ExecuteRefines ==
    ASSUME Inv, Streams, RunHandler
    PROVE  Promise!Execute
<1>1. /\ Unrun /\ log' = Append(log, Last')
      /\ Last' = [command |-> Current.command, data |-> Current.body,
                  status |-> Last'.status, reply |-> Last'.reply]
      /\ Last'.status \in {StatusOk, StatusFinish, StatusError}
      /\ Last'.reply \in Reply \cup {<<>>}
  BY HandlerRuns
<1> DEFINE st == Last'.status
           re == Last'.reply
<1> HIDE DEF st, re
<1>2. /\ log' = Append(log, [command |-> Current.command, data |-> Current.body,
                             status |-> st, reply |-> re])
      /\ st \in {StatusOk, StatusFinish, StatusError} /\ re \in Reply \cup {<<>>}
  BY <1>1 DEF st, re
<1>3. Len(log) < Len(calls) /\ Current = calls[Len(log) + 1]
  BY <1>1, Types DEF Unrun, Current
<1>4. UNCHANGED <<calls, results>>  BY DEF RunHandler, clientVars
<1> QED  BY <1>2, <1>3, <1>4 DEF Promise!Execute

\* A return is one of the two of Rpc: an error, or the Ok of a call that was
\* run with what the handler returned for it.
LEMMA ReturnRefines ==
    ASSUME Inv, cpc \in CallStates, UNCHANGED <<calls, log>>,
           NEW err \in Errors, NEW status \in Byte, NEW data,
           Returns(err, status, data),
           err # "none" => data = <<>>,
           err = "none" => /\ Ran /\ Last.status = StatusOk /\ status = StatusOk
                           /\ data = IF Current.answer THEN Last.reply ELSE <<>>
    PROVE  Promise!ReturnOk \/ Promise!ReturnErr
<1>1. Len(results) < Len(calls)
  <2>1. Len(calls) \in Nat /\ Len(results) \in Nat  BY Types
  <2> QED  BY <2>1, Counts
<1>2. results' = Append(results, [err |-> err, status |-> status, data |-> data])
  BY DEF Returns
<1>3. CASE err = "none"
  <2>1. /\ Len(log) = Len(calls) /\ log[Len(log)].status = 1 /\ status = 1
        /\ data = IF calls[Len(calls)].answer THEN log[Len(log)].reply ELSE <<>>
    BY <1>3 DEF Ran, Last, Current, StatusOk
  <2> QED  BY <1>1, <1>2, <1>3, <2>1 DEF Promise!ReturnOk
<1>4. CASE err # "none"
  <2>1. err \in Promise!ErrorKind /\ status \in 0 .. 255 /\ data = <<>>
    BY <1>4 DEF Errors, Promise!ErrorKind, Byte
  <2>2. results' = Append(results, [err |-> err, status |-> status, data |-> <<>>])
    BY <1>2, <2>1
  <2>3. \E e \in Promise!ErrorKind, s \in 0 .. 255 :
            results' = Append(results, [err |-> e, status |-> s, data |-> <<>>])
    BY <2>1, <2>2, Zenon
  <2>4. UNCHANGED <<calls, log>>  OBVIOUS
  <2> QED  BY <1>1, <2>3, <2>4, Zenon DEF Promise!ReturnErr
<1> QED  BY <1>3, <1>4

LEMMA FailureRefines ==
    ASSUME Inv, log' = log, NEW err \in Errors \ {"none"}, NEW status \in Byte,
           ExchangeFails(err, status)
    PROVE  [Promise!Next]_(Promise!vars)
<1>1. calls' = calls  BY DEF ExchangeFails
<1>2. CASE cpc \in CallStates
  <2>1. Returns(err, status, <<>>)
    BY <1>2, CurrentType DEF ExchangeFails
  <2> QED  BY <1>1, <1>2, <2>1, ReturnRefines DEF Promise!Next
<1>3. CASE cpc \notin CallStates
  <2>1. results' = results  BY <1>3, NoCall DEF ExchangeFails
  <2> QED  BY <1>1, <2>1, StepIsSilent
<1> QED  BY <1>2, <1>3

LEMMA ClientProgressRefines ==
    ASSUME SizesAnnounced, Inv, Streams, History,
           ClientProgress \/ ClientReadFails \/ ClientWriteFails
    PROVE  [Promise!Next]_(Promise!vars)
<1>1. log' = log
  BY DEF ClientProgress, SendRequestHeader, ReceiveAck, SendRequestData, ReceiveReplyHeader,
     AckReply, ReceiveReplyData, SendPing, ReceivePong, ReceivePongTail, PongTailTimeout,
     ClientEof, ClientReadFails, ClientWriteFails, ClientSends, ClientTakes, serverVars
<1>2. 0 \in Byte /\ StatusOk \in Byte  BY StatusBytes
<1>3. CASE SendRequestHeader \/ SendRequestData \/ SendPing \/ PongTailTimeout
  <2>1. UNCHANGED <<calls, results>>
    BY <1>3 DEF SendRequestHeader, SendRequestData, SendPing, PongTailTimeout
  <2> QED  BY <1>1, <2>1, StepIsSilent
<1>4. CASE UNCHANGED <<calls, results>>  BY <1>1, <1>4, StepIsSilent
<1>5. CASE \E e \in {"overflow", "closed", "midFrame", "io", "timeout"} : ExchangeFails(e, 0)
  <2>1. \A e \in {"overflow", "closed", "midFrame", "io", "timeout"} : e \in Errors \ {"none"}
    BY DEF Errors
  <2> QED  BY <1>1, <1>2, <1>5, <2>1, FailureRefines
<1>6. CASE ReceiveAck \/ ReceivePong
  <2>1. cpc \in {"readAck", "readPong"} /\ ClientTakes  BY <1>6 DEF ReceiveAck, ReceivePong
  <2>2. Taken \in Seq(Byte) /\ Len(Taken) = 1
    BY <2>1, ClientTakesType DEF ClientNeeds, DefaultResponseHeaderSize
  <2> DEFINE ack == DecodeResponseHeader(Taken, TRUE)
  <2>3. ack.status \in Byte /\ Taken[1] \in Byte  BY <2>2, DecodeResponseType
  <2>4. \/ UNCHANGED <<calls, results>>
        \/ ExchangeFails("response", ack.status)
        \/ ExchangeFails("response", Taken[1])
    BY <1>6 DEF ReceiveAck, ReceivePong
  <2> HIDE DEF ack
  <2>5. "response" \in Errors \ {"none"}  BY DEF Errors
  <2> QED  BY <1>1, <1>4, <2>3, <2>4, <2>5, FailureRefines
<1>7. CASE ReceiveReplyHeader \/ ReceivePongTail
  <2>1. UNCHANGED <<calls, results>> \/ ExchangeFails("overflow", 0) \/ ExchangeFails("io", 0)
    BY <1>7 DEF ReceiveReplyHeader, ReceivePongTail
  <2> QED  BY <1>4, <1>5, <2>1
<1>8. CASE AckReply
  <2>1. /\ cpc = "sendAck" /\ cpc \in CallStates /\ calls' = calls
        /\ reply.status \in Byte /\ reply.data_size \in Nat
        /\ {"response", "none"} \subseteq Errors
    BY <1>8 DEF AckReply, CallStates, Inv, TypeOK, Errors
  <2>2. CASE reply.status # StatusOk
    <3>1. Returns("response", reply.status, <<>>)  BY <1>8, <2>2 DEF AckReply
    <3> QED  BY <1>1, <2>1, <3>1, ReturnRefines DEF Promise!Next
  <2>3. CASE reply.status = StatusOk /\ reply.data_size = 0
    <3>1. Returns("none", StatusOk, <<>>)  BY <1>8, <2>3 DEF AckReply
    <3>2. Ran /\ Last.status = StatusOk /\ (Current.answer => Last.reply = <<>>)
      BY <2>1, <2>3, EmptyReply
    <3>3. Current.answer \in BOOLEAN  BY <2>1, CurrentType
    <3>4. <<>> = IF Current.answer THEN Last.reply ELSE <<>>  BY <3>2, <3>3
    <3> QED  BY <1>1, <1>2, <2>1, <3>1, <3>2, <3>4, ReturnRefines DEF Promise!Next
  <2>4. CASE reply.status = StatusOk /\ reply.data_size # 0
    <3>1. results' = results  BY <1>8, <2>4 DEF AckReply
    <3> QED  BY <1>4, <2>1, <3>1
  <2> QED  BY <2>2, <2>3, <2>4
<1>9. CASE ReceiveReplyData
  <2>1. /\ cpc = "readData" /\ cpc \in CallStates /\ calls' = calls /\ ClientTakes
        /\ Returns("none", StatusOk, Taken) /\ "none" \in Errors
    BY <1>9 DEF ReceiveReplyData, CallStates, Errors
  <2>2. Ran /\ Last.status = StatusOk /\ Current.answer /\ Taken = Last.reply
    BY <2>1, ReplyTaken DEF History
  <2>3. Taken = IF Current.answer THEN Last.reply ELSE <<>>  BY <2>2
  <2> QED  BY <1>1, <1>2, <2>1, <2>2, <2>3, ReturnRefines DEF Promise!Next
<1>10. CASE ClientEof \/ ClientReadFails \/ ClientWriteFails
  <2>1. \E e \in {"overflow", "closed", "midFrame", "io", "timeout"} : ExchangeFails(e, 0)
    BY <1>10 DEF ClientEof, ClientReadFails, ClientWriteFails
  <2> QED  BY <1>5, <2>1
<1> QED  BY <1>3, <1>6, <1>7, <1>8, <1>9, <1>10 DEF ClientProgress

LEMMA NextRefines ==
    ASSUME SizesAnnounced, FramingInv, signals = 0, signals' = 0, [Next]_vars
    PROVE  [Promise!Next]_(Promise!vars)
<1>1. Inv /\ Streams /\ History  BY DEF FramingInv
<1>2. CASE \E c \in Command, b \in Body, a \in Answers : HandleMessage(c, b, a)
  BY <1>1, <1>2, CallRefines DEF Promise!Next
<1>3. CASE RunHandler  BY <1>1, <1>3, ExecuteRefines DEF Promise!Next
<1>4. CASE ClientProgress \/ ClientReadFails \/ ClientWriteFails
  BY <1>1, <1>4, ClientProgressRefines
<1>5. CASE StartPing \/ Disconnect \/ Finished \/ UNCHANGED vars
  <2>1. UNCHANGED <<calls, log, results>>
    BY <1>5 DEF StartPing, Disconnect, Finished, vars, clientVars, serverVars
  <2> QED  BY <2>1, StepIsSilent
<1>6. CASE \/ ReadCommand \/ ReceiveRequestData \/ ServerSends \/ ReceiveReplyAck \/ ServerEof
           \/ ServerWriteFails \/ ServerReadFails \/ Shutdown
  <2>1. UNCHANGED <<calls, log, results>>
    BY <1>6 DEF ReadCommand, ReceiveRequestData, ServerSends, ReceiveReplyAck, ServerEof,
       ServerWriteFails, ServerReadFails, Shutdown, ServerTakes, TransportFails, clientVars
  <2> QED  BY <2>1, StepIsSilent
<1>7. CASE SpuriousSignal  BY <1>7 DEF SpuriousSignal
<1> QED
  BY <1>2, <1>3, <1>4, <1>5, <1>6, <1>7 DEF Next, ServerProgress, Failure

\* A connection is a remote procedure call: with its bytes, acknowledgements,
\* pings, timeouts and cut writes hidden, every step of handle_message and of
\* handle_next is the making of a call, its one execution or its one return,
\* in every behaviour in which nobody sends false through the shutdown handle.
THEOREM ConnectionIsRpc == SizesAnnounced => (Spec /\ [](signals = 0) => ImplementsRpc)
<1> SUFFICES ASSUME SizesAnnounced PROVE Spec /\ [](signals = 0) => ImplementsRpc  OBVIOUS
<1>1. Init => Promise!Init  BY DEF Init, Promise!Init
<1>2. FramingInv /\ signals = 0 /\ (signals = 0)' /\ [Next]_vars => [Promise!Next]_(Promise!vars)
  BY NextRefines
<1>3. Spec => []FramingInv  BY FramingInvariance
<1> QED  BY <1>1, <1>2, <1>3, PTL DEF Spec, ImplementsRpc, Promise!Spec
=============================================================================
