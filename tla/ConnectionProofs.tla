-------------------------- MODULE ConnectionProofs --------------------------
(***************************************************************************)
(* One connection, for all commands, payloads and limits.                  *)
(***************************************************************************)
EXTENDS Connection, WireProofs

\* The types alone are not inductive: that the client writes the header of a
\* call needs that there is a call.
Inv == TypeOK /\ OneResultPerCall

\* While an exchange is under way its call is the last one made.
LEMMA CurrentType ==
    ASSUME Inv, cpc \in CallStates
    PROVE  /\ InCall /\ Len(calls) \in Nat \ {0}
           /\ Current \in [command : Command, body : Body, answer : Answers]
           /\ Current.command \in Nat /\ Current.body \in Seq(Byte)
           /\ Len(Current.body) \in Nat /\ Current.answer \in BOOLEAN
<1>1. Len(calls) \in Nat /\ Len(results) \in Nat  BY DEF Inv, TypeOK
<1>2. Len(calls) = Len(results) + 1  BY DEF Inv, OneResultPerCall
<1>3. calls \in Seq([command : Command, body : Body, answer : Answers])
  BY DEF Inv, TypeOK
<1>4. Len(calls) \in 1 .. Len(calls)  BY <1>1, <1>2
<1>5. Current \in [command : Command, body : Body, answer : Answers]
  BY <1>3, <1>4, ElementOfSeq DEF Current
<1>6. /\ Current.command \in Nat /\ Current.body \in Seq(Byte)
      /\ Current.answer \in BOOLEAN
  BY <1>5, ConnectionAssumption
<1>7. Len(Current.body) \in Nat  BY <1>6, LenProperties
<1> QED  BY <1>1, <1>2, <1>5, <1>6, <1>7 DEF InCall

\* Outside an exchange every call has returned.
LEMMA NoCall ==
    ASSUME Inv, cpc \notin CallStates
    PROVE  ~InCall
BY DEF Inv, TypeOK, OneResultPerCall, InCall

\* The headers are bytes.
LEMMA HeaderTypes ==
    /\ \A c, n \in Nat : EncodeRequestHeader(c, n) \in Seq(Byte)
    /\ \A s \in Byte, n \in Nat, d \in BOOLEAN : EncodeResponseHeader(s, n, d) \in Seq(Byte)
<1>1. \A n \in Nat : ToBeBytes(n) \in Seq(Byte)  BY ToBeBytesElements, SMT
<1>2. ASSUME NEW c \in Nat, NEW n \in Nat PROVE EncodeRequestHeader(c, n) \in Seq(Byte)
  BY <1>1, ConcatProperties DEF EncodeRequestHeader
<1>3. ASSUME NEW s \in Byte, NEW n \in Nat, NEW d \in BOOLEAN
      PROVE  EncodeResponseHeader(s, n, d) \in Seq(Byte)
  <2>1. <<s>> \in Seq(Byte)  OBVIOUS
  <2>2. <<s>> \o ToBeBytes(n) \in Seq(Byte)  BY <1>1, <2>1, ConcatProperties
  <2> QED  BY <2>1, <2>2 DEF EncodeResponseHeader
<1> QED  BY <1>2, <1>3

\* What either side writes are bytes.
LEMMA ClientOutType ==
    ASSUME Inv
    PROVE  ClientOut \in Seq(Byte)
<1>1. Ping \in Nat /\ 0 \in Nat /\ StatusOk \in Byte  BY DEF Ping, StatusOk, Byte
<1>2. CASE cpc = "sendHeader"
  BY <1>2, CurrentType, HeaderTypes DEF ClientOut, CallStates
<1>3. CASE cpc = "sendData"
  BY <1>3, CurrentType DEF ClientOut, CallStates
<1>4. CASE cpc = "sendAck"
  <2>1. EncodeResponseHeader(StatusOk, 0, TRUE) \in Seq(Byte)  BY <1>1, HeaderTypes
  <2> QED  BY <1>4, <2>1 DEF ClientOut
<1>5. CASE cpc = "sendPing"
  <2>1. EncodeRequestHeader(Ping, 0) \in Seq(Byte)  BY <1>1, HeaderTypes
  <2> QED  BY <1>5, <2>1 DEF ClientOut
<1>6. CASE cpc \notin {"sendHeader", "sendData", "sendAck", "sendPing"}
  <2>1. ClientOut = <<>>  BY <1>6 DEF ClientOut
  <2> QED  BY <2>1, EmptySeq
<1> QED  BY <1>2, <1>3, <1>4, <1>5, <1>6

LEMMA ServerOutType ==
    ASSUME TypeOK
    PROVE  ServerOut \in Seq(Byte)
<1>1. 0 \in Nat /\ StatusOk \in Byte /\ InvalidDataSize \in Byte
  BY DEF StatusOk, InvalidDataSize, Byte
<1>2. /\ resp.status \in Byte /\ resp.data \in Seq(Byte) /\ Len(resp.data) \in Nat
      /\ SendsNone \in BOOLEAN /\ peer.old \in BOOLEAN
  BY ConnectionAssumption DEF TypeOK, SendsNone
<1>3. /\ EncodeResponseHeader(StatusOk, 0, TRUE) \in Seq(Byte)
      /\ EncodeResponseHeader(InvalidDataSize, 0, TRUE) \in Seq(Byte)
      /\ EncodeResponseHeader(StatusOk, 0, ~peer.old) \in Seq(Byte)
      /\ EncodeResponseHeader(resp.status, Len(resp.data), SendsNone) \in Seq(Byte)
  BY <1>1, <1>2, HeaderTypes
<1>4. CASE spc \in {"ackCommand", "refusePing"}  BY <1>3, <1>4 DEF ServerOut
<1>5. CASE spc \in {"pong", "sendHeader"}  BY <1>3, <1>5 DEF ServerOut
<1>6. CASE spc \notin {"ackCommand", "refusePing", "pong", "sendHeader"}
  <2>1. ServerOut \in {<<>>, resp.data}  BY <1>6 DEF ServerOut
  <2> QED  BY <1>2, <2>1, EmptySeq
<1> QED  BY <1>4, <1>5, <1>6

\* A reader asks for a number of bytes.
LEMMA NeedsType ==
    ASSUME Inv
    PROVE  ClientNeeds \in Nat /\ ServerNeeds \in Nat
<1>1. reply.data_size \in Nat /\ req.data_size \in Nat  BY DEF Inv, TypeOK
<1> QED
  BY <1>1 DEF ClientNeeds, ServerNeeds, ResponseEncodedLen, DefaultResponseHeaderSize,
     ResponseHeaderFullSize, RequestHeaderSize

\* What a reader gets, and what it leaves, are bytes; and it gets as many as
\* it asked for.
LEMMA ClientTakesType ==
    ASSUME Inv, ClientTakes
    PROVE  /\ Taken \in Seq(Byte) /\ Len(Taken) = ClientNeeds
           /\ s2c' \in Seq(Byte) /\ c2s' = c2s /\ UNCHANGED serverVars
<1>1. s2c \in Seq(Byte) /\ ClientNeeds \in Nat /\ ClientNeeds <= Len(s2c)
  BY NeedsType DEF Inv, TypeOK, ClientTakes
<1>2. /\ Take(s2c, ClientNeeds) \in Seq(Byte) /\ Len(Take(s2c, ClientNeeds)) = ClientNeeds
      /\ Drop(s2c, ClientNeeds) \in Seq(Byte)
  BY <1>1, TakeDropType
<1> QED  BY <1>2 DEF ClientTakes, Taken

LEMMA ServerTakesType ==
    ASSUME Inv, ServerTakes
    PROVE  /\ Got \in Seq(Byte) /\ Len(Got) = ServerNeeds
           /\ c2s' \in Seq(Byte) /\ s2c' = s2c /\ UNCHANGED clientVars
<1>1. c2s \in Seq(Byte) /\ ServerNeeds \in Nat /\ ServerNeeds <= Len(c2s)
  BY NeedsType DEF Inv, TypeOK, ServerTakes
<1>2. /\ Take(c2s, ServerNeeds) \in Seq(Byte) /\ Len(Take(c2s, ServerNeeds)) = ServerNeeds
      /\ Drop(c2s, ServerNeeds) \in Seq(Byte)
  BY <1>1, TakeDropType
<1> QED  BY <1>2 DEF ServerTakes, Got

\* A decoded header has its type.
LEMMA DecodeResponseType ==
    ASSUME NEW b \in Seq(Byte), NEW d \in BOOLEAN, d => Len(b) = 1, ~d => Len(b) = 5
    PROVE  /\ DecodeResponseHeader(b, d) \in [status : Byte, data_size : Nat]
           /\ DecodeResponseHeader(b, d).status = b[1] /\ b[1] \in Byte
<1>1. Len(b) = 1 \/ Len(b) = 5  OBVIOUS
<1>2. b[1] \in Byte
  <2>1. 1 \in 1 .. Len(b)  BY <1>1
  <2> QED  BY <2>1, ElementOfSeq
<1>3. ~d => FromBeBytes(Drop(b, 1)) \in Nat
  <2> SUFFICES ASSUME ~d PROVE FromBeBytes(Drop(b, 1)) \in Nat  OBVIOUS
  <2>1. 1 \in Nat /\ 1 <= Len(b) /\ Len(b) - 1 = 4  OBVIOUS
  <2>2. Drop(b, 1) \in Seq(Byte) /\ Len(Drop(b, 1)) = Len(b) - 1  BY <2>1, TakeDropType
  <2>3. Len(Drop(b, 1)) = 4  BY <2>1, <2>2
  <2> QED  BY <2>2, <2>3, FromBeBytesType
<1> QED  BY <1>2, <1>3 DEF DecodeResponseHeader

LEMMA DecodeRequestType ==
    ASSUME NEW b \in Seq(Byte), Len(b) = RequestHeaderSize
    PROVE  DecodeRequestHeader(b) \in [command : Nat, data_size : Nat]
<1>1. Len(b) = 8  BY DEF RequestHeaderSize
<1>2. /\ Take(b, 4) \in Seq(Byte) /\ Len(Take(b, 4)) = 4
      /\ Drop(b, 4) \in Seq(Byte) /\ Len(Drop(b, 4)) = Len(b) - 4
  <2>1. 4 \in Nat /\ 4 <= Len(b)  BY <1>1
  <2> QED  BY <2>1, TakeDropType
<1>3. Len(Drop(b, 4)) = 4  BY <1>1, <1>2
<1>4. FromBeBytes(Take(b, 4)) \in Nat /\ FromBeBytes(Drop(b, 4)) \in Nat
  BY <1>2, <1>3, FromBeBytesType
<1> QED  BY <1>4 DEF DecodeRequestHeader

\* A call that returns has one result more, and is no longer under way.
LEMMA ReturnsKeeps ==
    ASSUME Inv, cpc \in CallStates, calls' = calls,
           NEW err \in Errors, NEW status \in Byte, NEW data \in Seq(Byte),
           Returns(err, status, data)
    PROVE  /\ results' \in Seq([err : Errors, status : Byte, data : Seq(Byte)])
           /\ cpc' \in {"idle", "closed"}
           /\ OneResultPerCall'
<1> DEFINE R == [err : Errors, status : Byte, data : Seq(Byte)]
<1>1. results \in Seq(R)  BY DEF Inv, TypeOK
<1>2. [err |-> err, status |-> status, data |-> data] \in R  OBVIOUS
<1>3. results' = Append(results, [err |-> err, status |-> status, data |-> data])
  BY DEF Returns
<1> HIDE DEF R
<1>4. results' \in Seq(R) /\ Len(results') = Len(results) + 1
  BY <1>1, <1>2, <1>3, AppendProperties
<1>5. cpc' \in {"idle", "closed"}  BY DEF Returns
<1>6. Len(calls) = Len(results) + 1  BY DEF Inv, OneResultPerCall
<1>7. OneResultPerCall'
  BY <1>4, <1>5, <1>6 DEF OneResultPerCall, CallStates, Inv, TypeOK
<1> QED  BY <1>4, <1>5, <1>7 DEF R

\* So it is when the exchange fails; a ping's failure has no result.
LEMMA FailsKeeps ==
    ASSUME Inv, NEW err \in Errors, NEW status \in Byte,
           ExchangeFails(err, status)
    PROVE  /\ results' \in Seq([err : Errors, status : Byte, data : Seq(Byte)])
           /\ cpc' \in {"idle", "closed"}
           /\ OneResultPerCall'
           /\ UNCHANGED <<calls, reply, pings>>
<1>1. UNCHANGED <<calls, reply, pings>>  BY DEF ExchangeFails
<1>2. CASE cpc \in CallStates
  <2>1. InCall  BY <1>2, CurrentType
  <2>2. Returns(err, status, <<>>)  BY <2>1 DEF ExchangeFails
  <2>3. <<>> \in Seq(Byte)  BY EmptySeq
  <2> QED  BY <1>1, <1>2, <2>2, <2>3, ReturnsKeeps
<1>3. CASE cpc \notin CallStates
  <2>1. ~InCall  BY <1>3, NoCall
  <2>2. cpc' = "closed" /\ results' = results  BY <2>1 DEF ExchangeFails
  <2> QED  BY <1>1, <1>3, <2>2 DEF Inv, TypeOK, OneResultPerCall, CallStates
<1> QED  BY <1>2, <1>3

LEMMA InitInv == Init => Inv
<1> SUFFICES ASSUME Init PROVE Inv  OBVIOUS
<1>1. /\ calls = <<>> /\ results = <<>> /\ log = <<>> /\ body = <<>>
      /\ c2s = <<>> /\ s2c = <<>>
  BY DEF Init
<1>2. /\ calls \in Seq([command : Command, body : Body, answer : Answers])
      /\ results \in Seq([err : Errors, status : Byte, data : Seq(Byte)])
      /\ log \in Seq([command : Nat, data : Seq(Byte), status : Byte, reply : Seq(Byte)])
      /\ body \in Seq(Byte) /\ c2s \in Seq(Byte) /\ s2c \in Seq(Byte)
  BY <1>1, EmptySeq
<1>3. 0 \in Byte /\ 0 \in Nat /\ <<>> \in Seq(Byte)  BY EmptySeq DEF Byte
<1>4. /\ reply \in [status : Byte, data_size : Nat]
      /\ req \in [command : Nat, data_size : Nat]
      /\ resp \in [status : Byte, data : Seq(Byte), failed : BOOLEAN]
  BY <1>3 DEF Init
<1>5. /\ peer \in Peers /\ cpc \in ClientAt /\ spc \in ServerAt
      /\ pings \in Nat /\ signals \in Nat /\ ignored \in BOOLEAN
  BY DEF Init, ClientAt, ServerAt
<1>6. OneResultPerCall
  <2>1. Len(calls) = 0 /\ Len(results) = 0  BY <1>1, EmptySeq
  <2> QED  BY <2>1 DEF Init, OneResultPerCall, CallStates
<1> QED  BY <1>2, <1>4, <1>5, <1>6 DEF Inv, TypeOK

\* A step of the client keeps the invariant: its own variables by the lemmas
\* above, the server's because it leaves them alone.
LEMMA ClientTypes ==
    ASSUME Inv, UNCHANGED serverVars,
           cpc' \in ClientAt,
           calls' \in Seq([command : Command, body : Body, answer : Answers]),
           reply' \in [status : Byte, data_size : Nat],
           results' \in Seq([err : Errors, status : Byte, data : Seq(Byte)]),
           pings' \in Nat, c2s' \in Seq(Byte), s2c' \in Seq(Byte),
           OneResultPerCall'
    PROVE  Inv'
BY DEF Inv, TypeOK, serverVars

LEMMA ServerTypes ==
    ASSUME Inv, UNCHANGED clientVars,
           spc' \in ServerAt,
           req' \in [command : Nat, data_size : Nat], body' \in Seq(Byte),
           resp' \in [status : Byte, data : Seq(Byte), failed : BOOLEAN],
           log' \in Seq([command : Nat, data : Seq(Byte), status : Byte, reply : Seq(Byte)]),
           signals' \in Nat, ignored' \in BOOLEAN,
           c2s' \in Seq(Byte), s2c' \in Seq(Byte)
    PROVE  Inv'
BY DEF Inv, TypeOK, OneResultPerCall, clientVars

\* The steps of the client that leave its results alone.
LEMMA ClientMoves ==
    ASSUME Inv, UNCHANGED <<calls, results>>, UNCHANGED serverVars,
           cpc' \in ClientAt, cpc' \in CallStates <=> cpc \in CallStates,
           reply' \in [status : Byte, data_size : Nat],
           pings' \in Nat, c2s' \in Seq(Byte), s2c' \in Seq(Byte)
    PROVE  Inv'
<1>1. OneResultPerCall'  BY DEF Inv, OneResultPerCall
<1> QED  BY <1>1, ClientTypes DEF Inv, TypeOK

LEMMA ClientSendsKeeps ==
    ASSUME Inv, NEW next \in ClientAt, ClientSends(next),
           next \in CallStates <=> cpc \in CallStates,
           UNCHANGED <<calls, reply, results, pings>>
    PROVE  Inv'
<1>1. c2s' \in Seq(Byte)
  BY ClientOutType, ConcatProperties DEF ClientSends, Inv, TypeOK
<1> QED  BY <1>1, ClientMoves DEF ClientSends, Inv, TypeOK

\* An exchange that fails keeps the invariant if the streams stay streams.
LEMMA ClientFailsKeeps ==
    ASSUME Inv, NEW err \in Errors, NEW status \in Byte,
           ExchangeFails(err, status), UNCHANGED serverVars,
           c2s' \in Seq(Byte), s2c' \in Seq(Byte)
    PROVE  Inv'
<1>1. /\ results' \in Seq([err : Errors, status : Byte, data : Seq(Byte)])
      /\ cpc' \in {"idle", "closed"} /\ OneResultPerCall'
      /\ UNCHANGED <<calls, reply, pings>>
  BY FailsKeeps
<1> QED  BY <1>1, ClientTypes DEF Inv, TypeOK, ClientAt

LEMMA ClientReturnsKeeps ==
    ASSUME Inv, cpc \in CallStates, UNCHANGED <<calls, reply, pings>>,
           NEW err \in Errors, NEW status \in Byte, NEW data \in Seq(Byte),
           Returns(err, status, data), UNCHANGED serverVars,
           c2s' \in Seq(Byte), s2c' \in Seq(Byte)
    PROVE  Inv'
<1>1. /\ results' \in Seq([err : Errors, status : Byte, data : Seq(Byte)])
      /\ cpc' \in {"idle", "closed"} /\ OneResultPerCall'
  BY ReturnsKeeps
<1> QED  BY <1>1, ClientTypes DEF Inv, TypeOK, ClientAt

LEMMA HandleMessageKeeps ==
    ASSUME Inv, NEW c \in Command, NEW b \in Body, NEW a \in Answers,
           HandleMessage(c, b, a)
    PROVE  Inv'
<1> DEFINE C == [command : Command, body : Body, answer : Answers]
           call == [command |-> c, body |-> b, answer |-> a]
<1>1. calls \in Seq(C) /\ call \in C  BY DEF Inv, TypeOK
<1>2. calls' = Append(calls, call)  BY DEF HandleMessage
<1> HIDE DEF C, call
<1>3. calls' \in Seq(C) /\ Len(calls') = Len(calls) + 1
  BY <1>1, <1>2, AppendProperties
<1>4. /\ cpc = "idle" /\ cpc' = "sendHeader"
      /\ UNCHANGED <<reply, results, pings, serverVars, c2s, s2c>>
  BY DEF HandleMessage
<1>5. Len(calls) = Len(results) /\ Len(results) \in Nat
  BY <1>4 DEF Inv, TypeOK, OneResultPerCall, CallStates
<1>6. OneResultPerCall'
  BY <1>3, <1>4, <1>5 DEF OneResultPerCall, CallStates
<1> QED  BY <1>3, <1>4, <1>6, ClientTypes DEF C, Inv, TypeOK, ClientAt

LEMMA StatusBytes ==
    /\ {StatusOk, StatusFinish, StatusError, InvalidDataSize} \subseteq Byte
    /\ 0 \in Byte
BY DEF StatusOk, StatusFinish, StatusError, InvalidDataSize, Byte

LEMMA ReceiveAckKeeps == ASSUME Inv, ReceiveAck PROVE Inv'
<1>1. cpc = "readAck" /\ ClientTakes  BY DEF ReceiveAck
<1>2. /\ Taken \in Seq(Byte) /\ Len(Taken) = 1
      /\ s2c' \in Seq(Byte) /\ c2s' = c2s /\ UNCHANGED serverVars
  BY <1>1, ClientTakesType DEF ClientNeeds, DefaultResponseHeaderSize
<1> DEFINE ack == DecodeResponseHeader(Taken, TRUE)
<1>3. ack.status \in Byte  BY <1>2, DecodeResponseType
<1>4. \/ cpc' = "sendData" /\ UNCHANGED <<calls, reply, results, pings>>
      \/ ExchangeFails("response", ack.status)
  BY DEF ReceiveAck
<1> HIDE DEF ack
<1>5. CASE cpc' = "sendData" /\ UNCHANGED <<calls, reply, results, pings>>
  BY <1>1, <1>2, <1>5, ClientMoves DEF Inv, TypeOK, CallStates, ClientAt
<1>6. CASE ExchangeFails("response", ack.status)
  BY <1>2, <1>3, <1>6, ClientFailsKeeps DEF Inv, TypeOK, Errors
<1> QED  BY <1>4, <1>5, <1>6

LEMMA ReceiveReplyHeaderKeeps == ASSUME Inv, ReceiveReplyHeader PROVE Inv'
<1>1. cpc = "readReply" /\ ClientTakes  BY DEF ReceiveReplyHeader
<1>2. Current.answer \in BOOLEAN  BY <1>1, CurrentType DEF CallStates
<1>3. /\ Taken \in Seq(Byte) /\ Len(Taken) = ResponseEncodedLen(FALSE, Current.answer)
      /\ s2c' \in Seq(Byte) /\ c2s' = c2s /\ UNCHANGED serverVars
  BY <1>1, ClientTakesType DEF ClientNeeds
<1> DEFINE answer == Current.answer
           header == DecodeResponseHeader(Taken, ~answer)
<1>4. (~answer => Len(Taken) = 1) /\ (answer => Len(Taken) = 5)
  BY <1>2, <1>3 DEF ResponseEncodedLen, DefaultResponseHeaderSize, ResponseHeaderFullSize
<1>5. header \in [status : Byte, data_size : Nat]
  <2> HIDE DEF answer
  <2>1. (~answer) \in BOOLEAN  OBVIOUS
  <2> QED  BY <1>3, <1>4, <2>1, DecodeResponseType
<1>6. \/ reply' = header /\ cpc' = "sendAck" /\ UNCHANGED <<calls, results, pings>>
      \/ ExchangeFails("overflow", 0)
  BY DEF ReceiveReplyHeader
<1> HIDE DEF header
<1>7. CASE reply' = header /\ cpc' = "sendAck" /\ UNCHANGED <<calls, results, pings>>
  BY <1>1, <1>3, <1>5, <1>7, ClientMoves DEF Inv, TypeOK, CallStates, ClientAt
<1>8. CASE ExchangeFails("overflow", 0)
  BY <1>3, <1>8, StatusBytes, ClientFailsKeeps DEF Inv, TypeOK, Errors
<1> QED  BY <1>6, <1>7, <1>8

LEMMA AckReplyKeeps == ASSUME Inv, AckReply PROVE Inv'
<1>1. /\ cpc = "sendAck" /\ cpc \in CallStates
      /\ UNCHANGED <<calls, reply, pings, s2c, serverVars>>
  BY DEF AckReply, CallStates
<1>2. c2s' \in Seq(Byte)
  BY ClientOutType, ConcatProperties DEF AckReply, Inv, TypeOK
<1>3. reply.status \in Byte /\ s2c' \in Seq(Byte) /\ <<>> \in Seq(Byte)
  BY <1>1, EmptySeq DEF Inv, TypeOK
<1>4. \/ Returns("response", reply.status, <<>>)
      \/ Returns("none", StatusOk, <<>>)
      \/ cpc' = "readData" /\ UNCHANGED results
  BY DEF AckReply
<1>5. CASE Returns("response", reply.status, <<>>)
  BY <1>1, <1>2, <1>3, <1>5, ClientReturnsKeeps DEF Errors
<1>6. CASE Returns("none", StatusOk, <<>>)
  BY <1>1, <1>2, <1>3, <1>6, StatusBytes, ClientReturnsKeeps DEF Errors
<1>7. CASE cpc' = "readData" /\ UNCHANGED results
  BY <1>1, <1>2, <1>3, <1>7, ClientMoves DEF Inv, TypeOK, CallStates, ClientAt
<1> QED  BY <1>4, <1>5, <1>6, <1>7

LEMMA ReceiveReplyDataKeeps == ASSUME Inv, ReceiveReplyData PROVE Inv'
<1>1. /\ cpc \in CallStates /\ ClientTakes /\ Returns("none", StatusOk, Taken)
      /\ UNCHANGED <<calls, reply, pings>>
  BY DEF ReceiveReplyData, CallStates
<1>2. Taken \in Seq(Byte) /\ s2c' \in Seq(Byte) /\ c2s' = c2s /\ UNCHANGED serverVars
  BY <1>1, ClientTakesType
<1> QED  BY <1>1, <1>2, StatusBytes, ClientReturnsKeeps DEF Inv, TypeOK, Errors

LEMMA ReceivePongKeeps == ASSUME Inv, ReceivePong PROVE Inv'
<1>1. cpc = "readPong" /\ ClientTakes  BY DEF ReceivePong
<1>2. /\ Taken \in Seq(Byte) /\ Len(Taken) = 1
      /\ s2c' \in Seq(Byte) /\ c2s' = c2s /\ UNCHANGED serverVars
  BY <1>1, ClientTakesType DEF ClientNeeds, DefaultResponseHeaderSize
<1>3. Taken[1] \in Byte
  <2>1. 1 \in 1 .. Len(Taken)  BY <1>2
  <2> QED  BY <1>2, <2>1, ElementOfSeq
<1>4. CASE cpc' = "pongTail" /\ UNCHANGED <<calls, reply, results, pings>>
  BY <1>1, <1>2, <1>4, ClientMoves DEF Inv, TypeOK, CallStates, ClientAt
<1>5. CASE ExchangeFails("response", Taken[1])
  BY <1>2, <1>3, <1>5, ClientFailsKeeps DEF Inv, TypeOK, Errors
<1> QED  BY <1>4, <1>5 DEF ReceivePong

LEMMA ReceivePongTailKeeps == ASSUME Inv, ReceivePongTail PROVE Inv'
<1>1. cpc = "pongTail" /\ ClientTakes  BY DEF ReceivePongTail
<1>2. s2c' \in Seq(Byte) /\ c2s' = c2s /\ UNCHANGED serverVars
  BY <1>1, ClientTakesType
<1>3. CASE cpc' = "idle" /\ UNCHANGED <<calls, reply, results, pings>>
  BY <1>1, <1>2, <1>3, ClientMoves DEF Inv, TypeOK, CallStates, ClientAt
<1>4. CASE ExchangeFails("io", 0)
  BY <1>2, <1>4, StatusBytes, ClientFailsKeeps DEF Inv, TypeOK, Errors
<1> QED  BY <1>3, <1>4 DEF ReceivePongTail

LEMMA PongTailTimeoutKeeps == ASSUME Inv, PongTailTimeout PROVE Inv'
<1>1. PICK k \in 0 .. 3 : k <= Len(s2c) /\ s2c' = Drop(s2c, k)  BY DEF PongTailTimeout
<1>2. s2c' \in Seq(Byte)
  <2>1. k \in Nat /\ k <= Len(s2c) /\ s2c \in Seq(Byte)  BY <1>1 DEF Inv, TypeOK
  <2> QED  BY <1>1, <2>1, TakeDropType
<1> QED  BY <1>2, ClientMoves DEF PongTailTimeout, Inv, TypeOK, CallStates, ClientAt

LEMMA ClientEofKeeps == ASSUME Inv, ClientEof PROVE Inv'
<1>1. UNCHANGED <<c2s, s2c, serverVars>>  BY DEF ClientEof
<1>2. PICK e \in {"closed", "midFrame", "io"} : ExchangeFails(e, 0)  BY DEF ClientEof
<1> QED  BY <1>1, <1>2, StatusBytes, ClientFailsKeeps DEF Inv, TypeOK, Errors

LEMMA ClientProgressKeeps == ASSUME Inv, ClientProgress PROVE Inv'
<1>1. CASE SendRequestHeader
  BY <1>1, ClientSendsKeeps DEF SendRequestHeader, ClientAt, CallStates
<1>2. CASE SendRequestData
  BY <1>2, ClientSendsKeeps DEF SendRequestData, ClientAt, CallStates
<1>3. CASE SendPing
  BY <1>3, ClientSendsKeeps DEF SendPing, ClientAt, CallStates
<1> QED
  BY <1>1, <1>2, <1>3, ReceiveAckKeeps, ReceiveReplyHeaderKeeps, AckReplyKeeps,
     ReceiveReplyDataKeeps, ReceivePongKeeps, ReceivePongTailKeeps, PongTailTimeoutKeeps,
     ClientEofKeeps DEF ClientProgress

LEMMA ClientFailureKeeps ==
    ASSUME Inv, ClientWriteFails \/ ClientReadFails
    PROVE  Inv'
<1>1. CASE ClientWriteFails
  <2>1. PICK k \in 0 .. Len(ClientOut), e \in {"io", "timeout"} :
            c2s' = c2s \o Take(ClientOut, k) /\ ExchangeFails(e, 0)
    BY <1>1 DEF ClientWriteFails
  <2>2. ClientOut \in Seq(Byte)  BY ClientOutType
  <2>3. k \in Nat /\ k <= Len(ClientOut)  BY <2>2, LenProperties
  <2>4. Take(ClientOut, k) \in Seq(Byte)  BY <2>2, <2>3, TakeDropType
  <2>5. c2s' \in Seq(Byte)  BY <2>1, <2>4, ConcatProperties DEF Inv, TypeOK
  <2> QED
    BY <1>1, <2>1, <2>5, StatusBytes, ClientFailsKeeps DEF ClientWriteFails, Inv, TypeOK, Errors
<1>2. CASE ClientReadFails
  BY <1>2, StatusBytes, ClientFailsKeeps DEF ClientReadFails, Inv, TypeOK, Errors
<1> QED  BY <1>1, <1>2
-----------------------------------------------------------------------------
(* The server's steps.                                                     *)

LEMMA TransportFailsKeeps ==
    ASSUME Inv, TransportFails, UNCHANGED clientVars,
           c2s' \in Seq(Byte), s2c' \in Seq(Byte)
    PROVE  Inv'
<1>1. spc' \in ServerAt /\ ignored' \in BOOLEAN /\ UNCHANGED <<req, body, resp, log, signals>>
  BY DEF TransportFails, ServerAt, Inv, TypeOK
<1> QED  BY <1>1, ServerTypes DEF Inv, TypeOK

\* The server moves on, with the streams whatever they are.
LEMMA ServerMoves ==
    ASSUME Inv, spc' \in ServerAt, UNCHANGED <<req, body, resp, log, ignored, clientVars>>,
           signals' \in Nat, c2s' \in Seq(Byte), s2c' \in Seq(Byte)
    PROVE  Inv'
BY ServerTypes DEF Inv, TypeOK

\* Any part of what the server is writing may have reached the stream.
LEMMA ServerPartType ==
    ASSUME Inv, NEW k \in 0 .. Len(ServerOut)
    PROVE  s2c \o Take(ServerOut, k) \in Seq(Byte)
<1>1. ServerOut \in Seq(Byte)  BY ServerOutType DEF Inv
<1>2. k \in Nat /\ k <= Len(ServerOut)  BY <1>1, LenProperties
<1>3. Take(ServerOut, k) \in Seq(Byte)  BY <1>1, <1>2, TakeDropType
<1> QED  BY <1>3, ConcatProperties DEF Inv, TypeOK

LEMMA ReadCommandKeeps == ASSUME Inv, ReadCommand PROVE Inv'
<1>1. spc = "readCommand" /\ ServerTakes  BY DEF ReadCommand
<1>2. /\ Got \in Seq(Byte) /\ Len(Got) = RequestHeaderSize
      /\ c2s' \in Seq(Byte) /\ s2c' \in Seq(Byte) /\ UNCHANGED clientVars
  BY <1>1, ServerTakesType DEF ServerNeeds, Inv, TypeOK
<1> DEFINE header == DecodeRequestHeader(Got)
<1>3. header \in [command : Nat, data_size : Nat]  BY <1>2, DecodeRequestType
<1>4. \/ TransportFails
      \/ /\ req' = header /\ spc' \in {"ackCommand", "pong", "refusePing"}
         /\ UNCHANGED <<body, resp, log, signals, ignored>>
  BY DEF ReadCommand
<1> HIDE DEF header
<1>5. CASE TransportFails  BY <1>2, <1>5, TransportFailsKeeps
<1>6. CASE /\ req' = header /\ spc' \in {"ackCommand", "pong", "refusePing"}
           /\ UNCHANGED <<body, resp, log, signals, ignored>>
  BY <1>2, <1>3, <1>6, ServerTypes DEF Inv, TypeOK, ServerAt
<1> QED  BY <1>4, <1>5, <1>6

LEMMA ReceiveRequestDataKeeps == ASSUME Inv, ReceiveRequestData PROVE Inv'
<1>1. ServerTakes  BY DEF ReceiveRequestData
<1>2. Got \in Seq(Byte) /\ c2s' \in Seq(Byte) /\ s2c' = s2c /\ UNCHANGED clientVars
  BY <1>1, ServerTakesType
<1> QED  BY <1>2, ServerTypes DEF ReceiveRequestData, Inv, TypeOK, ServerAt

LEMMA RunHandlerKeeps == ASSUME Inv, RunHandler PROVE Inv'
<1> DEFINE R == [status : Byte, data : Seq(Byte), failed : BOOLEAN]
           L == [command : Nat, data : Seq(Byte), status : Byte, reply : Seq(Byte)]
<1>1. PICK r \in [status : {StatusOk, StatusFinish, StatusError}, data : Reply, failed : {FALSE}]
             \cup {[status |-> StatusError, data |-> <<>>, failed |-> TRUE]} :
          /\ resp' = r
          /\ log' = Append(log, [command |-> req.command, data |-> body,
                                 status |-> r.status, reply |-> r.data])
  BY DEF RunHandler
<1>2. <<>> \in Seq(Byte)  BY EmptySeq
<1>3. r.status \in Byte /\ r.data \in Seq(Byte) /\ r \in R
  <2>1. Reply \subseteq Seq(Byte)  BY ConnectionAssumption
  <2>2. CASE r \in [status : {StatusOk, StatusFinish, StatusError}, data : Reply, failed : {FALSE}]
    BY <2>1, <2>2, StatusBytes
  <2>3. CASE r = [status |-> StatusError, data |-> <<>>, failed |-> TRUE]
    BY <1>2, <2>3, StatusBytes
  <2> QED  BY <1>1, <2>2, <2>3
<1> DEFINE e == [command |-> req.command, data |-> body, status |-> r.status, reply |-> r.data]
<1>4. e \in L /\ log \in Seq(L)  BY <1>3 DEF Inv, TypeOK
<1>5. log' = Append(log, e)  BY <1>1
<1> HIDE DEF L, e
<1>6. log' \in Seq(L)  BY <1>4, <1>5, AppendProperties
<1>7. resp' \in R  BY <1>1, <1>3
<1>8. spc' \in ServerAt /\ UNCHANGED <<req, body, signals, ignored, c2s, s2c, clientVars>>
  BY DEF RunHandler, ServerAt
<1> QED  BY <1>6, <1>7, <1>8, ServerTypes DEF L, Inv, TypeOK

LEMMA ServerSendsKeeps == ASSUME Inv, ServerSends PROVE Inv'
<1>1. spc' \in ServerAt  BY DEF ServerSends, ServerAt
<1>2. s2c' \in Seq(Byte)
  BY ServerOutType, ConcatProperties DEF ServerSends, Inv, TypeOK
<1> QED  BY <1>1, <1>2, ServerMoves DEF ServerSends, Inv, TypeOK

LEMMA ReceiveReplyAckKeeps == ASSUME Inv, ReceiveReplyAck PROVE Inv'
<1>1. c2s' \in Seq(Byte) /\ s2c' \in Seq(Byte) /\ UNCHANGED clientVars
  BY ServerTakesType DEF ReceiveReplyAck, Inv, TypeOK
<1>2. CASE spc' = "sendBody" /\ UNCHANGED <<req, body, resp, log, signals, ignored>>
  BY <1>1, <1>2, ServerMoves DEF Inv, TypeOK, ServerAt
<1>3. CASE TransportFails  BY <1>1, <1>3, TransportFailsKeeps
<1> QED  BY <1>2, <1>3 DEF ReceiveReplyAck

LEMMA ServerProgressKeeps == ASSUME Inv, ServerProgress PROVE Inv'
<1>1. CASE ServerEof
  BY <1>1, TransportFailsKeeps DEF ServerEof, Inv, TypeOK
<1> QED
  BY <1>1, ReadCommandKeeps, ReceiveRequestDataKeeps, RunHandlerKeeps, ServerSendsKeeps,
     ReceiveReplyAckKeeps DEF ServerProgress

LEMMA ServerFailureKeeps ==
    ASSUME Inv, ServerWriteFails \/ ServerReadFails
    PROVE  Inv'
<1>1. CASE ServerWriteFails
  <2>1. s2c' \in Seq(Byte)  BY <1>1, ServerPartType DEF ServerWriteFails
  <2> QED  BY <1>1, <2>1, TransportFailsKeeps DEF ServerWriteFails, Inv, TypeOK
<1>2. CASE ServerReadFails
  BY <1>2, TransportFailsKeeps DEF ServerReadFails, Inv, TypeOK
<1> QED  BY <1>1, <1>2

LEMMA ShutdownKeeps == ASSUME Inv, Shutdown PROVE Inv'
<1>1. s2c' \in Seq(Byte)  BY ServerPartType DEF Shutdown
<1> QED  BY <1>1, ServerMoves DEF Shutdown, Inv, TypeOK, ServerAt

LEMMA SpuriousSignalKeeps == ASSUME Inv, SpuriousSignal PROVE Inv'
<1>1. s2c' \in Seq(Byte)  BY ServerPartType DEF SpuriousSignal
<1>2. PICK k \in 0 .. Len(c2s) : c2s' = Drop(c2s, k)  BY DEF SpuriousSignal
<1>3. c2s' \in Seq(Byte)
  <2>1. c2s \in Seq(Byte) /\ k \in Nat /\ k <= Len(c2s)  BY <1>2 DEF Inv, TypeOK
  <2> QED  BY <1>2, <2>1, TakeDropType
<1> QED  BY <1>1, <1>3, ServerMoves DEF SpuriousSignal, Inv, TypeOK, ServerAt
-----------------------------------------------------------------------------
LEMMA NextInv == Inv /\ [Next]_vars => Inv'
<1> SUFFICES ASSUME Inv, [Next]_vars PROVE Inv'  OBVIOUS
<1>1. CASE \E c \in Command, b \in Body, a \in Answers : HandleMessage(c, b, a)
  BY <1>1, HandleMessageKeeps
<1>2. CASE StartPing
  BY <1>2, ClientMoves DEF StartPing, Inv, TypeOK, CallStates, ClientAt
<1>3. CASE Disconnect
  BY <1>3, ClientMoves DEF Disconnect, Inv, TypeOK, CallStates, ClientAt
<1>4. CASE ClientProgress \/ ServerProgress
  BY <1>4, ClientProgressKeeps, ServerProgressKeeps
<1>5. CASE Failure  BY <1>5, ClientFailureKeeps, ServerFailureKeeps DEF Failure
<1>6. CASE Shutdown \/ SpuriousSignal  BY <1>6, ShutdownKeeps, SpuriousSignalKeeps
<1>7. CASE Finished \/ UNCHANGED vars
  BY <1>7 DEF Finished, vars, clientVars, serverVars, Inv, TypeOK, OneResultPerCall
<1> QED  BY <1>1, <1>2, <1>3, <1>4, <1>5, <1>6, <1>7 DEF Next

\* The inductive invariant holds in every state of every connection.
THEOREM Invariance == Spec => []Inv
BY InitInv, NextInv, PTL DEF Spec

\* Every variable of a connection keeps its type, whatever bytes arrive: what
\* the decoders make of them is a header, and every error is one of the code's.
THEOREM TypeCorrect == Spec => []TypeOK
<1>1. Inv => TypeOK  BY DEF Inv
<1> QED  BY Invariance, <1>1, PTL

\* Every handle_message has one result when it is over and none before, also
\* when the connection breaks in the middle of it; a failed ping adds none.
THEOREM ResultsBalanced == Spec => []OneResultPerCall
<1>1. Inv => OneResultPerCall  BY DEF Inv
<1> QED  BY Invariance, <1>1, PTL
=============================================================================
