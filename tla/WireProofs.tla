----------------------------- MODULE WireProofs -----------------------------
(***************************************************************************)
(* The codec, for every number of 32 bits: what it produces are bytes, and *)
(* decoding gives back what was encoded.                                   *)
(***************************************************************************)
EXTENDS Wire, SequenceTheorems, TLAPS

\* A stream stays a sequence of bytes when a prefix is taken or dropped.
LEMMA TakeDropType ==
    ASSUME NEW s \in Seq(Byte), NEW n \in Nat, n <= Len(s)
    PROVE  /\ Take(s, n) \in Seq(Byte) /\ Len(Take(s, n)) = n
           /\ \A i \in 1 .. n : Take(s, n)[i] = s[i]
           /\ Drop(s, n) \in Seq(Byte) /\ Len(Drop(s, n)) = Len(s) - n
           /\ \A i \in 1 .. Len(s) - n : Drop(s, n)[i] = s[n + i]
BY DEF Take, Drop

\* A frame put before other bytes is what a reader of its length takes, and
\* the other bytes are what it leaves.
LEMMA TakeDropConcat ==
    ASSUME NEW s \in Seq(Byte), NEW t \in Seq(Byte)
    PROVE  Take(s \o t, Len(s)) = s /\ Drop(s \o t, Len(s)) = t
<1> DEFINE e == s \o t
<1>1. /\ e \in Seq(Byte) /\ Len(e) = Len(s) + Len(t)
      /\ \A i \in 1 .. Len(s) + Len(t) : e[i] = IF i <= Len(s) THEN s[i] ELSE t[i - Len(s)]
  BY ConcatProperties
<1> HIDE DEF e
<1>2. Len(s) \in Nat /\ Len(t) \in Nat  OBVIOUS
<1>3. Len(s) <= Len(e) /\ Len(e) - Len(s) = Len(t)  BY <1>1, <1>2
<1>4. /\ Take(e, Len(s)) \in Seq(Byte) /\ Len(Take(e, Len(s))) = Len(s)
      /\ \A i \in 1 .. Len(s) : Take(e, Len(s))[i] = e[i]
      /\ Drop(e, Len(s)) \in Seq(Byte) /\ Len(Drop(e, Len(s))) = Len(e) - Len(s)
      /\ \A i \in 1 .. Len(e) - Len(s) : Drop(e, Len(s))[i] = e[Len(s) + i]
  BY <1>1, <1>2, <1>3, TakeDropType
<1>5. \A i \in 1 .. Len(s) : Take(e, Len(s))[i] = s[i]  BY <1>1, <1>2, <1>4
<1>6. ASSUME NEW i \in 1 .. Len(t) PROVE Drop(e, Len(s))[i] = t[i]
  <2>1. Len(s) + i \in 1 .. Len(s) + Len(t) /\ ~(Len(s) + i <= Len(s)) /\ (Len(s) + i) - Len(s) = i
    BY <1>2
  <2>2. e[Len(s) + i] = t[(Len(s) + i) - Len(s)]  BY <1>1, <2>1
  <2> QED  BY <1>3, <1>4, <2>1, <2>2
<1>7. Take(e, Len(s)) = s  BY <1>4, <1>5, SeqEqual
<1>8. Drop(e, Len(s)) = t  BY <1>3, <1>4, <1>6, SeqEqual
<1> QED  BY <1>7, <1>8 DEF e

\* The four bytes of a number, one by one.
LEMMA ToBeBytesElements ==
    ASSUME NEW n \in Nat
    PROVE  /\ ToBeBytes(n) \in Seq(Byte) /\ Len(ToBeBytes(n)) = 4
           /\ ToBeBytes(n)[1] = (n \div 16777216) % 256
           /\ ToBeBytes(n)[2] = (n \div 65536) % 256
           /\ ToBeBytes(n)[3] = (n \div 256) % 256
           /\ ToBeBytes(n)[4] = n % 256
<1>1. \A m \in Nat : m % 256 \in Byte  BY SMT DEF Byte
<1>2. n \div 16777216 \in Nat /\ n \div 65536 \in Nat /\ n \div 256 \in Nat  BY SMT
<1>3. ToBeBytes(n) \in Seq(Byte) /\ Len(ToBeBytes(n)) = 4
  BY <1>1, <1>2, SMT DEF ToBeBytes
<1> QED  BY <1>3, SMT DEF ToBeBytes

LEMMA FromBeBytesNat ==
    ASSUME NEW b, b[1] \in Nat, b[2] \in Nat, b[3] \in Nat, b[4] \in Nat
    PROVE  FromBeBytes(b) \in Nat
BY SMT DEF FromBeBytes

\* Four bytes make a natural number.
LEMMA FromBeBytesType ==
    ASSUME NEW b \in Seq(Byte), Len(b) = 4
    PROVE  FromBeBytes(b) \in Nat
<1>1. \A i \in 1 .. Len(b) : b[i] \in Byte  BY ElementOfSeq
<1>2. \A x \in Byte : x \in Nat  BY DEF Byte
<1>3. b[1] \in Nat /\ b[2] \in Nat /\ b[3] \in Nat /\ b[4] \in Nat  BY <1>1, <1>2
<1> QED  BY <1>3, FromBeBytesNat

\* A 32-bit number is the sum of its four bytes, each at its place.
LEMMA FourBytes ==
    ASSUME NEW n \in Nat, n \div 16777216 < 256
    PROVE  n = 16777216 * ((n \div 16777216) % 256) + 65536 * ((n \div 65536) % 256)
                 + 256 * ((n \div 256) % 256) + (n % 256)
<1>1. n \div 16777216 \in Nat /\ n \div 65536 \in Nat /\ n \div 256 \in Nat  BY SMT
<1>2. (n \div 16777216) % 256 = n \div 16777216  BY <1>1, SMT
<1>3. n \div 65536 = 256 * (n \div 16777216) + ((n \div 65536) % 256)  BY SMTT(20)
<1>4. n \div 256 = 256 * (n \div 65536) + ((n \div 256) % 256)  BY SMTT(20)
<1>5. n = 256 * (n \div 256) + (n % 256)  BY SMTT(20)
<1> QED  BY <1>1, <1>2, <1>3, <1>4, <1>5, SMTT(20)

\* A u32 becomes four bytes.
LEMMA ToBeBytesType ==
    ASSUME NEW n, U32(n)
    PROVE  ToBeBytes(n) \in Seq(Byte) /\ Len(ToBeBytes(n)) = 4
BY ToBeBytesElements, SMT DEF U32

\* A u32 is read back from its four bytes.
LEMMA BeBytesRoundTrip ==
    ASSUME NEW n, U32(n)
    PROVE  FromBeBytes(ToBeBytes(n)) = n
<1> DEFINE t == ToBeBytes(n)
<1>1. n \in Nat /\ n \div 16777216 < 256  BY SMT DEF U32
<1>2. /\ t[1] = (n \div 16777216) % 256 /\ t[2] = (n \div 65536) % 256
      /\ t[3] = (n \div 256) % 256 /\ t[4] = n % 256
  BY <1>1, SMT DEF ToBeBytes
<1>3. FromBeBytes(t) = 16777216 * t[1] + 65536 * t[2] + 256 * t[3] + t[4]
  BY SMT DEF FromBeBytes
<1>4. n = 16777216 * ((n \div 16777216) % 256) + 65536 * ((n \div 65536) % 256)
            + 256 * ((n \div 256) % 256) + (n % 256)
  BY <1>1, FourBytes, SMT
<1> HIDE DEF t
<1>5. FromBeBytes(t) = n  BY <1>2, <1>3, <1>4, SMTT(20)
<1> QED  BY <1>5, SMT DEF t

\* A request header that is sent is the one that is received.
THEOREM RequestHeaderRoundTrip ==
    ASSUME NEW c, NEW n, U32(c), U32(n)
    PROVE  /\ EncodeRequestHeader(c, n) \in Seq(Byte)
           /\ Len(EncodeRequestHeader(c, n)) = RequestHeaderSize
           /\ DecodeRequestHeader(EncodeRequestHeader(c, n)) = [command |-> c, data_size |-> n]
<1> DEFINE a == ToBeBytes(c)
           b == ToBeBytes(n)
           e == EncodeRequestHeader(c, n)
<1>1. a \in Seq(Byte) /\ Len(a) = 4 /\ b \in Seq(Byte) /\ Len(b) = 4
  BY ToBeBytesType
<1>2. FromBeBytes(a) = c /\ FromBeBytes(b) = n  BY BeBytesRoundTrip
<1>3. e = a \o b  BY DEF EncodeRequestHeader
<1> HIDE DEF a, b, e
<1>4. a \o b \in Seq(Byte) /\ Len(a \o b) = Len(a) + Len(b)  BY <1>1, ConcatProperties
<1>5. e \in Seq(Byte) /\ Len(e) = 8  BY <1>1, <1>3, <1>4
<1>6. Take(e, 4) = a /\ Drop(e, 4) = b  BY <1>1, <1>3, TakeDropConcat
<1>7. DecodeRequestHeader(e) = [command |-> c, data_size |-> n]
  BY <1>2, <1>6 DEF DecodeRequestHeader
<1> QED  BY <1>5, <1>7 DEF e, RequestHeaderSize

\* A response header that is sent is the one that is received by a reader
\* that expects the same form of it, 1 byte or 5.
THEOREM ResponseHeaderRoundTrip ==
    ASSUME NEW s \in Byte, NEW n, U32(n), NEW d \in BOOLEAN
    PROVE  /\ EncodeResponseHeader(s, n, d) \in Seq(Byte)
           /\ Len(EncodeResponseHeader(s, n, d)) = ResponseEncodedLen(d, TRUE)
           /\ DecodeResponseHeader(EncodeResponseHeader(s, n, d), d)
                = [status |-> s, data_size |-> IF d THEN 0 ELSE n]
<1> DEFINE b == ToBeBytes(n)
           e == <<s>> \o b
<1>1. b \in Seq(Byte) /\ Len(b) = 4 /\ FromBeBytes(b) = n
  BY ToBeBytesType, BeBytesRoundTrip
<1>2. CASE d
  BY <1>2 DEF EncodeResponseHeader, DecodeResponseHeader, ResponseEncodedLen,
     DefaultResponseHeaderSize
<1>3. CASE ~d
  <2> HIDE DEF b
  <2>1. <<s>> \in Seq(Byte) /\ Len(<<s>>) = 1 /\ <<s>>[1] = s  OBVIOUS
  <2>2. /\ e \in Seq(Byte) /\ Len(e) = Len(<<s>>) + Len(b)
        /\ \A i \in 1 .. Len(<<s>>) + Len(b) :
               e[i] = IF i <= Len(<<s>>) THEN <<s>>[i] ELSE b[i - Len(<<s>>)]
    BY <1>1, <2>1, ConcatProperties
  <2>3. e \in Seq(Byte) /\ Len(e) = 5 /\ e[1] = s
    <3> HIDE DEF e
    <3> QED  BY <1>1, <2>1, <2>2
  <2>4. Drop(e, 1) = b  BY <1>1, <2>1, TakeDropConcat
  <2>5. EncodeResponseHeader(s, n, d) = e  BY <1>3 DEF EncodeResponseHeader, b
  <2> HIDE DEF e
  <2> QED
    BY <1>1, <1>3, <2>3, <2>4, <2>5 DEF DecodeResponseHeader, ResponseEncodedLen,
       ResponseHeaderFullSize
<1> QED  BY <1>2, <1>3

\* request_data.len() as u32: of a payload of any length the header announces
\* the length less a multiple of 4 GiB, and so all of it only below 4 GiB.
THEOREM AnnouncedSizeWraps ==
    ASSUME NEW n \in Nat
    PROVE  n = 16777216 * (256 * ((n \div 16777216) \div 256)) + FromBeBytes(ToBeBytes(n))
<1> DEFINE t == ToBeBytes(n)
<1>1. /\ t[1] = (n \div 16777216) % 256 /\ t[2] = (n \div 65536) % 256
      /\ t[3] = (n \div 256) % 256 /\ t[4] = n % 256
  BY SMT DEF ToBeBytes
<1>2. FromBeBytes(t) = 16777216 * t[1] + 65536 * t[2] + 256 * t[3] + t[4]
  BY SMT DEF FromBeBytes
<1> HIDE DEF t
<1>3. n \div 16777216 \in Nat /\ n \div 65536 \in Nat /\ n \div 256 \in Nat  BY SMT
<1>4. n \div 16777216 = 256 * ((n \div 16777216) \div 256) + ((n \div 16777216) % 256)
  BY <1>3, SMTT(20)
<1>5. n \div 65536 = 256 * (n \div 16777216) + ((n \div 65536) % 256)  BY SMTT(20)
<1>6. n \div 256 = 256 * (n \div 65536) + ((n \div 256) % 256)  BY SMTT(20)
<1>7. n = 256 * (n \div 256) + (n % 256)  BY SMTT(20)
<1>8. n = 16777216 * (256 * ((n \div 16777216) \div 256)) + FromBeBytes(t)
  BY <1>1, <1>2, <1>3, <1>4, <1>5, <1>6, <1>7, SMTT(30)
<1> QED  BY <1>8, SMT DEF t
=============================================================================
