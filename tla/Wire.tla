-------------------------------- MODULE Wire --------------------------------
(***************************************************************************)
(* The binary protocol: how headers become bytes and bytes become headers. *)
(* A stream is a sequence of bytes; nothing in it marks where a frame      *)
(* starts, so a reader that takes the wrong number of bytes leaves the     *)
(* rest for the next read.  Constants keep the names of the source.        *)
(***************************************************************************)
EXTENDS Integers, Sequences

Byte == 0 .. 255

\* protocol_structs.rs: the one reserved command and the statuses the library
\* itself sends or compares with.
Ping == 0
StatusOk == 1
StatusFinish == 2
StatusError == 3
InvalidDataSize == 7

\* usize/u32 cast and to_be_bytes: the low 32 bits, most significant byte first.
ToBeBytes(n) == << (n \div 16777216) % 256, (n \div 65536) % 256,
                   (n \div 256) % 256, n % 256 >>

\* Numbers that fit a u32, and the first of their four bytes.
U32(n) == n \in Nat /\ n \div 16777216 < 256
HighByte(n) == n \div 16777216

FromBeBytes(b) == 16777216 * b[1] + 65536 * b[2] + 256 * b[3] + b[4]

\* read_exact takes the first n bytes of the stream and leaves the rest.
Take(s, n) == SubSeq(s, 1, n)
Drop(s, n) == SubSeq(s, n + 1, Len(s))

-----------------------------------------------------------------------------
RequestHeaderSize == 8

EncodeRequestHeader(command, size) == ToBeBytes(command) \o ToBeBytes(size)

DecodeRequestHeader(b) ==
    [command |-> FromBeBytes(Take(b, 4)), data_size |-> FromBeBytes(Drop(b, 4))]

-----------------------------------------------------------------------------
DefaultResponseHeaderSize == 1
ResponseHeaderFullSize == 5

\* Mutant: the answer mode is not looked at.
ResponseEncodedLenIgnoresMode(is_default, command_has_answer) ==
    IF is_default THEN DefaultResponseHeaderSize ELSE ResponseHeaderFullSize

ResponseEncodedLen(is_default, command_has_answer) ==
    IF is_default \/ ~command_has_answer THEN DefaultResponseHeaderSize
                                         ELSE ResponseHeaderFullSize

EncodeResponseHeader(status, size, is_default) ==
    IF is_default THEN <<status>> ELSE <<status>> \o ToBeBytes(size)

DecodeResponseHeader(b, is_default) ==
    [status |-> b[1],
     data_size |-> IF is_default THEN 0 ELSE FromBeBytes(Drop(b, 1))]

\* Both decoders refuse a size above the connection's max_buffer_size before
\* any buffer is sized from it (Error::BufferOverflow).
Fits(header, max) == header.data_size <= max
=============================================================================
