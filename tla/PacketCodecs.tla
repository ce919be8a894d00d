----------------------------- MODULE PacketCodecs -----------------------------
(***************************************************************************)
(* The codecs of network/connection/codec: how packets, quick              *)
(* acknowledgements and errors of the transport lie in the stream of bytes,*)
(* both ways.  Reads are of exactly the bytes asked for; Transport has the *)
(* codecs whose reads may give fewer (its variable reads).                 *)
(*                                                                         *)
(* Only the first word of a packet matters: -404 is what the server says in*)
(* place of a packet, 0xFFFFFFFF begins its acknowledgement for a padded   *)
(* one.                                                                    *)
(***************************************************************************)
EXTENDS Integers, Sequences, FiniteSets

CONSTANTS
    Extended,       \* 127: words of a packet that needs the longer length
    MaxWords,       \* bound: words of a packet
    MaxItems        \* bound: what the two sides send on one connection

PacketCodecsAssumption ==
    Extended \in 2 .. 127 /\ MaxWords \in 1 .. 63 /\ MaxItems \in Nat

VARIABLES
    codec,          \* PacketCodecClass
    counter,        \* _sendCounter of FullPacketCodec
    up, down,       \* bytes on the way to the server and to the client
    asked, told,    \* history: what was sent on this connection
    heard,          \* what the server has read of it: [bytes, seq]
    given,          \* what readPacket() returned
    error           \* what it threw: that ends the connection

vars == <<codec, counter, up, down, asked, told, heard, given, error>>

CodecClasses == {"abridged", "intermediate", "padded", "full"}

-----------------------------------------------------------------------------
\* Integers of four bytes, lowest first.
Int32LE(n) == <<n % 256, (n \div 256) % 256, 0, 0>>
Negative(bytes) == bytes[4] >= 128
ReadInt32LE(bytes) == bytes[1] + 256 * bytes[2] + 65536 * bytes[3] + 16777216 * bytes[4]

ErrorCode(code) == <<(65536 - code) % 256, (65536 - code) \div 256, 255, 255>>
AllOnes == <<255, 255, 255, 255>>

\* A packet of some words: its first word, and 7s.
Packet(first, words) == first \o [k \in 1 .. 4 * (words - 1) |-> 7]

Crc(bytes) ==
    LET sum[k \in 0 .. Len(bytes)] == IF k = 0 THEN 0 ELSE (sum[k - 1] * 3 + bytes[k]) % 251 IN
    Int32LE(sum[Len(bytes)])

Take(bytes, n) == SubSeq(bytes, 1, IF n < Len(bytes) THEN n ELSE Len(bytes))
Drop(bytes, n) == SubSeq(bytes, n + 1, Len(bytes))

-----------------------------------------------------------------------------
\* encodePacket().
\* Mutant: a packet of Extended words has the short length.
EncodeAbridgedShort(data) ==
    LET length == Len(data) \div 4 IN
    (IF length <= Extended THEN <<length>> ELSE <<Extended>> \o Take(Int32LE(length), 3)) \o data

EncodeAbridged(data) ==
    LET length == Len(data) \div 4 IN
    (IF length < Extended THEN <<length>> ELSE <<Extended>> \o Take(Int32LE(length), 3)) \o data

EncodeIntermediate(data) == Int32LE(Len(data)) \o data

EncodePadded(data, padding) ==
    Int32LE(Len(data) + padding) \o data \o [k \in 1 .. padding |-> 9]

EncodeFull(data, seq) ==
    LET body == Int32LE(Len(data) + 12) \o Int32LE(seq) \o data IN body \o Crc(body)

Encode(data, padding, seq) ==
    CASE codec = "abridged"     -> EncodeAbridged(data)
      [] codec = "intermediate" -> EncodeIntermediate(data)
      [] codec = "padded"       -> EncodePadded(data, padding)
      [] codec = "full"         -> EncodeFull(data, seq)

-----------------------------------------------------------------------------
\* readPacket(): what it makes of the first bytes, and the bytes that are left.  After an
\* acknowledgement it reads on.
Gives(bytes, rest)  == [is |-> "packet", bytes |-> bytes, rest |-> rest]
Acknowledged(rest)  == [is |-> "ack", bytes |-> <<>>, rest |-> rest]
Throws(bytes, rest) == [is |-> "error", bytes |-> bytes, rest |-> rest]

\* checkTransportError(), of all negative numbers or of those that are known errors.
IsTransportError(token) == Negative(token)
KnownErrors == {ErrorCode(404), ErrorCode(429), ErrorCode(444)}
IsKnownError(token) == token \in KnownErrors

ReadAbridged(stream) ==
    IF stream[1] >= 128
    THEN LET token == Take(stream, 4) IN
         IF IsTransportError(token) THEN Throws(token, Drop(stream, 4))
         ELSE Acknowledged(Drop(stream, 4))
    ELSE LET header == IF stream[1] < Extended THEN 1 ELSE 4
             length == IF header = 1 THEN stream[1]
                       ELSE ReadInt32LE(SubSeq(stream, 2, 4) \o <<0>>)
             rest   == Drop(stream, header)
         IN Gives(Take(rest, 4 * length), Drop(rest, 4 * length))

ReadIntermediate(stream) ==
    LET header == Take(stream, 4)
        rest   == Drop(stream, 4)
    IN IF Negative(header)
       THEN IF IsTransportError(header) THEN Throws(header, rest) ELSE Acknowledged(rest)
       ELSE Gives(Take(rest, ReadInt32LE(header)), Drop(rest, ReadInt32LE(header)))

ReadPadded(stream) ==
    LET header == Take(stream, 4)
        rest   == Drop(stream, 4)
        length == ReadInt32LE(header)
    IN IF Negative(header)
       THEN IF IsKnownError(header) THEN Throws(header, rest) ELSE Acknowledged(rest)
       ELSE IF length \in 8 .. 16 /\ Take(rest, 4) = AllOnes THEN Acknowledged(Drop(rest, length))
       ELSE Gives(Take(rest, length), Drop(rest, length))

ReadFull(stream) ==
    IF Negative(Take(stream, 4)) THEN Throws(SubSeq(stream, 9, 12), Drop(stream, 12))
    ELSE LET length == ReadInt32LE(Take(stream, 4))
             body   == Take(stream, length - 4)
             rest   == Drop(stream, length)
         IN IF Crc(body) = SubSeq(stream, length - 3, length) THEN Gives(Drop(body, 8), rest)
            ELSE Throws(body, rest)

ReadPacket(stream) ==
    CASE codec = "abridged"     -> ReadAbridged(stream)
      [] codec = "intermediate" -> ReadIntermediate(stream)
      [] codec = "padded"       -> ReadPadded(stream)
      [] codec = "full"         -> ReadFull(stream)

-----------------------------------------------------------------------------
\* What the server may tell: a packet, -404 in place of one, an acknowledgement of a packet of the
\* client (the abridged one has its bytes turned round, so that its first is the marked one), an
\* error in place of a length, or a packet that is damaged.
Item(is, data, padding) == [is |-> is, data |-> data, padding |-> padding]

Paddings == IF codec = "padded" THEN {0, 3, 15} ELSE {0}

Items ==
    {Item("packet", Packet(<<5, 0, 0, 0>>, words), padding) : words \in 1 .. MaxWords, padding \in Paddings}
    \cup {Item("packet", ErrorCode(404), padding) : padding \in Paddings}
    \cup CASE codec = "abridged"     -> {Item("ack", <<129, 1, 2, last>>, 0) : last \in {3, 130}}
           [] codec = "intermediate" -> {Item("ack", <<1, 2, 3, 130>>, 0)}
           [] codec = "padded"       -> {Item("ack", <<1, 2, 3, 130>>, 0), Item("code", ErrorCode(429), 0),
                                         Item("ack", <<12, 0, 0, 0>> \o AllOnes \o <<1, 2, 3, 4, 5, 6, 7, 8>>, 0)}
           [] codec = "full"         -> {Item("code", ErrorCode(429) \o ErrorCode(429) \o ErrorCode(429), 0),
                                         Item("damaged", Packet(<<5, 0, 0, 0>>, 2), 0)}

Bytes(item) ==
    CASE item.is = "packet"  -> Encode(item.data, item.padding, Len(told))
      [] item.is = "damaged" -> [Encode(item.data, 0, Len(told)) EXCEPT ![9] = 6]
      [] OTHER               -> item.data

-----------------------------------------------------------------------------
Fresh ==
    /\ counter' = 0 /\ up' = <<>> /\ down' = <<>> /\ asked' = <<>> /\ told' = <<>>
    /\ heard' = <<>> /\ given' = <<>> /\ error' = <<>>

Init ==
    /\ codec \in CodecClasses
    /\ counter = 0 /\ up = <<>> /\ down = <<>> /\ asked = <<>> /\ told = <<>>
    /\ heard = <<>> /\ given = <<>> /\ error = <<>>

\* _send() of a packet.
Send ==
    \E words \in {1, 2, MaxWords}, padding \in Paddings :
       LET data == Packet(<<5, 0, 0, 0>>, words) IN
       /\ error = <<>> /\ Len(asked) + Len(told) < MaxItems
       /\ up' = up \o Encode(data, padding, counter)
       /\ counter' = counter + 1
       /\ asked' = Append(asked, data)
       /\ UNCHANGED <<codec, down, told, heard, given, error>>

\* _recv().
Recv ==
    LET read == ReadPacket(down) IN
    /\ error = <<>> /\ down # <<>>
    /\ down' = read.rest
    /\ given' = IF read.is = "packet" THEN Append(given, read.bytes) ELSE given
    /\ error' = IF read.is = "error" THEN read.bytes ELSE <<>>
    /\ UNCHANGED <<codec, counter, up, asked, told, heard>>

Tell ==
    \E item \in Items :
       /\ error = <<>> /\ Len(asked) + Len(told) < MaxItems
       /\ down' = down \o Bytes(item)
       /\ told' = Append(told, item)
       /\ UNCHANGED <<codec, counter, up, asked, heard, given, error>>

\* The server reads a packet, in the same format; it drops one whose number is not the next.
Hear ==
    LET read == ReadPacket(up)
        next == codec # "full" \/ SubSeq(up, 5, 8) = Int32LE(Len(heard))
    IN /\ up # <<>>
       /\ up' = read.rest
       /\ heard' = IF next THEN Append(heard, read.bytes) ELSE heard
       /\ UNCHANGED <<codec, counter, down, asked, told, given, error>>

\* _connect() of the next connection, with a codec of its own.
Reconnect == error # <<>> /\ Fresh /\ UNCHANGED codec

Next == Send \/ Recv \/ Tell \/ Hear \/ Reconnect

Spec == Init /\ [][Next]_vars

-----------------------------------------------------------------------------
\* An item that ends the connection: an acknowledgement too, where it is taken for an error because
\* it is negative: always with the intermediate codec, and with the abridged one if its last byte
\* is (Connection.ts:251-259, Abridged.ts:45-57, Intermediate.ts:39-43).
Breaks(item) ==
    \/ item.is \in {"code", "damaged"}
    \/ item.is = "ack" /\ codec = "intermediate"
    \/ item.is = "ack" /\ codec = "abridged" /\ Negative(item.data)

Payload(item) == item.data \o [k \in 1 .. item.padding |-> 9]

\* What readPacket gives are the packets of the server in order, up to an item that ends the
\* connection, with their padding, if they have some, left on (PaddedIntermediate.ts:45-70), and
\* no acknowledgement is taken for a packet or part of one; what the server reads, and numbers, are
\* the packets of the client (codec/*.ts).
PacketsReadBack ==
    LET packets == SelectSeq(told, LAMBDA item : item.is = "packet")
        broke   == {k \in DOMAIN told : Breaks(told[k])}
        whole   == SelectSeq(SubSeq(told, 1, (CHOOSE k \in broke : \A j \in broke : k <= j) - 1),
                             LAMBDA item : item.is = "packet")
        expect  == IF error # <<>> THEN whole ELSE packets
    IN /\ error # <<>> => broke # {}
       /\ Len(given) <= Len(expect) /\ \A k \in DOMAIN given : given[k] = Payload(expect[k])
       /\ (error # <<>> \/ down = <<>>) => Len(given) = Len(expect)
       /\ (error = <<>> /\ down = <<>>) => broke = {}
       /\ \A k \in DOMAIN heard :
             k <= Len(asked) /\ Take(heard[k], Len(asked[k])) = asked[k]
             /\ Len(heard[k]) - Len(asked[k]) \in Paddings
       /\ up = <<>> => Len(heard) = Len(asked)
=============================================================================
