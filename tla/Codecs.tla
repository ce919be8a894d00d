-------------------------------- MODULE Codecs --------------------------------
(***************************************************************************)
(* What is written must read back.  One value is written and read:         *)
(* byte strings and numbers of TL (tl/runtime/helpers.ts, BinaryReader.ts, *)
(* Helpers.ts), marked ids, waveforms and file ids of bots (Utils.ts), and *)
(* the text of a StringSession.  Base64 and text encodings are left out.   *)
(***************************************************************************)
EXTENDS Integers, Sequences, SequencesExt, FiniteSetsExt, Functions

CONSTANTS
    Lengths,            \* of byte strings
    Levels, MaxLevels,  \* values of a waveform, and how many
    Ids,                \* of users, chats and channels
    Zeros,              \* where the numbers and references of a file id have zero bytes
    Ports, Addresses    \* of a session: the port, the length of the address

CodecsAssumption ==
    /\ Lengths \cup Levels \cup Ids \cup Ports \cup Addresses \subseteq Nat
    /\ Levels \subseteq 0 .. 31 /\ MaxLevels \in Nat /\ Zeros \subseteq SUBSET (1 .. 8)

VARIABLES
    kind, value,    \* what is written
    wire,           \* what it is written as
    result,         \* what is read
    stage

vars == <<kind, value, wire, result, stage>>

Throws == <<>>      \* of those that can throw the others are sequences of one

-----------------------------------------------------------------------------
\* Byte strings: a length in one byte, or 254 and three, then zeros up to a word.
PadTo4(n) == (4 - (n % 4)) % 4

IsShort(n) == n < 254

SerializeBytes(n) ==
    [head |-> IF IsShort(n) THEN <<n>>
              ELSE <<254, n % 256, (n \div 256) % 256, (n \div 65536) % 256>>,
     data |-> n,
     pad  |-> IF IsShort(n) THEN PadTo4(n + 1) ELSE PadTo4(n)]

\* tgReadBytes: the length, and how many bytes are left over for the next field.
TgReadBytes(w) ==
    LET long == w.head[1] = 254
        n    == IF long THEN w.head[2] + 256 * w.head[3] + 65536 * w.head[4] ELSE w.head[1]
        read == (IF long THEN 4 ELSE 1) + n + (IF long THEN PadTo4(n) ELSE PadTo4(n + 1))
    IN [length |-> n, left |-> Len(w.head) + w.data + w.pad - read]

\* Signed numbers of w bytes, little endian: toSignedLittleBuffer, readBigIntFromBuffer.
ToSignedLittle(n, w) == [i \in 1 .. w |-> (n \div 256 ^ (i - 1)) % 256]

FromLittle(bytes, signed) ==
    LET w == Len(bytes)
        n == FoldSet(LAMBDA i, sum : sum + bytes[i] * 256 ^ (i - 1), 0, 1 .. w)
    IN IF signed /\ n >= 2 ^ (8 * w - 1) THEN n - 256 ^ w ELSE n

-----------------------------------------------------------------------------
\* Marked ids: getPeerId and resolveId.
Digits(n) == CHOOSE k \in 1 .. 9 : 10 ^ (k - 1) <= n /\ n < 10 ^ k

GetPeerId(peer) ==
    CASE peer.type = "user"    -> peer.id
      [] peer.type = "chat"    -> -peer.id
      [] peer.type = "channel" -> -(100 * 10 ^ Digits(peer.id) + peer.id)

\* /-100([^0]\d*)/
LooksLikeChannel(n) ==
    \E k \in 1 .. 6 : n \div 10 ^ k = 100 /\ (n % 10 ^ k) \div 10 ^ (k - 1) # 0

ResolveId(marked) ==
    IF marked >= 0 THEN [type |-> "user", id |-> marked]
    ELSE IF LooksLikeChannel(-marked)
         THEN [type |-> "channel", id |-> (-marked) % 10 ^ (Digits(-marked) - 3)]
         ELSE [type |-> "chat", id |-> -marked]

-----------------------------------------------------------------------------
\* Waveforms: five bits each, the last byte filled with zeros.
BitOf(n, b) == (n \div 2 ^ b) % 2

EncodeWaveform(levels) ==
    LET bits == 5 * Len(levels)
        bit(i) == IF i < bits THEN BitOf(levels[i \div 5 + 1], i % 5) ELSE 0
    IN [byte \in 1 .. (bits + 7) \div 8 |->
          FoldSet(LAMBDA b, sum : sum + bit(8 * (byte - 1) + b) * 2 ^ b, 0, 0 .. 7)]

\* Mutant: off by one.
SpillsLate(shift) == shift > 4

\* Five bits from this one on do not fit in a byte.
Spills(shift) == shift > 3

\* The value at a bit position: the bits of its byte, and those of the next if it goes over.
DecodeWaveform(bytes) ==
    [i \in 1 .. (8 * Len(bytes)) \div 5 |->
        LET at    == 5 * (i - 1)
            shift == at % 8
            byte  == at \div 8 + 1
            low   == (bytes[byte] \div 2 ^ shift) % 32
        IN IF Spills(shift) /\ byte < Len(bytes)
           THEN low + ((bytes[byte + 1] * 2 ^ (8 - shift)) % 32)
           ELSE low]

-----------------------------------------------------------------------------
\* File ids of bots.  A run of zeros is a zero and its length.
RleEncode(data) ==
    LET next(acc, b) ==
          IF b # 0 THEN [out |-> acc.out \o (IF acc.run > 0 THEN <<0, acc.run>> ELSE <<>>) \o <<b>>,
                         run |-> 0]
          ELSE [acc EXCEPT !.run = @ + 1]
        end == FoldLeft(next, [out |-> <<>>, run |-> 0], data)
    IN end.out \o (IF end.run > 0 THEN <<0, end.run>> ELSE <<>>)

RleDecode(data) ==
    LET next(acc, b) ==
          IF acc.zero THEN [out |-> acc.out \o [i \in 1 .. b |-> 0], zero |-> FALSE]
          ELSE IF b = 0 THEN [acc EXCEPT !.zero = TRUE]
          ELSE [acc EXCEPT !.out = Append(@, b)]
    IN FoldLeft(next, [out |-> <<>>, zero |-> FALSE], data).out

Photo == 2
Document == 5
ReferenceFlag == 1      \* in the highest byte of the type

PackBotFileId(f) ==
    RleEncode(<<f.type, 0, 0, IF f.reference = <<>> THEN 0 ELSE ReferenceFlag>>
        \o <<f.dc, 0, 0, 0>>
        \o (IF f.reference = <<>> THEN <<>> ELSE <<Len(f.reference)>> \o f.reference)
        \o f.id \o f.accessHash)

ResolveBotFileId(data) ==
    LET bytes == RleDecode(data)
        has   == bytes[4] = ReferenceFlag
        n     == IF has THEN bytes[9] ELSE 0
        at    == IF has THEN 9 + n ELSE 8
    IN IF Len(data) < 8 \/ Len(bytes) < 8 \/ at + 16 > Len(bytes) THEN Throws
       ELSE <<[photo |-> bytes[1] = Photo, reference |-> SubSeq(bytes, 10, at),
               id |-> SubSeq(bytes, at + 1, at + 8),
               accessHash |-> SubSeq(bytes, at + 9, at + 16)]>>

-----------------------------------------------------------------------------
\* StringSession: save() writes a byte and two signed 16-bit numbers, and throws if one does not
\* fit; the constructor takes a text of 352 characters for one of Telethon, with four bytes of
\* address.
KeyBytes == 256
Base64Length(n) == 4 * ((n + 2) \div 3)

SaveSession(s) ==
    IF s.dc > 255 \/ s.port > 2 ^ 15 - 1 THEN Throws
    ELSE <<[dc |-> s.dc, addressLength |-> s.address, address |-> s.address, port |-> s.port]>>

LoadSession(w) ==
    LET read(x) ==
          LET telethon == Base64Length(1 + 2 + x.address + 2 + KeyBytes) = 352
          IN [dc |-> x.dc, address |-> IF telethon THEN 4 ELSE x.addressLength, port |-> x.port]
    IN IF w = Throws THEN Throws ELSE <<read(w[1])>>

-----------------------------------------------------------------------------
Written(k, v) ==
    CASE k = "bytes"    -> SerializeBytes(v)
      [] k = "long"     -> ToSignedLittle(v, 1)
      [] k = "peer"     -> GetPeerId(v)
      [] k = "waveform" -> EncodeWaveform(v)
      [] k = "fileId"   -> PackBotFileId(v)
      [] k = "session"  -> SaveSession(v)

ReadFrom(k, w) ==
    CASE k = "bytes"    -> TgReadBytes(w)
      [] k = "long"     -> FromLittle(w, TRUE)
      [] k = "peer"     -> ResolveId(w)
      [] k = "waveform" -> DecodeWaveform(w)
      [] k = "fileId"   -> ResolveBotFileId(w)
      [] k = "session"  -> LoadSession(w)

SparseBytes(n, zeros) == [i \in 1 .. n |-> IF i \in zeros THEN 0 ELSE 7]

Values ==
    [bytes    |-> Lengths,
     long     |-> -128 .. 127,
     peer     |-> [type : {"user", "chat", "channel"}, id : Ids],
     waveform |-> UNION {[1 .. n -> Levels] : n \in 0 .. MaxLevels},
     fileId   |-> {[type |-> t, dc |-> d, id |-> SparseBytes(8, y), accessHash |-> SparseBytes(8, z),
                    reference |-> SparseBytes(n, z)] :
                   t \in {Photo, Document}, d \in {0, 4}, n \in {0, 3}, y \in Zeros, z \in Zeros},
     session  |-> [dc : {1, 255}, address : Addresses, port : Ports]]

Init ==
    /\ \E k \in DOMAIN Values : \E v \in Values[k] : kind = k /\ value = v
    /\ wire = 0 /\ result = 0 /\ stage = "made"

Write ==
    /\ stage = "made" /\ stage' = "written"
    /\ wire' = Written(kind, value)
    /\ UNCHANGED <<kind, value, result>>

Read ==
    /\ stage = "written" /\ stage' = "read"
    /\ result' = ReadFrom(kind, wire)
    /\ UNCHANGED <<kind, value, wire>>

Next == Write \/ Read

Spec == Init /\ [][Next]_vars

-----------------------------------------------------------------------------
\* What is written is read back, with these exceptions: a chat whose id begins with 100 and then
\* no zero is taken for a channel; the last byte of a waveform may give one more, zero, value; of
\* a file id the data center and the exact type are not kept; a port of more than 15 bits
\* cannot be saved.
ReadsBack ==
    stage = "read" =>
      CASE kind = "bytes" -> result = [length |-> value, left |-> 0]
        [] kind = "long"  -> result = value
        [] kind = "peer"  -> result = value \/ (value.type = "chat" /\ LooksLikeChannel(value.id))
        [] kind = "waveform" ->
             LET n == Len(value) IN
             /\ SubSeq(result, 1, n) = value
             /\ Len(result) = n \/ (Len(result) = n + 1 /\ result[n + 1] = 0)
        [] kind = "fileId" ->
             result = <<[photo |-> value.type = Photo, reference |-> value.reference,
                         id |-> value.id, accessHash |-> value.accessHash]>>
        [] kind = "session" ->
             IF value.port < 2 ^ 15 THEN result = <<value>> ELSE result = Throws
=============================================================================
