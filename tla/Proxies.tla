-------------------------------- MODULE Proxies -------------------------------
(***************************************************************************)
(* Obfuscated connections: those of TCPObfuscated.ts, those of             *)
(* TCPMTProxy.ts to an MTProxy, and those of TCPDCSecret.ts to a data      *)
(* center that has a secret.  A secret that begins with 0xee wraps the     *)
(* stream in records of a pretended TLS, after a handshake; the stream     *)
(* itself is encrypted from its first byte on, with keys that both sides   *)
(* take from the 64 bytes of a header and the secret.                      *)
(*                                                                         *)
(* A keystream is its key and a position, a byte <<value, key, position>>. *)
(* Reads are of exactly the bytes asked for.                               *)
(***************************************************************************)
EXTENDS Integers, Sequences, FiniteSets

CONSTANTS
    Lengths,        \* of secrets
    SecretLength,   \* SECRET_LEN
    RecordMax,      \* TLS_RECORD_MAX_PAYLOAD
    HelloRoom,      \* what a ClientHello has room for: bytes of the domain
    PacketLength,   \* bytes of a packet
    MaxPackets,     \* bound: packets of the client, and of the server
    MaxAttempts     \* bound: connect() of one Connection

ProxiesAssumption ==
    /\ Lengths \subseteq Nat
    /\ {SecretLength, RecordMax, HelloRoom, PacketLength} \subseteq Nat \ {0}
    /\ {MaxPackets, MaxAttempts} \subseteq Nat

VARIABLES
    secret,         \* what the application or the configuration has: [class, first, length, fits]
    server,         \* who answers: one that knows the secret, another or a web server
    socket,         \* Connection.socket: the raw one, or the FakeTlsSocket
    at,             \* phase of the attempt
    attempts,
    header,         \* the first bytes of the header, as they were picked
    wire,           \* bytes or records on the way to the server
    answers,        \* records or bytes on the way to the client
    readBuf,        \* of the FakeTlsSocket
    written, read,  \* positions of encryptor and decryptor
    served,         \* of the server: [known, hello, tag, position, got]
    sent, given     \* history: packets of the server and what the client read of them

vars == <<secret, server, socket, at, attempts, header, wire, answers, readBuf, written, read,
          served, sent, given>>

-----------------------------------------------------------------------------
\* Secrets: a first byte and a length; fits tells whether the server has the same.
Classes == {"MTProxy", "DD", "TLS"}

NoSecret == [class |-> "Obfuscated", first |-> "any", length |-> 0, fits |-> TRUE]

Secrets ==
    {NoSecret} \cup
    {[class |-> class, first |-> first, length |-> length, fits |-> fits] :
        class \in Classes, first \in {"ee", "dd", "any"}, length \in Lengths, fits \in BOOLEAN}

Refused == [mode |-> "refused", domain |-> 0, skip |-> 0]
Parsed(mode, domain, skip) == [mode |-> mode, domain |-> domain, skip |-> skip]

\* What a secret says: whether to pretend TLS, the bytes of the domain, and where the key begins.
ParseProxySecret(s) ==
    IF s.first = "ee" /\ s.length > 1 + SecretLength THEN Parsed("tls", s.length - 1 - SecretLength, 1)
    ELSE IF s.first = "dd" /\ s.length = 1 + SecretLength THEN Parsed("plain", 0, 1)
    ELSE IF s.length = SecretLength THEN Parsed("plain", 0, 0)
    ELSE Refused

ParseDCSecret(s) ==
    IF s.first = "dd" /\ s.length >= 1 + SecretLength THEN Parsed("plain", 0, 1)
    ELSE IF s.first = "ee" /\ s.length > 1 + SecretLength THEN Parsed("tls", s.length - 1 - SecretLength, 1)
    ELSE IF s.length >= SecretLength THEN Parsed("plain", 0, 0)
    ELSE Refused

\* _connectSender takes the class of a data center by the first byte of its secret.
Chosen(s) ==
    \/ s.class \in {"Obfuscated", "MTProxy"}
    \/ s.class = "DD" /\ s.first = "dd"
    \/ s.class = "TLS" /\ s.first = "ee"

Settings ==
    CASE secret.class = "Obfuscated" -> Parsed("plain", 0, 0)
      [] secret.class = "MTProxy"    -> ParseProxySecret(secret)
      [] OTHER                       -> ParseDCSecret(secret)

\* The first four bytes of a header and the four after them.  Those that mean another protocol are
\* picked anew, if the first four are equal to one of the prefixes, of which GET has three.
Candidates ==
    {<<"ef", "01", "02", "03", "04">>, <<"50", "56", "72", "47", "04">>, <<"47", "45", "54", "20", "04">>,
     <<"50", "4f", "53", "54", "04">>, <<"ee", "ee", "ee", "ee", "04">>, <<"01", "02", "03", "04", "zeros">>,
     <<"01", "02", "03", "04", "05">>}

ForbiddenHeaderPrefixes ==
    {<<"50", "56", "72", "47">>, <<"47", "45", "54">>, <<"50", "4f", "53", "54">>, <<"ee", "ee", "ee", "ee">>}

PickObfuscationHeader ==
    {h \in Candidates : h[1] # "ef" /\ h[5] # "zeros" /\ SubSeq(h, 1, 4) \notin ForbiddenHeaderPrefixes}

-----------------------------------------------------------------------------
\* Bytes under a keystream.
Crypt(bytes, key, position) ==
    [k \in DOMAIN bytes |-> <<bytes[k], key, position + k>>]

Plain(bytes, key, position) ==
    [k \in DOMAIN bytes |-> IF bytes[k][2] = key /\ bytes[k][3] = position + k THEN bytes[k][1] ELSE 0]

\* Records of at most RecordMax bytes.
Record(type, bytes) == [type |-> type, bytes |-> bytes]

Chunks(bytes) ==
    [c \in 1 .. (Len(bytes) + RecordMax - 1) \div RecordMax |->
        Record("data", SubSeq(bytes, (c - 1) * RecordMax + 1,
                              IF c * RecordMax < Len(bytes) THEN c * RecordMax ELSE Len(bytes)))]

\* write() of the socket, and readExactly() of what is there.
Written(bytes) ==
    IF socket = "tls" THEN wire \o Chunks(bytes) ELSE Append(wire, Record("raw", bytes))

Packet(n) == [k \in 1 .. PacketLength |-> n * 10 + k]

Unserved == [known |-> FALSE, hello |-> FALSE, tag |-> "none", position |-> 0, got |-> <<>>]

Fresh ==
    /\ wire' = <<>> /\ answers' = <<>> /\ readBuf' = <<>> /\ written' = 0 /\ read' = 0
    /\ served' = Unserved /\ sent' = 0 /\ given' = <<>>

Init ==
    /\ secret \in {s \in Secrets : Chosen(s)} /\ server \in {"proxy", "web"}
    /\ socket = "raw" /\ at = "off" /\ attempts = 0 /\ header = <<>>
    /\ wire = <<>> /\ answers = <<>> /\ readBuf = <<>> /\ written = 0 /\ read = 0
    /\ served = Unserved /\ sent = 0 /\ given = <<>>

-----------------------------------------------------------------------------
\* connect() of the Connection: a secret that cannot be parsed was refused by the constructor, and
\* a FakeTlsSocket, which an earlier connect() of this object left, has no connect().
Connect ==
    /\ at = "off" /\ attempts < MaxAttempts /\ attempts' = attempts + 1
    /\ Fresh
    /\ at' = IF Settings = Refused THEN "never"
             ELSE IF socket = "tls" THEN "off"
             ELSE IF Settings.mode = "tls" THEN "hello" ELSE "header"
    /\ UNCHANGED <<secret, server, socket, header>>

\* The two ClientHellos: one of exactly 517 bytes, stamped with their HMAC, and one that is shorter
\* than its record says, with a stamp of other bytes.
ClientHello == Record("hello", <<TRUE>>)
ShortHello == Record("hello", <<FALSE>>)

\* sendClientHello() to an MTProxy: a domain may have no room.
SendClientHello ==
    /\ at = "hello" /\ secret.class = "MTProxy"
    /\ IF Settings.domain > HelloRoom
       THEN at' = "off" /\ UNCHANGED wire
       ELSE at' = "verify" /\ wire' = Append(wire, ClientHello)
    /\ UNCHANGED <<secret, server, socket, attempts, header, answers, readBuf, written, read, served,
                   sent, given>>

\* handshake() of a data center's secret.
SendShortHello ==
    /\ at = "hello" /\ secret.class = "TLS"
    /\ at' = "verify" /\ wire' = Append(wire, ShortHello)
    /\ UNCHANGED <<secret, server, socket, attempts, header, answers, readBuf, written, read, served,
                   sent, given>>

\* The three records of the answer, with the HMAC of who knows the secret; a web server has more
\* records in its answer, or an alert.  A hello that is shorter than it says may be answered or not.
AnswerHello ==
    /\ wire # <<>> /\ Head(wire).type = "hello" /\ ~served.hello
    /\ IF Head(wire).bytes[1]
       THEN /\ wire' = Tail(wire)
            /\ \E alert \in BOOLEAN :
                  answers' =
                     IF server = "proxy" /\ secret.fits
                     THEN <<Record("handshake", <<TRUE>>), Record("change", <<>>), Record("data", <<0>>)>>
                     ELSE IF alert THEN <<Record("alert", <<>>)>>
                     ELSE <<Record("handshake", <<FALSE>>), Record("change", <<>>), Record("data", <<0>>),
                            Record("data", <<0>>)>>
            /\ served' = [served EXCEPT !.hello = TRUE, !.known = server = "proxy" /\ secret.fits]
       ELSE /\ wire' = Tail(wire)
            /\ answers' = <<Record("handshake", <<FALSE>>), Record("change", <<>>), Record("data", <<0>>)>>
            /\ served' = [served EXCEPT !.hello = TRUE]
    /\ UNCHANGED <<secret, server, socket, at, attempts, header, readBuf, written, read, sent, given>>

\* Mutant: the HMAC is not compared.
VerifiesTypes == \A k \in 1 .. 3 : answers[k].type = <<"handshake", "change", "data">>[k]

\* The types of the three records, and the server's random bytes, which are the HMAC of all.
Verifies ==
    /\ \A k \in 1 .. 3 : answers[k].type = <<"handshake", "change", "data">>[k]
    /\ answers[1].bytes = <<TRUE>>

\* readAndVerifyServerHandshake(): what is no handshake of the proxy ends the attempt.
ReadAndVerifyServerHandshake ==
    LET other == \E k \in DOMAIN answers : k <= 3 /\ answers[k].type = "alert"
    IN /\ at = "verify" /\ secret.class = "MTProxy"
       /\ Len(answers) >= 3 \/ other
       /\ IF other \/ ~Verifies
          THEN at' = "off" /\ UNCHANGED <<socket, answers>>
          ELSE /\ socket' = "tls" /\ at' = "header"
               /\ answers' = SubSeq(answers, 4, Len(answers))
       /\ UNCHANGED <<secret, server, attempts, header, wire, readBuf, written, read, served, sent, given>>

\* readServerHandshake() of a data center's secret takes any three records.
ReadServerHandshake ==
    /\ at = "verify" /\ secret.class = "TLS" /\ Len(answers) >= 3
    /\ socket' = "tls" /\ at' = "header"
    /\ answers' = SubSeq(answers, 4, Len(answers))
    /\ UNCHANGED <<secret, server, attempts, header, wire, readBuf, written, read, served, sent, given>>

\* What the three initHeader() make of it: the tag of the codec in the last bytes, which are
\* encrypted with keys of the header and of the secret, if there is one.
ObfuscatedHeader == [tag |-> "ef", fits |-> TRUE]
MTProxyHeader == [tag |-> "ef", fits |-> secret.fits]
DCSecretHeader == [tag |-> IF secret.class = "DD" THEN "dd" ELSE "ef", fits |-> secret.fits]

\* _initConn(): the header is written, and the two keystreams go on, the one that writes behind its
\* first 64 bytes.
InitConn ==
    /\ at = "header"
    /\ header' \in PickObfuscationHeader
    /\ wire' = Written(<<CASE secret.class = "Obfuscated" -> ObfuscatedHeader
                          [] secret.class = "MTProxy"    -> MTProxyHeader
                          [] OTHER                       -> DCSecretHeader>>)
    /\ written' = 64 /\ read' = 0
    /\ at' = "open"
    /\ UNCHANGED <<secret, server, socket, attempts, answers, readBuf, served, sent, given>>

\* _send() of a packet.
Send ==
    /\ at = "open" /\ written < 64 + MaxPackets * PacketLength
    /\ wire' = Written(Crypt(Packet((written - 64) \div PacketLength + 1), "up", written))
    /\ written' = written + PacketLength
    /\ UNCHANGED <<secret, server, socket, at, attempts, header, answers, readBuf, read, served, sent, given>>

\* The server reads what is there: the header, then bytes.
Serve ==
    /\ wire # <<>> /\ Head(wire).type # "hello" /\ server = "proxy"
    /\ wire' = Tail(wire)
    /\ LET bytes == Head(wire).bytes IN
       served' =
          IF served.position = 0
          THEN [served EXCEPT !.tag = IF bytes[1].fits THEN bytes[1].tag ELSE "wrong", !.position = 64]
          ELSE [served EXCEPT !.got = @ \o Plain(bytes, "up", served.position),
                              !.position = @ + Len(bytes)]
    /\ UNCHANGED <<secret, server, socket, at, attempts, header, answers, readBuf, written, read, sent, given>>

\* A packet of a server that knows what it talks to; in records of any length and among others, if
\* it pretends TLS.
Tell ==
    /\ at = "open" /\ served.tag \in {"ef", "dd"} /\ sent < MaxPackets
    /\ sent' = sent + 1
    /\ LET bytes == Crypt(Packet(sent + 1), "down", sent * PacketLength) IN
       \E cut \in 1 .. PacketLength :
          answers' = answers \o
             (IF socket = "raw" THEN <<Record("raw", bytes)>>
              ELSE <<Record("data", SubSeq(bytes, 1, cut)), Record("change", <<>>),
                     Record("data", SubSeq(bytes, cut + 1, PacketLength))>>)
    /\ UNCHANGED <<secret, server, socket, at, attempts, header, wire, readBuf, written, read, served, given>>

\* readExactly(): a record more, or as many bytes as a packet has.  Records of other types count
\* for nothing.
ReadRecord ==
    /\ at = "open" /\ Len(readBuf) < PacketLength /\ answers # <<>>
    /\ answers' = Tail(answers)
    /\ readBuf' = IF Head(answers).type \in {"data", "raw"} THEN readBuf \o Head(answers).bytes ELSE readBuf
    /\ UNCHANGED <<secret, server, socket, at, attempts, header, wire, written, read, served, sent, given>>

ReadExactly ==
    /\ at = "open" /\ Len(readBuf) >= PacketLength
    /\ given' = Append(given, Plain(SubSeq(readBuf, 1, PacketLength), "down", read))
    /\ read' = read + PacketLength
    /\ readBuf' = SubSeq(readBuf, PacketLength + 1, Len(readBuf))
    /\ UNCHANGED <<secret, server, socket, at, attempts, header, wire, answers, written, served, sent>>

\* The connection is closed, and the Connection may be connected again.
Close ==
    /\ at \in {"verify", "open"} /\ at' = "off"
    /\ Fresh
    /\ UNCHANGED <<secret, server, socket, attempts, header>>

Next ==
    \/ Connect \/ SendClientHello \/ SendShortHello \/ AnswerHello
    \/ ReadAndVerifyServerHandshake \/ ReadServerHandshake \/ InitConn
    \/ Send \/ Serve \/ Tell \/ ReadRecord \/ ReadExactly \/ Close

Spec == Init /\ [][Next]_vars

-----------------------------------------------------------------------------
\* Through an MTProxy that pretends TLS nothing of the stream is sent before it has shown that it
\* knows the secret (TCPMTProxy.ts:506-560); to a data center everything is
\* (TCPDCSecret.ts:224-231).
NothingBeforeProof ==
    (secret.class = "MTProxy" /\ Settings.mode = "tls" /\ at = "open") => served.known

\* Behind the header the server reads the packets of the client, and the client those of the
\* server, byte by byte, in records of any length (TCPMTProxy.ts:455-480).
StreamsAgree ==
    /\ served.tag \in {"ef", "dd"} =>
          \A k \in DOMAIN served.got :
             served.got[k] = Packet((k - 1) \div PacketLength + 1)[((k - 1) % PacketLength) + 1]
    /\ \A k \in DOMAIN given : given[k] = Packet(k)
    /\ Len(given) <= sent

\* The byte that tells the kind of a secret is no part of its key, but for a data center's that
\* begins with 0xee and has no domain (TCPMTProxy.ts:108-133, TCPDCSecret.ts:39-62).
PrefixIsNoKey ==
    (Settings # Refused /\ secret.length > SecretLength) =>
        \/ Settings.skip = 1
        \/ secret.class = "TLS" /\ secret.length = 1 + SecretLength
=============================================================================
