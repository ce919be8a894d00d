------------------------------ MODULE Transport ------------------------------
(***************************************************************************)
(* A transport connection: extensions/PromisedNetSockets.ts and            *)
(* AsyncQueue.ts, network/connection/Connection.ts with its codecs, and the*)
(* two who use it one after the other: the key exchange (Authenticator.ts  *)
(* over MTProtoPlainSender.ts), which connect() of MTProtoSender repeats on*)
(* the same object when it fails, and the receive loop of a session.       *)
(*                                                                         *)
(* A byte of the stream is <<frame, position>>, position 0 is the header.  *)
(* Promises run on before the next event of the socket (Quiet).            *)
(***************************************************************************)
EXTENDS Integers, Sequences, FiniteSets

CONSTANTS
    BodyLength,             \* bytes of a frame after its header
    Steps,                  \* requests of the key exchange
    Retries,                \* _retries of connect()
    MaxFrames,              \* bound: frames of the server
    MaxFailures             \* bound: connections that close, answers refused

ASSUME TransportAssumption ==
    /\ {BodyLength, Steps, Retries} \subseteq Nat \ {0}
    /\ {MaxFrames, MaxFailures} \subseteq Nat

VARIABLES
    connected,              \* Connection._connected
    closed,                 \* PromisedNetSockets.closed
    stream, readable,       \* its buffer, and whether canRead is resolved
    reads,                  \* what the codec reads with: "exactly", "at most"; "short" from when
                            \* one of the second kind gave fewer bytes than it was asked for
    readers,                \* the receive loops of the Connection
    sendTask,               \* its send loop
    recvArray, sendArray,   \* AsyncQueues
    client,                 \* connect() of the sender, then its receive loop
    net,                    \* bytes on the way to the client
    requests,               \* on the way to the server
    sent,                   \* history: the frames of the server
    base,                   \* history: how many of them before this TCP connection
    received,               \* history: what recv() gave since then
    failures

connVars == <<connected, readers, sendTask, recvArray, sendArray>>
socketVars == <<closed, stream, readable, net, sent, base>>
transportVars == <<connVars, socketVars, reads, client, requests, received, failures>>

Failure == failures < MaxFailures /\ failures' = failures + 1

Undefined == <<>>

Frame(f) == [k \in 1 .. BodyLength |-> <<f, k>>]

-----------------------------------------------------------------------------
\* AsyncQueue.  canGet and canPush tell whether the promise of that name is
\* resolved; a push that waits is resumed when the promise it waits for is.
NewQueue == [items |-> <<>>, canGet |-> FALSE, canPush |-> TRUE, pushes |-> {}]

Push(q, by, value) ==
    [q EXCEPT !.pushes = @ \cup {[by |-> by, value |-> value, resumed |-> q.canPush]}]

Resumed(q) == {p \in q.pushes : p.resumed}

\* The rest of push p, after its await.
Pushed(q, p) ==
    [q EXCEPT !.items = Append(@, p.value), !.canGet = TRUE, !.canPush = FALSE,
              !.pushes = @ \ {p}]

\* pop() takes the newest item.
Popped(q) == q.items[Len(q.items)]

Pop(q) ==
    [q EXCEPT !.items = SubSeq(@, 1, Len(@) - 1), !.canGet = FALSE, !.canPush = TRUE,
              !.pushes = {[p EXCEPT !.resumed = TRUE] : p \in @}]

-----------------------------------------------------------------------------
\* What waits for nothing but its turn.
Reading(r) == readers[r].phase \in {"header", "body"} /\ (closed \/ readable)
Sending == sendTask = "waiting" /\ sendArray.canGet
Receiving == client.phase \in {"asking", "receiving"} /\ recvArray.canGet

Quiet ==
    /\ ~Sending /\ ~Receiving
    /\ \A r \in DOMAIN readers : ~Reading(r)
    /\ Resumed(recvArray) = {} /\ Resumed(sendArray) = {}

AtHeader == [phase |-> "header", want |-> 1, got |-> <<>>]

Opens == ~connected

\* connect() of the Connection: a receive loop each time, the send loop once.
Open ==
    /\ connected' = TRUE /\ closed' = FALSE
    /\ stream' = <<>> /\ readable' = FALSE /\ net' = <<>>
    /\ sendTask' = IF sendTask = "none" THEN "waiting" ELSE sendTask
    /\ readers' = Append(readers, AtHeader)
    /\ base' = Len(sent) /\ received' = <<>> /\ requests' = <<>>
    /\ UNCHANGED sent

\* The client asks for step k, or is done with the exchange.
Goes(a, k) ==
    IF k > Steps
    THEN client' = [phase |-> "busy", attempt |-> a, step |-> k] /\ UNCHANGED sendArray
    ELSE /\ client' = [phase |-> "asking", attempt |-> a, step |-> k]
         /\ sendArray' = Push(sendArray, 0, <<a, k>>)

\* The attempt threw: the next one uses the same Connection.
Fails ==
    client' = IF client.attempt < Retries
              THEN [client EXCEPT !.phase = "off", !.attempt = @ + 1]
              ELSE [client EXCEPT !.phase = "over"]

\* An attempt of connect(): it connects, unless the connection still is.
Attempt ==
    /\ Quiet /\ client.phase = "off"
    /\ IF Opens THEN Open
       ELSE UNCHANGED <<connected, readers, sendTask, socketVars, requests, received>>
    /\ Goes(client.attempt, 1)
    /\ UNCHANGED <<recvArray, reads, failures>>

\* The socket cannot be connected.
ConnectFails ==
    /\ Quiet /\ client.phase = "off" /\ ~connected
    /\ Failure /\ Fails
    /\ UNCHANGED <<connVars, socketVars, reads, requests, received>>

\* The send loop.  It ends, and is never started again, when the socket is closed.
Send ==
    /\ Sending
    /\ sendArray' = Pop(sendArray)
    /\ IF closed THEN sendTask' = "ended" /\ UNCHANGED requests
       ELSE /\ requests' = Append(requests, Popped(sendArray))
            /\ sendTask' = IF connected THEN sendTask ELSE "ended"
    /\ UNCHANGED <<connected, readers, recvArray, socketVars, reads, client, received, failures>>

\* A push to one of the queues goes on.  The receive loop that pushed reads on.
Pushes ==
    \/ \E p \in Resumed(sendArray) :
          /\ sendArray' = Pushed(sendArray, p)
          /\ UNCHANGED <<readers, recvArray>>
    \/ \E p \in Resumed(recvArray) :
          /\ recvArray' = Pushed(recvArray, p)
          /\ readers' = IF p.by = 0 THEN readers
                        ELSE [readers EXCEPT ![p.by] =
                                IF connected THEN AtHeader ELSE [AtHeader EXCEPT !.phase = "ended"]]
          /\ UNCHANGED sendArray

PushGoesOn ==
    /\ Pushes
    /\ UNCHANGED <<connected, sendTask, socketVars, reads, client, requests, received, failures>>

-----------------------------------------------------------------------------
\* The receive loop r, which is at a read of its codec.

\* Mutant: the loop of recv() is not told of the end.
DisconnectedSilently(q) == q

\* The queue after disconnect() of the Connection.
Disconnected(q) == IF connected THEN Push(q, 0, Undefined) ELSE q

Least(a, b) == IF a < b THEN a ELSE b

\* The socket is closed: disconnect().
ReadFails(r) ==
    /\ Reading(r) /\ closed
    /\ connected' = FALSE
    /\ recvArray' = Disconnected(recvArray)
    /\ readers' = [readers EXCEPT ![r].phase = "ended"]
    /\ UNCHANGED <<sendTask, sendArray, socketVars, reads, client, requests, received, failures>>

\* Mutant: readExactly() is over with what has come.
EnoughAtOnce(want, have) == have > 0

\* readExactly() reads the socket until it has as many bytes as were wanted.  The obfuscated
\* connections and FullPacketCodec read so; the other codecs on a plain socket use read(), which
\* gives what there is.
Enough(want, have) == have = want \/ reads # "exactly"

\* Length of the body after a header; a byte of a body is taken for any length.
BodyOf(b, n) == IF b[2] = 0 THEN n = BodyLength ELSE n \in 1 .. BodyLength

Read(r) ==
    LET n == Least(readers[r].want, Len(stream))
        got == readers[r].got \o SubSeq(stream, 1, n)
        want == readers[r].want - n IN
    /\ Reading(r) /\ ~closed
    /\ stream' = SubSeq(stream, n + 1, Len(stream)) /\ readable' = (n < Len(stream))
    /\ reads' = IF reads = "at most" /\ n < readers[r].want THEN "short" ELSE reads
    /\ IF ~Enough(readers[r].want, n)
       THEN /\ readers' = [readers EXCEPT ![r].want = want, ![r].got = got]
            /\ UNCHANGED recvArray
       ELSE IF readers[r].phase = "header"
       THEN /\ \E len \in 1 .. BodyLength :
                  /\ BodyOf(got[1], len)
                  /\ readers' = [readers EXCEPT ![r] = [phase |-> "body", want |-> len, got |-> <<>>]]
            /\ UNCHANGED recvArray
       ELSE /\ readers' = [readers EXCEPT ![r].phase = "pushing"]
            /\ recvArray' = Push(recvArray, r, got)
    /\ UNCHANGED <<connected, sendTask, sendArray, closed, net, sent, base, client, requests,
                   received, failures>>

-----------------------------------------------------------------------------
\* The client.

\* Mutant: recv() pops only once.
RecvIsOverAtOnce == TRUE

\* recv() that popped no payload is over, with an error.
RecvIsOver == ~connected

\* recv() gives a payload; the exchange goes on when it is a frame that answers the request.
Recv ==
    LET value == Popped(recvArray)
        answer == IF value = Frame(value[1][1]) THEN sent[value[1][1]] ELSE <<0, 0>> IN
    /\ Receiving
    /\ recvArray' = Pop(recvArray)
    /\ IF value = Undefined
       THEN /\ UNCHANGED <<sendArray, received>>
            /\ IF ~RecvIsOver THEN UNCHANGED client
               ELSE IF client.phase = "asking" THEN Fails
               ELSE client' = [client EXCEPT !.phase = "over"]
       ELSE /\ received' = Append(received, value)
            /\ IF client.phase = "receiving"
               THEN client' = [client EXCEPT !.phase = "busy"] /\ UNCHANGED sendArray
               ELSE IF connected /\ answer = <<client.attempt, client.step>>
               THEN Goes(client.attempt, client.step + 1)
               ELSE Fails /\ UNCHANGED sendArray
    /\ UNCHANGED <<connected, readers, sendTask, socketVars, reads, requests, failures>>

\* The receive loop of a session calls recv() again.
Receive ==
    /\ Quiet /\ client.phase = "busy"
    /\ client' = [client EXCEPT !.phase = IF connected THEN "receiving" ELSE "over"]
    /\ UNCHANGED <<connVars, socketVars, reads, requests, received, failures>>

\* The user disconnects, or the sender gives the connection up.
Disconnect ==
    /\ Quiet /\ connected /\ client.phase \in {"busy", "receiving"}
    /\ connected' = FALSE /\ closed' = TRUE
    /\ recvArray' = Disconnected(recvArray)
    /\ UNCHANGED <<readers, sendTask, sendArray, stream, readable, net, sent, base, reads,
                   client, requests, received, failures>>

-----------------------------------------------------------------------------
\* The server and the network.

\* The server answers a request of the exchange, or refuses.
Serve ==
    /\ Quiet /\ requests # <<>> /\ ~closed
    /\ requests' = Tail(requests)
    /\ \/ sent' = Append(sent, Head(requests)) /\ UNCHANGED failures
       \/ sent' = Append(sent, <<0, 0>>) /\ Failure
    /\ net' = net \o <<<<Len(sent'), 0>>>> \o Frame(Len(sent'))
    /\ UNCHANGED <<connVars, closed, stream, readable, base, reads, client, received>>

\* It sends something to a session.
Update ==
    /\ Quiet /\ client.step > Steps /\ ~closed
    /\ Len(sent) < MaxFrames
    /\ sent' = Append(sent, <<0, 0>>)
    /\ net' = net \o <<<<Len(sent'), 0>>>> \o Frame(Len(sent'))
    /\ UNCHANGED <<connVars, closed, stream, readable, base, reads, client, requests, received, failures>>

\* Some of the bytes arrive.
Data(n) ==
    /\ Quiet /\ ~closed /\ n \in 1 .. Len(net)
    /\ stream' = stream \o SubSeq(net, 1, n) /\ readable' = TRUE
    /\ net' = SubSeq(net, n + 1, Len(net))
    /\ UNCHANGED <<connVars, closed, sent, base, reads, client, requests, received, failures>>

\* The connection is lost: what did not arrive never does.  The bound does not count
\* losses between two attempts.
Close ==
    /\ Quiet /\ ~closed
    /\ client.phase # "off" => Failure
    /\ client.phase = "off" => UNCHANGED failures
    /\ closed' = TRUE /\ readable' = TRUE /\ net' = <<>>
    /\ UNCHANGED <<connVars, stream, sent, base, reads, client, requests, received>>

\* The 'close' event after disconnect().
Closed ==
    /\ Quiet /\ closed /\ ~readable
    /\ readable' = TRUE
    /\ UNCHANGED <<connVars, closed, stream, net, sent, base, reads, client, requests, received,
                   failures>>

TransportInit ==
    /\ connected = FALSE /\ closed = TRUE
    /\ stream = <<>> /\ readable = FALSE /\ net = <<>> /\ reads \in {"exactly", "at most"}
    /\ readers = <<>> /\ sendTask = "none"
    /\ recvArray = NewQueue /\ sendArray = NewQueue
    /\ client = [phase |-> "off", attempt |-> 1, step |-> 1]
    /\ requests = <<>> /\ sent = <<>> /\ base = 0 /\ received = <<>> /\ failures = 0

Deliver == \E n \in 1 .. Len(net) : Data(n)

Internal ==
    \/ Send \/ PushGoesOn \/ Recv
    \/ \E r \in DOMAIN readers : ReadFails(r) \/ Read(r)

TransportNext ==
    \/ Internal \/ Attempt \/ ConnectFails \/ Receive \/ Disconnect
    \/ Serve \/ Update \/ Close \/ Closed \/ Deliver

TransportSpec == TransportInit /\ [][TransportNext]_transportVars

\* The event loop runs promises on, and network and server do their part.
FairTransport ==
    /\ TransportSpec
    /\ WF_transportVars(Internal) /\ WF_transportVars(Serve) /\ WF_transportVars(Deliver)

-----------------------------------------------------------------------------
\* Exception: a read() of a codec on a plain socket gave fewer bytes than it was asked for, from
\* when on the codec takes the rest of a packet for the next one (PromisedNetSockets.ts:58-75,
\* Abridged.ts:41-68, Intermediate.ts:34-44).
ReadWasShort == reads = "short"

\* What recv() gives are the frames of this connection, whole and in order, however
\* their bytes come (PromisedNetSockets.ts:46-74), as long as no read was short (ReadWasShort).
FramesWhole == ReadWasShort \/ \A i \in DOMAIN received : received[i] = Frame(base + i)

\* A connection that is open has one receive loop and a send loop.
LoopsServe ==
    connected /\ ~closed =>
        /\ sendTask = "waiting"
        /\ Cardinality({r \in DOMAIN readers : readers[r].phase # "ended"}) = 1

\* An attempt of connect() fails for a fault of its own, not for what an earlier one
\* left in the Connection they share, and one that succeeds has its loops
\* (MTProtoSender.ts:275-320); but for a read that was short (ReadWasShort).
RetryIsClean == ReadWasShort \/ (client.attempt <= failures + 1 /\ LoopsServe)

InRecv == client.phase \in {"asking", "receiving"}
AllReceived == connected /\ Len(received) = Len(sent) - base

\* Who waits in recv() gets a payload, or an error once the connection is down, if no read was
\* short.
RecvEnds == (InRecv /\ ~AllReceived) ~> (~InRecv \/ AllReceived \/ ReadWasShort)

=============================================================================
