--------------------------- MODULE MTProtoSender ---------------------------
(***************************************************************************)
(* The request life cycle of the main sender, network/MTProtoSender.ts,    *)
(* with the queue of extensions/MessagePacker.ts, the map of               *)
(* extensions/PendingState.ts and the retry loop of client/users.ts.       *)
(*                                                                         *)
(* JavaScript runs to completion: a timer, a socket event or a user call   *)
(* (a "task") starts only when no continuation is ready to run.  Steps of  *)
(* the two loops that wait for nothing external are continuations; the     *)
(* others are guarded by Quiet.  Requests may be appended at any point.    *)
(***************************************************************************)
EXTENDS Integers, Sequences, FiniteSets, SequencesExt

CONSTANTS
    Req,                \* RequestStates made by client.invoke
    Svc,                \* RequestStates the sender makes itself (MsgsStateReq, MsgsStateInfo)
    MsgIds,             \* the pool message and container ids are drawn from
    Ack,                \* a queued MsgsAck
    None,               \* undefined
    AutoReconnect,      \* option autoReconnect
    ErrorHandler,       \* whether client._errorHandler is set (it is awaited)
    FreshKey,           \* the session holds no auth key yet
    ServerAcks,         \* the server sends msgs_ack before it answers
    MayDisconnect,      \* the application may call disconnect()
    MayConnect,         \* the application may call connect() again on the same sender
    RequestRetries,     \* option requestRetries
    ReconnectRetries,   \* option reconnectRetries, or Infinity
    ConnectionRetries,  \* option connectionRetries, or Infinity
    Infinity,
    MaximumLength,      \* MessageContainer.MAXIMUM_LENGTH
    MaxPacket,          \* bound: messages per server container
    MaxFaults           \* bound: faults of network, server and ping

States == Req \cup Svc

ASSUME SenderAssumption ==
    /\ IsFiniteSet(MsgIds)
    /\ Req \cap Svc = {}
    /\ Ack \notin States /\ None \notin States /\ None \notin MsgIds
    /\ {AutoReconnect, ErrorHandler, FreshKey, ServerAcks, MayDisconnect, MayConnect}
          \subseteq BOOLEAN
    /\ {RequestRetries, MaximumLength, MaxPacket, MaxFaults} \subseteq Nat
    /\ Infinity \notin Nat
    /\ {ReconnectRetries, ConnectionRetries} \subseteq Nat \cup {Infinity}

VARIABLES
    promise,          \* per state: unborn, open, failed (invoke will retry it), settled
    tries,            \* per request: attempts made by invoke
    msgId,            \* per state: its latest message id
    containerId,      \* per state: the container it was last sent in
    acknowledged,     \* per state: the server acknowledged it
    registered,       \* history: this attempt was put in _pendingState by the send loop
    sendQueue,        \* _sendQueue._queue without the undefined marker
    wakeLast,         \* the last element of _queue is the undefined marker of clear()
    pendingState,     \* _pendingState: message id -> state
    pendingAck,       \* _pendingAck is not empty
    sendLoop,         \* off (handle unset), wait, packing, packed
    batch,            \* the batch get() builds and the send loop holds
    written,          \* the message ids written into that batch
    recvLoop,         \* off (handle unset), recv, process, handler, failing, dead
    inbox,            \* the messages of the received packet not processed yet
    aborted,          \* the abort signal of the receive loop is set
    task,             \* who connects: initial, failed, again, idle, sleeping, closing, connecting
    attempts,         \* failed attempts of the running connect()
    userConnected, isReconnecting, userDisconnected, currentRetries,
    hasKey,           \* authKey holds a key
    authenticated,    \* _authenticated
    keyBroken,        \* history: the server rejected the key
    gone,             \* history: the application's last call was disconnect()
    connected,        \* the transport of _connection is up
    wire,             \* ids sent on this connection and not answered nor acknowledged
    got,              \* ids the server has and may answer at any time
    faults

reqVars  == <<promise, tries, msgId, containerId, acknowledged, registered>>
sendVars == <<sendQueue, wakeLast, pendingAck, sendLoop, batch, written>>
recvVars == <<recvLoop, inbox, aborted>>
connVars == <<task, attempts, userConnected, isReconnecting, userDisconnected,
              currentRetries, gone>>
keyVars  == <<hasKey, authenticated, keyBroken>>
netVars  == <<connected, wire, got, faults>>
vars     == <<reqVars, sendVars, recvVars, connVars, keyVars, netVars, pendingState>>

-----------------------------------------------------------------------------
(* Helpers *)

Outstanding == {m \in MsgIds : pendingState[m] # None}

WithoutKeeps(ids) == pendingState   \* mutant: what was answered is not deleted

Without(ids) == [m \in MsgIds |-> IF m \in ids THEN None ELSE pendingState[m]]

\* _getNewMsgId never repeats an id; an id the sender has forgotten is reused
\* here to keep the pool finite (an answer to it is the message "stray").
FreshIds ==
    MsgIds \ (Outstanding \cup wire \cup written
              \cup {msgId[x] : x \in States} \cup {containerId[x] : x \in States})

NewMsgId == CHOOSE m \in FreshIds : TRUE

\* MessagePacker._pendingStates: what was appended and has not settled.
PackerStates == {x \in States : promise[x] = "open"}

\* Resolving or rejecting states settles the promises that are still open.
Settle(S) == [x \in States |-> IF x \in S /\ promise[x] = "open" THEN "settled" ELSE promise[x]]

\* The states whose promise a rejection of everything pending settles.
PendingStates == {pendingState[m] : m \in Outstanding}

\* currentRetries matters only once it exceeds a finite limit.
GaveUp == IF ReconnectRetries = Infinity THEN FALSE ELSE currentRetries > ReconnectRetries

Retried == IF ReconnectRetries = Infinity \/ GaveUp THEN currentRetries ELSE currentRetries + 1

LoopConditionIgnoresUser == ~isReconnecting   \* mutant

LoopCondition == userConnected /\ ~isReconnecting

\* No continuation is ready: a task may start.
Quiet ==
    /\ sendLoop \notin {"packing", "packed"}
    /\ sendLoop = "wait" => sendQueue = <<>> /\ ~wakeLast
    /\ recvLoop # "process"
    /\ recvLoop = "recv" => connected

-----------------------------------------------------------------------------
Init ==
    /\ promise = [x \in States |-> "unborn"]
    /\ tries = [r \in Req |-> 0]
    /\ msgId = [x \in States |-> None]
    /\ containerId = [x \in States |-> None]
    /\ acknowledged = [x \in States |-> FALSE]
    /\ registered = [x \in States |-> FALSE]
    /\ sendQueue = <<>> /\ wakeLast = FALSE
    /\ pendingState = [m \in MsgIds |-> None]
    /\ pendingAck = FALSE
    /\ sendLoop = "off" /\ batch = <<>> /\ written = {}
    /\ recvLoop = "off" /\ inbox = <<>> /\ aborted = FALSE
    /\ task = "initial" /\ attempts = 0
    /\ userConnected = FALSE /\ isReconnecting = FALSE /\ userDisconnected = FALSE
    /\ currentRetries = 0
    /\ hasKey = ~FreshKey /\ authenticated = FALSE /\ keyBroken = FALSE
    /\ gone = FALSE
    /\ connected = FALSE /\ wire = {} /\ got = {} /\ faults = 0

Fault == faults < MaxFaults /\ faults' = faults + 1

\* The transport goes down: the server has received some of what was on the wire.
DropConnection ==
    /\ connected' = FALSE
    /\ wire' = {}
    /\ \E received \in SUBSET wire : got' = got \cup received

\* MTProtoSender._disconnect, up to the await of the socket's close.
Disconnect ==
    /\ userConnected' = FALSE
    /\ aborted' = TRUE
    /\ DropConnection

\* MTProtoSender.reconnect().
Reconnect ==
    \/ /\ LoopCondition /\ AutoReconnect
       /\ isReconnecting' = TRUE
       /\ currentRetries' = Retried
       /\ task' = "sleeping"
       /\ UNCHANGED <<userDisconnected, userConnected, aborted, connected, wire, got>>
    \/ /\ LoopCondition /\ ~AutoReconnect
       /\ isReconnecting' = TRUE
       /\ userDisconnected' = TRUE
       /\ Disconnect
       /\ UNCHANGED <<currentRetries, task>>
    \/ /\ ~LoopCondition
       /\ UNCHANGED <<isReconnecting, currentRetries, task, userDisconnected,
                      userConnected, aborted, connected, wire, got>>

NoReconnect ==
    UNCHANGED <<isReconnecting, currentRetries, task, userDisconnected,
                userConnected, aborted, connected, wire, got>>

-----------------------------------------------------------------------------
(* client.invoke *)

\* MessagePacker.append of one element.
Enqueue(x) == sendQueue' = Append(sendQueue, x) /\ wakeLast' = FALSE

\* invoke makes a RequestState and queues it.
Invoke(r) ==
    /\ promise[r] = "unborn"
    /\ ~userDisconnected /\ task \notin {"initial", "failed"}
    /\ RequestRetries > 0
    /\ promise' = [promise EXCEPT ![r] = "open"]
    /\ tries' = [tries EXCEPT ![r] = 1]
    /\ registered' = [registered EXCEPT ![r] = FALSE]
    /\ Enqueue(r)
    /\ UNCHANGED <<msgId, containerId, acknowledged, pendingAck, sendLoop, batch, written, recvVars, connVars, keyVars, netVars, pendingState>>

\* After the pause for a retryable error, resetPromise() and the next attempt
\* queue the same RequestState again.
Retry(r) ==
    /\ promise[r] = "failed"
    /\ promise' = [promise EXCEPT ![r] = "open"]
    /\ tries' = [tries EXCEPT ![r] = @ + 1]
    /\ registered' = [registered EXCEPT ![r] = FALSE]
    /\ Enqueue(r)
    /\ UNCHANGED <<msgId, containerId, acknowledged, pendingAck, sendLoop,
                   batch, written, recvVars, connVars, keyVars, netVars, pendingState>>

-----------------------------------------------------------------------------
(* _sendLoop *)

\* appendAcks(), on a queue q whose last element is the marker iff w.
AppendAcks(q, w) ==
    /\ sendQueue' = IF pendingAck THEN Append(q, Ack) ELSE q
    /\ wakeLast' = (w /\ ~pendingAck)
    /\ pendingAck' = FALSE

\* The top of the loop: exit, or append acknowledgements and wait.
SendLoopTop ==
    \/ /\ LoopCondition
       /\ sendLoop' = "wait"
       /\ AppendAcks(sendQueue, wakeLast)
    \/ /\ ~LoopCondition
       /\ sendLoop' = "off"
       /\ UNCHANGED <<sendQueue, wakeLast, pendingAck>>

\* wait() returned and get() finds the marker at the end of the queue.
SendLoopWoken ==
    /\ sendLoop = "wait" /\ wakeLast /\ ~pendingAck
    /\ wakeLast' = FALSE
    /\ sendLoop' = IF LoopCondition THEN "wait" ELSE "off"
    /\ UNCHANGED <<reqVars, sendQueue, pendingAck, batch, written, recvVars, connVars,
                   keyVars, netVars, pendingState>>

\* wait() returned and get() starts a batch.
SendLoopGet ==
    /\ sendLoop = "wait"
    /\ sendQueue # <<>> \/ wakeLast
    /\ ~wakeLast \/ pendingAck
    /\ AppendAcks(sendQueue, wakeLast)
    /\ sendLoop' = "packing"
    /\ UNCHANGED <<reqVars, batch, written, recvVars, connVars, keyVars, netVars, pendingState>>

\* get() shifts one element and gives it a new message id.
PackOne ==
    /\ sendLoop = "packing"
    /\ sendQueue # <<>> /\ Len(batch) <= MaximumLength
    /\ LET x == Head(sendQueue) IN
       /\ sendQueue' = Tail(sendQueue)
       /\ batch' = Append(batch, x)
       /\ \/ x = Ack /\ UNCHANGED <<msgId, written, got>>
          \/ /\ x # Ack /\ FreshIds # {}
             /\ msgId' = [msgId EXCEPT ![x] = NewMsgId]
             /\ written' = written \cup {NewMsgId}
             /\ got' = got \ {NewMsgId}
    /\ UNCHANGED <<promise, tries, containerId, acknowledged, registered, wakeLast, pendingAck,
                   sendLoop, recvVars, connVars, keyVars, connected, wire, faults, pendingState>>

\* get() returns the batch; a send loop that meets a reconnection drops it.
PackDone ==
    /\ sendLoop = "packing"
    /\ sendQueue = <<>> \/ Len(batch) > MaximumLength
    /\ \/ Len(batch) <= 1 /\ UNCHANGED containerId
       \/ /\ Len(batch) > 1 /\ FreshIds # {}
          /\ containerId' = [x \in States |-> IF x \in ToSet(batch) THEN NewMsgId
                                              ELSE containerId[x]]
    /\ \/ isReconnecting /\ sendLoop' = "off" /\ batch' = <<>> /\ written' = {}
       \/ ~isReconnecting /\ sendLoop' = "packed" /\ UNCHANGED <<batch, written>>
    /\ UNCHANGED <<promise, tries, msgId, acknowledged, registered, sendQueue, wakeLast,
                   pendingAck, recvVars, connVars, keyVars, netVars, pendingState>>

\* Mutant: only the first request of a batch is remembered.
RegisterHead ==
    LET sent == {Head(batch)} \cap Req IN
    /\ pendingState' = [m \in MsgIds |->
          IF \E x \in sent : msgId[x] = m THEN Head(batch) ELSE pendingState[m]]
    /\ registered' = [x \in States |-> registered[x] \/ x \in ToSet(batch) \cap Req]

\* _pendingState.set(state.msgId, state) for the requests of the batch.
Register ==
    LET sent == ToSet(batch) \cap Req IN
    /\ pendingState' = [m \in MsgIds |->
          IF \E x \in sent : msgId[x] = m THEN CHOOSE x \in sent : msgId[x] = m
          ELSE pendingState[m]]
    /\ registered' = [x \in States |-> registered[x] \/ x \in sent]

\* The batch is encrypted (the key is there: waitForKey), registered and sent.
Transmit ==
    /\ sendLoop = "packed" /\ hasKey
    /\ Register
    /\ batch' = <<>> /\ written' = {}
    /\ \/ /\ connected
          /\ wire' = wire \cup written
          /\ SendLoopTop
          /\ UNCHANGED <<isReconnecting, currentRetries, task, userDisconnected,
                         userConnected, aborted, connected, got>>
       \/ /\ ~connected
          /\ IF userDisconnected THEN NoReconnect ELSE Reconnect
          /\ sendLoop' = "off"
          /\ UNCHANGED <<sendQueue, wakeLast, pendingAck>>
    /\ UNCHANGED <<promise, tries, msgId, containerId, acknowledged, recvLoop, inbox,
                   attempts, gone, keyVars, faults>>

-----------------------------------------------------------------------------
(* _recvLoop *)

\* connection.recv() rejects: the transport is down.
RecvFails ==
    /\ recvLoop = "recv" /\ ~connected
    /\ \/ /\ aborted
          /\ recvLoop' = "off"
          /\ NoReconnect
          /\ UNCHANGED promise
       \/ /\ ~aborted /\ GaveUp
          /\ promise' = Settle(PendingStates)
          /\ userDisconnected' = TRUE
          /\ recvLoop' = "dead"
          /\ UNCHANGED <<isReconnecting, currentRetries, task, userConnected, aborted,
                         connected, wire, got>>
       \/ /\ ~aborted /\ ~GaveUp
          /\ IF userDisconnected THEN NoReconnect ELSE Reconnect
          /\ recvLoop' = "off"
          /\ UNCHANGED promise
    /\ UNCHANGED <<tries, msgId, containerId, acknowledged, registered, sendVars, inbox,
                   attempts, gone, keyVars, faults, pendingState>>

\* What the server may say: answer or acknowledge an id it has, or refuse an id
\* it has not accepted, or a container of which it has accepted nothing.
Refusable ==
    wire \cup {c \in {containerId[pendingState[m]] : m \in wire \cap Outstanding} \ {None} :
                 \A x \in States : containerId[x] = c => msgId[x] \in wire}

Answers == [kind : {"result", "unreadable", "error", "flood"}, id : wire \cup (got \cap Outstanding)]

Messages ==
    Answers
    \cup [kind : IF ServerAcks THEN {"ack"} ELSE {}, id : wire]
    \cup [kind : IF faults < MaxFaults THEN {"resend", "refused"} ELSE {}, id : Refusable]
    \cup [kind : IF faults < MaxFaults /\ Svc # {} THEN {"forgotten"} ELSE {}, id : {None}]
    \cup [kind : {"other", "stray"}, id : {None}]

\* A packet of one message or a container of several arrives and is decrypted.
RecvPacket ==
    /\ recvLoop = "recv" /\ connected /\ Quiet
    /\ \E n \in 1..MaxPacket : \E packet \in [1..n -> Messages] :
          /\ \A i, j \in 1..n : packet[i].id = packet[j].id => i = j
          /\ n > 1 => \A i \in 1..n : packet[i] \in Answers
          /\ inbox' = packet
          /\ faults' = IF \E i \in 1..n : packet[i].kind \in {"resend", "refused", "forgotten"}
                         THEN faults + 1 ELSE faults
    /\ recvLoop' = "process"
    /\ UNCHANGED <<reqVars, sendVars, aborted, connVars, keyVars, connected, wire, got,
                   pendingState>>

\* Mutant: a loop that exits here does not reset its handle.
RecvLoopTopKeepsHandle ==
    /\ inbox' = <<>>
    /\ recvLoop' = IF LoopCondition /\ ~aborted THEN "recv" ELSE "dead"
    /\ currentRetries' = 0

\* After a packet the loop resets the retry counter and tests its condition.
RecvLoopTop ==
    /\ inbox' = <<>>
    /\ recvLoop' = IF LoopCondition THEN IF aborted THEN "off" ELSE "recv" ELSE "off"
    /\ currentRetries' = 0

\* One message of the packet is processed and the next one follows.
Processed ==
    \/ Len(inbox) > 1 /\ inbox' = Tail(inbox) /\ UNCHANGED <<recvLoop, currentRetries>>
    \/ Len(inbox) = 1 /\ RecvLoopTop

\* A handler throws: the rest of a container is skipped.
Threw == RecvLoopTop

\* An error that is neither an RPCError nor a TypeNotFoundError goes to
\* client._errorHandler, if there is one, before the loop goes on.
ThrewUnknown ==
    \/ ErrorHandler /\ inbox' = <<>> /\ recvLoop' = "handler" /\ UNCHANGED currentRetries
    \/ Threw

\* The message the receive loop processes; _processMessage notes it for an acknowledgement.
Processing(kinds) == recvLoop = "process" /\ Head(inbox).kind \in kinds /\ pendingAck' = TRUE

processRest == <<tries, msgId, containerId, registered, sendLoop, batch, written, aborted,
                 task, attempts, userConnected, isReconnecting, userDisconnected, gone,
                 keyVars, connected, faults>>

Answered(m) == wire' = wire \ {m} /\ got' = got \ {m}

\* _handleRPCResult of a success: the state is resolved, or rejected when its
\* result cannot be read.  A result nobody waits for is logged.
HandleResult ==
    /\ Processing({"result", "unreadable"})
    /\ LET m == Head(inbox).id IN
       /\ promise' = Settle({pendingState[m]})
       /\ pendingState' = Without({m})
       /\ Answered(m)
       /\ IF m \in Outstanding /\ Head(inbox).kind = "unreadable" THEN ThrewUnknown
          ELSE Processed
    /\ UNCHANGED <<acknowledged, sendQueue, wakeLast, processRest>>

\* _handleRPCResult of an error: a MsgsAck is queued, the state is rejected and
\* the error thrown; invoke retries a flood wait while it has attempts left.
HandleError ==
    /\ Processing({"error", "flood"})
    /\ LET m == Head(inbox).id
           s == pendingState[m] IN
       /\ \/ /\ s # None
             /\ Enqueue(Ack)
             /\ promise' = IF s \in Req /\ Head(inbox).kind = "flood" /\ tries[s] < RequestRetries
                             THEN [promise EXCEPT ![s] = IF @ = "open" THEN "failed" ELSE @]
                             ELSE Settle({s})
             /\ Threw
          \/ /\ s = None
             /\ ThrewUnknown
             /\ UNCHANGED <<sendQueue, wakeLast, promise>>
       /\ pendingState' = Without({m})
       /\ Answered(m)
    /\ UNCHANGED <<acknowledged, processRest>>

\* _handleAck.
HandleAck ==
    /\ Processing({"ack"})
    /\ LET m == Head(inbox).id IN
       /\ acknowledged' = [x \in States |-> acknowledged[x] \/ x = pendingState[m]]
       /\ wire' = wire \ {m} /\ got' = got \cup {m}
    /\ Processed
    /\ UNCHANGED <<promise, sendQueue, wakeLast, pendingState, processRest>>

\* _popStates: the ids under which an id, or the members of a container, are pending.
PopIds(m) ==
    IF m \in Outstanding THEN {m}
    ELSE {msgId[pendingState[k]] : k \in {k \in Outstanding : containerId[pendingState[k]] = m}}
         \cap Outstanding

Popped(m) == {pendingState[k] : k \in PopIds(m)}

\* The states pending under some ids, in the order of the ids.  The Map lists them
\* in the order of their insertion; no property looks at the order.
Listed(ids) == LET s == SetToSeq(ids) IN [i \in DOMAIN s |-> pendingState[s[i]]]

\* _handleBadServerSalt, and _handleBadNotification with a code it can repair:
\* the popped states are queued again (extend).
HandleResend ==
    /\ Processing({"resend"})
    /\ LET m == Head(inbox).id IN
       /\ sendQueue' = sendQueue \o Listed(PopIds(m))
       /\ wakeLast' = (wakeLast /\ PopIds(m) = {})
       /\ pendingState' = Without(PopIds(m))
       /\ wire' = wire \ (PopIds(m) \cup {m})
    /\ Processed
    /\ UNCHANGED <<promise, acknowledged, got, processRest>>

\* _handleBadNotification with any other code rejects the popped states.
HandleRefused ==
    /\ Processing({"refused"})
    /\ LET m == Head(inbox).id IN
       /\ promise' = Settle(Popped(m))
       /\ pendingState' = Without(PopIds(m))
       /\ wire' = wire \ (PopIds(m) \cup {m})
    /\ Processed
    /\ UNCHANGED <<acknowledged, sendQueue, wakeLast, got, processRest>>

\* _handleStateForgotten: a MsgsStateInfo is queued.
HandleStateForgotten ==
    /\ Processing({"forgotten"})
    /\ \E s \in Svc : /\ promise[s] = "unborn"
                      /\ promise' = [promise EXCEPT ![s] = "open"]
                      /\ Enqueue(s)
    /\ Processed
    /\ UNCHANGED <<acknowledged, pendingState, wire, got, processRest>>

\* Updates, salts, session and detailed notices change nothing modelled here;
\* the error of a request the sender has forgotten throws.
HandleOther ==
    /\ Processing({"other", "stray"})
    /\ IF Head(inbox).kind = "stray" THEN ThrewUnknown ELSE Processed
    /\ UNCHANGED <<promise, sendQueue, wakeLast, acknowledged, pendingState, wire, got,
                   processRest>>

\* client._errorHandler returned; the loop goes on.
HandlerDone ==
    /\ recvLoop = "handler"
    /\ RecvLoopTop
    /\ UNCHANGED <<reqVars, sendVars, aborted, task, attempts, userConnected, isReconnecting,
                   userDisconnected, gone, keyVars, netVars, pendingState>>

\* Everything pending is rejected with a flood wait: invoke retries what it may.
FloodAll ==
    [x \in States |->
        IF x \in PendingStates /\ promise[x] = "open"
          THEN IF x \in Req THEN IF tries[x] < RequestRetries THEN "failed" ELSE "settled"
               ELSE "settled"
          ELSE promise[x]]

\* The packet is a transport error code, which rejects everything pending, or
\* cannot be decoded, which rejects nothing; then pending is cleared and the
\* sender reconnects, after client._errorHandler returned if there is one.
RecvBroken ==
    /\ recvLoop = "recv" /\ connected /\ Quiet
    /\ Fault
    /\ promise' \in {promise, Settle(PendingStates), FloodAll}
    /\ \/ ErrorHandler /\ recvLoop' = "failing" /\ NoReconnect /\ UNCHANGED pendingState
       \/ /\ ~ErrorHandler /\ recvLoop' = "off"
          /\ pendingState' = Without(MsgIds)
          /\ Reconnect
    /\ UNCHANGED <<tries, msgId, containerId, acknowledged, registered, sendVars, inbox,
                   attempts, gone, keyVars>>

BrokenHandlerDone ==
    /\ recvLoop = "failing"
    /\ recvLoop' = "off"
    /\ pendingState' = Without(MsgIds)
    /\ Reconnect
    /\ UNCHANGED <<reqVars, sendVars, inbox, attempts, gone, keyVars, faults>>

\* _handleBadAuthKey: the server does not know the key.
RecvBadAuthKey ==
    /\ recvLoop = "recv" /\ connected /\ Quiet
    /\ Fault
    /\ keyBroken' = TRUE /\ authenticated' = FALSE
    /\ userDisconnected' = TRUE
    /\ promise' = Settle(PendingStates)
    /\ pendingState' = Without(MsgIds)
    /\ recvLoop' = "off"
    /\ UNCHANGED <<tries, msgId, containerId, acknowledged, registered, sendVars, inbox, aborted,
                   task, attempts, userConnected, isReconnecting, currentRetries, gone, hasKey,
                   connected, wire, got>>

-----------------------------------------------------------------------------
(* Connecting, reconnecting, disconnecting *)

\* The transport goes down.
Break ==
    /\ connected /\ Quiet
    /\ Fault
    /\ DropConnection
    /\ UNCHANGED <<reqVars, sendVars, recvVars, connVars, keyVars, pendingState>>

\* The ping of _updateLoop fails, by a fault or because nobody receives the
\* pong: it calls reconnect().
PingFails ==
    /\ Quiet /\ LoopCondition
    /\ IF recvLoop = "recv" THEN Fault ELSE UNCHANGED faults
    /\ Reconnect
    /\ UNCHANGED <<reqVars, sendVars, recvLoop, inbox, attempts, gone, keyVars, pendingState>>

\* The application calls disconnect().
UserDisconnect ==
    /\ MayDisconnect /\ ~gone /\ Quiet
    /\ gone' = TRUE
    /\ userDisconnected' = TRUE
    /\ Disconnect
    /\ UNCHANGED <<reqVars, sendVars, recvLoop, inbox, task, attempts, isReconnecting,
                   currentRetries, keyVars, faults, pendingState>>

\* The application calls connect() on the sender it has kept: a sender that is up
\* only forgets disconnect(), another one connects with the key it holds.  A call
\* while a connection is being made is left out.
UserConnect ==
    /\ MayConnect /\ Quiet
    /\ task \in {"idle", "failed"}
    /\ gone' = FALSE
    /\ userDisconnected' = FALSE
    /\ IF userConnected THEN UNCHANGED <<task, attempts>>
       ELSE /\ task' = IF task = "failed" THEN "initial" ELSE "again"
            /\ attempts' = 0
    /\ UNCHANGED <<reqVars, sendVars, recvVars, userConnected, isReconnecting, currentRetries,
                   keyVars, netVars, pendingState>>

\* The delay is over: _reconnect() closes the connection.
StartReconnect ==
    /\ task = "sleeping" /\ Quiet
    /\ task' = "closing"
    /\ Disconnect
    /\ UNCHANGED <<reqVars, sendVars, recvLoop, inbox, attempts, isReconnecting,
                   userDisconnected, currentRetries, gone, keyVars, faults, pendingState>>

\* Mutants: nothing is saved; states that have no message id are saved too.
ReaddedNothing(kept) == kept

ReaddedAll(kept) ==
    [m \in MsgIds \cup {msgId[x] : x \in PackerStates} |->
        IF \E x \in PackerStates : msgId[x] = m THEN CHOOSE x \in PackerStates : msgId[x] = m
        ELSE kept[m]]

\* _pendingStates that have a message id go back to pending.
Readded(kept) ==
    [m \in MsgIds |-> IF \E x \in PackerStates : msgId[x] = m
                        THEN CHOOSE x \in PackerStates : msgId[x] = m
                        ELSE kept[m]]

\* Mutant: the key survives whether or not it is known to be good.
KeptKeyAlways == hasKey

\* _reconnect() clears a key that was not used successfully.
KeptKey == hasKey /\ authenticated

\* The connection is closed: _reconnect() drops a key it does not know to be
\* good, saves what was sent, empties the queue and connects anew.
Closed ==
    /\ task = "closing" /\ Quiet
    /\ pendingState' = Readded(IF authenticated THEN pendingState ELSE Without(MsgIds))
    /\ hasKey' = KeptKey
    /\ sendQueue' = <<>> /\ wakeLast' = TRUE
    /\ userDisconnected' = FALSE
    /\ task' = "connecting" /\ attempts' = 0
    /\ UNCHANGED <<reqVars, pendingAck, sendLoop, batch, written, recvVars, userConnected,
                   isReconnecting, currentRetries, gone, authenticated, keyBroken, netVars>>

\* Mutants of the end of _reconnect(): nothing is sent again; pending is kept
\* although its states are queued; pending is cleared although some wait in it.
ResendNothing(q) == sendQueue' = q /\ UNCHANGED <<wakeLast, pendingState, promise>>

ResendKeeps(q) ==
    /\ sendQueue' = Listed(Outstanding) \o q
    /\ wakeLast' = (wakeLast /\ q = sendQueue)
    /\ UNCHANGED <<promise, pendingState>>

ResendForgets(q) ==
    /\ sendQueue' = Listed({m \in Outstanding : ~acknowledged[pendingState[m]]}) \o q
    /\ wakeLast' = (wakeLast /\ q = sendQueue)
    /\ pendingState' = Without(MsgIds)
    /\ UNCHANGED promise

\* The end of _reconnect(), on the queue q: unacknowledged states go to its
\* front; acknowledged ones stay pending and
\* their status is asked for, and then all of pending stays.
ResendPending(q) ==
    LET asked    == {m \in Outstanding : acknowledged[pendingState[m]]}
        toResend == Listed(Outstanding \ asked) IN
    \/ /\ asked = {}
       /\ sendQueue' = toResend \o q
       /\ wakeLast' = (wakeLast /\ q = sendQueue)
       /\ pendingState' = Without(MsgIds)
       /\ UNCHANGED promise
    \/ /\ asked # {}
       /\ \E s \in Svc : /\ promise[s] = "unborn"
                         /\ promise' = [promise EXCEPT ![s] = "open"]
                         /\ sendQueue' = Append(toResend \o q, s)
       /\ wakeLast' = FALSE
       /\ UNCHANGED pendingState

\* Mutant: isReconnecting is not reset.
ConnectEndsReconnecting == task' = "idle" /\ attempts' = 0 /\ UNCHANGED isReconnecting

\* connect() returned and _reconnect() is over.
ConnectEnds == task' = "idle" /\ attempts' = 0 /\ isReconnecting' = FALSE

\* _connect() succeeds: the flags are set and the loops that are not running start.
Connected ==
    /\ Quiet
    /\ connected' = TRUE
    /\ hasKey' = TRUE
    /\ authenticated' = (authenticated \/ hasKey)
    /\ keyBroken' = (keyBroken /\ hasKey)
    /\ userConnected' = TRUE
    /\ ConnectEnds
    /\ sendLoop' = IF sendLoop = "off" THEN "wait" ELSE sendLoop
    /\ recvLoop' = IF recvLoop = "off" THEN "recv" ELSE recvLoop
    /\ aborted' = (aborted /\ recvLoop # "off")

\* The connection of client.connect() is up; what is queued or pending since an
\* earlier connection stays there.  The loop that starts appends its acks.
FirstConnect ==
    /\ task \in {"initial", "again"}
    /\ Connected
    /\ IF sendLoop = "off" THEN AppendAcks(sendQueue, wakeLast)
       ELSE UNCHANGED <<sendQueue, wakeLast, pendingAck>>
    /\ UNCHANGED <<reqVars, batch, written, inbox, userDisconnected, currentRetries, gone,
                   wire, got, faults, pendingState>>

\* The connection of _reconnect() is up; the loop that starts appends its acks.
Reconnected ==
    /\ task = "connecting"
    /\ Connected
    /\ LET acks == sendLoop = "off" /\ pendingAck IN
       /\ ResendPending(IF acks THEN Append(sendQueue, Ack) ELSE sendQueue)
       /\ pendingAck' = (pendingAck /\ ~acks)
    /\ UNCHANGED <<tries, msgId, containerId, acknowledged, registered, batch, written, inbox,
                   userDisconnected, currentRetries, gone, wire, got, faults>>

LastAttempt == IF ConnectionRetries = Infinity THEN FALSE ELSE attempts + 1 >= ConnectionRetries

\* An attempt of connect() fails; after the last one connect() returns false,
\* which _reconnect() does not look at.
ConnectFails ==
    /\ task \in {"initial", "again", "connecting"} /\ Quiet
    /\ Fault
    /\ \/ /\ ~LastAttempt
          /\ attempts' = IF ConnectionRetries = Infinity THEN 0 ELSE attempts + 1
          /\ UNCHANGED <<task, isReconnecting, promise, sendQueue, wakeLast, pendingState>>
       \/ /\ LastAttempt /\ task # "connecting"
          /\ attempts' = 0 /\ task' = IF task = "initial" THEN "failed" ELSE "idle"
          /\ UNCHANGED <<isReconnecting, promise, sendQueue, wakeLast, pendingState>>
       \/ /\ LastAttempt /\ task = "connecting"
          /\ ConnectEnds
          /\ ResendPending(sendQueue)
    /\ UNCHANGED <<tries, msgId, containerId, acknowledged, registered, pendingAck, sendLoop,
                   batch, written, recvVars, userConnected, userDisconnected, currentRetries,
                   gone, keyVars, connected, wire, got>>

-----------------------------------------------------------------------------
SendLoopStep == SendLoopWoken \/ SendLoopGet \/ PackOne \/ PackDone \/ Transmit

ProcessStep ==
    HandleResult \/ HandleError \/ HandleAck \/ HandleResend \/ HandleRefused
    \/ HandleStateForgotten \/ HandleOther

RecvLoopStep == RecvFails \/ ProcessStep \/ HandlerDone \/ BrokenHandlerDone

ConnectStep == StartReconnect \/ Closed \/ FirstConnect \/ Reconnected

Environment ==
    RecvPacket \/ RecvBroken \/ RecvBadAuthKey \/ Break \/ PingFails \/ ConnectFails

Next ==
    \/ \E r \in Req : Invoke(r) \/ Retry(r)
    \/ SendLoopStep
    \/ RecvLoopStep
    \/ ConnectStep
    \/ Environment
    \/ UserDisconnect \/ UserConnect

Spec == Init /\ [][Next]_vars

\* The server answers or acknowledges something it was sent on this connection.
ServerAnswers ==
    RecvPacket /\ \E i \in DOMAIN inbox' :
        inbox'[i].id \in wire /\ inbox'[i].kind \in {"result", "unreadable", "error", "flood", "ack"}

\* Continuations and timers run; a server that can be reached again and again
\* answers; nobody else is obliged to act.
FairSpec ==
    /\ Spec
    /\ WF_vars(SendLoopStep) /\ WF_vars(RecvLoopStep) /\ WF_vars(ConnectStep)
    /\ WF_vars(recvLoop # "recv" /\ PingFails)
    /\ SF_vars(ServerAnswers)

-----------------------------------------------------------------------------
(* Properties *)

Message ==
    [kind : {"result", "unreadable", "error", "flood", "ack", "resend", "refused"}, id : MsgIds]
    \cup [kind : {"forgotten", "other", "stray"}, id : {None}]

ReqTypeOK ==
    /\ promise \in [States -> {"unborn", "open", "failed", "settled"}]
    /\ tries \in [Req -> Nat]
    /\ msgId \in [States -> MsgIds \cup {None}]
    /\ containerId \in [States -> MsgIds \cup {None}]
    /\ acknowledged \in [States -> BOOLEAN]
    /\ registered \in [States -> BOOLEAN]
    /\ pendingState \in [MsgIds -> States \cup {None}]

LoopTypeOK ==
    /\ sendQueue \in Seq(States \cup {Ack})
    /\ sendLoop \in {"off", "wait", "packing", "packed"}
    /\ batch \in Seq(States \cup {Ack}) /\ written \subseteq MsgIds
    /\ recvLoop \in {"off", "recv", "process", "handler", "failing", "dead"}
    /\ inbox \in Seq(Message)

LinkTypeOK ==
    /\ task \in {"initial", "failed", "again", "idle", "sleeping", "closing", "connecting"}
    /\ attempts \in Nat /\ currentRetries \in Nat /\ faults \in Nat
    /\ wire \subseteq MsgIds /\ got \subseteq MsgIds

FlagTypeOK ==
    /\ wakeLast \in BOOLEAN /\ pendingAck \in BOOLEAN
    /\ userConnected \in BOOLEAN /\ isReconnecting \in BOOLEAN /\ userDisconnected \in BOOLEAN
    /\ aborted \in BOOLEAN /\ connected \in BOOLEAN /\ gone \in BOOLEAN
    /\ hasKey \in BOOLEAN /\ authenticated \in BOOLEAN /\ keyBroken \in BOOLEAN

TypeOK == ReqTypeOK /\ LoopTypeOK /\ LinkTypeOK /\ FlagTypeOK

Queued(x) == x \in ToSet(sendQueue) \cup ToSet(batch)

\* A request the sender has sent and not settled stays in its hands until the
\* answer: queued, held by the send loop, pending, or about to be saved by a
\* reconnection that has not rebuilt the pending map yet.
SentIsTracked ==
    \A r \in Req : promise[r] = "open" /\ registered[r] =>
        Queued(r) \/ r \in PendingStates \/ task \in {"sleeping", "closing"}

\* While the connection works, a sent request is queued again or its answer can
\* still arrive: it is pending under an id the server has or will get.
SentIsAnswerable ==
    \A r \in Req :
        promise[r] = "open" /\ registered[r] /\ LoopCondition /\ connected =>
            Queued(r) \/ \E m \in wire \cup got : pendingState[m] = r

\* While the sender is up and the user has not disconnected it, both loops run:
\* no order of failures, exits and restarts leaves one without a successor.
LoopsRun ==
    LoopCondition /\ ~userDisconnected => sendLoop # "off" /\ recvLoop \notin {"off", "dead"}

\* How often a state is queued, held or pending.
Copies(x) ==
    Cardinality({i \in DOMAIN sendQueue : sendQueue[i] = x})
    + Cardinality({i \in DOMAIN batch : batch[i] = x})
    + Cardinality({m \in MsgIds : pendingState[m] = x})

\* An open request is never queued twice, nor queued while an earlier sending of
\* it waits for its answer: a resend replaces what it resends.
SingleCopy == \A x \in States : Copies(x) <= 1

\* What is pending waits for an answer: nothing settled is remembered, to be
\* sent again by the next reconnection.
PendingIsOpen == \A m \in Outstanding : promise[pendingState[m]] = "open"

\* A key the server rejected is not taken for a good one again, whatever
\* reconnections follow: it is replaced first.  The exception is connect() by the
\* application, which takes the key the sender holds for good without a test.
RejectedKeyReplaced ==
    [][keyBroken' /\ authenticated' /\ ~authenticated => task \in {"initial", "again"}]_vars

\* A sent request that the server has not acknowledged gets its answer or is
\* acknowledged, whatever finite series of faults it meets.
SentSettles ==
    \A r \in Req :
        (registered[r] /\ promise[r] = "open" /\ ~acknowledged[r])
            ~> (promise[r] # "open" \/ acknowledged[r])

\* A sender that disconnect() took down with no reconnection under way stays down
\* until the application calls connect(): no late failure, handler or message of
\* the old connection brings it up.  (A reconnection under way undoes disconnect().)
StaysDown ==
    [][gone /\ ~userConnected /\ task \in {"idle", "failed"} =>
         (~userConnected' /\ task' = task) \/ UserConnect]_vars

\* A reconnection ends, whatever failures, handlers and limits it meets.
ReconnectEnds == isReconnecting ~> ~isReconnecting

-----------------------------------------------------------------------------
(* Claims of the documentation and the comments *)

\* "including retry of messages that could not be sent successfully": a request
\* the sender took is never forgotten.
TakenIsTracked ==
    \A r \in Req : promise[r] = "open" =>
        Queued(r) \/ r \in PendingStates \/ (task \in {"sleeping", "closing"} /\ msgId[r] # None)

\* For TLC: requests are interchangeable, as ids are chosen among numbers and never by request.
RequestSymmetry == Permutations(Req)

=============================================================================
