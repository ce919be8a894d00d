# A TLA+ verification of teleproto

teleproto is a Telegram client library in TypeScript: it speaks the MTProto
protocol, keeps a session, reconnects by itself, runs requests and dispatches
updates.  This directory holds TLA+ modules translated from its source, TLC
configurations that check them on small instances, and theorems that TLAPS
checks for every value of the constants.  Paths below are relative to
`src/teleproto/`.

## How to run

    tlc -config sender_core.cfg MTProtoSender       any run of PROJECT.json
    tlc -config transfer.cfg Transfer               likewise
    tlapm MTProtoSenderProofs.tla                   the proofs, and likewise
    tlapm UpdatesProofs.tla                         ChannelsProofs, SlotsProofs,
                                                    TransferProofs, SessionsProofs,
                                                    TransportProofs, PartsProofs

## Inventory

| Part | State it keeps | Operations | Correct when | Modules |
|---|---|---|---|---|
| Main sender, `network/MTProtoSender.ts`, with `invoke` of `client/users.ts` and the pings of `client/updates.ts` | queue, pending map, acknowledgements, two loop handles, flags of the connection and of the key | `connect`, `disconnect`, `reconnect`, `send`, the two loops, 14 response handlers | no request that was sent is lost, doubled or stranded; loops have successors; reconnections end; a bad key is replaced | `MTProtoSender` |
| Packer and protocol state, `extensions/MessagePacker.ts`, `network/MTProtoState.ts`, `network/ReceivedIdsManager.ts` | queue, open states, wake promise; ids, sequence, time offset, key; window of received ids | `append`, `prepend`, `extend`, `clear`, `wait`, `get`; sealing, opening, registration | ids and sequence numbers grow, `after` chains follow the queue; nothing is processed twice or refused wrongly; what is sealed can be opened | `MessagePacker`, `ReceivedIds`, `Envelope` |
| Transport, `network/connection/*`, `extensions/AsyncQueue.ts`, `extensions/PromisedNetSockets.ts` | socket, two one-place queues, codec, obfuscation | `connect`, `send`, `recv`, loops | packets whole and in order, a closed socket wakes everyone | `Transport`, `PacketCodecs`, `Proxies` |
| Updates, `client/UpdateManager.ts`, `client/PtsWaiter.ts` | pts, seq, trackers of channels, queues of skipped updates, timers | `onUpdates`, differences, recovery | no update is lost over a gap | `PtsWaiter`, `Updates`, `Channels` |
| Slots and leases, `network/SenderSlot.ts`, `network/Network.ts`, `network/Dcenter.ts` | a sender per (shifted) data center, counts, timers, temporary keys | `ensureConnected`, `lease`, `markDead`, idle time-out | one sender per slot, none leaked, none used after its death; no caller waits for ever | `Slots` |
| Media, `network/MediaScheduler.ts`, `network/BalancePolicy.ts`, `network/OrderedWriter.ts`, `client/downloads.ts`, `client/uploads.ts` | windows, waiters, flood wait, stash of parts, permits | `getFile`, `savePart`, parts in flight | windows are respected, no waiter sleeps for ever, parts are written once and in order | `MediaScheduler`, `Transfer`, `FileTransfer`, `Uploads` |
| Key exchange and cryptography, `network/Authenticator.ts`, `crypto/*` | the parameters of an attempt | three requests, AES, factorization | both sides have one key; what is encrypted can be decrypted | `KeyExchange`, `Aes`, `Ciphers` |
| Sessions and data centers, `sessions/*`, `client/TelegramClient.ts` | data center, key, on the disk and in memory | `setDC`, `setAuthKey`, `_switchDC`, `logOut` | the key stored for a data center was made with it | `Sessions`, `Codecs` |
| Entities, `entityCache.ts`, `sessions/Memory.ts`, `client/users.ts` | peers by use, rows by id and name | `getEntity`, `getInputEntity`, eviction | the right peer, with a hash that can be used | `EntityCache`, `Entities` |
| Authorization, `client/auth.ts`, `client/2fa.ts`, `Password.ts` | hash of the code, poll of tokens, password parameters | sign-in by code, QR code, password | the code goes with its hash; a scan is noticed; a right password is accepted | `Login`, `Passwords` |
| Events, `client/updates.ts`, `events/*` | handlers, album timers, resolved chats | dispatch, `resolve`, `build`, `filter` | a handler hears of all it asked for and of nothing else | `EventDispatch`, `EventFilters`, `ChatActions` |
| Messages, chats, dialogs, `requestIter.ts`, `client/messages.ts`, `client/dialogs.ts`, `client/chats.ts`, `client/buttons.ts`, `tl/custom/message.ts` | buffer and offset of an iteration; buttons | iteration, sending, forwarding, editing, clicking, kicking | nothing skipped, doubled or out of order; answers go to their messages | `RequestIter`, `MessagesIter`, `DialogsIter`, `Members`, `Sending`, `Keyboards` |
| Text and type layer, `extensions/*`, `Helpers.ts`, `Utils.ts`, `tl/runtime/*` | the shared description of fields | parsing, writing | what is written reads back | `TextEntities`, `TlObjects`, `Codecs` |
| Errors, generated API, build | tables | | | not modelled |

How they interact: a call enters through `invoke`, which queues a
`RequestState` at a sender (the main one, or one leased from `Network`) and
awaits its promise.  The sender's send loop takes batches from the packer and
writes them to the `Connection`; its receive loop reads packets, decrypts them
with `MTProtoState` and calls a handler, which settles promises, queues states
again, or hands updates to `UpdateManager`, which may call `invoke` in turn.
`reconnect()` is called from both loops and from the ping loop; it is the only
place where queue, pending map and connection are rebuilt.

What is hard: every `await` is a point where a timer, a socket event or the
application can run; `reconnect()` and `disconnect()` arrive at any of them;
state is held in four places (queue, batch, pending map, packer list) that are
emptied at different moments; the server may answer twice, late or never.  The
hazards, each at its line, are in `PROJECT.json`.

## Modules

A module has one component: its state as variables with the names of the code,
one action per operation or step between two awaits, its properties and then
`mutants`, operators that change one definition the way a bug would, which the
properties must notice.  The header comment of a module says which files it is
translated from and what it abstracts.

| Module | Content |
|---|---|
| `MTProtoSender` | the sender with the packer's queue, the pending map, `invoke`'s retry loop, the ping that fails, the transport and the server |
| `MessagePacker` | the packer with the sending half of the protocol state: batches, containers, ids, sequence numbers, `after` chains, forced ids of a binding |
| `ReceivedIds` | the window of received ids under late, doubled and reordered messages |
| `Envelope` | sealing and opening with a key that siblings take away and give anew |
| `Transport` | socket, frames, the two queues, the two loops, and who uses them: the key exchange, then the receive loop |
| `PacketCodecs` | four codecs with quick acknowledgements and transport errors |
| `Proxies` | obfuscated streams, MTProxy and data center secrets, the pretended TLS |
| `PtsWaiter` | the counter of one update box: good, last and count, the queue of skipped updates and its timer |
| `Updates` | extends `PtsWaiter` with the common box of `UpdateManager`, the calls of `client/updates.ts` and the application, and the server |
| `Channels` | extends `PtsWaiter` with the box of a channel: its difference, too long updates, retries, lost access, and a stop in between |
| `Slots` | the senders of a data center: sessions, slots, attempts in a chain, leases, idle timers, the temporary key they share and its binding |
| `MediaScheduler` | the balance policy, windows, waiters, flood waits, removal of sessions, purge and close |
| `Transfer` | extends `MediaScheduler` with the loops of a download or an upload, the semaphore and the ordered writer |
| `FileTransfer` | what the transfer of a file promises: the abstract specification `Transfer` implements |
| `Uploads` | what `sendFile` and `_sendAlbum` make of files, captions and options |
| `KeyExchange` | the three requests of the exchange, with answers to earlier attempts |
| `Aes`, `Ciphers` | one block with its tables; chaining, and the search for factors step by step |
| `Sessions` | data centers and keys on the disk and in memory, with crashes between two writes |
| `EntityCache`, `Entities` | eviction by use and age; the resolution of ids, names and peers through cache, rows and network |
| `Login`, `Passwords` | sign-in with its polls, updates and aborts; two-step verification beside others who change the password |
| `EventDispatch`, `EventFilters`, `ChatActions` | dispatch, albums and errors; what a handler asks for; what an event tells |
| `RequestIter`, `MessagesIter`, `DialogsIter`, `Members` | the iterator, and three that extend it, over lists that change between two chunks |
| `Sending`, `Keyboards` | calls that post messages and find their answers; buttons given, found and pressed |
| `TextEntities`, `TlObjects`, `Codecs` | text with entities; objects of TL; numbers, ids and sessions |
| `MCUpdates` | constants for TLC |
| `MCLive`, `MCParts` | many components side by side, see below |
| `MTProtoSenderProofs` | theorems about the sender: what it tracks, what it holds, its loops and its key |
| `UpdatesProofs`, `ChannelsProofs` | theorems about the common box and channels: what is watched, and what may be lost |
| `SlotsProofs`, `TransferProofs`, `SessionsProofs` | theorems about slots, transfers with their scheduler, and sessions |
| `TransportProofs` | theorems about the bytes of a connection, its queues and loops |
| `PartsProofs` | theorems about the packer, the window of received ids, the cache of peers, their resolution, and the login |

### One behavior, one subject

Most components of a client library are small next to the sender and share no state with
each other: a run for each would say little.  `MCParts` and `MCLive` hold an instance of
most of them (`INSTANCE ...  WITH`), all over the same variables `v1`, `v2`, ...; the
variable `subject` says which component a behavior is about, and never changes.  A
property there is a conjunction of implications on the subject, so that one name stands
for one question, such as whether everything that is written reads back, asked of every
component it concerns.  The state space is the sum, not the product, of those of the
components.  `MCParts` is for safety, `MCLive` states in addition the fairness that each
component gives as its own `FairSpec`.  The components there that have theorems,
`Sessions`, `ReceivedIds`, `EntityCache`, `MessagePacker` and `Entities` in `MCParts`,
`Channels`, `Transport` and `Login` in `MCLive`, are extended and keep their own
variables, which rest in the initial state when the subject is another, so that TLC
checks the very definitions and assumptions the proofs use.  To be extended together
they have initial states and actions of different names (`TransportInit`, `LoginNext`,
...).

### How `MTProtoSender` corresponds to the code

State.  `promise`, `msgId`, `containerId`, `acknowledged` are fields of `RequestState`;
`tries` is `attempt` in `invoke`.  `sendQueue` and `wakeLast` are
`MessagePacker._queue`: `clear()` leaves an `undefined` at its end, which is the flag,
because `get()` looks only at the last element.  `_pendingStates` of the packer is what
is open (`PackerStates`).  `batch` and `written` are what `get()` has built.
`pendingState` is `_pendingState`.  `sendLoop` and `recvLoop` say where each loop
awaits; `off` means its handle is unset and `dead` that the loop returned with its
handle set.  `task` is the async call that connects: `initial` (`client.connect`),
`sleeping` (the delay of `reconnect()`), `closing` and `connecting` (the two awaits of
`_reconnect()`), `again` (`connect()` by the application on the sender it kept).  The
flags have the names of the code.  `connected`, `wire` and `got` are the transport and
the server: ids on this connection without an answer, and ids the server has and may
answer at any time, also on a later connection.  `registered`, `keyBroken` and `gone`
are history.

Steps.  JavaScript runs to completion, and a chain of resolved promises runs
before the next timer or socket event.  Steps of the loops that wait for nothing
external are therefore continuations; an action that starts from a timer, the
socket or the application is guarded by `Quiet`, which says that no
continuation is ready.  `invoke` may queue a request at any point, because a
settled promise makes the application's continuation run among the others.  One
action is everything between two awaits, handlers included: `HandleError`
removes the state, queues the acknowledgement, rejects the promise, throws, and
with `RecvLoopTop` does what the loop does after the exception.

Data.  Payloads, salts, sequence numbers, sizes and times are left out.  A
message of the server is a kind and an id: `result`, `unreadable` (a result that
cannot be decoded), `error`, `flood` (an error `invoke` retries), `ack`,
`resend` (bad salt, or a notification with a code that can be repaired),
`refused` (any other code), `forgotten` (MsgsStateReq and MsgResendReq),
`stray` (an error for a request the sender has forgotten), and `other`.
`currentRetries` is kept only while the limit is finite.

The application may disconnect and connect again (`UserDisconnect`, `UserConnect`;
`TelegramClient.ts:1632`, `telegramBaseClient.ts:530`): a sender that is up forgets only
that it was disconnected (275-276), one that is down connects with the key it holds,
which is then taken for good (458-459).  `sender_limits` has it; in the bounds of
`sender_core` `SentIsTracked`, `SingleCopy` and `PendingIsOpen` hold with it too,
`SentIsAnswerable` and `LoopsRun` do not (below).  A call of `connect()` while a
connection is being made is left out.

Left out of the sender: `_lastAcks` (acknowledgements have no promise, and
the lookup at lines 873-877 finds none), salts, wrapping with `initConnection`,
callbacks of media senders, and the rejection of a batch that cannot be
encrypted (612-629), which `waitForKey` makes unreachable.  Time offset and
sequence numbers are in `MessagePacker`, the binding of temporary keys in
`Slots`.  A packet that is a duplicate or has an unknown
constructor is skipped by `continue` and changes nothing.

### How `PtsWaiter` and `Updates` correspond to the code

State.  `good`, `last`, `count`, `requesting`, `waitingForSkipped` and `queue`
are the fields of `PtsWaiter`, `timer` is `globalPtsTimer`.  `hasState`, `pts`
and `seq` are `state`; `pendingSeq`, `fetching` and `running` have their names
in `UpdateManager`.  `retryHandle` is whether `failRetryTimer` is set and
`retryTimers` how many such timers are armed, because the handle may be
overwritten (472).  `loop` holds the requests in flight and where the function
that made each is: `asked`, `answered`, `processed` (after `processDifference`,
before `state` is assigned) and `ended` (before the finally block of
`fetchCommonDifference`); `kind` is who called `fetchDifferenceLoop`, or
`getState`.  `draining` is the rest of the list in `drainPendingSeq`.
`delivered`, `floor` and `atRisk` are history.

Steps.  An action is what runs between two awaits.  Only `drainPendingSeq` is
split, one action per container; nothing else of the client runs until it is
through (`Quiet`).  `FeedUpdate` is `feedUpdate` with `updateAndApply` and all
it applies; `ReceiveNext`, `ReceiveOld` and `ReceiveEarly` are the three exits
of `handleContainer`, `ReceiveUpdate` the rest of `onUpdates`.  `CatchUp` is the
application's `catchUp()` and `recoverIfStale()`, which run the same loop beside
whatever is running; `RefreshState` the update loop's half-hourly `getState`;
`GotState` what `catchUp`, `ensureState` and `refreshFromState` do with it.

Data.  An update is its pts; `PtsCount` is its pts_count, and `Numbered` are the
updates the server pushes in a container with a seq, each alone in it.  The
server pushes an update at most once, in any order or not at all, and answers a
request with the state, an empty, full, sliced or too long difference, or an
error, at any time.  The pts of an account is positive, so the waiter is never
found uninitialised once there is a state.  Left out: channels, which are in
`Channels`, the buffer that drops messages already dispatched (`EventDispatch`;
`delivered` is a set), qts, dates, entities, and the growing delay of retries.

### How the other modules correspond to the code

Everywhere an action is what runs between two awaits, with the trailing writes,
timers and wake-ups of the code, and a program counter (`pc`, `stage`, `flow`,
`phase`) names the await a call is in.  What a server, a peer, a callback of the
application or a crash may do is nondeterministic; faults are counted by
`MaxFaults`.

* `Slots`.  `registry` is `Network._slots`, `slot` the fields of the `SenderSlot`s,
  `chain` the `_connectChains` that keep attempts apart (`Network.ts:104-163`), `worker`
  a caller that uses a session.  `sender` is the life of a borrowed `MTProtoSender`:
  connecting, binding, asking its first request, up, reconnecting, broken.  `mediaKey`
  and `mediaBound` are the shared temporary key of `Dcenter`; `boundKeys`, `badKeys`,
  `racedKeys` and `forsaken` are history.
* `Transport`.  A frame is a number and a byte its position in it; `stream` and
  `readable` are the buffer of the socket and whether its promise is resolved,
  `recvArray` and `sendArray` the two `AsyncQueue`s, `readers` and `sendTask` the loops
  of the `Connection`, which may outlive an attempt.  `client` is who uses the
  connection.  `reads` is how the codec reads: `exactly` for obfuscated connections and
  the full codec; `at most` for the abridged and the intermediate one on a plain socket,
  whose `read()` (`PromisedNetSockets.ts:58-75`) gives what is there; `short` from when
  it gave less than was asked for, and everything behind it is shifted.
* `MediaScheduler` and `Transfer`.  `balance` is a `BalancePolicy` per generation,
  since `purge()` makes a new one while old calls go on; a task has the place
  where its part is.  `Transfer` adds the loop, the permits, the stash of the
  `OrderedWriter` and the write that is awaited.
* `Login`.  `flow` is the place in `signInUser` or `signInUserWithQrCode`; `account` is
  what it meets at the server (an unknown number, a password, another data center),
  `poll` the coroutine that asks for tokens, `stop` its flag.  A hash that is not taken
  from the answer to a verified email is `staleHash`.
* `Channels`.  As `Updates`, with `fetch` the calls of `fetchChannelDifference` by the
  await they are in; `forgotten` and `skipped` are what the queue held when one
  began that failed, or ended for want of the channel.
* `MessagePacker`.  `queue`, `after` and `pending` are those of the packer, the
  request states and the sender; ids count from the clock, the offset and
  `_lastMsgId`; `fresh` begins as the states of a session.  `opened` is `_pendingStates`
  and `numbered` the states that have a `msgId`: both decide what a reconnection saves.
  A batch is written in one step, and the server acknowledges nothing (it does in
  `MTProtoSender`): pending states that are acknowledged stay there when they are queued.
* `Envelope`.  A sealed text is a record of the key, the id of the key, and what was
  hashed; opening compares what the code compares, in its order.  `making` counts the
  exchanges that were begun while there was no key, by this sender or a sibling: each
  sets its key when it ends, also over one that is there (`MTProtoSender.ts:436-450`),
  and the id follows when its hash is known (`AuthKey.ts:34-39`).  `overtaken` are the
  texts that were being sealed with a key that was then replaced or taken away; they
  alone may have an id that is not of their key.
* `KeyExchange`, `Passwords`.  Arithmetic is exact in a small group; a hash is the
  tuple of what is hashed, so that equal hashes mean equal inputs.
* `Aes`, `Ciphers`.  Real AES-256 in GF(2^8), a byte being a set of bits; its
  tables are compared with the definition of AES, and one block with the
  standard's known answer.  Chaining works with any block cipher.
* `Codecs`, `TlObjects`, `TextEntities`, `PacketCodecs`, `Proxies`.  Writing and
  reading are operators translated from the two halves of the code, composed by
  the actions; the inputs are the boundaries of the formats.
* `Sessions`.  `disk` changes one value at a time, number and address of the data center
  included (`StoreSession.ts:104-106`); a crash leaves it as it is, and `torn` records
  one between those two.  `mixed` records two `_switchDC` calls that overlap.
* `EntityCache`, `Entities`.  The insertion order of a `Map` is a sequence, and
  `used` records the order of use apart from it; a row of the session is a peer and
  whether it has the username.  The `Map` of `getEntity` keeps the last that was put
  under a key, users first and chats last.  The display name of at most one peer
  reads as the number or username that is asked for.
* `EventDispatch`, `EventFilters`, `ChatActions`.  A dispatch is a run with the
  list of handlers it walks; albums have a timer each; builders are records of
  the options of the code, and a behavior of `EventFilters` ends with the first
  update a handler has looked at, since nothing of it is kept for the next.
* `MessagesIter`, `DialogsIter`, `Members`, over `RequestIter`.  The server's list
  changes between two requests; the offsets are computed as in the code.
* `Sending`, `Uploads`, `Keyboards`.  A call is a list of items by place; the
  request carries the random ids, and what is posted remembers where it is from.

### Properties

The sender (`MTProtoSender`):

* `TypeOK`: in four parts, of requests, loops, link and flags.
* `SentIsTracked`: a request that was sent and is not settled is queued, in the
  hands of the send loop, pending, or open while a reconnection that has not yet
  saved the packer's states is under way.
* `SentIsAnswerable`: while connected, it is queued, or pending under an id the
  server has or will get; an id that was lost with a connection does not count.
* `SingleCopy`: no state is queued, held and pending more than once in all.
* `PendingIsOpen`: nothing settled stays in the pending map; checked with a server
  that does not acknowledge, since it fails after an acknowledgement (see below).
* `LoopsRun`: while the sender is up, both loops run.
* `RejectedKeyReplaced` (action property): no reconnection marks a key the server
  rejected as good again; only `connect()` by the application does.
* `StaysDown` (action property): a sender that `disconnect()` took down, with no
  reconnection under way, is not brought up by anything left of it, until the application
  connects it.
* `SentSettles`, `ReconnectEnds` (liveness).

The updates (`MCUpdates`):

* `TypeOK`.
* `LossIsAtRisk`: below the pts the client believes in (the later of `state.pts`
  and the waiter's), each update was dispatched, unless the server's word was
  taken for it (`floor`: a fresh state, a too long difference) or the code put it
  at risk in one of two places: a pushed update applied while a difference is
  requested jumps over what is missing, and `stop()` forgets the queue but not
  that it was counted.  The property says there is no third place.
* `RecoveryScheduled`: an update that waits behind a gap has its timer, a retry or
  a fetch; a container behind a seq gap a retry or a fetch.
* `GapCloses` (liveness): such an update is dispatched in the end, or was at risk.

Media (`Transfer`):

* `ChargesAccount`: the windows are charged exactly for what is under way on a
  session, the semaphore for the tasks that run.
* `WaitersHaveWaker`: while a call waits for a window, some call of the same
  balance is going to wake one.
* `FileSpec`: `Transfer` implements `FileTransfer`.
* `TransferEnds` (liveness): a result, unless the network is closed.

Slots (`Slots`):

* `SendersAreHeld`: no sender leaks, none is taken from its user, and the count of
  a slot is the number of its users; the exceptions are named at their lines.
* `KeyIsSound`: a rejected key is out of use in all siblings, and binding is only
  skipped for a key that was bound.

Side by side, with liveness (`MCLive`):

* `FramesWhole`, `RetryIsClean`, `RecvEnds`: what `recv()` gives are whole frames of
  this connection in order; an attempt to connect fails for a fault of its own;
  who waits in `recv()` gets a payload or an error.
* `AskersSettle`: who waits for a sender is served or turned away.
* `SignsIn`, `ScanIsNoticed`: the code goes with the latest hash, a scan signs in,
  and the sign-in does not wait for ever after it, also when the update about it
  is lost.
* `ChannelIsWatched`, `GapCloses`: what waits behind a gap of a channel is
  watched and is dispatched in the end, but for what a failed fetch forgot.

Side by side, safety (`MCParts`):

* `OrderIsKept`: ids and sequence numbers grow in the order of writing, whatever
  the clock does; chained requests follow the queue, after resends too.
* `ReceivedOnce`: twice only after a window of newer ones, dropped only if it was
  processed.
* `IterationIsExact`: messages, dialogs and members in order, once, within the
  limit, and nothing that stays is skipped, while the lists change.
* `EventsAreTold`: each handler that could be resolved is called, once; it hears
  only of what it asked for, and of who did what.
* `LeastUsedGoes`: eviction is by use, and only for want of room.
* `KeysAgree`: both sides have one key; sealed and opened texts fit; the factors
  are found; a right password is accepted, and failures have a cause.
* `KeysFitDcs`: the stored key of a data center was made with it, across crashes,
  when one caller acts at a time.
* `ReadsBack`: blocks, chains, packets, streams, numbers, objects and texts.
* `ResponsesMatch`: a message is posted once, and what a call gives for it is what
  became of it; a pressed button is the one given there; a file has its place,
  caption and form.
* `EntitiesMatch`: what is asked for is what is given, with a full hash.

### Runs

| Run | Instance | Shows |
|---|---|---|
| `sender_core` | 2 requests tried twice, 2 faults, batches of 2 | the six safety properties |
| `sender_acks` | 2 requests, 1 service state, 1 fault, acknowledgements | the tracking of acknowledged states |
| `sender_live` | 2 requests, 2 faults, fairness | sent requests settle |
| `sender_manual` | no autoReconnect, `disconnect()`, retries, containers | the sender stops cleanly with what it has |
| `sender_limits` | 1 request, 3 faults, limits, `disconnect()` and `connect()`, awaited error handler, no key, fairness | reconnections end, the key is replaced, down stays down until `connect()` |
| `updates_core` | 3 updates, the last two with a seq, one of two pts; stop and start, 1 fault, 2 requests | the safety properties of the updates |
| `updates_live` | 2 updates, 2 faults, no stop, fairness | gaps close |
| `transfer` | 3 parts, 2 sessions with a window of 1, 2 faults, a purge, a close, a cancellation, fairness | accounts, wake-ups, the refinement, the end |
| `slots` | an api and 2 media sessions, 2 slots, 3 senders, 2 callers, 2 faults | no leak, no theft, sound keys |
| `live` | connection, slots, login, a channel of 2 updates and 2 faults; fairness | the eight properties above |
| `parts` | 24 subjects; sessions of 2 data centers, 2 callers, 2 crashes | the ten properties above |
| `doc_lost_request` | smallest instance with the case | a documented claim the code does not keep |

Bounds of the sender.  `MaxFaults` bounds broken connections, transport errors, failed
attempts and pings, rejected keys and refusals together: two faults let a second
failure hit any moment of the recovery from the first; `sender_limits` has
three, because the limit is passed by the second.  Two requests are enough for a
batch of two, for one request to be in another place than the other, and for an
answer in a container that precedes another; `MaximumLength = 1` makes `get()`
close a batch at two, as the code admits one message more than the limit.  The
pool of ids is larger than any run needs: `PackOne` waits for a fresh id, so an
exhausted pool would show as a deadlock or as unexplored steps (runs with larger
pools have the same result).  Where acknowledgements keep states in pending and
nothing removes what was settled, the pool has to grow with the number of
reconnections; there one fault is allowed.  Requests are symmetric because ids
are chosen among numbers; liveness is checked without symmetry.  Deadlock is
checked where the sender keeps running; `sender_manual` and `sender_limits` may
stop for good, after the limit or `disconnect()`, and say so.

Bounds of the updates.  Three are the fewest with a gap inside a gap and a difference
whose slice ends between; an update of two pts tells the count from the number
of updates.  `Fetchers` bounds the requests in flight: with two, a catch-up, a
stale recovery or a `getState` runs beside a fetch, or two fetches overlap after
a stop and start; the last place is kept for the recovery (`Begin`), so that the
bound never blocks it while the client is not restarted.  `MaxFaults` bounds
failed requests, too long differences, UpdatesTooLong and refreshes together;
two in `updates_live` let the retry fail too.  The application can always call
`catchUp()`, so there is no deadlock to allow.

Bounds of the others.  `transfer`: three parts over two windows of one make one wait,
and the third part's success is out of order with the first's retry;
`RemoveAfterTimeouts` is two, so that one time-out keeps and the next removes a session;
a `Ring` of two makes ids repeat; the last part is past the end of the file.  `slots`:
two media sessions are needed to share the key, two callers to share an attempt, a third
sender to replace a lost one while the other slot has its own; `live` has the same with
one fault, because after two faults two senders can break each other over the key
without end.  The connection of `live` has an exchange of two steps, so that an answer
can be left over, three attempts, four frames and two failures, so that a retry fails
too; its login two requests that fail.  Two crashes let the process that starts from a
torn disk end at once again.  In `parts` and `live` the constants of what is not
extended stand in `MCParts` and `MCLive` beside each instance: a window and a cache of
two with three and four ids, chunks of two over four or five messages, dialogs and
members, two dispatches at once, lengths at both sides of each boundary of a format
(253-257, 65535-65537), two attempts of a key exchange modulo 7 and with a proxy, two
callers with a password modulo 23, two crashes of the session, three blocks of two bits;
the packer has three ordered requests, so that the first and the last before one differ,
or two and an acknowledgement, or one and a binding, and two faults, so that what was
refused meets a reconnection.  These stop when their calls are done, as do `transfer`,
`slots` and `live`, so deadlock is allowed there.

Fairness (`FairSpec` of the sender).  Continuations and timers run: weak fairness of the
loops' steps and of the connecting task.  A ping that nobody receives fails:
weak fairness of `PingFails` while no loop receives.  A server that can be
reached again and again answers: strong fairness of `ServerAnswers`.  Invoking,
faults, retries and refusals have none.  `SentSettles` excludes requests the
server acknowledged: the code asks for their status and resends nothing, so
their fate is the server's.

Fairness of the updates and channels.  Timers fire, requests are answered, and
continuations run: weak fairness of `GapTimeout`, `RetryTimeout`,
`DrainPendingSeq`, `Answer` and `Continue`.  A failing answer is never forced,
and neither pushes nor catch-ups are assumed: the gap closes by the manager's
own timer and fetch.

Fairness of the others.  `Transfer`: each task, the loop and the writer go on,
flood waits end, and a request on a live session is answered or times out (the
code's own timer), never that it succeeds.  `Slots`: the gate of an attempt
opens and a sender's steps are taken (strong, since a reconnection may be
interrupted by another), a caller's continuation runs.  `Transport`: promises
run, the server answers, the network delivers what is on the wire.  `Login`: the
poll of tokens is repeated, nothing about the update.  Aborts, faults and
callers' new calls have none.

### Claims the code does not keep

`doc_lost_request`: requests queued during a reconnection are forgotten, although
the header of `MTProtoSender.ts` promises retries.  Trace and quotes are in
`PROJECT.json`.

Seen on the way, and not kept as runs:

* Sender.  After a reconnection with an acknowledged request, settled requests stay in
  the pending map and are sent again (212 against 1280); `disconnect()` during a
  reconnection is undone (334, 276), and rejects nothing although its comment says it
  cancels pending requests (337-341); after `disconnect()` and `connect()` nobody
  answers those requests, and after a rejected key (800) `connect()` takes the same key
  for good again (458-459); at the retry limit the receive loop leaves its handle set
  (415, 695, 717), so that a later `connect()` starts none; an error handler that
  invokes a request waits for ever (781), and one that is awaited across a reconnection
  leaves no receive loop (754); an error result makes `_handleContainer` skip the rest
  of the container (925); the mark of an acknowledgement survives a resend (1122);
  `_reconnect` drops `dcSecret` (1235); a key this connection made is discarded by the
  first reconnection (459, 1211).  `LoopsRun` and `SentIsTracked` are therefore checked
  and proved for clients without an error handler.
* Packer and state.  `get()` admits `MAXIMUM_LENGTH + 1` messages; an oversized request
  ends the send loop with a TypeError (`MessagePacker.ts:176`); a refused message is
  queued behind ordered ones that came later, and `after` links are stale after a
  reconnection; the forced id of a binding may be given again.  A key that a sibling
  resets or replaces while a message is being encrypted gives an envelope with key id
  zero, or with the id of the other key (`MTProtoState.ts:160`, 184); an answer under
  the old key is taken for a broken key.  A message older than the window is processed
  and not remembered; ids inside containers are not registered.
* Updates.  An update applied during a difference moves pts over a gap, and
  `catchUp()` asks from behind it (`TelegramClient.ts:1318`, `PtsWaiter.ts:87`);
  an overwritten retry timer fetches after `stop()` (`UpdateManager.ts:472`);
  `drainPendingSeq` drops containers also when the difference failed (535); a
  failed channel fetch clears the queue but not the counts, so that a late push
  completes the count and the forgotten update is lost.
* Slots.  `ensureConnected` on a sender that reconnects abandons it
  (`SenderSlot.ts:73`); `_onSenderBreak` erases the account's permanent key though
  only a temporary one broke (`Network.ts:172`); with finite retries
  `_connectSender` hangs and blocks the chain; a sender refused while it asks is
  not disconnected (`telegramBaseClient.ts:644`).
* Transport.  `AsyncQueue.pop` takes the newest of two pending pushes; frames received
  but unread at a close are lost, the error -404 among them; the default connection is
  obfuscated though `telegramBaseClient.ts:93` names ConnectionTCPFull; `read()`, which
  the abridged and the intermediate codec call on a plain socket (`Abridged.ts:41-68`,
  `Intermediate.ts:34-44`), may return fewer bytes (`PromisedNetSockets.ts:58-75`),
  after which every frame is shifted: the exception `ReadWasShort` of `Transport`.  The
  padded codec leaves the server's padding on the packet (`PaddedIntermediate.ts:13`);
  the intermediate codec's branch of quick acknowledgements is never reached, and the
  abridged takes half of them for errors.  After a TLS handshake every retry on the same
  `Connection` fails, since its socket has no `connect()`; `TCPDCSecret` has no
  `close()` for it.
* Media.  After `destroy()` a waiter may stay (`MediaScheduler.ts:297` is outside
  the try); a flood wait is looked at only before waiting (271); a cancelled
  download returns what it has as good; the stash of the writer is not bounded
  (`downloads.ts:323` against 327).  `sendFile` of an array drops thumbnails,
  notes and buttons (`uploads.ts:707-722`).
* Key exchange and passwords.  DhGenRetry is thrown, not retried; a key that
  begins with a zero byte is shortened and its hash refused.  `2fa.ts:23` says
  omitting both passwords has no effect, but it throws; the errors its doc names
  are told to a callback and asked again for ever (118-133).
* Sessions and login.  `logOut()` then `connect()` uses the old sender's key; two
  concurrent `_switchDC` mix keys; a crash between `setDC` and `setAuthKey` leaves the
  new data center without its key, and one between the two writes of `setDC`
  (`StoreSession.ts:104`, 106) the number of one data center with the address of
  another, which the next process connects with and nothing notices.  A verified email
  that is answered with something else than a sent code leaves the old hash in use
  (`auth.ts:266`, 294).  A QR poll that hears of the scan first ends in "Unexpected"
  although authorized (`auth.ts:440`); an expired code's hash is used again; a port
  above 32767 makes `save()` throw.
* Events.  Two album handlers share `client._ALBUMS`; `removeEventHandler` removes
  everything with the same builder or callback; album events bypass filter,
  StopPropagation and the error handler.  `Peer` objects in `chats` become "[object
  Object]" (`common.ts:106` against 75); a blacklist drops updates without a chat; the
  blacklist of CallbackQuery never holds, and its fromUsers and blacklistUsers are read
  by nobody.  The chat of an inline button is read from eight bytes of the id
  (`CallbackQuery.ts:62-68`): right for the older form of the id, which the doc does not
  promise (26-28), and user 0 for `InputBotInlineMessageID64`, whose id is the message's
  alone; `chatInstance`, which the doc recommends, is compared with the same list
  (77-79).  A user who left is said to be kicked by himself.
* Messages.  `offsetId` and `maxId` are documented to exclude the messages at and above
  each (`messages.ts:411-414`), but where both are given the code takes the larger (93),
  so that messages are given that the smaller excludes.  An iteration over an empty
  range throws at its next chunk; a chunk of only filtered dialogs or members ends the
  iteration (`requestIter.ts:85`); `ignoreMigrated` is inverted (`dialogs.ts:166`);
  `limit - offset` makes the limit of members include the offset (`chats.ts:263`), and
  banned ones are never given (289); `markAsRead` clears mentions exactly when it is
  told not to (`messages.ts:1201`); a failed chunk of `forwardMessages` loses the
  results before it.  A poll click with numbers votes for other answers
  (`message.ts:1098`); a second switch button gets the bot of the first.
* Text and types.  `splitText`, documented with a maximum (`Utils.ts:1466`), gives
  chunks of limit + 1 where a blank is there (1485); `stripText` (`Helpers.ts:229-251`)
  shortens only the last of two entities that share blanks at the end, and takes out
  another than the one that is gone with the blanks in front; markdown never parses
  "```"; an unreadable element of a vector changes the reading of that type for the life
  of the process (`createApi.ts:197`); chat ids beginning with 100[1-9] are taken for
  channels; `serializeDate(Date)` writes an age.

Where such behavior meets a property, the property names the exception at its
line, so that it says there is no other.

## Theorems

In `MTProtoSenderProofs`, from `SenderAssumption` (the pool of ids is finite,
requests and service states are different things, limits are numbers or
`Infinity`):

* `TypeCorrect`: `Spec => []TypeOK`, by one lemma per part of the invariant.
* `SentTracked`: with autoReconnect and no error handler,
  `Spec => []SentIsTracked`, for any number of requests, ids and faults.  The
  property is not inductive.  A state leaves the pending map when its id is
  deleted, so one must know that pending states are filed under their own,
  unshared ids (`IdsInv`); `_reconnect()` empties the queue, so one must know
  that what it saved is all that is open (`SavedInv`) and that nothing is
  received between the saving and the new connection (`LinkInv`).  `TrackInv` is
  their conjunction with `TypeOK`; `TrackStep` has one step per action.
* `KeyReplaced`: `Spec => RejectedKeyReplaced`, for all constants; `KeyInv` adds that
  whoever connects while a rejected key is known has cleared it.  `connect()` by the
  application clears nothing, and is the exception of the property.

In `UpdatesProofs`, from `UpdatesAssumption` (the updates are finitely many and
their pts_counts fill the pts between them without a gap or an overlap):

* `UpdatesTypeCorrect`: `Spec => []TypeOK`.  That `retryTimers` stays a number
  needs that `stop()`, which cancels a timer while the handle is set, finds one
  (`HandleArmed`).
* `GapsWatched`: `Spec => []RecoveryScheduled`, for any number of updates,
  failures, restarts and overlapping requests.  `scheduleCommonDifference` does
  nothing while `fetching` or `retryHandle` is set or there is no state, so
  `WatchInv` adds that the first implies a fetch, the second an armed timer, and
  the third that nothing waits; and, because a fetch must not disappear without
  its finally block, that only a `getState` is answered with a state.

In `MTProtoSenderProofs` too, on top of these:

* `DownForGood`: `Spec => StaysDown`, for all constants.  Only a connection under
  way sets `_userConnected`, and only `reconnect()`, which tests it, or `connect()` by the
  application starts one.
* `BothLoopsRun`: with no error handler, no retry limit and no second `connect()` by the
  application, `Spec => []LoopsRun`.
  `LoopInv` adds that a loop that was told to end did so for a sender that is
  down, and that a reconnection which closes or connects holds both flags down:
  without the second, a loop could end after the flags of the next connection
  are up, and nobody would start it.  With a limit the property is false
  (line 695, above).
* `OneCopy`: with no error handler and a server that sends no msgs_ack,
  `Spec => []SingleCopy`.  `CopyInv` splits the count into what makes it one: the
  queue and the batch have no repetition and are disjoint, what is pending is
  neither, and is filed under the id it has; a batch exists only while it is packed.
* `PendingOpen`: under the same conditions and with no retry limit,
  `Spec => []PendingIsOpen`.  `OpenInv` says it of the queue and the batch too,
  because a reconnection moves states between the three.
* `SentAnswerable`: with no error handler, no msgs_ack and no second `connect()` by the
  application, for either value of autoReconnect, `Spec => []SentIsAnswerable`.
  `AnswerInv` adds that a batch held by the loop was written under the ids its states
  have.  Without autoReconnect the saved requests are empty, which is an induction of
  its own.

The conditions are where the code makes the property false, not where the proof is
harder: `sender_acks` runs with acknowledgements, and the claims above name the lines
(212 against 1280, 695, 754, 781).  After `disconnect()` and `connect()` by the
application the requests that were pending stay pending under ids of the connection
before, which nobody answers; and after the sender gave up, `connect()` finds the handle
of a receive loop that returned (717) and starts none.

In `UpdatesProofs` too:

* `LossKnown`: `Spec => []LossIsAtRisk`, for any updates, orders of delivery,
  failures and restarts.  The waiter knows no updates, only numbers: it takes
  `count = last` for "nothing is missing", and counts from good.  `WaiterInv`
  therefore says that there is a set of updates it counted, each delivered,
  waiting or at risk, between good and last, whose pts add up to what the count
  is ahead of good; each update stands for its own
  cells of pts, so that the count reaches last only if the set is everything in
  between (`Interval` and lemmas on cells and their cardinalities).  `OnceInv`
  adds that an update is on its way once, and `EntrySafe` that a request asks
  from a pts below which nothing is missing.

In `ChannelsProofs`, from `ChannelsAssumption`:

* `ChannelWatched`: `Spec => []ChannelIsWatched`.  `ChannelInv` has, as
  `LossInv` does, a set of counted updates; that at most one fetch is the
  tracker's own and asks from its good pts; and that updates wait only in a
  tracker that has begun and does not request.

In `SlotsProofs`, from `SlotsAssumption`:

* `SendersHeld`: `Spec => []SendersAreHeld`.  `HeldInv` says who may hold a
  sender: the registry has exactly the slots that are not dead; the chain of a
  slot has its attempts, of which only the head has a sender; and the count of a
  slot is the cardinality of the finite set of callers that use it.
* `KeySound`: `Spec => []KeyIsSound`, with the exception the property names: a key that
  replaced one which another sender made meanwhile (`racedKeys`).  `KeyInv` adds that
  the key of the media slots is none that broke, and that every sender of a live media
  slot has one that did not: `SenderBreaks` kills the siblings in the step that resets
  the key.

In `TransferProofs`, from `SchedulerAssumption` and `TransferAssumption`:

* `WindowsCount`: `Spec => []ChargesAccount`.  `AccountInv` adds to the account
  that the session a call is charged to was given out, so that no session that
  comes later has its id, and that the waiters of a balance are the calls that
  wait there, once each, so that who is woken is charged once.
* `WakersExist`: `Spec => []WaitersHaveWaker`.  A waiter is queued once, and a
  session that has no window left has a call that will return one.
* `PartsComeThrough`: `Spec => FileSpec`, with the refinement mapping of
  `Transfer`.  `PassInv` adds to the invariants above why a transfer
  stops; that the file has exactly the parts of a download below the writer's
  next one, and the stash what came and is not below it; and that the server has
  the parts of an upload whose tasks ended well; with it every action is a step of
  `FileTransfer` or leaves kind, cancelled, through and result alone.

In `SessionsProofs`, from `SessionsAssumption`:

* `KeysAreStored`: `Spec => []KeysFitDcs`.  `PlaceInv` says, for each place where the
  one caller can be, what disk, memory and sender have in common there: a crash may come
  between `setDC` and `setAuthKey`, and the next `connect()` must not take the old key
  for the new data center.  A crash between the number and the address of `setDC` is
  followed as well (`torn`): the key is then one of the two, until a `setDC` without a
  crash.  Two callers that switch at once and `connect()` after `logOut()` are excluded
  by the property itself (`mixed`), because there it is false.

In `TransportProofs`, from `TransportAssumption` (a body has at least one byte, the
bounds are numbers):

* `TransportTyped`: `TransportSpec => []TypesInv`: every variable has its type, also
  after a read that was short, and a queue from which `pop()` takes is not empty
  (`Filled`).  It has an induction of its own, because what follows holds only while no
  read was short.
* `FramesAreWhole`: `TransportSpec => []FramesWhole`, from `ExactInv`, which is
  `TransportInv` as long as no read was short (`ReadWasShort`), for any length of
  bodies, any number of frames, pieces, failures and retries on the same object.  What
  `recv()` gives is right because nothing is ever out of order on the way, which is what
  `TransportInv` says of everything under way.  `BytesOK`: the bytes in the buffer and
  then those on the wire are the rest of what the server sent, from the byte the newest
  loop asks for next (`Position`) to the end of the last frame, none missing and none of
  an earlier connection.  `RecvOK`: the queue holds at most one frame, which is the next
  to be received, and the loop that waits to push holds the one after it;
  `AsyncQueue.pop` takes the newest of two, so that a second one in the queue would be
  given first.  `ReadersOK`: of the loops that outlive their connection only the newest
  is alive, and the others can do nothing but end.
* `RetriesAreClean`: `TransportSpec => []RetryIsClean`.  `ExchangeOK` follows the
  three requests of the exchange: a retry begins with no answer left, and the
  `undefined` that a loop leaves in the queue when its connection closes is either
  taken by who waits there or gone with the new queue.  `attempt` is then bounded by
  the failures there were.

In `PartsProofs`, from `ReceivedIdsAssumption`:

* `IdsTyped`: `IdsSpec => []IdsTypeOK`, the window is never larger than it may be.
* `WindowHolds`: `IdsSpec => []ReceivedOnce`, for any size of the window and order of
  delivery: an id is processed again only behind a whole window of higher ones.
  `WindowOK` says that the ids kept are ordered, and that a processed id is kept, or
  lies below a window that is full, because `shrink` drops the oldest.  That the binary
  search finds the place of an id in every ordered window (`LowerBoundFound`) is an
  induction on the length of the part still searched.  The library's induction theorems
  take an operator as a parameter; here the induction is over a set of numbers instead:
  a set that contains n whenever it contains all below n contains every number
  (`Complete`), which follows from the library's theorem that a well-founded relation
  has minimal elements.

In `PartsProofs`, from `EntityCacheAssumption`:

* `EvictsByUse`: `CacheSpec => []LeastUsedGoes`, for any number of peers, any capacity,
  with and without a time to live.  `CacheInv` says that a peer is in the map once, and
  that the order of the map is the order of use: of two peers in the map the one in
  front was used longer ago (`UsedSegment` for a peer that is used again).  Deletion,
  expiry and the two prunes take elements out of the map, and what is left keeps its
  order (`Kept`, by induction on the length).  The prune by size takes the first peers
  that are not pinned; that it takes as many as there are too many, or all that may go,
  is a count of the places it visits (`ExcessCount`).

In `PartsProofs`, from `PackerAssumption`:

* `KeepsOrder`: `PackerSpec => []OrderIsKept`, for any number of requests and any size
  of a container, any clock and any number of refusals and reconnections, in any order.
  `PackerInv` has two halves.  A state is in the queue or pending, not in both, and once
  (`Placed`): a state that were queued twice would get a second link, and the chain
  would break at its first place.  `append()` keeps the chain of such a queue
  (`AtEndKeeps`, `AtStartKeeps`), so `extend()` and `prepend()` do, by induction on
  their loops (`LoopExists`, `LoopKeeps`).  And what was written has ids up to
  `_lastMsgId`, and sequence numbers up to `_sequence`, below it where it was content
  related (`Fit`): the messages of a batch come after both, in their order, by counting
  along the batch (`CountGrows`, `MessagesFit`), and the container after them.  The two
  halves meet in the reconnection, which sets the numbers back and empties the queue in
  one step.

In `PartsProofs`, from `EntitiesAssumption` (the ids are below the mark of a channel,
which is 100 here and 1000000000000 in the code):

* `EntitiesResolved`: `EntitiesSpec => []EntitiesMatch`, for any number of users, chats
  and channels whose ids may collide.  What the cache and the rows are asked for is a
  marked id and the three readings of it (`Guesses`): whatever is found under one of
  them has the bare id that was asked for (`Guessed`), and the first of them is the
  peer's own mark, so that a peer the cache has is never taken for another (`CacheGets`,
  `MarksApart`).  Only a number that is the mark of nobody known goes on to the display
  names of the rows (`Memory.ts:305-307`), the exception `TakenByName`.  `EntitiesInv`
  adds that what the cache has the rows have too, since both learn from the same answers
  and rows are never dropped, that the cache has what is known of it since the call
  began, and that as many keys are resolved as the stage says (`Progress`): "me" never
  reaches the network.  That a key suits what it was resolved to survives what the cache
  forgets between two requests (`FitKept`).

In `PartsProofs`, from `LoginAssumption`:

* `SignInSound`: `LoginSpec => []SignsIn`, but for a hash that was not taken
  (`HashWasKept`).  `ScanLeads` adds that after a scan the flow waits or has gone on to
  export and import the token, and that it goes on, and the update is pushed, only after
  a scan.

TLC found every one of these invariants on the instances of the runs too, but for
the types of the scheduler, a set it cannot enumerate, and with the counted
updates of a channel drawn from the updates there are.

Only model-checked:

* The properties of `MCParts` except `KeysFitDcs`, `ReceivedOnce`, `LeastUsedGoes`,
  `OrderIsKept` and `EntitiesMatch`: `IterationIsExact`, `EventsAreTold`, `KeysAgree`,
  `ReadsBack` and `ResponsesMatch`.  Most are conjunctions over several components,
  and many are about what a recursive definition computes for every input (readers
  and writers, ciphers, entities of text): `TlObjects`, `TextEntities` and others have
  RECURSIVE operators, which the provers cannot expand, and the folds and sequences
  of the others are defined by recursion over their whole argument, each an
  induction of its own.
* All liveness (`SentSettles`, `ReconnectEnds`, `GapCloses`, `TransferEnds`,
  `RecvEnds`, `AskersSettle`, `ScanIsNoticed`), which is out
  of the prover's reach, as is ENABLED.

## Not modelled

* Errors: a generated table of classes; `invoke` and the sender tell apart only
  the kinds the model has.
* The generated API (`tl/`), the generator, `dist/` and examples: data and tools.
* The getters of a message, `downloadMedia`'s choice of a size, casts between
  the many input types of `Utils.ts`: lookups without state.
* The admin log: its iterator fills no buffer and is exported nowhere.
* SOCKS proxies, RSA padding, counter mode, the logger: libraries or wrappers of
  them; file migration and CDN redirects of a download; folders of dialogs;
  invitations; phones as entity keys.
* Of `invoke`: the branches that migrate to another data center, MsgWait, and the
  re-wrapping of `CONNECTION_NOT_INITED`, which compares a formatted message with
  a constant (`users.ts:164`) and never runs.
* Of updates: qts, which follows the common tracker, and dates.
* Smaller merges and omissions, at their definitions: the awaits of `users.ts:69-71`
  before a request is queued; the clearing of the key in `_reconnect` (1211-1217) and
  its later test are one step of `Slots`, where a binding that fails takes the link down
  with it; polls for a QR token that fail (`auth.ts:433-448`) and a password needed
  after a migration (517-519); the polls among updated messages
  (`messageParse.ts:163-177`); one list of attributes for all files of an album
  (`uploads.ts:585`); `OrderedWriter.reset()`, which nothing calls.

Their rows in `PROJECT.json` say `not_modelled`, or `partly` where the rest of the
component is modelled.

## Plan

The components of the code's own logic are modelled, and the properties of the
sender, the updates, channels, slots, transfers, sessions, the connection, the
packer, the window of received ids, the cache of peers, the resolution of entities and
the login are proved.  What is left is smaller inductions, in the order of what they are
worth:

1. `RequestIter` and those that extend it: `IterationIsExact`, for lists of any
   length.
2. `KeyExchange`: `KeysAgree`, from the laws of a group.
