----------------------------- MODULE MessagesIter -----------------------------
(***************************************************************************)
(* _MessagesIter of client/messages.ts over the history of one chat: the   *)
(* range it asks for, the offsets of its requests, in both directions, and *)
(* what it makes of the answers, while messages come and are deleted       *)
(* between two requests.                                                   *)
(*                                                                         *)
(* Left out: dates, searches, replies and addOffset.                       *)
(***************************************************************************)
EXTENDS RequestIter, FiniteSets, FiniteSetsExt, SequencesExt

CONSTANTS
    FirstMessages,          \* how many messages the chat has at first
    MaxMessages,            \* bound: and in the end
    MaxDeleted,             \* bound: deleted meanwhile
    Limits, Bounds          \* bounds: values of limit and of offsetId, minId and maxId

MessagesIterAssumption ==
    /\ {FirstMessages, MaxMessages, MaxDeleted} \cup Limits \cup Bounds \subseteq Nat

VARIABLES
    chat,                   \* ids of the messages of the chat
    top,                    \* the last id
    params,                 \* of iterMessages
    it,                     \* the iterator
    request,                \* of messages.getHistory
    lastId, maxId, minId,   \* of the iterator
    given,                  \* history: what the application got
    stayed                  \* history: messages in the chat from beginning to end

vars == <<chat, top, params, it, request, lastId, maxId, minId, given, stayed>>

Span(p) ==
    IF p.reverse THEN [after |-> Max({p.offsetId, p.minId}), before |-> p.maxId]
    ELSE [after |-> p.minId, before |-> Max({p.offsetId, p.maxId})]

\* _init: the greater of the two bounds on the side it begins at is the first offset, the other
\* one ends the iteration (forwards there is only minId for that).  Returning false for a range with nothing
\* in it leaves no request, and the first chunk throws.
Start ==
    LET r == Span(params)
        empty == r.after > 0 /\ r.before > 0 /\ r.before - r.after <= 1 IN
    /\ it.phase = "new"
    /\ it' = IF empty THEN [it EXCEPT !.phase = "threw"] ELSE NewIterator(params.limit)
    /\ request' = IF params.reverse
                  THEN [offsetId |-> r.after + 1, addOffset |-> -ChunkSize, limit |-> 0]
                  ELSE [offsetId |-> r.before, addOffset |-> 0, limit |-> 0]
    /\ minId' = params.minId
    /\ maxId' = IF params.reverse /\ params.maxId = 0 THEN Unlimited ELSE params.maxId
    /\ lastId' = IF params.reverse THEN 0 ELSE Unlimited
    /\ stayed' = chat
    /\ UNCHANGED <<chat, top, params, given>>

\* messages.getHistory: the history from the newest message on; it starts addOffset
\* messages after the first one below offsetId.
History(req) ==
    LET h == SetToSortSeq(chat, LAMBDA a, b : a > b)
        first == Cardinality({m \in chat : req.offsetId > 0 /\ m >= req.offsetId}) + req.addOffset IN
    SubSeq(h, Max({first, 0}) + 1, IF first + req.limit < Len(h) THEN first + req.limit ELSE Len(h))

\* _messageInRange for message k of the answer r.
MessageInRange(r, k) ==
    LET last == IF k = 1 THEN lastId ELSE r[k - 1] IN
    IF params.reverse THEN last < r[k] /\ r[k] < maxId ELSE minId < r[k] /\ r[k] < last

\* Mutant: the next chunk begins at the last message.
OffsetAtLast(id) == id

\* _updateOffset.
OffsetAfter(id) == IF params.reverse THEN id + 1 ELSE id

\* _loadNextChunk with its request.
LoadNextChunk ==
    LET limit == ChunkLimit(it)
        req == [request EXCEPT !.limit = limit,
                  !.addOffset = IF params.reverse /\ limit # ChunkSize THEN -limit ELSE @]
        r == IF params.reverse THEN Reverse(History(req)) ELSE History(req)
        out == {k \in DOMAIN r : ~MessageInRange(r, k)}
        chunk == IF out = {} THEN r ELSE SubSeq(r, 1, Min(out) - 1)
        isLast == out # {} \/ Len(r) < limit IN
    /\ NeedsChunk(it)
    /\ it' = Loaded(it, chunk, isLast)
    /\ lastId' = IF chunk = <<>> THEN lastId ELSE Last(chunk)
    /\ request' = IF isLast THEN req ELSE [req EXCEPT !.offsetId = OffsetAfter(Last(chunk))]
    /\ UNCHANGED <<chat, top, params, maxId, minId, given, stayed>>

\* The application asks for the next message.
Take ==
    /\ HasElement(it)
    /\ it' = Given(it) /\ given' = Append(given, Element(it))
    /\ UNCHANGED <<chat, top, params, request, lastId, maxId, minId, stayed>>

NewMessage ==
    /\ it.phase = "open" /\ top < MaxMessages
    /\ top' = top + 1 /\ chat' = chat \cup {top'}
    /\ UNCHANGED <<params, it, request, lastId, maxId, minId, given, stayed>>

DeleteMessage ==
    /\ it.phase = "open" /\ top - Cardinality(chat) < MaxDeleted
    /\ \E m \in chat : chat' = chat \ {m} /\ stayed' = stayed \ {m}
    /\ UNCHANGED <<top, params, it, request, lastId, maxId, minId, given>>

Init ==
    /\ chat = 1 .. FirstMessages /\ top = FirstMessages
    /\ params \in [reverse : BOOLEAN, limit : Limits, offsetId : Bounds, minId : Bounds, maxId : Bounds]
    /\ it = [NewIterator(0) EXCEPT !.phase = "new"]
    /\ request = [offsetId |-> 0, addOffset |-> 0, limit |-> 0]
    /\ lastId = 0 /\ maxId = 0 /\ minId = 0 /\ given = <<>> /\ stayed = {}

Next == Start \/ LoadNextChunk \/ Take \/ NewMessage \/ DeleteMessage

Spec == Init /\ [][Next]_vars

-----------------------------------------------------------------------------
\* The documented range (messages.ts:411-416): each bound that is given excludes its side.
Wanted(m) ==
    /\ params.minId < m
    /\ params.maxId > 0 => m < params.maxId
    /\ params.offsetId > 0 => IF params.reverse THEN params.offsetId < m ELSE m < params.offsetId

\* Forwards the iterator takes the larger of offsetId and maxId (messages.ts:93), where the smaller
\* excludes more: with both, it gives what only the larger one excludes.
GivenBeyond(m) ==
    /\ ~params.reverse /\ params.offsetId > 0 /\ params.maxId > 0
    /\ params.minId < m /\ m < Max({params.offsetId, params.maxId})

\* What the application gets is in the range, or in the one place GivenBeyond names behind it, in
\* the order it asked for, each message once, and no more than the limit, however the chat changes
\* between two chunks.
GivenInOrder ==
    /\ \A i \in DOMAIN given : Wanted(given[i]) \/ GivenBeyond(given[i])
    /\ \A i, j \in DOMAIN given :
          i < j => (IF params.reverse THEN given[i] < given[j] ELSE given[i] > given[j])
    /\ params.limit > 0 => Len(given) <= params.limit

\* A message of the range that stays in the chat is not skipped: it is given before
\* any message behind it, and before the iteration ends below its limit.
NothingSkipped ==
    \A m \in stayed : (Wanted(m) /\ m \notin ToSet(given)) =>
        /\ ~\E n \in ToSet(given) : IF params.reverse THEN n > m ELSE n < m
        /\ IsOver(it) => (params.limit > 0 /\ Len(given) = params.limit)

=============================================================================
