----------------------------- MODULE ReceivedIds -----------------------------
(***************************************************************************)
(* network/ReceivedIdsManager.ts under decryptMessageData of               *)
(* network/MTProtoState.ts: a session remembers the ids of the latest      *)
(* messages, ascending, and drops a message whose id it finds there.  The  *)
(* network can deliver the messages of the server late, twice and in any   *)
(* order.                                                                  *)
(***************************************************************************)
EXTENDS Integers, Sequences, FiniteSets

CONSTANTS
    MaxId,                  \* messages of the server, numbered by id
    BufferSize,             \* ID_BUFFER_SIZE
    MaxDeliveries           \* bound: how often one message arrives

ASSUME ReceivedIdsAssumption == {MaxId, BufferSize, MaxDeliveries} \subseteq Nat \ {0}

VARIABLES
    ids,                    \* the ids that are remembered
    arrived,                \* how often a message has arrived
    processed,              \* history: the messages that were processed in this session, in order
    last                    \* history: what became of the last message

idsVars == <<ids, arrived, processed, last>>

MessageIds == 1 .. MaxId

\* lowerBound: how many elements are in front of the first that is not lower.
LowerBound(s, id) ==
    LET Places == 0 .. Len(s)
        search[p \in Places \X Places] ==               \* p is <<lo, hi>>
          IF p[1] >= p[2] THEN p[1]
          ELSE LET mid == (p[1] + p[2]) \div 2 IN
               IF s[mid + 1] < id THEN search[<<mid + 1, p[2]>>] ELSE search[<<p[1], mid>>]
    IN search[<<0, Len(s)>>]

\* indexOf.
Contains(s, id) == LET i == LowerBound(s, id) IN i < Len(s) /\ s[i + 1] = id

\* registerMsgId tells what to do with a message.
Register(s, id) ==
    IF Contains(s, id) THEN "duplicate"
    ELSE IF Len(s) >= BufferSize /\ id < s[1] THEN "tooOld" ELSE "success"

Inserted(s, id) ==
    LET i == LowerBound(s, id) IN SubSeq(s, 1, i) \o <<id>> \o SubSeq(s, i + 1, Len(s))

\* Mutant: the newest ids are forgotten.
ShrinkNewest(s) == IF Len(s) > BufferSize THEN SubSeq(s, 1, BufferSize) ELSE s

\* shrink: the oldest ids are forgotten.
Shrink(s) == IF Len(s) > BufferSize THEN SubSeq(s, Len(s) - BufferSize + 1, Len(s)) ELSE s

\* decryptMessageData: only a duplicate is dropped.  A message that is too old is
\* processed, but not remembered.
Receive(id) ==
    LET result == Register(ids, id) IN
    /\ arrived[id] < MaxDeliveries
    /\ arrived' = [arrived EXCEPT ![id] = @ + 1]
    /\ last' = [id |-> id, result |-> result]
    /\ processed' = IF result = "duplicate" THEN processed ELSE Append(processed, id)
    /\ ids' = IF result = "success" THEN Shrink(Inserted(ids, id)) ELSE ids

\* reset() of a session that is connected again.
Reset ==
    /\ ids # <<>>
    /\ ids' = <<>> /\ processed' = <<>>
    /\ last' = [id |-> 0, result |-> "none"]
    /\ UNCHANGED arrived

IdsInit ==
    /\ ids = <<>> /\ arrived = [id \in MessageIds |-> 0] /\ processed = <<>>
    /\ last = [id |-> 0, result |-> "none"]

IdsNext == Reset \/ \E id \in MessageIds : Receive(id)

IdsSpec == IdsInit /\ [][IdsNext]_idsVars

-----------------------------------------------------------------------------
\* A message is processed twice in a session only when as many newer ones as the
\* window holds were processed before: replays within the window do nothing.
ProcessedOnce ==
    \A i, j \in DOMAIN processed : i < j /\ processed[i] = processed[j] =>
        Cardinality({processed[k] : k \in 1 .. j - 1} \cap {id \in MessageIds : id > processed[i]})
           >= BufferSize

\* A message is dropped only when it was processed before, in whatever order they come.
DroppedWasProcessed ==
    last.result = "duplicate" => \E i \in DOMAIN processed : processed[i] = last.id

\* What registerMsgId promises decryptMessageData (ReceivedIdsManager.ts:9-69).
ReceivedOnce == ProcessedOnce /\ DroppedWasProcessed

=============================================================================
