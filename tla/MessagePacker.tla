---------------------------- MODULE MessagePacker ----------------------------
(***************************************************************************)
(* extensions/MessagePacker.ts with the sending half of                    *)
(* network/MTProtoState.ts: states wait in a queue, get() takes a batch and*)
(* gives every message its id and sequence number, and requests that must  *)
(* be executed in order are chained by InvokeAfterMsg.  MTProtoSender.tla  *)
(* has the loops around it; here a batch is written in one step.           *)
(*                                                                         *)
(* Time is counted in units of an id (the code adds 4).                    *)
(***************************************************************************)
EXTENDS Integers, Sequences, FiniteSets

CONSTANTS
    States,                 \* RequestState objects, numbers
    Ordered,                \* those of USE_INVOKE_AFTER_WITH
    Service,                \* acknowledgements, which are not content related
    Binds,                  \* requests that get their id early (forcedMsgId)
    MaximumLength,          \* of MessageContainer; sizes are not modelled
    MaxClock, MaxOffset,    \* bounds: the clock, and the corrections of it, up and down
    MaxFaults               \* bound: refused messages and reconnections

ASSUME PackerAssumption ==
    /\ States \subseteq Nat \ {0}
    /\ Ordered \cup Service \cup Binds \subseteq States
    /\ {MaximumLength, MaxClock, MaxOffset, MaxFaults} \subseteq Nat

VARIABLES
    queue,                  \* _queue, without the markers that wake get()
    after, forced,          \* of a RequestState, 0 for none
    fresh,                  \* the states that were never queued
    opened,                 \* _pendingStates: each state once, where it was first queued
    numbered,               \* the states that have a msgId
    pending,                \* _pendingState of the sender, in order; none is acknowledged
    clock, timeOffset, lastMsgId, sequence,     \* of MTProtoState
    wire,                   \* history: the last messages written in this session since its
                            \* numbers were last set back
    faults

stateVars == <<timeOffset, lastMsgId, sequence, wire>>
packerVars == <<queue, after, forced, fresh, opened, numbered, pending, clock, stateVars, faults>>

Fault == faults < MaxFaults /\ faults' = faults + 1

OrderedIn(q) == {i \in DOMAIN q : q[i] \in Ordered}

-----------------------------------------------------------------------------
\* MessagePacker.append.

Latest(I) == CHOOSE i \in I : \A k \in I : k <= i
Earliest(I) == CHOOSE i \in I : \A k \in I : i <= k

\* Mutant: the request is chained to the first that waits, not to the last.
LinkedToFirst(a, q, s) ==
    IF s \in Ordered /\ OrderedIn(q) # {} THEN [a EXCEPT ![s] = q[Earliest(OrderedIn(q))]] ELSE a

\* At the end: the last ordered request that waits comes before it.
Linked(a, q, s) ==
    IF s \in Ordered /\ OrderedIn(q) # {} THEN [a EXCEPT ![s] = q[Latest(OrderedIn(q))]] ELSE a

\* At the start: the first that waits comes after it.
LinkedAtStart(a, q, s) ==
    IF s \in Ordered /\ OrderedIn(q) # {} THEN [a EXCEPT ![q[Earliest(OrderedIn(q))]] = s] ELSE a

\* One state more, with the queue and the links in a pair.
AtEnd(x, s) == [q |-> Append(x.q, s), a |-> Linked(x.a, x.q, s)]
AtStart(x, s) == [q |-> <<s>> \o x.q, a |-> LinkedAtStart(x.a, x.q, s)]

\* extend.
ExtendedBy(qa, ss) ==
    LET x[n \in 0 .. Len(ss)] == IF n = 0 THEN qa ELSE AtEnd(x[n - 1], ss[n]) IN x[Len(ss)]

\* prepend, from the last to the first.
PrependedBy(qa, ss) ==
    LET x[n \in 0 .. Len(ss)] == IF n = 0 THEN qa ELSE AtStart(x[n - 1], ss[Len(ss) + 1 - n])
    IN x[Len(ss)]

Chained == [q |-> queue, a |-> after]

\* Those of T in q, in their order.
Those(q, T) ==
    LET those[n \in 0 .. Len(q)] ==
          IF n = 0 THEN <<>>
          ELSE IF q[n] \in T THEN Append(those[n - 1], q[n]) ELSE those[n - 1]
    IN those[Len(q)]

Opened(s) == IF s \in Service THEN opened ELSE Append(opened, s)

-----------------------------------------------------------------------------
\* MTProtoState.

Now == clock + timeOffset

\* Mutant: the clock alone gives the id.
IdOfClock(last, n) == Now + n - 1

\* The n-th id that _getNewMsgId gives from now on.
NewId(last, n) == (IF last >= Now THEN last + 1 ELSE Now) + n - 1

\* _getSeqNo.
SeqNo(s, content) == IF content THEN 2 * s + 1 ELSE 2 * s

-----------------------------------------------------------------------------
\* A request or an acknowledgement is queued; ordered requests are named in that order.
Queued(s) ==
    /\ s \in fresh \ Binds /\ fresh' = fresh \ {s}
    /\ s \in Ordered => \A t \in fresh \cap Ordered : s <= t
    /\ queue' = Append(queue, s) /\ after' = Linked(after, queue, s) /\ opened' = Opened(s)
    /\ UNCHANGED <<forced, numbered, pending, clock, stateVars, faults>>

\* _connect of MTProtoSender takes the id of the binding before it queues it.
SendBinding(s) ==
    /\ s \in fresh \cap Binds /\ fresh' = fresh \ {s}
    /\ forced' = [forced EXCEPT ![s] = NewId(lastMsgId, 1)] /\ lastMsgId' = forced'[s]
    /\ queue' = Append(queue, s) /\ after' = Linked(after, queue, s) /\ opened' = Opened(s)
    /\ UNCHANGED <<numbered, pending, clock, timeOffset, sequence, wire, faults>>

\* The states get() takes: as many as fit, where "<=" lets in one more.
Batch == SubSeq(queue, 1, IF Len(queue) <= MaximumLength THEN Len(queue) ELSE MaximumLength + 1)

Count(b, k, S) == Cardinality({i \in 1 .. k : b[i] \in S})

\* The id of the k-th message of batch b, and its message.
IdIn(b, k) ==
    IF forced[b[k]] # 0 THEN forced[b[k]]
    ELSE NewId(lastMsgId, Count(b, k, {s \in States : forced[s] = 0}))

Message(b, k) ==
    [id |-> IdIn(b, k), content |-> b[k] \notin Service,
     seq |-> SeqNo(sequence + Count(b, k - 1, States \ Service), b[k] \notin Service),
     forced |-> forced[b[k]] # 0]

\* The last id that was not forced, if there is one.
LastNumbered(w) ==
    LET n == {i \in DOMAIN w : ~w[i].forced} IN IF n = {} THEN <<>> ELSE <<w[Latest(n)]>>

\* get(): two messages or more go in a container, which has an id of its own.
Get ==
    LET b == Batch
        n == Len(b)
        unforced == Count(b, n, {s \in States : forced[s] = 0})
        contents == Count(b, n, States \ Service)
        container == [id |-> NewId(lastMsgId, unforced + 1), content |-> FALSE,
                      seq |-> SeqNo(sequence + contents, FALSE), forced |-> FALSE]
        messages == [k \in 1 .. n |-> Message(b, k)] \o (IF n > 1 THEN <<container>> ELSE <<>>)
        taken == unforced + (IF n > 1 THEN 1 ELSE 0) IN
    /\ queue # <<>>
    /\ queue' = SubSeq(queue, n + 1, Len(queue))
    /\ pending' = pending \o Those(b, States \ Service)
    /\ lastMsgId' = IF taken > 0 THEN NewId(lastMsgId, taken) ELSE lastMsgId
    /\ sequence' = sequence + contents
    /\ wire' = LastNumbered(wire) \o messages
    /\ numbered' = numbered \cup {b[k] : k \in 1 .. n}
    /\ UNCHANGED <<after, forced, fresh, opened, clock, timeOffset, faults>>

-----------------------------------------------------------------------------
\* What the server and the sender do to it.

Answer(s) ==
    /\ \E i \in DOMAIN pending :
          /\ pending[i] = s
          /\ pending' = SubSeq(pending, 1, i - 1) \o SubSeq(pending, i + 1, Len(pending))
    /\ opened' = Those(opened, States \ {s})
    /\ UNCHANGED <<queue, after, forced, fresh, numbered, clock, stateVars, faults>>

\* The server refuses one message or the contents of a container, and they are
\* queued again at the end, after a correction.
RefusedWith(change) ==
    \E lo \in DOMAIN pending : \E hi \in {lo, Len(pending)} :
       LET x == ExtendedBy(Chained, SubSeq(pending, lo, hi)) IN
       /\ queue' = x.q /\ after' = x.a
       /\ pending' = SubSeq(pending, 1, lo - 1) \o SubSeq(pending, hi + 1, Len(pending))
       /\ change /\ Fault
       /\ UNCHANGED <<forced, fresh, opened, numbered, clock>>

\* bad_server_salt; codes 16 and 17, updateTimeOffset; 32 and 33, _sequence.
BadSalt == RefusedWith(UNCHANGED stateVars)

BadTime ==
    \E o \in -MaxOffset .. MaxOffset :
       RefusedWith(/\ timeOffset' = o
                   /\ lastMsgId' = IF o # timeOffset THEN 0 ELSE NewId(lastMsgId, 1)
                   /\ wire' = IF o # timeOffset THEN <<>> ELSE wire
                   /\ UNCHANGED sequence)

BadSequence ==
    \E d \in {64, -16} :
       RefusedWith(/\ sequence' = sequence + d
                   /\ wire' = IF d < 0 THEN <<>> ELSE wire
                   /\ UNCHANGED <<timeOffset, lastMsgId>>)

\* _reconnect: what was written once is saved, also when it waits to be written again;
\* the queue is emptied, which forgets the rest (MTProtoSender.tla), the state is reset,
\* and what was saved goes first.
PackerReset ==
    LET waiting == {pending[i] : i \in DOMAIN pending}
        saved == pending \o Those(opened, numbered \ waiting)
        x == PrependedBy([q |-> <<>>, a |-> after], saved) IN
    /\ Fault
    /\ sequence' = 0 /\ lastMsgId' = 0 /\ wire' = <<>>
    /\ queue' = x.q /\ after' = x.a /\ pending' = <<>>
    /\ UNCHANGED <<forced, fresh, opened, numbered, clock, timeOffset>>

\* The clock of the machine goes on, or is set back.
ClockMoves ==
    /\ clock' \in {clock + 1, clock - 1} /\ clock' \in 1 .. MaxClock
    /\ UNCHANGED <<queue, after, forced, fresh, opened, numbered, pending, stateVars, faults>>

PackerInit ==
    /\ queue = <<>> /\ after = [s \in States |-> 0]
    /\ forced = [s \in States |-> 0] /\ fresh \in SUBSET States
    /\ opened = <<>> /\ numbered = {} /\ pending = <<>>
    /\ clock = 1 /\ timeOffset = 0 /\ lastMsgId = 0 /\ sequence = 0
    /\ wire = <<>> /\ faults = 0

PackerNext ==
    \/ Get \/ BadSalt \/ BadTime \/ BadSequence \/ PackerReset \/ ClockMoves
    \/ \E s \in States : Queued(s) \/ SendBinding(s) \/ Answer(s)

PackerSpec == PackerInit /\ [][PackerNext]_packerVars

-----------------------------------------------------------------------------
\* Ids increase in the order messages are written to a session, also when the clock is
\* set back; a corrected offset starts them anew (MTProtoState.ts:286), and the id of a
\* binding is older than its place (MTProtoSender.ts:486) and may even be given again after
\* a correction.
IdsIncrease ==
    \A i, j \in DOMAIN wire :
       (i < j /\ ~wire[i].forced /\ ~wire[j].forced) => wire[i].id < wire[j].id

\* What the server checks with code 32: a message with a higher id has a higher
\* sequence number, or the same one when the first was not content related.  The bindings
\* are excepted, as above, and what was written before code 33 lowered the counter
\* (MTProtoSender.ts:1051) or a correction began the ids anew.
SeqnosFollowIds ==
    \A i, j \in DOMAIN wire :
       (~wire[i].forced /\ ~wire[j].forced /\ wire[i].id < wire[j].id)
       => wire[i].seq < wire[j].seq \/ (wire[i].seq = wire[j].seq /\ ~wire[i].content)

\* Of two ordered requests that wait one behind the other, the second is chained to
\* the first, after resends from both ends and reconnections too.  Nothing is said of the
\* order of the queue: a refused request waits behind ordered ones that came later, and what
\* the first one in the queue is chained to may be settled or was replaced (MessagePacker.ts:60).
ChainFollowsQueue ==
    \A i, j \in OrderedIn(queue) :
       (i < j /\ ~\E k \in OrderedIn(queue) : i < k /\ k < j) => after[queue[j]] = queue[i]

\* Ids, sequence numbers and the chain of ordered requests follow the order of the queue, but
\* for the exceptions named at the three.
OrderIsKept == IdsIncrease /\ SeqnosFollowIds /\ ChainFollowsQueue

=============================================================================
