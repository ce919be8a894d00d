----------------------------- MODULE EntityCache -----------------------------
(***************************************************************************)
(* entityCache.ts: one of the two segments of the cache of peers, a Map    *)
(* whose insertion order is the order of use.  A peer that is read goes to *)
(* the end with the time it was written; pinned peers neither expire       *)
(* nor are evicted.                                                        *)
(***************************************************************************)
EXTENDS Integers, Sequences, FiniteSets

CONSTANTS
    MarkedIds,              \* of users, chats and channels
    Capacity, Ttl,          \* max and ttl of the policy, 0 for none
    MaxTime                 \* bound: the clock

ASSUME EntityCacheAssumption == {Capacity, Ttl, MaxTime} \subseteq Nat

VARIABLES
    segment,                \* the Map: [peer, writtenAt] in order
    pinnedKeys,
    now,
    used,                   \* history: the peers in the order they were last used
    latest                  \* history: the last operation and what was evicted

cacheVars == <<segment, pinnedKeys, now, used, latest>>

\* The elements of s that are in T, in their order.
Kept(s, T) ==
    LET kept[n \in 0 .. Len(s)] ==
          IF n = 0 THEN <<>>
          ELSE IF s[n] \in T THEN Append(kept[n - 1], s[n]) ELSE kept[n - 1]
    IN kept[Len(s)]

Entries(s) == {s[i] : i \in DOMAIN s}
Keys(s) == {s[i].peer : i \in DOMAIN s}
Entry(s, p) == CHOOSE e \in Entries(s) : e.peer = p
Without(s, p) == Kept(s, {e \in Entries(s) : e.peer # p})

\* p is now the last that was used.
UsedLast(p) == used' = Append(Kept(used, MarkedIds \ {p}), p)

Expired(e) == Ttl > 0 /\ now - e.writtenAt > Ttl /\ e.peer \notin pinnedKeys

\* The expired peers up to the first that is neither expired nor pinned.
Outdated(s) ==
    LET fresh == {i \in DOMAIN s : s[i].peer \notin pinnedKeys /\ ~Expired(s[i])} IN
    {i \in DOMAIN s : Expired(s[i]) /\ \A k \in fresh : i < k}

PrunedByAge(s) == Kept(s, Entries(s) \ {s[i] : i \in Outdated(s)})

OverCapacity(s) == Len(s) - Capacity

Loose(s) == {i \in DOMAIN s : s[i].peer \notin pinnedKeys}
LooseUpTo(s, i) == Cardinality(Loose(s) \cap 1 .. i)

\* The first peers that are not pinned, until there are no more than the capacity.
Excess(s) == {i \in Loose(s) : LooseUpTo(s, i) <= OverCapacity(s)}
PrunedBySize(s) ==
    IF Capacity = 0 THEN s ELSE Kept(s, Entries(s) \ {s[i] : i \in Excess(s)})

Prune(s) == PrunedBySize(PrunedByAge(s))

\* write() for a peer of an answer.
Add(p) ==
    LET s == Append(Without(segment, p), [peer |-> p, writtenAt |-> now]) IN
    /\ segment' = Prune(s)
    /\ UsedLast(p)
    /\ latest' = [op |-> "add", gone |-> Keys(PrunedByAge(s)) \ Keys(Prune(s))]
    /\ UNCHANGED <<pinnedKeys, now>>

\* Mutant: a peer stays where it is when it is read.
ReadInPlace(s, p) == s

\* Read again, it is the last to be evicted.
ReadAgain(s, p) == Append(Without(s, p), Entry(s, p))

\* get() and has().
Find(p) ==
    LET e == Entry(segment, p) IN
    /\ p \in Keys(segment)
    /\ IF Expired(e)
       THEN /\ segment' = Without(segment, p)
            /\ latest' = [op |-> "miss", gone |-> {}] /\ UNCHANGED used
       ELSE /\ segment' = ReadAgain(segment, p)
            /\ UsedLast(p)
            /\ latest' = [op |-> "hit", gone |-> {}]
    /\ UNCHANGED <<pinnedKeys, now>>

\* delete() forgets the pin as well.
Forget(p) ==
    /\ p \in Keys(segment) \cup pinnedKeys
    /\ segment' = Without(segment, p) /\ pinnedKeys' = pinnedKeys \ {p}
    /\ latest' = [op |-> "delete", gone |-> {}]
    /\ UNCHANGED <<now, used>>

Clear ==
    /\ segment' = <<>> /\ pinnedKeys' = {}
    /\ latest' = [op |-> "clear", gone |-> {}]
    /\ UNCHANGED <<now, used>>

Pin(p) == p \notin pinnedKeys /\ pinnedKeys' = pinnedKeys \cup {p}
Unpin(p) == p \in pinnedKeys /\ pinnedKeys' = pinnedKeys \ {p}

PinOrUnpin(p) ==
    /\ Pin(p) \/ Unpin(p)
    /\ latest' = [op |-> "pin", gone |-> {}]
    /\ UNCHANGED <<segment, now, used>>

Tick == now < MaxTime /\ now' = now + 1 /\ UNCHANGED <<segment, pinnedKeys, used, latest>>

CacheInit ==
    /\ segment = <<>> /\ pinnedKeys = {} /\ now = 0 /\ used = <<>>
    /\ latest = [op |-> "none", gone |-> {}]

CacheNext == Tick \/ Clear \/ \E p \in MarkedIds : Add(p) \/ Find(p) \/ Forget(p) \/ PinOrUnpin(p)

CacheSpec == CacheInit /\ [][CacheNext]_cacheVars

-----------------------------------------------------------------------------
Older(p, q) == \E i, k \in DOMAIN used : i < k /\ used[i] = p /\ used[k] = q

\* A peer that goes for want of room is not pinned, and was used longer ago than every other
\* that stays and is not.
OlderGoes ==
    \A p \in latest.gone :
        p \notin pinnedKeys /\ \A q \in Keys(segment) \ pinnedKeys : Older(p, q)

\* After peers were added there are no more than the capacity, unless all are pinned, and none
\* goes while there is room.
HoldsCapacity ==
    latest.op = "add" /\ Capacity > 0 =>
        /\ Len(segment) > Capacity => Keys(segment) \subseteq pinnedKeys
        /\ latest.gone # {} => Len(segment) >= Capacity

\* What goes for want of room was used least, and only what has to goes.
LeastUsedGoes == OlderGoes /\ HoldsCapacity

=============================================================================
