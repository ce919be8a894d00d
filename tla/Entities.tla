------------------------------- MODULE Entities ------------------------------
(***************************************************************************)
(* From what a caller names (a peer, a number, a username, "me") to the    *)
(* input peer a request needs, and to users and chats: getInputEntity and  *)
(* getEntity (client/users.ts) over the entity cache, the rows of the      *)
(* session (sessions/Memory.ts) and the network, with the casts and ids of *)
(* Utils.ts.                                                               *)
(*                                                                         *)
(* Users, basic groups and channels count their ids apart, so that ids may *)
(* collide.  An access hash is one an account can use, or that of a "min"  *)
(* entity, which it cannot.  A display name may read as the number or the  *)
(* username that is asked for, and does not change.  Phones and            *)
(* invitations are left out.                                               *)
(***************************************************************************)
EXTENDS Integers, Sequences

CONSTANTS
    UserNumbers, ChatNumbers, ChannelNumbers,
    SelfNumber, \* the user of the account
    MaxSeen,    \* how many entities answers and updates bring along
    MaxNames    \* how often the username changes hands

\* Ids are short of the mark of a channel, which is 100 here.
ASSUME EntitiesAssumption ==
    /\ UserNumbers \cup ChatNumbers \cup ChannelNumbers \subseteq 1 .. 99
    /\ SelfNumber \in UserNumbers
    /\ MaxSeen \in Nat /\ MaxNames \in Nat

VARIABLES
    owner,      \* whom the username belongs to
    changes,
    seen,
    cached,     \* the entity cache: peers it has
    rows,       \* of the session, as first inserted: [peer, named]
    call,       \* [entities, keys, namesakes]: what is asked for, and who is called so
    inputs,     \* what it was resolved to so far
    gathered,   \* the result of getEntity
    known,      \* what the cache has since the call began
    stage       \* "idle", "resolve", "network", "fetch", "done" or "failed"

entitiesVars == <<owner, changes, seen, cached, rows, call, inputs, gathered, known, stage>>

PeerOf(kind, id) == [kind |-> kind, id |-> id]
Peers == {PeerOf("user", n) : n \in UserNumbers} \cup {PeerOf("chat", n) : n \in ChatNumbers}
            \cup {PeerOf("channel", n) : n \in ChannelNumbers}
Me == PeerOf("user", SelfNumber)

Nobody == PeerOf("nobody", 0)
NoCall == [entities |-> FALSE, keys |-> <<>>, namesakes |-> {}]

Named == {p \in Peers : p.kind # "chat"}        \* who can have a username

Key(by, peer, number) == [by |-> by, peer |-> peer, number |-> number]

-----------------------------------------------------------------------------
\* getPeerId and resolveId.  Numbers are short here, so that 100 marks a channel.
Mark(kind, id) == CASE kind = "user" -> id [] kind = "chat" -> -id [] OTHER -> -(100 + id)

PeerId(p) == Mark(p.kind, p.id)

ResolveId(n) ==
    CASE n >= 0   -> PeerOf("user", n)
      [] n < -100 -> PeerOf("channel", -n - 100)
      [] OTHER    -> PeerOf("chat", -n)

\* What a mixed-up id is taken for: getPeerId resolves those of chats and channels again.
AsKind(kind, n) == Mark(kind, IF kind = "user" THEN n ELSE ResolveId(n).id)

-----------------------------------------------------------------------------
\* The entity cache: its candidate keys in turn.
Cached(mark) == {p \in cached : PeerId(p) = mark}

CacheRead(mark, next) ==
    IF Cached(mark) = {} THEN next ELSE CHOOSE p \in cached : PeerId(p) = mark

CacheGet(n) ==
    LET bare == CacheRead(AsKind("user", n),
                    CacheRead(AsKind("chat", n), CacheRead(AsKind("channel", n), Nobody)))
    IN IF n < 0 THEN CacheRead(n, bare) ELSE bare

\* The rows of the session: whichever comes first.
FirstRow(is) ==
    IF is = {} THEN Nobody ELSE rows[CHOOSE i \in is : \A k \in is : i <= k].peer

RowOfName == FirstRow({i \in DOMAIN rows : rows[i].named})

\* getEntityRowsById, not exact.  Exactly it compares strings with big integers and finds
\* nothing.
RowOfId(n) ==
    LET ids == {AsKind("user", n), AsKind("chat", n), AsKind("channel", n)}
    IN FirstRow({i \in DOMAIN rows : PeerId(rows[i].peer) \in ids})

\* getEntityRowsByName: last of all, a display name that reads as what is asked for.
RowOfDisplayName == FirstRow({i \in DOMAIN rows : rows[i].peer \in call.namesakes})

\* processEntities and add: what is complete replaces what was there, in its place.
WithRow(rs, p) ==
    LET row == [peer |-> p, named |-> owner = p]
    IN IF \E i \in DOMAIN rs : rs[i].peer = p
       THEN [i \in 1 .. Len(rs) |-> IF rs[i].peer = p THEN row ELSE rs[i]]
       ELSE Append(rs, row)

Learn(p, min) ==
    IF min /\ p.kind # "chat" THEN UNCHANGED <<cached, rows>>
    ELSE cached' = cached \cup {p} /\ rows' = WithRow(rows, p)

-----------------------------------------------------------------------------
OrElse(p, next) == IF p # Nobody THEN p ELSE next

\* Without the network: the cast, the cache, "me" and the session.
Locally(key) ==
    CASE key.by = "peer" ->
           IF key.peer.kind = "chat" THEN key.peer ELSE CacheGet(PeerId(key.peer))
      [] key.by = "number" ->
           OrElse(CacheGet(key.number), OrElse(RowOfId(key.number), RowOfDisplayName))
      [] key.by = "me" -> Me
      [] OTHER -> OrElse(RowOfName, RowOfDisplayName)

\* getEntity leaves usernames to the network.
Found(key) == IF call.entities /\ key.by = "username" THEN Nobody ELSE Locally(key)

\* What the network is asked about.
Target(key) ==
    CASE key.by = "peer" -> key.peer
      [] key.by = "number" -> ResolveId(key.number)
      [] OTHER -> owner

EntitiesInit ==
    /\ owner \in Named \cup {Nobody} /\ changes = 0 /\ seen = 0
    /\ cached = {} /\ rows = <<>>
    /\ call = NoCall /\ inputs = <<>> /\ gathered = <<>> /\ known = {} /\ stage = "idle"

\* Entities that come along with answers and updates.
See(p, min) ==
    /\ seen < MaxSeen /\ stage \in {"idle", "network"}
    /\ seen' = seen + 1
    /\ Learn(p, min)
    /\ UNCHANGED <<owner, changes, call, inputs, gathered, known, stage>>

\* Room is made in the cache (EntityCache).
Evict(p) ==
    /\ stage \in {"idle", "network"} /\ p \in cached
    /\ cached' = cached \ {p} /\ known' = known \ {p}
    /\ UNCHANGED <<owner, changes, seen, rows, call, inputs, gathered, stage>>

Rename(p) ==
    /\ changes < MaxNames /\ stage \in {"idle", "network"} /\ owner # p
    /\ changes' = changes + 1 /\ owner' = p
    /\ UNCHANGED <<seen, cached, rows, call, inputs, gathered, known, stage>>

EntityLikes ==
    {Key("peer", p, 0) : p \in Peers} \cup {Key("number", Nobody, PeerId(p)) : p \in Peers}
       \cup {Key("username", Nobody, 0), Key("me", Nobody, 0)}

\* Whose display name may read as a key: nobody's, or one peer's.
Namesakes(key) == IF key.by \in {"number", "username"} THEN {{}} \cup {{p} : p \in Peers} ELSE {{}}

Ask(entities, keys, namesakes) ==
    /\ stage = "idle"
    /\ call' = [entities |-> entities, keys |-> keys, namesakes |-> namesakes]
    /\ known' = cached /\ stage' = "resolve"
    /\ UNCHANGED <<owner, changes, seen, cached, rows, inputs, gathered>>

NextKey == call.keys[Len(inputs) + 1]

\* Where the call goes with one more of its keys resolved.
Took(p) ==
    /\ inputs' = Append(inputs, p)
    /\ stage' = IF Len(inputs) + 1 < Len(call.keys) THEN "resolve"
                ELSE IF call.entities THEN "fetch" ELSE "done"

Resolve ==
    /\ stage = "resolve"
    /\ IF Found(NextKey) # Nobody
       THEN Took(Found(NextKey))
       ELSE IF NextKey.by = "number" /\ ResolveId(NextKey.number).kind = "chat"
       THEN Took(ResolveId(NextKey.number))
       ELSE stage' = "network" /\ UNCHANGED inputs
    /\ UNCHANGED <<owner, changes, seen, cached, rows, call, gathered, known>>

\* The answer brings the entity, which the session and the cache learn.
Network ==
    /\ stage = "network" /\ Target(NextKey) \in Peers
    /\ Learn(Target(NextKey), FALSE) /\ Took(Target(NextKey))
    /\ UNCHANGED <<owner, changes, seen, call, gathered, known>>

\* An empty user, a channel that cannot be reached or is told as "min", nobody with the name.
NetworkFails ==
    /\ stage = "network"
    /\ stage' = "failed"
    /\ UNCHANGED <<owner, changes, seen, cached, rows, call, inputs, gathered, known>>

\* getUsers, getChats and getChannels answer with what there is of the kinds asked for, which
\* a Map takes by id: users, then channels, then chats.
PutAt(kind) == CASE kind = "user" -> 1 [] kind = "channel" -> 2 [] kind = "chat" -> 3 [] OTHER -> 0

LastPut(entities) ==
    CHOOSE e \in entities \cup {Nobody} : \A f \in entities : PutAt(f.kind) <= PutAt(e.kind)

ByMarkedId(entities, p) == LastPut({e \in entities : PeerId(e) = PeerId(p)})

\* Mutant: entities are found by their ids without a mark.
ByBareId(entities, p) == LastPut({e \in entities : e.id = p.id})

EntityOf(entities, p) == ByMarkedId(entities, p)

\* getEntity puts what it was given in the order of the keys.
Fetch ==
    /\ stage = "fetch"
    /\ gathered' = [i \in DOMAIN inputs |-> EntityOf({inputs[k] : k \in DOMAIN inputs}, inputs[i])]
    /\ stage' = "done"
    /\ UNCHANGED <<owner, changes, seen, cached, rows, call, inputs, known>>

FetchFails ==
    /\ stage = "fetch"
    /\ stage' = "failed"
    /\ UNCHANGED <<owner, changes, seen, cached, rows, call, inputs, gathered, known>>

EntitiesNext ==
    \/ \E p \in Peers : \E min \in BOOLEAN : See(p, min)
    \/ \E p \in Peers : Evict(p)
    \/ \E p \in Named : Rename(p)
    \/ \E k \in EntityLikes : \E called \in Namesakes(k) : Ask(FALSE, <<k>>, called)
    \/ \E j, k \in {x \in EntityLikes : x.by # "number"} : j # k /\ Ask(TRUE, <<j, k>>, {})
    \/ Resolve \/ Network \/ NetworkFails
    \/ Fetch \/ FetchFails

EntitiesSpec == EntitiesInit /\ [][EntitiesNext]_entitiesVars

-----------------------------------------------------------------------------
\* Every operation leaves well-formed state, and a peer has one row.
EntitiesTypeOK ==
    /\ owner \in Named \cup {Nobody} /\ cached \subseteq Peers /\ known \subseteq Peers
    /\ rows \in Seq([peer : Peers, named : BOOLEAN])
    /\ \A i, j \in DOMAIN rows : rows[i].peer = rows[j].peer => i = j
    /\ call.entities \in BOOLEAN /\ call.keys \in Seq(EntityLikes) /\ call.namesakes \subseteq Peers
    /\ inputs \in Seq(Peers) /\ Len(inputs) <= Len(call.keys)
    /\ stage \in {"idle", "resolve", "network", "fetch", "done", "failed"}

\* Exception: the session also looks for a number among display names (Memory.ts:305-307).
TakenByName(p) == p \in call.namesakes

\* A peer is resolved to one with its id, and to itself if the cache knows it or the network
\* was asked: only a peer of another kind with the same id can be taken for it.  A number is
\* resolved to the peer it marks if the cache knows that, and else to one whose id it is, except
\* to a peer whose display name reads as the number.
RightId ==
    \A i \in DOMAIN inputs :
       LET key == call.keys[i] IN
       /\ key.by = "peer" => /\ inputs[i].id = key.peer.id
                             /\ key.peer \in known => inputs[i] = key.peer
       /\ key.by = "number" =>
             /\ inputs[i].id = ResolveId(key.number).id \/ TakenByName(inputs[i])
             /\ ResolveId(key.number) \in known => inputs[i] = ResolveId(key.number)
       /\ key.by = "me" => inputs[i] = Me

\* An input peer has a hash that was told in full: the cache and the session have the peer.
HashIsFull ==
    \A i \in DOMAIN inputs :
       \/ inputs[i].kind = "chat" \/ inputs[i] = Me
       \/ \E k \in DOMAIN rows : rows[k].peer = inputs[i]

\* getEntity gives for each of its keys the entity the key was resolved to.
ResultFits ==
    stage = "done" /\ call.entities =>
       Len(gathered) = Len(call.keys) /\ \A i \in DOMAIN gathered : gathered[i] = inputs[i]

\* What is asked for by id, name or peer is what getEntity gives, and what it is asked of the
\* server with is complete, from whatever cache and session it was taken (users.ts), except that
\* a number that is nobody's id there goes by display names (TakenByName).
EntitiesMatch == RightId /\ HashIsFull /\ ResultFits

=============================================================================
