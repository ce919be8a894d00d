------------------------------- MODULE Members -------------------------------
(***************************************************************************)
(* client/chats.ts: _ParticipantsIter, which gives the members of a user's *)
(* chat, a group or a channel, with those that come and leave between two  *)
(* chunks, and kickParticipant(), which bans a member of a channel and     *)
(* lifts the ban half a second later.                                      *)
(*                                                                         *)
(* The server's list is in an order of its own.  Left out: the number of   *)
(* members (showTotal) and the admin log, whose iterator gives nothing.    *)
(***************************************************************************)
EXTENDS RequestIter, FiniteSets, FiniteSetsExt, SequencesExt

CONSTANTS
    Users,                  \* numbers, in the order of the server's list
    Sizes,                  \* bound: how many are members at first
    Matching,               \* those whose name has what is searched for
    MemberLimits, Offsets,  \* bounds: values of limit and offset
    MaxMoves                \* bound: members that come or leave

MembersAssumption ==
    /\ Matching \subseteq Users /\ Users \subseteq Nat /\ Users # {}
    /\ Sizes \cup MemberLimits \cup Offsets \cup {MaxMoves} \subseteq Nat

Peers == {"user", "chat", "forbidden", "channel"}    \* forbidden: a chat with ChatParticipantsForbidden
Filters == {"none", "recent", "banned"}     \* of a channel

VARIABLES
    members,                \* at the server
    banned,
    call,                   \* of iterParticipants
    it,
    phase,                  \* whether _init() was called
    request,                \* the offset of the request that is left, if one is
    given,                  \* history: what the application got
    kick,                   \* kickParticipant: how far it is, and with whom
    came, gone              \* history: who came and who left since the iteration began

vars == <<members, banned, call, it, phase, request, given, kick, came, gone>>

-----------------------------------------------------------------------------
Calls == [peer : Peers, filter : Filters, search : BOOLEAN, limit : MemberLimits, offset : Offsets]

\* A search is the server's for a channel without a filter.
SearchesItself == call.search /\ (call.filter # "none" \/ call.peer # "channel")
FilterEntity(user) == SearchesItself => user \in Matching
Filtered(list) == SelectSeq(list, FilterEntity)

Init ==
    /\ \E n \in Sizes : members = [k \in 1 .. n |-> k]
    /\ banned \in {{}, {Max(Users)}}
    /\ call \in {c \in Calls : c.peer # "channel" => c.filter = "none" /\ banned = {}}
    /\ it = NewIterator(call.limit) /\ phase = "new"
    /\ request = <<>> /\ given = <<>> /\ kick = <<"idle", 0>> /\ came = {} /\ gone = {}

\* _init(): the members of a group are there at once, whatever the limit, unless they are hidden; a
\* channel is asked by chunks.
Begin ==
    /\ phase = "new" /\ phase' = "begun"
    /\ CASE call.peer = "chat" -> it' = Loaded(it, Filtered(members), TRUE) /\ UNCHANGED request
         [] call.peer = "user" -> it' = Loaded(it, Filtered(<<Min(Users)>>), TRUE) /\ UNCHANGED request
         [] call.peer = "forbidden" -> UNCHANGED <<it, request>>
         [] call.peer = "channel" -> request' = <<call.offset>> /\ UNCHANGED it
    /\ UNCHANGED <<members, banned, call, given, kick, came, gone>>

-----------------------------------------------------------------------------
\* channels.getParticipants: members, those that match, or the banned.
List == CASE call.filter = "banned" -> SetToSeq(banned)
          [] call.search /\ call.filter = "none" -> SelectSeq(members, LAMBDA u : u \in Matching)
          [] OTHER -> members

GetParticipants(offset, n) == SubSeq(List, offset + 1, Min({offset + n, Len(List)}))

\* A limit less than the offset asks for nothing.
AskedFor == LET limit == IF call.limit = 0 THEN Unlimited ELSE call.limit
            IN Min({limit - request[1], ChunkSize})

\* Who is banned has a peer, not a user: it is not pushed.
Pushed(r) == IF call.filter = "banned" THEN <<>> ELSE Filtered(r)

\* Mutant: the next chunk begins behind those that were pushed.
NextOffsetOfPushed(r) == request[1] + Len(Pushed(r))

NextOffset(r) == request[1] + Len(r)

LoadNextChunk ==
    /\ phase = "begun" /\ NeedsChunk(it)
    /\ IF request = <<>> THEN it' = Loaded(it, <<>>, TRUE) /\ UNCHANGED request
       ELSE LET r == GetParticipants(request[1], AskedFor) IN
            IF r = <<>> THEN it' = Loaded(it, <<>>, FALSE) /\ request' = <<>>
            ELSE it' = Loaded(it, Pushed(r), FALSE) /\ request' = <<NextOffset(r)>>
    /\ UNCHANGED <<members, banned, call, phase, given, kick, came, gone>>

Take ==
    /\ phase = "begun" /\ HasElement(it)
    /\ it' = Given(it) /\ given' = Append(given, Element(it))
    /\ UNCHANGED <<members, banned, call, phase, request, kick, came, gone>>

-----------------------------------------------------------------------------
\* Members come, somewhere in the list, and leave.
Moves == Cardinality(came) + Cardinality(gone)
Without(user) == SelectSeq(members, LAMBDA u : u # user)

Come(user) ==
    /\ ~IsOver(it) /\ Moves < MaxMoves /\ user \notin ToSet(members) \cup banned
    /\ \E k \in 1 .. Len(members) + 1 : members' = InsertAt(members, k, user)
    /\ came' = came \cup {user}
    /\ UNCHANGED <<banned, call, it, phase, request, given, kick, gone>>

\* kickParticipant(): a member of a group is removed; one of a channel is banned, which removes
\* him, and half a second later the ban is lifted; oneself leaves a channel (LeaveChannel).
Kick(user) ==
    /\ ~IsOver(it) /\ Moves < MaxMoves /\ user \in ToSet(members) /\ kick[1] = "idle" /\ call.peer # "user"
    /\ members' = Without(user) /\ gone' = gone \cup {user}
    /\ \/ kick' = <<"done", user>> /\ UNCHANGED banned
       \/ call.peer = "channel" /\ kick' = <<"banned", user>> /\ banned' = banned \cup {user}
    /\ UNCHANGED <<call, it, phase, request, given, came>>

\* Mutant: the rights that are given still take the view.
KeepBan ==
    /\ kick[1] = "banned" /\ kick' = <<"done", kick[2]>> /\ UNCHANGED banned
    /\ UNCHANGED <<members, call, it, phase, request, given, came, gone>>

LiftBan ==
    /\ kick[1] = "banned" /\ kick' = <<"done", kick[2]>> /\ banned' = banned \ {kick[2]}
    /\ UNCHANGED <<members, call, it, phase, request, given, came, gone>>

LiftFails ==
    /\ kick[1] = "banned" /\ kick' = <<"failed", kick[2]>>
    /\ UNCHANGED <<members, banned, call, it, phase, request, given, came, gone>>

Next ==
    \/ Begin \/ LoadNextChunk \/ Take \/ LiftBan \/ LiftFails
    \/ \E user \in Users : Come(user) \/ Kick(user)

Spec == Init /\ [][Next]_vars

-----------------------------------------------------------------------------
\* The list as it is, if nobody comes or leaves: from the offset on, those that match, in its order
\* (chats.ts:259-301).
MembersInOrder ==
    (came \cup gone = {} /\ call.peer = "channel") =>
        given = <<>> \/ IsPrefix(given, Filtered(SubSeq(List, call.offset + 1, Len(List))))

\* One member is given twice for one that came, and one that stays is missed for one that left,
\* and no others; unless the limit, or a chunk of which nothing was pushed, ended the iteration
\* (chats.ts:272-299, requestIter.ts:85).
MissedForLeft ==
    LET stayed == {u \in ToSet(members) \ came : FilterEntity(u) /\ (call.search => u \in Matching)}
        exhausted == IsOver(it) /\ phase = "begun" /\ request = <<>> /\ call.limit = 0
    IN /\ Len(given) - Cardinality(ToSet(given)) <= Cardinality(came)
       /\ (exhausted /\ call.peer \in {"chat", "channel"} /\ call.filter # "banned") =>
             Cardinality(stayed \ ToSet(given)) <=
                Cardinality(gone) + (IF call.peer = "channel" THEN call.offset ELSE 0)

\* No more than the limit are given of a channel, and who was kicked may come back, unless the
\* second request failed or he was banned before (chats.ts:263-266, 478-486).
KickIsNoBan ==
    /\ (call.peer = "channel" /\ call.limit > 0) => Len(given) <= call.limit
    /\ kick[1] = "done" => kick[2] \notin banned
=============================================================================
