------------------------------- MODULE Sending -------------------------------
(***************************************************************************)
(* Sending, forwarding and editing (client/messages.ts, _sendAlbum of      *)
(* client/uploads.ts): the requests one call makes, invoke() that repeats  *)
(* them (client/users.ts), the random ids by which the server knows a      *)
(* repeated message (createApi.ts), and _getResponseMessage, which finds   *)
(* in the updates that answer what became of each message                  *)
(* (client/messageParse.ts).                                               *)
(*                                                                         *)
(* A message is the place it has in the call.  Texts, media and buttons    *)
(* are left out.                                                           *)
(***************************************************************************)
EXTENDS Integers, Sequences, SequencesExt, FiniteSets

CONSTANTS
    Chats,              \* where forwarded messages are from
    Peers,              \* where messages go: "user" or "channel"
    RequestRetries,     \* _requestRetries: how often invoke() asks
    MaxMessages, MaxFaults

SendingAssumption ==
    /\ Peers \subseteq {"user", "channel"}
    /\ RequestRetries \in Nat \ {0} /\ MaxMessages \in Nat \ {0} /\ MaxFaults \in Nat

VARIABLES
    call,       \* what was called: [kind, peer, schedule, chats]
    left,       \* the chunks to send, each the places of its messages
    request,    \* the request that is invoked
    attempt,
    drawn,      \* how many random ids were drawn
    wire,       \* "asked" of the server, "answered", or "idle"
    updates,    \* the answer
    posted,     \* the chat at the server
    withheld,   \* messages the server posted and does not show
    sent,       \* what the call returns: the answer of every chunk
    stage,      \* "running", "done" or "failed"
    faults

vars == <<call, left, request, attempt, drawn, wire, updates, posted, withheld, sent, stage,
          faults>>

None == 0
NoRequest == [ids |-> <<>>, random |-> <<>>]

\* groupBy: chats in the order they first occur, the messages of each in their order.
GroupBy(chats) ==
    LET Places(c) == SelectSeq([i \in DOMAIN chats |-> i], LAMBDA i : chats[i] = c)
        firsts == SelectSeq([i \in DOMAIN chats |-> i],
                            LAMBDA i : \A j \in 1 .. i - 1 : chats[j] # chats[i])
    IN [k \in DOMAIN firsts |-> Places(chats[firsts[k]])]

\* The chunks of a call.
Chunks(c) == IF c.kind = "forward" THEN GroupBy(c.chats)
             ELSE <<[i \in DOMAIN c.chats |-> i]>>

WithRandom == {"send", "forward", "album"}      \* those whose requests have a randomId

Calls ==
    [kind : WithRandom \cup {"edit", "pin"}, peer : Peers, schedule : BOOLEAN,
     chats : UNION {[1 .. n -> Chats] : n \in 1 .. MaxMessages}]

IsCall(c) ==
    /\ c.kind \notin {"forward", "album"} => Len(c.chats) = 1
    /\ c.kind \in {"edit", "pin"} => ~c.schedule

Init ==
    /\ call \in {c \in Calls : IsCall(c)}
    /\ left = Chunks(call)
    /\ request = NoRequest /\ attempt = 0 /\ drawn = 0
    /\ wire = "idle" /\ updates = <<>> /\ posted = <<>> /\ withheld = {}
    /\ sent = <<>> /\ stage = "running" /\ faults = 0

-----------------------------------------------------------------------------
\* The constructor draws a random id for every message; the request keeps them.
Drawn(n) == [i \in 1 .. n |-> drawn + i]

Ask ==
    /\ stage = "running" /\ request = NoRequest /\ left # <<>>
    /\ LET n == IF call.kind \in WithRandom THEN Len(Head(left)) ELSE 0
       IN /\ request' = [ids |-> Head(left), random |-> Drawn(n)]
          /\ drawn' = drawn + n
    /\ left' = Tail(left)
    /\ attempt' = 1 /\ wire' = "asked"
    /\ UNCHANGED <<call, updates, posted, withheld, sent, stage, faults>>

\* The album uploads every medium before its request is made, one upload after the other.
UploadFails ==
    /\ stage = "running" /\ request = NoRequest /\ call.kind = "album" /\ left # <<>>
    /\ stage' = "failed"
    /\ UNCHANGED <<call, left, request, attempt, drawn, wire, updates, posted, withheld, sent,
                   faults>>

-----------------------------------------------------------------------------
\* The server.  It posts what it does not know, and tells about it in updates, in some
\* order; a message may have gone before it looks.
Known(random) == \E p \in Range(posted) : p.random = random

Fresh ==
    SelectSeq([i \in DOMAIN request.random |-> i], LAMBDA i : ~Known(request.random[i]))

Added == posted \o [k \in DOMAIN Fresh |-> [place  |-> request.ids[Fresh[k]],
                                            random |-> request.random[Fresh[k]]]]

IdOf(chat, random) == CHOOSE i \in DOMAIN chat : chat[i].random = random

Update(type, id, place, random) ==
    [type |-> type, id |-> id, place |-> place, random |-> random, peer |-> call.peer]

MessageUpdate(chat, i, channel) ==
    Update(IF call.schedule THEN "newScheduledMessage"
           ELSE IF channel THEN "newChannelMessage" ELSE "newMessage",
           IdOf(chat, request.random[i]), request.ids[i], None)

\* An album or a forward is told as ids and messages, in any order.
Told(chat, hidden) ==
    LET all == DOMAIN request.random
        ids == {Update("messageID", IdOf(chat, request.random[i]), None, request.random[i]) :
                  i \in all}
        new == {MessageUpdate(chat, i, call.peer = "channel") : i \in all \ hidden}
    IN UNION {{a \o b, b \o a} : a \in SetToSeqs(ids), b \in SetToSeqs(new)}

\* An edited message is told with another one that was edited meanwhile: ids are those of an
\* account, but for channels, each of which counts anew.  A pinned message makes a service
\* message, unless it was pinned before.
EditTold ==
    IF call.peer = "channel"
    THEN SetToSeqs({Update("editChannelMessage", 1, 1, None),
                    [Update("editChannelMessage", 1, 2, None) EXCEPT !.peer = "another"]})
    ELSE SetToSeqs({Update("editMessage", 1, 1, None), Update("editMessage", 2, 2, None)})

PinTold == {<<Update("pinned", 1, None, None), Update("newMessage", 3, 1, None)>>,
            <<Update("newMessage", 3, 1, None), Update("pinned", 1, None, None)>>, <<>>}

Serve ==
    /\ wire = "asked"
    /\ posted' = Added
    /\ wire' = "answered"
    /\ \E hidden \in SUBSET DOMAIN request.random :
          /\ updates' \in CASE call.kind = "edit" -> EditTold
                            [] call.kind = "pin" -> PinTold
                            [] OTHER -> Told(Added, hidden)
          /\ withheld' = (withheld \ Range(request.ids)) \cup {request.ids[i] : i \in hidden}
    /\ UNCHANGED <<call, left, request, attempt, drawn, sent, stage, faults>>

\* A short answer for one message of a private chat: its id and nothing else.
ServeShort ==
    /\ wire = "asked" /\ call.kind = "send" /\ call.peer = "user" /\ ~call.schedule
    /\ posted' = Added
    /\ wire' = "answered"
    /\ updates' = <<Update("shortSentMessage", IdOf(Added, request.random[1]), None, None)>>
    /\ withheld' = {}
    /\ UNCHANGED <<call, left, request, attempt, drawn, sent, stage, faults>>

\* The answer does not come, and the sender sends the request again on its next connection.
AnswerLost ==
    /\ faults < MaxFaults /\ wire = "answered"
    /\ faults' = faults + 1
    /\ wire' = "asked" /\ updates' = <<>>
    /\ UNCHANGED <<call, left, request, attempt, drawn, posted, withheld, sent, stage>>

-----------------------------------------------------------------------------
\* invoke(): an error of the server, or a flood wait that is not too long, and the same
\* state is queued again while attempts are left.  It may have posted before it failed.
Again(request_) ==
    /\ request' = request_
    /\ attempt' = attempt + 1
    /\ IF attempt < RequestRetries THEN wire' = "asked" /\ UNCHANGED stage
                                   ELSE wire' = "idle" /\ stage' = "failed"

\* Mutant: every attempt is made as a request of its own, with random ids of its own.
ResubmittedAnew ==
    [request EXCEPT !.random = [i \in DOMAIN @ |-> @[i] + 10 * attempt]]

Resubmitted == request

ServerFails ==
    /\ faults < MaxFaults /\ wire = "asked"
    /\ faults' = faults + 1
    /\ posted' \in {posted, Added}
    /\ Again(Resubmitted)
    /\ UNCHANGED <<call, left, drawn, updates, withheld, sent>>

\* Any other error ends the call, and what earlier chunks returned is gone with it.
Refused ==
    /\ wire = "asked"
    /\ wire' = "idle" /\ stage' = "failed"
    /\ UNCHANGED <<call, left, request, attempt, drawn, updates, posted, withheld, sent,
                   faults>>

-----------------------------------------------------------------------------
\* _getResponseMessage.
NewTypes == {"newMessage", "newChannelMessage"}

RandomToId(random) ==
    LET is == {i \in DOMAIN updates : updates[i].type = "messageID" /\ updates[i].random = random}
    IN IF is = {} THEN None ELSE updates[CHOOSE i \in is : \A j \in is : j <= i].id

\* The update that shows a message; of the edited ones only outside channels.
Shows(u) ==
    \/ u.type \in NewTypes \cup {"newScheduledMessage"}
    \/ u.type = "editMessage" /\ call.peer # "channel"

IdToMessage(id) ==
    LET is == {i \in DOMAIN updates : Shows(updates[i]) /\ updates[i].id = id}
    IN IF is = {} THEN None ELSE updates[CHOOSE i \in is : \A j \in is : j <= i].place

ByRandom(random) == IdToMessage(RandomToId(random))

\* A request without random ids takes the first update that fits it.
Fits(u) ==
    \/ u.type \in NewTypes
    \/ u.type = "editMessage" /\ call.peer # "channel" /\ u.id = request.ids[1]
    \/ u.type = "editChannelMessage" /\ u.peer = call.peer /\ u.id = request.ids[1]

FirstThatFits ==
    LET is == {i \in DOMAIN updates : Fits(updates[i])}
    IN IF is = {} THEN None ELSE updates[CHOOSE i \in is : \A j \in is : i <= j].place

\* Mutant: messages are taken in the order the server tells them.
InOrderTold ==
    LET shown == SelectSeq(updates, Shows)
    IN IF request.random = <<>> THEN <<FirstThatFits>>
       ELSE [i \in DOMAIN request.random |-> IF i <= Len(shown) THEN shown[i].place ELSE None]

GetResponseMessage ==
    IF request.random = <<>> THEN <<FirstThatFits>>
    ELSE [i \in DOMAIN request.random |-> ByRandom(request.random[i])]

\* sendMessage makes the message of a short answer from its own request.
Response ==
    IF Len(updates) = 1 /\ updates[1].type = "shortSentMessage" THEN request.ids
    ELSE GetResponseMessage

Answered ==
    /\ wire = "answered"
    /\ sent' = Append(sent, Response)
    /\ request' = NoRequest /\ attempt' = 0 /\ wire' = "idle" /\ updates' = <<>>
    /\ stage' = IF left = <<>> THEN "done" ELSE stage
    /\ UNCHANGED <<call, left, drawn, posted, withheld, faults>>

-----------------------------------------------------------------------------
Next ==
    \/ Ask \/ UploadFails
    \/ Serve \/ ServeShort \/ AnswerLost
    \/ ServerFails \/ Refused
    \/ Answered

Spec == Init /\ [][Next]_vars

-----------------------------------------------------------------------------
\* Every operation leaves well-formed state.
TypeOK ==
    /\ IsCall(call) /\ stage \in {"running", "done", "failed"}
    /\ attempt \in 0 .. RequestRetries + 1 /\ faults \in 0 .. MaxFaults
    /\ Len(request.random) <= Len(request.ids)

\* No message of a call is posted twice, whatever is lost, fails and is asked again, and the
\* messages of a chat are posted in the order they were given.
PostedOnce ==
    \A i, j \in DOMAIN posted :
       (i < j /\ call.chats[posted[i].place] = call.chats[posted[j].place])
          => posted[i].place < posted[j].place

\* A call that returns has posted all its messages, and gives for each message what became
\* of it: not of another, and nothing only if the server did not show it.
ResponsesMatch ==
    stage = "done" =>
       /\ call.kind \in WithRandom => {p.place : p \in Range(posted)} = DOMAIN call.chats
       /\ \A k \in DOMAIN sent : \A i \in DOMAIN sent[k] :
             \/ sent[k][i] = Chunks(call)[k][i]
             \/ sent[k][i] = None /\ (Chunks(call)[k][i] \in withheld \/ call.kind = "pin")

=============================================================================
