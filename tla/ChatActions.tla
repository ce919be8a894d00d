------------------------------ MODULE ChatActions -----------------------------
(***************************************************************************)
(* What the events of chats and users tell (events/ChatAction.ts,          *)
(* UserUpdate.ts): something happens in a chat, the server tells it with a *)
(* service message or an update of its own, and the event made of it is    *)
(* asked who joined, was added, left, was kicked, what was pinned, and what*)
(* a user is doing.                                                        *)
(***************************************************************************)
EXTENDS Integers, FiniteSets

CONSTANTS
    Users,          \* who may be in the chat
    MaxHappened     \* bound

ChatActionsAssumption == IsFiniteSet(Users) /\ "nobody" \notin Users /\ MaxHappened \in Nat

VARIABLES
    members,
    happened,   \* last: what, to whom and by whom
    event,      \* what it was built from: the update or the service message
    count

vars == <<members, happened, event, count>>

Nobody == "nobody"

-----------------------------------------------------------------------------
\* An update or service message: its type; from, the sender of a message if it is a user; the user
\* it is about and the actor; whether the user was and is a participant; the message it pins.
Told(type, from, user, actor, prev, new, ids) ==
    [type |-> type, from |-> from, user |-> user, actor |-> actor, prev |-> prev, new |-> new,
     ids |-> ids]

Message(action, from, user) == Told(action, from, user, Nobody, FALSE, FALSE, 0)
Participant(type, user, actor, prev, new) == Told(type, Nobody, user, actor, prev, new, 0)

Participants == {"UpdateChatParticipant", "UpdateChannelParticipant"}

\* _parseUpdate.
UserIds(e) ==
    IF e.type \in {"JoinedByLink", "JoinedByRequest"}
    THEN {e.from} \ {Nobody} ELSE {e.user} \ {Nobody}

AddedBy(e) ==
    CASE e.type \in Participants -> IF e.new /\ ~e.prev THEN e.actor ELSE Nobody
      [] e.type = "UpdateChatParticipantAdd" -> e.actor
      [] e.type = "AddUser"      -> e.from
      [] e.type = "JoinedByLink" -> e.actor
      [] OTHER                   -> Nobody

\* Mutant: a message that tells of somebody who left names him as the one who kicked.
KickedByAny(e) ==
    CASE e.type \in Participants -> IF ~e.new /\ e.prev THEN e.actor ELSE Nobody
      [] e.type = "DeleteUser"   -> e.from
      [] OTHER                   -> Nobody

KickedBy(e) ==
    CASE e.type \in Participants -> IF ~e.new /\ e.prev THEN e.actor ELSE Nobody
      [] e.type = "DeleteUser"   -> IF e.from # e.user THEN e.from ELSE Nobody
      [] OTHER                   -> Nobody

Pinned(e) == e.type = "PinMessage" \/ (e.type = "UpdatePinnedMessages" /\ e.new)

\* The getters.
UserJoined(e) ==
    \/ e.type \in {"JoinedByLink", "JoinedByRequest"}
    \/ e.type \in Participants /\ e.new /\ ~e.prev

UserAdded(e) == e.type \in {"AddUser", "UpdateChatParticipantAdd"}

UserLeft(e) ==
    \/ e.type = "DeleteUser" /\ e.from = e.user
    \/ e.type \in Participants /\ ~e.new /\ e.prev /\ e.user = e.actor

UserKicked(e) ==
    \/ e.type = "DeleteUser" /\ e.from \notin {Nobody, e.user}
    \/ e.type \in Participants /\ ~e.new /\ e.prev /\ e.user # e.actor
    \/ e.type = "UpdateChatParticipantDelete"

Created(e)      == e.type \in {"ChatCreate", "ChannelCreate"}
NewTitle(e)     == e.type \in {"ChatCreate", "ChannelCreate", "EditTitle"}
NewPhoto(e)     == e.type = "EditPhoto"
PhotoDeleted(e) == e.type = "DeletePhoto"
NewPin(e)       == Pinned(e) /\ e.ids > 0
Unpin(e)        == ~Pinned(e) /\ e.ids > 0

\* Of a service message it makes an event if it cares about the action.
Build(e) == e.type # "GroupCall"

-----------------------------------------------------------------------------
\* UserUpdateEvent: the status of a user, or what he is doing.
Statuses == {"Online", "Offline", "Recently", "LastWeek", "LastMonth", "Empty"}

Recorded == {"RecordVideo", "RecordAudio", "RecordRound"}
Uploaded == {"UploadVideo", "UploadAudio", "UploadPhoto", "UploadDocument", "UploadRound"}
Actions  == Recorded \cup Uploaded
            \cup {"Typing", "Cancel", "GeoLocation", "ChooseContact", "GamePlay", "ChooseSticker", "Speaking"}

Doing(a) ==
    [typing |-> a = "Typing", cancel |-> a = "Cancel",
     recording |-> a \in Recorded, uploading |-> a \in Uploaded,
     audio |-> a \in {"RecordAudio", "UploadAudio"}, video |-> a \in {"RecordVideo", "UploadVideo"},
     round |-> a \in {"RecordRound", "UploadRound"}, photo |-> a = "UploadPhoto",
     document |-> a = "UploadDocument", geo |-> a = "GeoLocation", contact |-> a = "ChooseContact",
     playing |-> a = "GamePlay", sticker |-> a = "ChooseSticker", progress |-> a \in Uploaded]

Status(s) ==
    [online |-> s = "Online", offline |-> s = "Offline", until |-> s = "Online",
     lastSeen |-> s = "Offline", recently |-> s = "Recently", withinWeeks |-> s = "LastWeek",
     withinMonths |-> s = "LastMonth"]

-----------------------------------------------------------------------------
Init == members = {} /\ happened = [what |-> "none", who |-> Nobody, by |-> Nobody]
        /\ event = Message("none", Nobody, Nobody) /\ count = 0

Happens(what, who, by, tells) ==
    /\ happened' = [what |-> what, who |-> who, by |-> by]
    /\ event' \in {e \in tells : Build(e)}

\* Somebody joins, by a link, on request, or as the members of public groups do, who add themselves.
Join(u) ==
    /\ u \notin members /\ members' = members \cup {u}
    /\ \E inviter \in members \cup {Nobody} :
          Happens("came", u, u,
             {Told("JoinedByLink", u, Nobody, inviter, FALSE, TRUE, 0), Message("JoinedByRequest", u, Nobody),
              Message("AddUser", u, u)}
             \cup {Participant(t, u, u, FALSE, TRUE) : t \in Participants})

Add(u, by) ==
    /\ u \notin members /\ by \in members /\ members' = members \cup {u}
    /\ Happens("came", u, by,
          {Message("AddUser", by, u), Participant("UpdateChatParticipantAdd", u, by, FALSE, TRUE)}
          \cup {Participant(t, u, by, FALSE, TRUE) : t \in Participants})

\* Somebody goes, by himself or because of another.  A message from a channel has no user.
Go(u, by) ==
    /\ {u, by} \subseteq members /\ members' = members \ {u}
    /\ Happens("went", u, by,
          {Message("DeleteUser", by, u), Participant("UpdateChatParticipantDelete", u, Nobody, TRUE, FALSE)}
          \cup (IF u # by THEN {Message("DeleteUser", Nobody, u)} ELSE {})
          \cup {Participant(t, u, by, TRUE, FALSE) : t \in Participants})

\* Who is banned from a channel stays a participant of another type, as an administrator does.
Ban(u, by) ==
    /\ {u, by} \subseteq members /\ u # by /\ members' = members \ {u}
    /\ Happens("banned", u, by, {Participant("UpdateChannelParticipant", u, by, TRUE, TRUE)})

Pin(id, new) ==
    /\ Happens(IF new THEN "pinned" ELSE "unpinned", Nobody, Nobody,
          {Told("UpdatePinnedMessages", Nobody, Nobody, Nobody, FALSE, new, id)}
          \cup (IF new THEN {Told("PinMessage", Nobody, Nobody, Nobody, FALSE, TRUE, id)} ELSE {}))
    /\ UNCHANGED members

Change(action) ==
    /\ Happens("changed", Nobody, Nobody, {Message(action, Nobody, Nobody)})
    /\ UNCHANGED members

Next ==
    /\ count < MaxHappened /\ count' = count + 1
    /\ \/ \E u \in Users : Join(u)
       \/ \E u, by \in Users : Add(u, by) \/ Go(u, by) \/ Ban(u, by)
       \/ \E id \in {0, 1}, new \in BOOLEAN : Pin(id, new)
       \/ \E action \in {"ChatCreate", "ChannelCreate", "EditTitle", "EditPhoto", "DeletePhoto"} : Change(action)

Spec == Init /\ [][Next]_vars

-----------------------------------------------------------------------------
\* An event tells that somebody came, or that he went, if he did, in one of two words each, names
\* him, and who kicked him if another did; an UpdateChatParticipantDelete is always about somebody
\* kicked, a message of nobody about neither, and of a ban nothing is told (ChatAction.ts:157-314).
EventTells ==
    LET came == happened.what = "came"
        went == happened.what = "went"
        e    == event
    IN /\ came <=> (UserJoined(e) # UserAdded(e))
       /\ went => \/ UserLeft(e) # UserKicked(e)
                  \/ e.type = "DeleteUser" /\ e.from = Nobody
       /\ (UserLeft(e) \/ UserKicked(e)) => went
       /\ ~(UserJoined(e) /\ UserAdded(e))
       /\ (came \/ went) => UserIds(e) = {happened.who}
       /\ UserLeft(e) => happened.by = happened.who
       /\ (UserKicked(e) /\ e.type # "UpdateChatParticipantDelete") =>
              happened.by # happened.who /\ KickedBy(e) = happened.by
       /\ (KickedBy(e) # Nobody /\ e.type \notin Participants) => UserKicked(e)
       /\ AddedBy(e) # Nobody => came
       /\ NewPin(e) => happened.what = "pinned"
       /\ Unpin(e) => happened.what = "unpinned"
       /\ (Created(e) \/ NewTitle(e) \/ NewPhoto(e) \/ PhotoDeleted(e)) => happened.what = "changed"

\* A user is told to be in at most one state and to do at most one thing, and what is recorded or
\* uploaded is of one kind (UserUpdate.ts:166-365).
StatesApart ==
    /\ \A s \in Statuses :
          Cardinality({f \in {"online", "offline", "recently", "withinWeeks", "withinMonths"} : Status(s)[f]}) <= 1
    /\ \A a \in Actions :
          LET are == {f \in {"typing", "cancel", "recording", "uploading", "geo", "contact", "playing", "sticker"} :
                         Doing(a)[f]}
              of  == {f \in {"audio", "video", "round", "photo", "document"} : Doing(a)[f]}
          IN /\ Cardinality(are) <= 1
             /\ of # {} <=> are \cap {"recording", "uploading"} # {}
             /\ Cardinality(of) <= 1
=============================================================================
