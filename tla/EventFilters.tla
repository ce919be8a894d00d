----------------------------- MODULE EventFilters -----------------------------
(***************************************************************************)
(* Which updates a handler hears of: the builders of events/ with their    *)
(* chats, users and directions, what they build of an update and what they *)
(* filter.  Chats are marked ids: n for a user, -n for a chat, -(1000 + n) *)
(* for a channel; a positive number may mean any of the three.             *)
(*                                                                         *)
(* Updates are dispatched side by side, and each dispatch that finds the   *)
(* builder unresolved resolves it, waiting for names.                      *)
(***************************************************************************)
EXTENDS Integers, FiniteSets

CONSTANTS
    Runs        \* dispatches at one time

VARIABLES
    given,      \* what the application passed to the constructor
    builder,    \* [chats, users, resolved]: of the builder
    run,        \* of every dispatch: where it is and what it resolves
    outcome     \* of the last update: what it was, what was built, whether it was heard

vars == <<given, builder, run, outcome>>

Self == 3
Marks == {1, 2, Self, -1, -2, -1001}    \* three users, two chats and a channel
None == 0

-----------------------------------------------------------------------------
\* What chats and users may hold.  Names and objects are strings by then: an object of TL has no
\* toString of its own, and "[object Object]" is the name of nobody.
Number(n) == [is |-> "number", n |-> n]
Name      == [is |-> "name", n |-> 2]
Me        == [is |-> "me", n |-> Self]
PeerObject == [is |-> "object", n |-> -1001]

IdsOf(like) ==
    IF like.is # "number" \/ like.n < 0 THEN {Number(like.n)}
    ELSE {Number(like.n), Number(-like.n), Number(-(1000 + like.n))}

IntoIdSet(likes) == UNION {IdsOf(like) : like \in likes}

\* Of lists that were not passed there is nothing to resolve.
Unset == [set |-> FALSE, likes |-> {}]
List(likes) == [set |-> TRUE, likes |-> likes]

\* External: the server's chat_instance of a chat, which is nobody's id.
Instance(chat) == CASE chat = 1 -> 11 [] chat = -1 -> 12 [] OTHER -> 13

Kinds == {"NewMessage", "EditedMessage", "DeletedMessage", "MessageRead", "ChatAction", "UserUpdate",
          "CallbackQuery", "InlineQuery"}

ByUsers == {"UserUpdate", "InlineQuery"}

\* NewMessage: "yes", "no" or "unset".
Not(flag) == IF flag = "yes" THEN "no" ELSE "yes"

Directions(incoming, outgoing) ==
    CASE incoming = "yes" /\ outgoing = "yes"     -> [in |-> "unset", out |-> "unset"]
      [] incoming # "unset" /\ outgoing = "unset" -> [in |-> incoming, out |-> Not(incoming)]
      [] incoming = "unset" /\ outgoing # "unset" -> [in |-> Not(outgoing), out |-> outgoing]
      [] OTHER                                    -> [in |-> incoming, out |-> outgoing]

Given(kind, chats, blacklist, users, incoming, outgoing, forwards, inbox) ==
    [kind |-> kind, chats |-> chats, blacklist |-> blacklist /\ kind # "CallbackQuery",
     users |-> users, incoming |-> incoming, outgoing |-> outgoing, forwards |-> forwards,
     inbox |-> inbox]

ChatLists == {Unset} \cup {List({like}) : like \in {Number(1), Number(-1), Number(-1001), Name, Me, PeerObject}}
             \cup {List({Number(2), Number(-1)}), List({Number(Instance(-1001))})}

Givens ==
    {Given(kind, chats, blacklist, Unset, "unset", "unset", "unset", "unset") :
        kind \in Kinds, chats \in ChatLists, blacklist \in BOOLEAN}
    \cup {Given("NewMessage", List({Number(1)}), FALSE, users, in, out, forwards, "unset") :
             users \in {Unset, List({Name}), List({Number(1)})}, in \in {"unset", "yes"},
             out \in {"unset", "yes", "no"}, forwards \in {"unset", "yes", "no"}}
    \cup {Given("MessageRead", chats, FALSE, Unset, "unset", "unset", "unset", inbox) :
             chats \in {Unset, List({Number(1)})}, inbox \in {"yes", "no"}}

-----------------------------------------------------------------------------
\* An update: its type, chat and user (None where it has none), and what else the builders read.
Update(type, chat, user, out, forward) ==
    [type |-> type, chat |-> chat, user |-> user, out |-> out, forward |-> forward]

Updates ==
    {Update(type, chat, user, out, forward) :
        type \in {"new", "edit"}, chat \in {1, -1, -1001}, user \in {None, 1}, out \in BOOLEAN,
        forward \in BOOLEAN}
    \cup {Update("short", chat, None, out, FALSE) : chat \in {1, 2}, out \in BOOLEAN}
    \cup {Update("shortChat", -1, 2, out, FALSE) : out \in BOOLEAN}
    \cup {Update("service", chat, 1, FALSE, FALSE) : chat \in {-1, -1001}}
    \cup {Update("participant", chat, 2, FALSE, FALSE) : chat \in {-1, -1001}}
    \cup {Update("pinned", chat, None, FALSE, FALSE) : chat \in {1, -1, -1001}}
    \cup {Update("delete", chat, None, FALSE, FALSE) : chat \in {None, -1001}}
    \cup {Update("read", chat, None, out, FALSE) : chat \in {1, -1, -1001}, out \in BOOLEAN}
    \cup {Update("contents", chat, None, FALSE, FALSE) : chat \in {None, -1001}}
    \cup {Update("status", user, user, FALSE, FALSE) : user \in {1, 2}}
    \cup {Update("typing", chat, user, FALSE, FALSE) : chat \in {-1, -1001}, user \in {None, 1}}
    \cup {Update("callback", chat, 2, FALSE, FALSE) : chat \in {1, -1, -1001}}
    \cup {Update(type, chat, 2, FALSE, FALSE) :
             type \in {"inlineCallback", "inlineCallback64"}, chat \in {1, -1001}}
    \cup {Update(type, None, user, FALSE, FALSE) : type \in {"inlineQuery", "inlineSend"}, user \in {1, 2}}

\* The types each build() makes an event of; of the others it makes none.
MessageTypes  == {"new", "short", "shortChat"}
EditedTypes   == {"edit"}
DeletedTypes  == {"delete"}
ReadTypes     == {"read", "contents"}
ActionTypes   == {"service", "participant", "pinned"}
UserTypes     == {"status", "typing"}
CallbackTypes == {"callback", "inlineCallback", "inlineCallback64"}
QueryTypes    == {"inlineQuery", "inlineSend"}

TypesOf(kind) ==
    CASE kind = "NewMessage"     -> MessageTypes
      [] kind = "EditedMessage"  -> EditedTypes
      [] kind = "DeletedMessage" -> DeletedTypes
      [] kind = "MessageRead"    -> ReadTypes
      [] kind = "ChatAction"     -> ActionTypes
      [] kind = "UserUpdate"     -> UserTypes
      [] kind = "CallbackQuery"  -> CallbackTypes
      [] kind = "InlineQuery"    -> QueryTypes

Event(chatId, userId, outbox) == [chatId |-> chatId, userId |-> userId, outbox |-> outbox]

\* Who sent a message: fromId, the channel of a post, or the other side of a private chat whose
\* message came in.  A short message says so by its type.
SenderId(u) ==
    CASE u.type \in {"short", "shortChat"} /\ u.out -> Self
      [] u.type = "short"                           -> u.chat
      [] u.user # None                              -> u.user
      [] u.user = None /\ (u.chat = -1001 \/ (~u.out /\ u.chat > 0)) -> u.chat
      [] OTHER                                      -> None

MessageEvent(u) == Event(u.chat, SenderId(u), FALSE)
DeletedEvent(u) == Event(u.chat, None, FALSE)
ReadEvent(u)    == Event(u.chat, None, u.type = "read" /\ u.out)
ActionEvent(u)  == Event(u.chat, None, FALSE)
UserEvent(u)    == Event(u.chat, u.user, FALSE)
QueryEvent(u)   == Event(None, u.user, FALSE)

\* The id of an inline message is read as eight bytes with the peer in its upper half, negative for
\* a channel.  That of an InputBotInlineMessageID64 is the four bytes of the message alone: the peer
\* it is read as is the user 0.
CallbackEvent(u) ==
    LET high == CASE u.type = "inlineCallback64" -> 0
                  [] u.chat < -1000 -> u.chat + 1000
                  [] OTHER -> u.chat IN
    Event(CASE u.type = "callback" -> u.chat [] high < 0 -> -(1000 - high) [] OTHER -> high,
          u.user, FALSE)

Build(u) ==
    CASE u.type \in MessageTypes \cup EditedTypes -> MessageEvent(u)
      [] u.type \in DeletedTypes  -> DeletedEvent(u)
      [] u.type \in ReadTypes     -> ReadEvent(u)
      [] u.type \in ActionTypes   -> ActionEvent(u)
      [] u.type \in UserTypes     -> UserEvent(u)
      [] u.type \in CallbackTypes -> CallbackEvent(u)
      [] u.type \in QueryTypes    -> QueryEvent(u)

-----------------------------------------------------------------------------
\* filter() of the builders.
Includes(list, id) == Number(id) \in list.likes

ChatFits(event) ==
    \/ ~builder.chats.set
    \/ /\ event.chatId # None
       /\ Includes(builder.chats, event.chatId) # given.blacklist

ReadFits(event) ==
    /\ given.inbox # "unset" => (given.inbox = "yes") = ~event.outbox
    /\ event.chatId # None => ChatFits(event)

UserFits(event) == ~builder.chats.set \/ Includes(builder.chats, event.userId) # given.blacklist

QueryFits(event) == ~builder.chats.set \/ Includes(builder.chats, event.userId) # given.blacklist

CallbackFits(u, event) ==
    \/ ~builder.chats.set
    \/ Includes(builder.chats, Instance(u.chat)) \/ Includes(builder.chats, event.chatId)

\* Mutant: a message without a known sender passes fromUsers.
SenderFitsAny(u, event) ==
    builder.users.set => event.userId = None \/ Includes(builder.users, event.userId)

SenderFits(u, event) ==
    builder.users.set => event.userId # None /\ Includes(builder.users, event.userId)

MessageFits(u, event) ==
    LET wants == Directions(given.incoming, given.outgoing) IN
    /\ ~(wants.in = "yes" /\ u.out) /\ ~(wants.out = "yes" /\ ~u.out)
    /\ given.forwards # "unset" => (given.forwards = "yes") = u.forward
    /\ SenderFits(u, event) /\ ChatFits(event)

Filter(u, event) ==
    CASE given.kind \in {"NewMessage", "EditedMessage"} -> MessageFits(u, event)
      [] given.kind = "MessageRead"   -> ReadFits(event)
      [] given.kind = "UserUpdate"    -> UserFits(event)
      [] given.kind = "InlineQuery"   -> QueryFits(event)
      [] given.kind = "CallbackQuery" -> CallbackFits(u, event)
      [] OTHER                        -> ChatFits(event)

-----------------------------------------------------------------------------
Idle == [at |-> "idle", likes |-> {}]

Init ==
    /\ given \in Givens
    /\ builder = [chats |-> given.chats, users |-> given.users, resolved |-> FALSE]
    /\ run = [r \in Runs |-> Idle]
    /\ outcome = [of |-> Update("none", None, None, FALSE, FALSE), heard |-> FALSE, skipped |-> TRUE]

\* _dispatchUpdate of an update the builder makes an event of.
Dispatch(r) ==
    /\ run[r].at = "idle" /\ ~builder.resolved
    /\ run' = [run EXCEPT ![r] = [at |-> "chats", likes |-> builder.chats.likes]]
    /\ UNCHANGED <<given, builder, outcome>>

\* _intoIdSet(chats) is there; NewMessage goes on with fromUsers, as they are now.
ChatsResolved(r) ==
    LET done == given.kind \notin {"NewMessage", "EditedMessage"} IN
    /\ run[r].at = "chats" /\ PeerObject \notin run[r].likes
    /\ builder' = [builder EXCEPT !.chats.likes = IntoIdSet(run[r].likes),
                                  !.resolved = @ \/ done]
    /\ run' = [run EXCEPT ![r] = IF done THEN [at |-> "filter", likes |-> {}]
                                 ELSE [at |-> "users", likes |-> builder.users.likes]]
    /\ UNCHANGED <<given, outcome>>

UsersResolved(r) ==
    /\ run[r].at = "users"
    /\ builder' = [builder EXCEPT !.users.likes = IntoIdSet(run[r].likes), !.resolved = TRUE]
    /\ run' = [run EXCEPT ![r] = [at |-> "filter", likes |-> {}]]
    /\ UNCHANGED <<given, outcome>>

\* A name that is not found, or whose request fails: this handler does not hear of this update.
ResolveFails(r) ==
    /\ run[r].at \in {"chats", "users"} /\ \E like \in run[r].likes : like.is # "number"
    /\ run' = [run EXCEPT ![r] = Idle]
    /\ outcome' = [outcome EXCEPT !.skipped = TRUE]
    /\ UNCHANGED <<given, builder>>

\* The rest of the dispatch, at once for a builder that is resolved.  It changes nothing that a later
\* one reads: one update that was looked at ends the behavior of the handler (outcome.skipped).
Handle(r) ==
    /\ outcome.skipped
    /\ run[r].at = "filter" \/ (run[r].at = "idle" /\ builder.resolved)
    /\ run' = [run EXCEPT ![r] = Idle]
    /\ \E u \in Updates :
          /\ u.type \in TypesOf(given.kind)
          /\ outcome' = [of |-> u, heard |-> Filter(u, Build(u)), skipped |-> FALSE]
    /\ UNCHANGED <<given, builder>>

Next ==
    \E r \in Runs :
       Dispatch(r) \/ ChatsResolved(r) \/ UsersResolved(r) \/ ResolveFails(r) \/ Handle(r)

Spec == Init /\ [][Next]_vars

-----------------------------------------------------------------------------
\* Who is meant by what was passed: positive numbers mean users, chats and channels.
Meant(list) ==
    {m \in Marks : \E like \in list.likes :
        \/ m = like.n
        \/ like.is = "number" /\ like.n > 0 /\ m \in {-like.n, -(1000 + like.n)}}

FromOthers(u) == ~u.out

\* The chat of a button is asked for by its chat_instance, and by its id unless the message was
\* sent by way of the bot, when ids are not promised to work (CallbackQuery.ts:26-29).
CallbackPlace(u) ==
    \/ ~given.chats.set
    \/ Number(Instance(u.chat)) \in given.chats.likes
    \/ u.type = "callback" /\ u.chat \in Meant(given.chats)

\* Though not promised, an id of the older form says its chat.
ChatOfOldId(u) == u.type = "inlineCallback" /\ u.chat \in Meant(given.chats)

\* A handler hears of the updates in its chats, or outside of them if they are a blacklist, also
\* when several dispatches resolve its builder at once; one of messages hears of those that come
\* in or go out, of forwards and of the senders it asked for.  An update that tells no chat is not
\* heard of by the handlers of some chats, a blacklist of deleted messages included, but for the
\* contents that were read, which all of them hear of (common.ts:132-153, MessageRead.ts:93); one
\* of a button is heard of also in the case ChatOfOldId names.
OnlyAskedFor ==
    (~outcome.skipped) =>
        LET u     == outcome.of
            about == IF given.kind \in ByUsers THEN u.user ELSE u.chat
            place == IF given.kind = "CallbackQuery" THEN CallbackPlace(u) \/ ChatOfOldId(u)
                     ELSE \/ ~given.chats.set
                          \/ /\ about = None
                             /\ IF given.kind = "UserUpdate" THEN given.blacklist
                                ELSE given.kind = "MessageRead"
                          \/ /\ about # None
                             /\ (about \in Meant(given.chats)) # given.blacklist
            sender == IF u.type \in {"short", "shortChat"} /\ u.out THEN Self
                      ELSE IF u.user # None THEN u.user
                      ELSE IF u.chat = -1001 \/ (FromOthers(u) /\ u.chat > 0) THEN u.chat ELSE None
            both  == given.incoming = "yes" /\ given.outgoing = "yes"
            asked == /\ (~both /\ given.incoming # "unset") => (given.incoming = "yes") = FromOthers(u)
                     /\ (~both /\ given.outgoing # "unset") => (given.outgoing = "yes") = u.out
                     /\ given.forwards # "unset" => (given.forwards = "yes") = u.forward
                     /\ given.users.set => sender \in Meant(given.users)
                     /\ given.inbox # "unset" => (given.inbox = "yes") # (u.type = "read" /\ u.out)
        IN outcome.heard <=> place /\ asked

\* A resolved list means what was passed.  One of messages is resolved anew after fromUsers failed,
\* or beside another dispatch that waits for them: then the number that was found for a name counts
\* as passed, and means the chat and the channel of that number too (common.ts:25-56).
ResolvedMeansTheSame ==
    builder.resolved =>
       \A list \in {<<given.chats, builder.chats>>, <<given.users, builder.users>>} :
          LET found  == {Number(like.n) : like \in list[1].likes}
              before == Meant(list[1])
              after  == {m \in Marks : Includes(list[2], m)}
          IN before \subseteq after
             /\ after \subseteq (IF given.kind \in {"NewMessage", "EditedMessage"}
                                THEN Meant([list[1] EXCEPT !.likes = found]) ELSE before)
=============================================================================
