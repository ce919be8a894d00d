-------------------------------- MODULE Envelope ------------------------------
(***************************************************************************)
(* How MTProtoState.ts seals what the send loop writes and opens what the  *)
(* receive loop reads, with a key that may be taken away and given anew in *)
(* between: siblings of a data center share the object.  TempAuthKey.ts    *)
(* seals the binding of a temporary key, inside, with the permanent one.   *)
(*                                                                         *)
(* A hash is what was hashed, and a text that was encrypted says by which  *)
(* key.  Registered ids are in ReceivedIds, the loops in MTProtoSender.    *)
(***************************************************************************)
EXTENDS Integers, Sequences, FiniteSets, SequencesExt, FiniteSetsExt

CONSTANTS
    AuthKeys,       \* that one gets after the other
    Permanent,      \* the key that seals bindings
    NoKey,
    DataLengths,    \* of what the packer writes, in bytes
    MaxTexts,       \* bound: requests, and messages of the server
    MaxFaults       \* bound: keys that are taken away, damaged and foreign answers

EnvelopeAssumption ==
    /\ NoKey \notin AuthKeys \cup {Permanent}
    /\ DataLengths \subseteq Nat /\ \A n \in DataLengths : n % 4 = 0
    /\ MaxTexts \in Nat /\ MaxFaults \in Nat

VARIABLES
    key, keyId,     \* of authKey, which are set one after the other
    authenticated,
    session,        \* id of the state, counted
    queue,          \* _sendQueue
    held,           \* what encryptMessageData() has read before its awaits: nothing or one
    making,         \* exchanges that began when there was no key, of this sender and its siblings
    open, running,  \* the connection, and the receive loop
    scheduled,      \* a _reconnect() is to come
    taken,          \* texts the packer gave whose promise is open: its _pendingStates
    pending,        \* _pendingState
    rejected,       \* texts whose promise was rejected
    wire, answers,  \* envelopes on the way
    got, given,     \* history: texts the server and the client opened
    known,          \* of the server: the keys it made
    said, faults,
    overtaken       \* history: texts being sealed when the key they are sealed with was no longer the one

vars == <<key, keyId, authenticated, session, queue, held, making, open, running, scheduled, taken,
          pending, rejected, wire, answers, got, given, known, said, faults, overtaken>>

-----------------------------------------------------------------------------
\* Padding: random bytes up to a block, at least 12 of them; what is sealed begins with 16 bytes of
\* salt and session.
\* Mutant: as many bytes as it takes, or none.
PaddingToBlock(length) == (16 - (length % 16)) % 16

Padding(length) == ((16 - ((length + 12) % 16)) % 16) + 12

\* Mutant: both sides have the same.
XOfClient(client) == 0

\* _calcKey(): which bytes of the key are hashed, by who sealed; and the bytes for msgKey.
X(client) == IF client THEN 0 ELSE 8

CalcKey(authKey, msgKey, client) == <<authKey, msgKey, X(client)>>

MsgKey(authKey, text, padding, client) == <<authKey, 88 + X(client), text, padding>>

\* An envelope under a key, with the id of one that may be another.
Sealed(authKey, id, at, text, client) ==
    LET padding == Padding(16 + text.length)
        msgKey  == MsgKey(authKey, text, padding, client)
    IN [id |-> id, session |-> at, msgKey |-> msgKey, aes |-> CalcKey(authKey, msgKey, client),
        text |-> text, padding |-> padding, bytes |-> 16 + text.length + padding]

\* What decryption gives: the right text only with the right key.
Opens(envelope, authKey, client) ==
    /\ envelope.aes = CalcKey(authKey, envelope.msgKey, client)
    /\ envelope.msgKey = MsgKey(authKey, envelope.text, envelope.padding, client)

\* buildBindTempAuthKeyRequest(): msgKey is that of version 1, of the payload without its padding.
PayloadLength == 24 + 8 + 40

BindMessage(tempId) ==
    [id |-> Permanent, msgKey |-> <<tempId, session, PayloadLength>>,
     aes |-> <<Permanent, <<tempId, session, PayloadLength>>, "V1">>,
     temp |-> tempId, session |-> session, bytes |-> PayloadLength + ((16 - (PayloadLength % 16)) % 16)]

BindOpens(bind, envelope) ==
    /\ bind.aes = <<bind.id, bind.msgKey, "V1">>
    /\ bind.msgKey = <<bind.temp, bind.session, PayloadLength>>
    /\ bind.bytes % 16 = 0
    /\ bind.temp = envelope.id /\ bind.session = envelope.session

-----------------------------------------------------------------------------
Init ==
    /\ key = NoKey /\ keyId = NoKey /\ authenticated = TRUE /\ session = 1
    /\ queue = <<>> /\ held = <<>> /\ open = FALSE /\ running = FALSE /\ scheduled = TRUE
    /\ taken = {} /\ pending = {} /\ rejected = {} /\ wire = <<>> /\ answers = <<>>
    /\ got = {} /\ given = {} /\ known = {} /\ said = 0 /\ faults = 0
    /\ making = 0 /\ overtaken = {}

keys == <<key, keyId, known, making>>
link == <<open, running, scheduled, authenticated, session>>
asks == <<queue, taken, pending, rejected>>
ways == <<wire, answers, got, given, said>>
bounds == <<faults, overtaken>>

\* setKey() awaits the hash that gives the id: the id is that of the key before, or none.
Hashing == key # NoKey /\ keyId # key

\* The key becomes another one while a text is sealed with this one.
Overtake == overtaken' = overtaken \cup {held[i].text : i \in {j \in DOMAIN held : held[j].authKey # key'}}

\* A sender that finds no key begins an exchange; another may have begun one already.
BeginExchange ==
    /\ key = NoKey /\ making < Cardinality(AuthKeys \ known)
    /\ making' = making + 1
    /\ UNCHANGED <<key, keyId, known, link, asks, held, ways, bounds>>

\* setKey() of its bytes, also over the key that another exchange has set: the id follows when
\* the hash is there.
SetKey ==
    /\ making > 0 /\ ~Hashing
    /\ making' = making - 1
    /\ key' = Min(AuthKeys \ known) /\ known' = known \cup {key'}
    /\ Overtake
    /\ UNCHANGED <<keyId, link, asks, held, ways, faults>>

SetKeyId ==
    /\ Hashing
    /\ keyId' = key
    /\ held' = [i \in DOMAIN held |-> [held[i] EXCEPT !.behind = FALSE]]
    /\ UNCHANGED <<key, known, making, link, asks, ways, bounds>>

\* setKey(undefined) by resetMediaTempKey(), when a sibling's key broke.
Reset ==
    /\ key # NoKey /\ ~Hashing /\ faults < MaxFaults
    /\ key' = NoKey /\ keyId' = NoKey /\ faults' = faults + 1
    /\ Overtake
    /\ UNCHANGED <<known, making, link, asks, held, ways>>

\* connect() with a key, the end of _reconnect(): what is pending is sent again.
Connect ==
    /\ scheduled /\ ~open /\ key # NoKey
    /\ open' = TRUE /\ running' = TRUE /\ scheduled' = FALSE /\ authenticated' = TRUE
    /\ queue' = SetToSortSeq(pending, LAMBDA a, b : a.n < b.n)
    /\ pending' = {}
    /\ wire' = <<>> /\ answers' = <<>>
    /\ UNCHANGED <<keys, session, taken, rejected, held, got, given, said, bounds>>

\* A request, or one that binds the temporary key, made with the session there is and of a length of
\* its own.
Texts == got \cup taken \cup rejected \cup ToSet(queue)
Unused == {n \in 1 .. MaxTexts : \A t \in Texts : t.n # n}

Ask ==
    /\ open /\ Unused # {}
    /\ \E length \in DataLengths, binds \in BOOLEAN :
          /\ binds => keyId # NoKey /\ length = Max(DataLengths)
          /\ queue' = Append(queue, [n |-> Min(Unused), length |-> length,
                                     binds |-> IF binds THEN <<BindMessage(keyId)>> ELSE <<>>])
    /\ UNCHANGED <<keys, link, taken, pending, rejected, held, ways, bounds>>

\* The send loop takes a text; encryptMessageData() waits for the id of a key and reads the key, which
\* may be a new one already.
BeginSeal ==
    /\ open /\ ~scheduled /\ queue # <<>> /\ held = <<>> /\ keyId # NoKey
    /\ held' = <<[authKey |-> key, session |-> session, text |-> Head(queue), behind |-> Hashing]>>
    /\ queue' = Tail(queue) /\ taken' = taken \cup {Head(queue)}
    /\ UNCHANGED <<keys, link, pending, rejected, ways, bounds>>

\* The hash a setKey() awaits was asked for before those of a text that has read its key.
\* Mutant: it may be later.
InAnyOrder(sealing) == TRUE

IdIsThere(sealing) == ~sealing.behind

\* Its id is read after the hashes, and is zero if it was taken away; the text is pending also when
\* the connection is gone by then.
EndSeal ==
    /\ held # <<>> /\ IdIsThere(held[1]) /\ held' = <<>>
    /\ pending' = pending \cup {held[1].text}
    /\ IF open THEN wire' = Append(wire, Sealed(held[1].authKey, keyId, held[1].session, held[1].text, TRUE))
               ELSE UNCHANGED wire
    /\ scheduled' = (scheduled \/ ~open)
    /\ UNCHANGED <<keys, open, running, authenticated, session, queue, taken, rejected,
                   answers, got, given, said, bounds>>

-----------------------------------------------------------------------------
\* The server opens what is under a key it made, and drops the rest.
ServerOpens ==
    /\ wire # <<>> /\ wire' = Tail(wire)
    /\ LET envelope == Head(wire) IN
       got' = IF envelope.id \in known /\ Opens(envelope, envelope.id, TRUE) /\ envelope.bytes % 16 = 0
                 /\ envelope.padding \in 12 .. 1024
                 /\ \A bind \in ToSet(envelope.text.binds) : BindOpens(bind, envelope)
              THEN got \cup {envelope.text} ELSE got
    /\ UNCHANGED <<keys, link, asks, held, answers, given, said, bounds>>

Said == [n |-> said + 1, length |-> 16, binds |-> <<>>]
Answer(is, envelope) == [is |-> is, envelope |-> envelope]
NoEnvelope == [id |-> NoKey]

\* A message under a key; or, as a fault, one that was damaged, is under a key the client has not, is
\* the client's own, is not of whole blocks, or an error of the transport in place of one.
ServerSays ==
    /\ open /\ key \in known /\ said < MaxTexts
    /\ answers' = Append(answers, Answer("sealed", Sealed(key, key, session, Said, FALSE)))
    /\ said' = said + 1
    /\ UNCHANGED <<keys, link, asks, held, wire, got, given, bounds>>

ServerFails ==
    /\ open /\ faults < MaxFaults /\ faults' = faults + 1
    /\ \E answer \in
            {Answer("404", NoEnvelope), Answer("429", NoEnvelope), Answer("short", NoEnvelope)}
            \cup {Answer("uneven", Sealed(made, made, session, Said, FALSE)) : made \in known}
            \cup {Answer("sealed", [Sealed(made, made, session, Said, FALSE) EXCEPT !.text.length = 20]) : made \in known}
            \cup {Answer("sealed", Sealed(made, made, session, Said, FALSE)) : made \in known \ {key}}
            \cup {Answer("sealed", envelope) : envelope \in ToSet(wire)} :
          answers' = Append(answers, answer)
    /\ UNCHANGED <<keys, link, asks, held, wire, got, given, said, overtaken>>

-----------------------------------------------------------------------------
\* What decryptMessageData() makes of an answer, in its order.
Outcome(answer) ==
    CASE answer.is \in {"404", "429", "short"}         -> answer.is
      [] keyId = NoKey \/ answer.envelope.id # keyId   -> "bad key"
      [] answer.is = "uneven"                          -> "uneven"
      [] ~Opens(answer.envelope, key, FALSE)           -> "ignored"
      [] OTHER                                         -> "message"

\* What is pending is rejected; _handleBadAuthKey() does not reconnect then.
RejectPending == rejected' = rejected \cup pending /\ taken' = taken \ pending /\ pending' = {}

HandleBadAuthKey ==
    /\ RejectPending
    /\ authenticated' = FALSE /\ running' = FALSE /\ UNCHANGED scheduled

\* Errors of the transport reject what is pending, those of decryption only clear it: the packer has
\* it still.  Then a reconnection.
HandleError(outcome) ==
    /\ IF outcome = "uneven" THEN pending' = {} /\ UNCHANGED <<taken, rejected>> ELSE RejectPending
    /\ running' = FALSE /\ scheduled' = TRUE
    /\ UNCHANGED authenticated

Receive ==
    /\ open /\ running /\ answers # <<>>
    /\ answers' = Tail(answers)
    /\ LET answer == Head(answers)
           outcome == Outcome(answer)
       IN /\ given' = IF outcome = "message" THEN given \cup {answer.envelope} ELSE given
          /\ CASE outcome \in {"404", "bad key"}          -> HandleBadAuthKey
               [] outcome \in {"429", "short", "uneven"}  -> HandleError(outcome)
               [] OTHER -> UNCHANGED <<taken, rejected, pending, running, scheduled, authenticated>>
    /\ UNCHANGED <<keys, open, session, queue, held, wire, got, said, bounds>>

\* The connection is lost while the loop reads, or a ping fails: a reconnection, too.
Lost ==
    /\ open /\ ~scheduled /\ faults < MaxFaults /\ faults' = faults + 1
    /\ running' = FALSE /\ scheduled' = TRUE
    /\ UNCHANGED <<keys, open, authenticated, session, asks, held, ways, overtaken>>

\* _reconnect(): the old connection is closed, a key that broke is dropped, the state is reset; what
\* the packer gave is pending again, and what it had not given is dropped.
Reconnect ==
    /\ scheduled /\ open /\ ~running /\ ~Hashing
    /\ open' = FALSE /\ session' = session + 1
    /\ pending' = taken /\ queue' = <<>>
    /\ IF authenticated THEN UNCHANGED <<key, keyId>> ELSE key' = NoKey /\ keyId' = NoKey
    /\ Overtake
    /\ UNCHANGED <<known, making, running, scheduled, authenticated, taken, rejected, held, ways, faults>>

Next ==
    \/ BeginExchange \/ SetKey \/ SetKeyId \/ Reset \/ Connect \/ Ask \/ BeginSeal \/ EndSeal
    \/ ServerOpens \/ ServerSays \/ ServerFails \/ Receive \/ Lost \/ Reconnect

Spec == Init /\ [][Next]_vars

-----------------------------------------------------------------------------
\* An envelope bears the id of the key it was sealed with: a key that is set anew, over another one
\* or after a reset, is never met with the id of the one before.  The exception is a text whose key was
\* replaced or taken away between the reads of the key and of its id (MTProtoState.ts:160,184): it
\* goes out with the id of a key it is not sealed with, or none.  An envelope is of whole blocks with 12
\* to 27 bytes of padding; the binding in it opens with the permanent key, and is of the key and
\* session it is sent under unless those are later ones (MTProtoState.ts:154-190, TempAuthKey.ts).
SealedFits ==
    \A e \in ToSet(wire) :
        /\ e.id = e.msgKey[1] \/ e.text \in overtaken
        /\ e.bytes % 16 = 0 /\ e.padding \in 12 .. 27
        /\ \A bind \in ToSet(e.text.binds) : BindOpens(bind, e) \/ bind.temp # e.id \/ bind.session # e.session

\* Only what the server sealed for the client is given, nothing that was damaged and none of the
\* client's own (MTProtoState.ts:196-252).
OnlySealedIsGiven == \A e \in given : e.text = [n |-> e.text.n, length |-> 16, binds |-> <<>>] /\ e.id \in known
=============================================================================
