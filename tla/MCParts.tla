------------------------------ MODULE MCParts ------------------------------
(***************************************************************************)
(* The components that answer at once side by side, for TLC: a behavior is *)
(* about one of them, its subject, which the initial state chooses and no  *)
(* step changes, so that a property about a component is one about the     *)
(* behaviors of its subject.  The components share v1, v2, ..., and what   *)
(* one does not need is 0: the INSTANCE of a component says what they      *)
(* stand for.  The stored sessions, the ids of received messages, the      *)
(* cache of peers, the packer and the entities keep their own variables,   *)
(* which rest when the subject is another, and their bounds are in the     *)
(* configuration.                                                          *)
(***************************************************************************)
EXTENDS Sessions, ReceivedIds, EntityCache, MessagePacker, Entities,
        FiniteSets, TLC

VARIABLES
    subject,                \* the component this behavior is about
    v1, v2, v3, v4, v5, v6, v7, v8, v9, v10, v11, v12, v13, v14, v15, v16, v17, v18, v19, v20, v21

ownVars == <<vars, idsVars, cacheVars, packerVars, entitiesVars>>
sharedVars ==
    <<v1, v2, v3, v4, v5, v6, v7, v8, v9, v10, v11, v12, v13, v14, v15, v16, v17, v18, v19, v20, v21>>
partsVars == <<subject, ownVars, sharedVars>>

-----------------------------------------------------------------------------
\* The instances.

\* The messages of a chat.
Messages == INSTANCE MessagesIter WITH
    Unlimited <- 9, ChunkSize <- 2, FirstMessages <- 4, MaxMessages <- 5, MaxDeleted <- 1,
    Limits <- {0, 1, 3}, Bounds <- {0, 1, 3, 4},
    chat <- v1, top <- v2, params <- v3, it <- v4, request <- v5, lastId <- v6, maxId <- v7,
    minId <- v8, given <- v9, stayed <- v10

\* The dialogs of the account.
Dialog == INSTANCE DialogsIter WITH
    Unlimited <- 9, ChunkSize <- 2, Dialogs <- {"d1", "d2", "d3", "d4"}, Pinned <- {"d1"},
    DialogLimits <- {0, 3}, MaxDate <- 5, MaxMoves <- 3,
    date <- v1, limit <- v2, it <- v3, offsetDate <- v4, excludePinned <- v5, seen <- v6,
    given <- v7, moved <- v8

\* Messages on their way to one handler of albums and one of messages.
Event == INSTANCE EventDispatch WITH
    Handlers <- <<"album", "message">>, AlbumHandlers <- {"album"}, Together <- {},
    Grouped <- {1, 2}, RecentSize <- 2, MaxMessages <- 3, MaxRepeats <- 1, MaxFaults <- 1,
    None <- "none",
    builders <- v1, resolved <- v2, self <- v3, recent <- v4, came <- v5, runs <- v6,
    album <- v7, calls <- v8, lost <- v9, repeats <- v10, faults <- v11

\* The three requests that make a key.
Agreed == INSTANCE KeyExchange WITH
    Prime <- 7, Generator <- 3, Exponents <- {1, 2, 5}, Base <- 3, KnownKeys <- {"k1", "k2"},
    ServerKeys <- {"k1", "k3"}, MaxAttempts <- 2, MaxFaults <- 1,
    client <- v1, session <- v2, requests <- v3, answers <- v4, cause <- v5, faults <- v6

\* Values that are written and read.
Codec == INSTANCE Codecs WITH
    Lengths <- {0, 1, 2, 3, 253, 254, 255, 256, 257, 65535, 65536, 65537},
    Levels <- {0, 1, 16, 31}, MaxLevels <- 5,
    Ids <- {1, 9, 10, 99, 100, 123, 1000, 1001, 100123},
    Zeros <- {{}, {1, 2}, {8}, {1, 8}, {3, 4, 5, 6, 7, 8}},
    Ports <- {80, 443, 32767, 32768, 65535}, Addresses <- {7, 15, 39},
    kind <- v1, value <- v2, wire <- v3, result <- v4, stage <- v5

\* Objects of TL.
Tl == INSTANCE TlObjects WITH
    MaxMessages <- 2,
    lost <- v1, outcome <- v2, count <- v3

\* Messages that are sent, forwarded, edited and pinned.
Send == INSTANCE Sending WITH
    Chats <- {"a", "b"}, Peers <- {"user", "channel"}, RequestRetries <- 2, MaxMessages <- 3,
    MaxFaults <- 2,
    call <- v1, left <- v2, request <- v3, attempt <- v4, drawn <- v5, wire <- v6,
    updates <- v7, posted <- v8, withheld <- v9, sent <- v10, stage <- v11, faults <- v12

\* Texts with entities.
Text == INSTANCE TextEntities WITH
    Symbols <- {"x", " ", "\n"}, Types <- {"bold", "italic"}, MaxText <- 3, MaxSplit <- 5,
    Limit <- 3,
    kind <- v1, text <- v2, entities <- v3, result <- v4, stage <- v5

\* What a handler asks for, with two dispatches at once.
Asked == INSTANCE EventFilters WITH
    Runs <- {1, 2},
    given <- v1, builder <- v2, run <- v3, outcome <- v4

\* Packets, acknowledgements and errors in the stream of bytes.
Packets == INSTANCE PacketCodecs WITH
    Extended <- 3, MaxWords <- 4, MaxItems <- 2,
    codec <- v1, counter <- v2, up <- v3, down <- v4, asked <- v5, told <- v6, heard <- v7,
    given <- v8, error <- v9

\* Obfuscated connections, some through a proxy or with a secret.
Proxy == INSTANCE Proxies WITH
    Lengths <- {1, 2, 3, 4, 6}, SecretLength <- 2, RecordMax <- 2, HelloRoom <- 2,
    PacketLength <- 3, MaxPackets <- 2, MaxAttempts <- 2,
    secret <- v1, server <- v2, socket <- v3, at <- v4, attempts <- v5, header <- v6,
    wire <- v7, answers <- v8, readBuf <- v9, written <- v10, read <- v11, served <- v12,
    sent <- v13, given <- v14

\* Blocks that are encrypted and decrypted.
Block == INSTANCE Aes WITH
    KeySeeds <- {<<1, 0>>, <<37, 5>>}, BlockSeeds <- {<<17, 0>>},
    key <- v1, block <- v2, tables <- v3, ek <- v4, dk <- v5, s <- v6, round <- v7, out <- v8

\* Texts of blocks, and numbers that are factorized.
Cipher == INSTANCE Ciphers WITH
    Bits <- {1, 2}, MaxBlocks <- 3, Numbers <- {6, 15, 21},
    kind <- v1, plain <- v2, rest <- v3, key <- v4, iv <- v5, cipher <- v6, result <- v7,
    pq <- v8, y <- v9, c <- v10, m <- v11, g <- v12, r <- v13, q <- v14, x <- v15, ys <- v16,
    k <- v17, i <- v18, at <- v19

\* Messages that are sealed and opened while the key changes.
Sealing == INSTANCE Envelope WITH
    AuthKeys <- {1, 2}, Permanent <- 9, NoKey <- 0, DataLengths <- {20, 48}, MaxTexts <- 1,
    MaxFaults <- 2,
    key <- v1, keyId <- v2, authenticated <- v3, session <- v4, queue <- v5, held <- v6,
    open <- v7, running <- v8, scheduled <- v9, taken <- v10, pending <- v11, rejected <- v12,
    wire <- v13, answers <- v14, got <- v15, given <- v16, known <- v17, said <- v18,
    faults <- v19, overtaken <- v20, making <- v21

\* Two callers that sign in with a password or change it.
TwoStep == INSTANCE Passwords WITH
    Prime <- 23, Generator <- 5, Words <- {1, 2}, Randoms <- {3}, MinBits <- 2,
    Callers <- {1, 2}, MaxCodes <- 1, None <- 0,
    account <- v1, settings <- v2, algos <- v3, epoch <- v4, pc <- v5, param <- v6, pwd <- v7,
    password <- v8, digest <- v9, error <- v10, codes <- v11

\* The buttons of a message and a poll.
Pressed == INSTANCE Keyboards WITH
    Texts <- {"a", "b"}, MaxRow <- 2, MaxRows <- 2, MaxFaults <- 1, None <- "none",
    given <- v1, message <- v2, cache <- v3, inputChat <- v4, inputSender <- v5, buttons <- v6,
    pc <- v7, wanted <- v8, sent <- v9, faults <- v10

\* Files that are sent, alone and as an album.
Upload == INSTANCE Uploads WITH

    Files <- {[from |-> "path", type |-> "photo"], [from |-> "path", type |-> "video"], [from |-> "folder", type |-> "text"], [from |-> "buffer", type |-> "text"], [from |-> "url", type |-> "photo"], [from |-> "custom", type |-> "audio"], [from |-> "handle", type |-> "photo"], [from |-> "message", type |-> "nothing"], [from |-> "media", type |-> "photo"], [from |-> "media", type |-> "geo"]},
    MaxFiles <- 2, Threads <- {<<>>, <<3, 2>>},
    Extras <- {{}, {"attributes", "thumb", "videoNote"}},
    call <- v1, entity <- v2, replyTo <- v3, captions <- v4, i <- v5, handle <- v6,
    thumb <- v7, media <- v8, albumFiles <- v9, pc <- v10, posted <- v11

\* The members of a chat, who come and leave.
Member == INSTANCE Members WITH
    Unlimited <- 9, ChunkSize <- 2, Users <- 1 .. 5, Sizes <- {3, 4}, Matching <- {1, 4},
    MemberLimits <- {0, 3}, Offsets <- {0, 1}, MaxMoves <- 2,
    members <- v1, banned <- v2, call <- v3, it <- v4, phase <- v5, request <- v6, given <- v7,
    kick <- v8, came <- v9, gone <- v10

\* What happens in a chat and is told.
Told == INSTANCE ChatActions WITH
    Users <- {"a", "b", "c"}, MaxHappened <- 3,
    members <- v1, happened <- v2, event <- v3, count <- v4

ASSUME PartsAssumption ==
    /\ Messages!MessagesIterAssumption
    /\ Dialog!DialogsIterAssumption
    /\ Event!EventDispatchAssumption
    /\ Agreed!KeyExchangeAssumption
    /\ Codec!CodecsAssumption
    /\ Tl!TlObjectsAssumption
    /\ Send!SendingAssumption
    /\ Text!TextAssumption
    /\ Packets!PacketCodecsAssumption
    /\ Proxy!ProxiesAssumption
    /\ Block!AesAssumption
    /\ Cipher!CiphersAssumption
    /\ Sealing!EnvelopeAssumption
    /\ TwoStep!PasswordsAssumption
    /\ Pressed!KeyboardsAssumption
    /\ Upload!UploadsAssumption
    /\ Member!MembersAssumption
    /\ Told!ChatActionsAssumption

-----------------------------------------------------------------------------
\* A behavior of one component.

MessagesInit ==
    /\ subject = "messages" /\ Messages!Init
    /\ v11 = 0 /\ v12 = 0 /\ v13 = 0 /\ v14 = 0 /\ v15 = 0 /\ v16 = 0 /\ v17 = 0
    /\ v18 = 0 /\ v19 = 0 /\ v20 = 0 /\ v21 = 0

InMessages(A) ==
    /\ subject = "messages" /\ A
    /\ UNCHANGED <<subject, ownVars, v11, v12, v13, v14, v15, v16, v17, v18, v19, v20, v21>>

DialogInit ==
    /\ subject = "dialogs" /\ Dialog!Init
    /\ v9 = 0 /\ v10 = 0 /\ v11 = 0 /\ v12 = 0 /\ v13 = 0 /\ v14 = 0 /\ v15 = 0
    /\ v16 = 0 /\ v17 = 0 /\ v18 = 0 /\ v19 = 0 /\ v20 = 0 /\ v21 = 0

InDialog(A) ==
    /\ subject = "dialogs" /\ A
    /\ UNCHANGED <<subject, ownVars, v9, v10, v11, v12, v13, v14, v15, v16, v17, v18, v19, v20, v21>>

EventInit ==
    /\ subject = "events" /\ Event!Init
    /\ v12 = 0 /\ v13 = 0 /\ v14 = 0 /\ v15 = 0 /\ v16 = 0 /\ v17 = 0 /\ v18 = 0
    /\ v19 = 0 /\ v20 = 0 /\ v21 = 0

InEvent(A) ==
    /\ subject = "events" /\ A
    /\ UNCHANGED <<subject, ownVars, v12, v13, v14, v15, v16, v17, v18, v19, v20, v21>>

AgreedInit ==
    /\ subject = "keys" /\ Agreed!Init
    /\ v7 = 0 /\ v8 = 0 /\ v9 = 0 /\ v10 = 0 /\ v11 = 0 /\ v12 = 0 /\ v13 = 0
    /\ v14 = 0 /\ v15 = 0 /\ v16 = 0 /\ v17 = 0 /\ v18 = 0 /\ v19 = 0 /\ v20 = 0 /\ v21 = 0

InAgreed(A) ==
    /\ subject = "keys" /\ A
    /\ UNCHANGED <<subject, ownVars, v7, v8, v9, v10, v11, v12, v13, v14, v15, v16, v17, v18, v19, v20, v21>>

\* The components that keep their own variables.
OwnInit ==
    /\ subject \in {"stored", "received", "cache", "packer", "entities"}
    /\ v1 = 0 /\ v2 = 0 /\ v3 = 0 /\ v4 = 0 /\ v5 = 0 /\ v6 = 0 /\ v7 = 0
    /\ v8 = 0 /\ v9 = 0 /\ v10 = 0 /\ v11 = 0 /\ v12 = 0 /\ v13 = 0 /\ v14 = 0
    /\ v15 = 0 /\ v16 = 0 /\ v17 = 0 /\ v18 = 0 /\ v19 = 0 /\ v20 = 0 /\ v21 = 0

InStored(A) ==
    /\ subject = "stored" /\ A
    /\ UNCHANGED <<subject, idsVars, cacheVars, packerVars, entitiesVars, sharedVars>>

InReceived(A) ==
    /\ subject = "received" /\ A
    /\ UNCHANGED <<subject, vars, cacheVars, packerVars, entitiesVars, sharedVars>>

InCache(A) ==
    /\ subject = "cache" /\ A
    /\ UNCHANGED <<subject, vars, idsVars, packerVars, entitiesVars, sharedVars>>

\* Three requests that are answered in order; two and an acknowledgement; or one in a session whose
\* temporary key is bound, with an id that was taken before.
PackedSessions == {{1, 2, 3}, {1, 2, 4}, {1, 5}}

InPacker(A) ==
    /\ subject = "packer" /\ A
    /\ UNCHANGED <<subject, vars, idsVars, cacheVars, entitiesVars, sharedVars>>

InEntities(A) ==
    /\ subject = "entities" /\ A
    /\ UNCHANGED <<subject, vars, idsVars, cacheVars, packerVars, sharedVars>>

CodecInit ==
    /\ subject = "codecs" /\ Codec!Init
    /\ v6 = 0 /\ v7 = 0 /\ v8 = 0 /\ v9 = 0 /\ v10 = 0 /\ v11 = 0 /\ v12 = 0
    /\ v13 = 0 /\ v14 = 0 /\ v15 = 0 /\ v16 = 0 /\ v17 = 0 /\ v18 = 0 /\ v19 = 0
    /\ v20 = 0 /\ v21 = 0

InCodec(A) ==
    /\ subject = "codecs" /\ A
    /\ UNCHANGED <<subject, ownVars, v6, v7, v8, v9, v10, v11, v12, v13, v14, v15, v16, v17, v18, v19, v20, v21>>

TlInit ==
    /\ subject = "objects" /\ Tl!Init
    /\ v4 = 0 /\ v5 = 0 /\ v6 = 0 /\ v7 = 0 /\ v8 = 0 /\ v9 = 0 /\ v10 = 0
    /\ v11 = 0 /\ v12 = 0 /\ v13 = 0 /\ v14 = 0 /\ v15 = 0 /\ v16 = 0 /\ v17 = 0
    /\ v18 = 0 /\ v19 = 0 /\ v20 = 0 /\ v21 = 0

InTl(A) ==
    /\ subject = "objects" /\ A
    /\ UNCHANGED <<subject, ownVars, v4, v5, v6, v7, v8, v9, v10, v11, v12, v13, v14, v15, v16, v17, v18, v19, v20, v21>>

SendInit ==
    /\ subject = "sending" /\ Send!Init
    /\ v13 = 0 /\ v14 = 0 /\ v15 = 0 /\ v16 = 0 /\ v17 = 0 /\ v18 = 0 /\ v19 = 0
    /\ v20 = 0 /\ v21 = 0

InSend(A) ==
    /\ subject = "sending" /\ A
    /\ UNCHANGED <<subject, ownVars, v13, v14, v15, v16, v17, v18, v19, v20, v21>>

TextInit ==
    /\ subject = "texts" /\ Text!Init
    /\ v6 = 0 /\ v7 = 0 /\ v8 = 0 /\ v9 = 0 /\ v10 = 0 /\ v11 = 0 /\ v12 = 0
    /\ v13 = 0 /\ v14 = 0 /\ v15 = 0 /\ v16 = 0 /\ v17 = 0 /\ v18 = 0 /\ v19 = 0
    /\ v20 = 0 /\ v21 = 0

InText(A) ==
    /\ subject = "texts" /\ A
    /\ UNCHANGED <<subject, ownVars, v6, v7, v8, v9, v10, v11, v12, v13, v14, v15, v16, v17, v18, v19, v20, v21>>

AskedInit ==
    /\ subject = "filters" /\ Asked!Init
    /\ v5 = 0 /\ v6 = 0 /\ v7 = 0 /\ v8 = 0 /\ v9 = 0 /\ v10 = 0 /\ v11 = 0
    /\ v12 = 0 /\ v13 = 0 /\ v14 = 0 /\ v15 = 0 /\ v16 = 0 /\ v17 = 0 /\ v18 = 0
    /\ v19 = 0 /\ v20 = 0 /\ v21 = 0

InAsked(A) ==
    /\ subject = "filters" /\ A
    /\ UNCHANGED <<subject, ownVars, v5, v6, v7, v8, v9, v10, v11, v12, v13, v14, v15, v16, v17, v18, v19, v20, v21>>

PacketsInit ==
    /\ subject = "packets" /\ Packets!Init
    /\ v10 = 0 /\ v11 = 0 /\ v12 = 0 /\ v13 = 0 /\ v14 = 0 /\ v15 = 0 /\ v16 = 0
    /\ v17 = 0 /\ v18 = 0 /\ v19 = 0 /\ v20 = 0 /\ v21 = 0

InPackets(A) ==
    /\ subject = "packets" /\ A
    /\ UNCHANGED <<subject, ownVars, v10, v11, v12, v13, v14, v15, v16, v17, v18, v19, v20, v21>>

ProxyInit ==
    /\ subject = "proxies" /\ Proxy!Init
    /\ v15 = 0 /\ v16 = 0 /\ v17 = 0 /\ v18 = 0 /\ v19 = 0 /\ v20 = 0 /\ v21 = 0

InProxy(A) == subject = "proxies" /\ A /\ UNCHANGED <<subject, ownVars, v15, v16, v17, v18, v19, v20, v21>>

BlockInit ==
    /\ subject = "aes" /\ Block!Init
    /\ v9 = 0 /\ v10 = 0 /\ v11 = 0 /\ v12 = 0 /\ v13 = 0 /\ v14 = 0 /\ v15 = 0
    /\ v16 = 0 /\ v17 = 0 /\ v18 = 0 /\ v19 = 0 /\ v20 = 0 /\ v21 = 0

InBlock(A) ==
    /\ subject = "aes" /\ A
    /\ UNCHANGED <<subject, ownVars, v9, v10, v11, v12, v13, v14, v15, v16, v17, v18, v19, v20, v21>>

CipherInit ==
    /\ subject = "ciphers" /\ Cipher!Init
    /\ v20 = 0 /\ v21 = 0

InCipher(A) == subject = "ciphers" /\ A /\ UNCHANGED <<subject, ownVars, v20, v21>>

SealingInit == subject = "envelopes" /\ Sealing!Init

InSealing(A) == subject = "envelopes" /\ A /\ UNCHANGED <<subject, ownVars>>

TwoStepInit ==
    /\ subject = "passwords" /\ TwoStep!Init
    /\ v12 = 0 /\ v13 = 0 /\ v14 = 0 /\ v15 = 0 /\ v16 = 0 /\ v17 = 0 /\ v18 = 0
    /\ v19 = 0 /\ v20 = 0 /\ v21 = 0

InTwoStep(A) ==
    /\ subject = "passwords" /\ A
    /\ UNCHANGED <<subject, ownVars, v12, v13, v14, v15, v16, v17, v18, v19, v20, v21>>

PressedInit ==
    /\ subject = "buttons" /\ Pressed!Init
    /\ v11 = 0 /\ v12 = 0 /\ v13 = 0 /\ v14 = 0 /\ v15 = 0 /\ v16 = 0 /\ v17 = 0
    /\ v18 = 0 /\ v19 = 0 /\ v20 = 0 /\ v21 = 0

InPressed(A) ==
    /\ subject = "buttons" /\ A
    /\ UNCHANGED <<subject, ownVars, v11, v12, v13, v14, v15, v16, v17, v18, v19, v20, v21>>

UploadInit ==
    /\ subject = "uploads" /\ Upload!Init
    /\ v12 = 0 /\ v13 = 0 /\ v14 = 0 /\ v15 = 0 /\ v16 = 0 /\ v17 = 0 /\ v18 = 0
    /\ v19 = 0 /\ v20 = 0 /\ v21 = 0

InUpload(A) ==
    /\ subject = "uploads" /\ A
    /\ UNCHANGED <<subject, ownVars, v12, v13, v14, v15, v16, v17, v18, v19, v20, v21>>

MemberInit ==
    /\ subject = "members" /\ Member!Init
    /\ v11 = 0 /\ v12 = 0 /\ v13 = 0 /\ v14 = 0 /\ v15 = 0 /\ v16 = 0 /\ v17 = 0
    /\ v18 = 0 /\ v19 = 0 /\ v20 = 0 /\ v21 = 0

InMember(A) ==
    /\ subject = "members" /\ A
    /\ UNCHANGED <<subject, ownVars, v11, v12, v13, v14, v15, v16, v17, v18, v19, v20, v21>>

ToldInit ==
    /\ subject = "actions" /\ Told!Init
    /\ v5 = 0 /\ v6 = 0 /\ v7 = 0 /\ v8 = 0 /\ v9 = 0 /\ v10 = 0 /\ v11 = 0
    /\ v12 = 0 /\ v13 = 0 /\ v14 = 0 /\ v15 = 0 /\ v16 = 0 /\ v17 = 0 /\ v18 = 0
    /\ v19 = 0 /\ v20 = 0 /\ v21 = 0

InTold(A) ==
    /\ subject = "actions" /\ A
    /\ UNCHANGED <<subject, ownVars, v5, v6, v7, v8, v9, v10, v11, v12, v13, v14, v15, v16, v17, v18, v19, v20, v21>>

PartsInit ==
    /\ Init /\ IdsInit /\ CacheInit /\ PackerInit /\ EntitiesInit
    /\ \/ MessagesInit
       \/ DialogInit
       \/ EventInit
       \/ AgreedInit
       \/ OwnInit
       \/ CodecInit
       \/ TlInit
       \/ SendInit
       \/ TextInit
       \/ AskedInit
       \/ PacketsInit
       \/ ProxyInit
       \/ BlockInit
       \/ CipherInit
       \/ SealingInit
       \/ TwoStepInit
       \/ PressedInit
       \/ UploadInit
       \/ MemberInit
       \/ ToldInit
    /\ fresh \in IF subject = "packer" THEN PackedSessions ELSE {{}}
    /\ subject # "entities" => owner = Nobody

PartsNext ==
    \/ InPacker(PackerNext)
    \/ InReceived(IdsNext)
    \/ InMessages(Messages!Next)
    \/ InDialog(Dialog!Next)
    \/ InEvent(Event!Next)
    \/ InCache(CacheNext)
    \/ InAgreed(Agreed!Next)
    \/ InStored(Next)
    \/ InCodec(Codec!Next)
    \/ InTl(Tl!Next)
    \/ InSend(Send!Next)
    \/ InEntities(EntitiesNext)
    \/ InText(Text!Next)
    \/ InAsked(Asked!Next)
    \/ InPackets(Packets!Next)
    \/ InProxy(Proxy!Next)
    \/ InBlock(Block!Next)
    \/ InCipher(Cipher!Next)
    \/ InSealing(Sealing!Next)
    \/ InTwoStep(TwoStep!Next)
    \/ InPressed(Pressed!Next)
    \/ InUpload(Upload!Next)
    \/ InMember(Member!Next)
    \/ InTold(Told!Next)

PartsSpec == PartsInit /\ [][PartsNext]_partsVars

-----------------------------------------------------------------------------
\* An iteration gives what is asked for in order, once and within its limit, and skips nothing
\* that stays, however messages and dialogs change between two chunks; of members, no more than
\* left (messages.ts, dialogs.ts, chats.ts, requestIter.ts).  Messages are those of the documented
\* range, except that forwards maxId and offsetId do not both count (messages.ts:93, 411-414).
IterationIsExact ==
    /\ subject = "messages" => Messages!GivenInOrder /\ Messages!NothingSkipped
    /\ subject = "dialogs" => Dialog!DialogsOnce /\ Dialog!NoDialogMissed
    /\ subject = "members" =>
           Member!MembersInOrder /\ Member!MissedForLeft /\ Member!KickIsNoBan

\* A run of _dispatchUpdate has called every handler whose builder it could resolve, or the
\* message waits for the timer of its album; a message that is pushed and comes in a difference
\* too is dispatched once while it is remembered (updates.ts, Album.ts, UpdateManager.ts).  A
\* handler hears of what it asked for, and is told what happened and who did it (events/).
EventsAreTold ==
    /\ subject = "events" => Event!HandlersCalled /\ Event!CalledOnce
    /\ subject = "filters" => Asked!OnlyAskedFor /\ Asked!ResolvedMeansTheSame
    /\ subject = "actions" => Told!EventTells /\ Told!StatesApart

\* A key the client takes is the one the server has for the same attempt, and an attempt fails
\* for a fault, an answer to an earlier one or a key that begins with zeros (Authenticator.ts).  What is sealed
\* with a key has its id, and only what is sealed with it for this side opens (MTProtoState.ts); a
\* password that is right opens the account (Password.ts, 2fa.ts).
KeysAgree ==
    /\ subject = "keys" => Agreed!KeysAgree /\ Agreed!FailsForCause
    /\ subject = "ciphers" => Cipher!FactorsFound /\ Cipher!FactorizeEnds
    /\ subject = "envelopes" => Sealing!SealedFits /\ Sealing!OnlySealedIsGiven
    /\ subject = "passwords" => TwoStep!RightIsAccepted /\ TwoStep!VerifierFits

\* What is written is read back: blocks and chains of blocks, bytes, numbers, ids, file ids and sessions, objects of TL after
\* unreadable ones too, texts with entities that nest, touch or end in blanks, packets among
\* acknowledgements, and the stream through a proxy, which begins when the proxy has shown that
\* it knows the secret.
ReadsBack ==
    /\ subject = "aes" => Block!TablesFit /\ Block!BlockReadsBack /\ Block!KnownAnswer
    /\ subject = "ciphers" => Cipher!ChainsReadBack
    /\ subject = "packets" => Packets!PacketsReadBack
    /\ subject = "proxies" =>
           Proxy!NothingBeforeProof /\ Proxy!StreamsAgree /\ Proxy!PrefixIsNoKey
    /\ subject = "codecs" => Codec!ReadsBack
    /\ subject = "objects" => Tl!ReceivedReadsBack /\ Tl!SentReadsBack
    /\ subject = "texts" =>
           Text!MarkupReadsBack /\ Text!SplitIsExact /\ Text!MentionsLeft

\* A message is posted once, also when requests are retried and chunks fail, and what a call
\* returns are the messages it posted, each at its place (messages.ts, messageParse.ts).  A
\* button that is clicked is the one that was given at that place, with the chat and the bot it
\* needs (buttons.ts, message.ts:1057-1264); a file that is sent has its place, its caption and the
\* form that was asked for (uploads.ts:329-786).
ResponsesMatch ==
    /\ subject = "uploads" =>
           Upload!PostedIsGiven /\ Upload!ShownAsAsked /\ Upload!CommentIsPlaced
    /\ subject = "sending" => Send!PostedOnce /\ Send!ResponsesMatch
    /\ subject = "buttons" =>
           Pressed!ClickedIsGiven /\ Pressed!StartedIsNeeded /\ Pressed!VotesFit

=============================================================================
