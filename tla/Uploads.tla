------------------------------- MODULE Uploads -------------------------------
(***************************************************************************)
(* sendFile() and _sendAlbum() of client/uploads.ts: a call gives files,   *)
(* captions and options; every file is made a medium, with an upload or    *)
(* without, media of an album are stored one after the other, and one      *)
(* request posts what was made.  Any step may fail.                        *)
(*                                                                         *)
(* How a file is uploaded is in Transfer, how the answer is read and the   *)
(* request repeated in Sending.                                            *)
(***************************************************************************)
EXTENDS Integers, Sequences, SequencesExt, FiniteSetsExt

CONSTANTS
    Files,              \* what is sent: where each comes from, and of what type it is
    MaxFiles,           \* bound: of an album
    Threads,            \* bound: ids of the messages a channel's post has in its discussion
    Extras              \* bound: sets of further options, "attributes", "thumb" and "videoNote"

Sources == {"path", "folder", "url", "buffer", "custom", "handle", "media", "message", "reader"}
FileTypes == {"photo", "video", "audio", "text", "geo", "quiz", "nothing"}

UploadsAssumption ==
    /\ Files \subseteq [from : Sources, type : FileTypes]
    /\ MaxFiles \in Nat \ {0}
    /\ Threads \subseteq Seq(Nat \ {0})
    /\ Extras \subseteq SUBSET {"attributes", "thumb", "videoNote"}

VARIABLES
    call,           \* files, captions and options
    entity, replyTo,
    captions,       \* those that are left, with the entities of each
    i,              \* the file
    handle, thumb,  \* what was uploaded
    media,          \* of the file
    albumFiles,     \* InputSingleMedia
    pc,
    posted          \* at the server

vars == <<call, entity, replyTo, captions, i, handle, thumb, media, albumFiles, pc, posted>>

-----------------------------------------------------------------------------
\* Captions are numbers of texts, 0 the empty one; formatted is whether entities are given.
Calls ==
    [files : SeqOf(Files, MaxFiles) \ {<<>>}, album : BOOLEAN, captions : {<<>>, <<1>>, <<1, 2>>},
     formatted : BOOLEAN, forceDocument : BOOLEAN, extras : Extras, thread : Threads]

IsCall(c) == ~c.album => Len(c.files) = 1

\* _sendAlbum() as sendFile() calls it has no thumb and no notes.
Options == [forceDocument |-> call.forceDocument,
            attributes    |-> "attributes" \in call.extras,
            videoNote     |-> "videoNote" \in call.extras /\ ~call.album,
            thumb         |-> "thumb" \in call.extras /\ ~call.album]

Init ==
    /\ call \in {c \in Calls : IsCall(c)}
    /\ entity = "chat" /\ replyTo = 0
    /\ captions = <<>> /\ i = 1 /\ handle = 0 /\ thumb = 0 /\ media = <<>>
    /\ albumFiles = <<>> /\ pc = "comment" /\ posted = <<>>

File == call.files[i]

-----------------------------------------------------------------------------
\* What a name or a medium tells; a buffer without a name tells nothing, a photo is always .jpg.
ExtensionOf(file) ==
    CASE file.from \in {"path", "url", "custom", "handle", "folder"} -> file.type
      [] file.from \in {"media", "message"} -> IF file.type = "photo" THEN "photo" ELSE "none"
      [] file.from \in {"buffer", "reader"} -> "none"

IsImage(file) == ExtensionOf(file) = "photo"
IsAudio(file) == ExtensionOf(file) = "audio"
IsVideo(file) == ExtensionOf(file) = "video"

AsImage(file) == IsImage(file) /\ ~Options.forceDocument

\* Mutant: those of the caller go behind others of their class.
AttributesBehind(file, forced) ==
    LET video == IF IsVideo(file) /\ ~forced
                 THEN "video" :> (IF Options.videoNote THEN "round" ELSE "video") ELSE <<>>
        audio == IF Options.videoNote THEN "audio" :> "voice"
                 ELSE IF IsAudio(file) THEN "audio" :> "audio" ELSE <<>>
        given == IF Options.attributes THEN "filename" :> "given" ELSE <<>>
    IN ("filename" :> "file") @@ audio @@ video @@ given

\* getAttributes(): by class, those of the caller in place of others of their class.
GetAttributes(file, forced) ==
    LET video == IF IsVideo(file) /\ ~forced
                 THEN "video" :> (IF Options.videoNote THEN "round" ELSE "video") ELSE <<>>
        audio == IF Options.videoNote THEN "audio" :> "voice"
                 ELSE IF IsAudio(file) THEN "audio" :> "audio" ELSE <<>>
        given == IF Options.attributes THEN "filename" :> "given" ELSE <<>>
    IN given @@ audio @@ video @@ ("filename" :> "file")

\* A medium: as what it is sent, where its bytes are, and the file they are of.
Medium(as, at, of) ==
    [as |-> as, at |-> at, of |-> of, attributes |-> <<>>, forceFile |-> FALSE, thumb |-> 0]

\* getInputMedia(): a medium that exists is sent as what it is; an unanswered quiz and a message
\* without a medium are refused, which makes no medium.
GetInputMedia(file, of) ==
    CASE file.type \in {"quiz", "nothing"} -> <<>>
      [] file.type \in {"photo", "geo"}    -> <<Medium(file.type, "stored", of)>>
      [] OTHER                             -> <<Medium("document", "stored", of)>>

\* _fileToMedia() after the uploads.
MediaOf(file) ==
    IF AsImage(file) THEN Medium("photo", "uploaded", handle)
    ELSE [Medium("document", "uploaded", handle) EXCEPT
            !.attributes = GetAttributes(file, Options.forceDocument /\ ~IsImage(file)),
            !.forceFile = Options.forceDocument /\ ~IsImage(file),
            !.thumb = thumb]

-----------------------------------------------------------------------------
\* Mutant: the message that comes first.
FirstMessage(thread) == Head(thread)

\* getCommentData(): the first message of the discussion, whatever their order.
Earlier(p, c) == IF p < c THEN p ELSE c
RelevantMessage(thread) == FoldLeft(Earlier, Head(thread), Tail(thread))

GetCommentData ==
    /\ pc = "comment"
    /\ IF call.thread = <<>> THEN UNCHANGED <<entity, replyTo>>
       ELSE entity' = "group" /\ replyTo' = RelevantMessage(call.thread)
    /\ pc' = "captions"
    /\ UNCHANGED <<call, captions, i, handle, thumb, media, albumFiles, posted>>

\* Entities that are given are those of the first caption; the others are parsed.
ParseCaptions ==
    LET all == IF call.captions = <<>> THEN <<0>>
               ELSE IF call.album THEN call.captions ELSE <<call.captions[1]>>
    IN /\ pc = "captions"
       /\ captions' = [n \in DOMAIN all |->
                         <<all[n], IF n = 1 /\ call.formatted THEN "given" ELSE "parsed">>]
       /\ pc' = "file"
       /\ UNCHANGED <<call, entity, replyTo, i, handle, thumb, media, albumFiles, posted>>

FileToMedia ==
    /\ pc = "file"
    /\ CASE File.from \in {"media", "message"} ->
              /\ media' = GetInputMedia(File, i)
              /\ pc' = (IF media' = <<>> /\ ~call.album THEN "failed" ELSE "made")
              /\ UNCHANGED handle
         [] File.from = "url" ->
              /\ media' = <<Medium(IF AsImage(File) THEN "photo" ELSE "document", "external", i)>>
              /\ pc' = "made" /\ UNCHANGED handle
         [] File.from = "handle" -> handle' = i /\ pc' = "thumb" /\ UNCHANGED media
         [] File.from \in {"path", "custom", "buffer"} -> pc' = "upload" /\ UNCHANGED <<handle, media>>
         [] File.from \in {"folder", "reader"} -> pc' = "failed" /\ UNCHANGED <<handle, media>>
    /\ UNCHANGED <<call, entity, replyTo, captions, i, thumb, albumFiles, posted>>

UploadFile ==
    /\ pc = "upload" /\ handle' = i /\ pc' = "thumb"
    /\ UNCHANGED <<call, entity, replyTo, captions, i, thumb, media, albumFiles, posted>>

UploadThumb ==
    /\ pc = "thumb"
    /\ thumb' = (IF Options.thumb /\ ~AsImage(File) THEN i ELSE 0)
    /\ pc' = "handle"
    /\ UNCHANGED <<call, entity, replyTo, captions, i, handle, media, albumFiles, posted>>

MakeMedia ==
    /\ pc = "handle" /\ media' = <<MediaOf(File)>> /\ pc' = "made"
    /\ UNCHANGED <<call, entity, replyTo, captions, i, handle, thumb, albumFiles, posted>>

-----------------------------------------------------------------------------
\* messages.uploadMedia of a photo, or of a document that was uploaded.
IsStoredFirst ==
    /\ call.album /\ media # <<>>
    /\ media[1].at = "uploaded" \/ (media[1].at = "external" /\ media[1].as = "photo")

UploadMedia ==
    /\ pc = "made" /\ IsStoredFirst
    /\ media' = [media EXCEPT ![1].at = "stored"]
    /\ UNCHANGED <<call, entity, replyTo, captions, i, handle, thumb, albumFiles, pc, posted>>

\* Mutant: the last one.
CaptionPopped == IF captions = <<>> THEN <<0, "none">> ELSE Last(captions)

\* The next caption, or none.
Caption == IF captions = <<>> THEN <<0, "none">> ELSE Head(captions)

PushFile ==
    /\ pc = "made" /\ ~IsStoredFirst
    /\ albumFiles' = Append(albumFiles, [media |-> media, message |-> Caption])
    /\ captions' = (IF captions = <<>> THEN <<>> ELSE Tail(captions))
    /\ IF i < Len(call.files) THEN i' = i + 1 /\ pc' = "file" ELSE pc' = "send" /\ UNCHANGED i
    /\ handle' = 0 /\ thumb' = 0 /\ media' = <<>>
    /\ UNCHANGED <<call, entity, replyTo, posted>>

\* What the server takes: an album of media it has, or one of any kind.
Accepts ==
    \A f \in ToSet(albumFiles) :
        f.media # <<>> /\ (call.album => f.media[1].at = "stored" /\ f.media[1].as # "geo")

Send ==
    /\ pc = "send" /\ Accepts
    /\ posted' = <<[to |-> entity, replyTo |-> replyTo, messages |-> albumFiles]>>
    /\ pc' = "done"
    /\ UNCHANGED <<call, entity, replyTo, captions, i, handle, thumb, media, albumFiles>>

Refused ==
    /\ pc \in {"comment", "upload", "thumb", "made", "send"}
    /\ pc = "comment" => call.thread # <<>>
    /\ pc = "thumb" => Options.thumb /\ ~AsImage(File)
    /\ pc = "made" => IsStoredFirst
    /\ pc' = "failed"
    /\ UNCHANGED <<call, entity, replyTo, captions, i, handle, thumb, media, albumFiles, posted>>

Next ==
    \/ GetCommentData \/ ParseCaptions \/ FileToMedia \/ UploadFile \/ UploadThumb \/ MakeMedia
    \/ UploadMedia \/ PushFile \/ Send \/ Refused

Spec == Init /\ [][Next]_vars

-----------------------------------------------------------------------------
Message(n) == posted[1].messages[n]

\* Each message that is posted has the medium of the file at its place and the caption at its
\* place, or none when there are fewer, and no message is left out; whatever is uploaded, stored
\* or refused on the way (uploads.ts:576-629).
PostedIsGiven ==
    posted # <<>> =>
        /\ Len(posted[1].messages) = Len(call.files)
        /\ \A n \in DOMAIN call.files :
              /\ Message(n).media[1].of = n
              /\ Message(n).message[1] = (IF n \in DOMAIN call.captions THEN call.captions[n] ELSE 0)
              /\ n > 1 => Message(n).message[2] # "given"

\* A photo is shown as one, and a video plays, unless documents are forced, which changes nothing
\* for what was a medium before; a note is round and speaks; what the caller says of a file
\* stays (uploads.ts:350-506, Utils.ts:729-822).
ShownAsAsked ==
    posted # <<>> =>
        \A n \in DOMAIN call.files :
            LET file == call.files[n]
                m == Message(n).media[1]
                made == file.from \notin {"media", "message", "url"}
            IN /\ file.from \in {"path", "custom", "handle", "url"} =>
                     (m.as = "photo" <=> file.type = "photo" /\ ~call.forceDocument)
               /\ (made /\ m.as = "document") =>
                     /\ ("video" \in DOMAIN m.attributes) =
                           (file.from # "buffer" /\ file.type = "video" /\ ~call.forceDocument)
                     /\ Options.attributes => m.attributes.filename = "given"
                     /\ Options.videoNote => m.attributes.audio = "voice"
                     /\ Options.thumb => m.thumb = n

\* A comment goes to the discussion and answers the message the post is there: the first, of the
\* album the server gives in any order (messages.ts:1220-1250).
CommentIsPlaced ==
    (posted # <<>> /\ call.thread # <<>>) =>
        /\ posted[1].to = "group" /\ posted[1].replyTo = Min(ToSet(call.thread))
=============================================================================
