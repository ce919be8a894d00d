------------------------------- MODULE Keyboards -------------------------------
(***************************************************************************)
(* The way of a button: buildReplyMarkup() of client/buttons.ts makes a    *)
(* markup of what a caller gives, a message has it, and click() of         *)
(* tl/custom/message.ts finds and presses one of its buttons, with the     *)
(* chat and the bot it needs, which are looked for in the cache, asked of  *)
(* the server, or found when the message is loaded again.                  *)
(***************************************************************************)
EXTENDS Integers, Sequences, SequencesExt, FiniteSetsExt

CONSTANTS
    Texts,          \* of buttons
    MaxRow,         \* bounds: buttons of a row, and rows
    MaxRows,
    MaxFaults,      \* bound: requests that fail
    None

KeyboardsAssumption ==
    /\ {MaxRow, MaxRows} \subseteq Nat \ {0} /\ MaxFaults \in Nat
    /\ None \notin Texts

VARIABLES
    given,          \* what buildReplyMarkup() is called with: rows of buttons, or a single one
    message,        \* its markup and what else it is
    cache,          \* of the client: which of the message's peers it knows
    inputChat, inputSender,
    buttons,        \* _buttons: nothing, or rows with chat and bot
    pc,             \* of click()
    wanted,         \* what it is called with
    sent,           \* what came of it
    faults

vars == <<given, message, cache, inputChat, inputSender, buttons, pc, wanted, sent, faults>>

-----------------------------------------------------------------------------
\* Buttons, by their class.  Those of a keyboard are made in a Button, with options.
Inline == {"callback", "switch", "url", "game"}
Normal == {"text", "phone"}
Types  == Inline \cup Normal

IsInline(button) == button.type \in Inline
Wrapped(button)  == button.type \in Normal

\* The options of all of them end in one: what is set last.
Resize(flat) ==
    LET options == FoldLeft(LAMBDA all, b : IF Wrapped(b) THEN all \o b.options ELSE all, <<>>, flat)
    IN IF options = <<>> THEN None ELSE Last(options)

\* Mutant: a row is made one of rows.
RowsFlat(buttonLike) ==
    IF buttonLike.shape = "single" THEN <<<<buttonLike.flat[1]>>>>
    ELSE [r \in DOMAIN buttonLike.flat |-> <<buttonLike.flat[r]>>]

Rows(buttonLike) ==
    CASE buttonLike.shape = "single" -> <<<<buttonLike.flat[1]>>>>
      [] buttonLike.shape = "row"    -> <<buttonLike.flat>>
      [] buttonLike.shape = "grid"   -> [r \in DOMAIN buttonLike.flat |-> <<buttonLike.flat[r]>>]

\* Nothing is thrown for buttons of both kinds: one that is inline makes the markup so.
BuildReplyMarkup(buttonLike) ==
    LET rows == Rows(buttonLike) IN
    [kind   |-> IF \E b \in ToSet(buttonLike.flat) : IsInline(b) THEN "inline" ELSE "keyboard",
     rows   |-> rows,
     resize |-> Resize(buttonLike.flat)]

\* What the server makes a message of.
Accepted(markup) ==
    \A r \in DOMAIN markup.rows : \A b \in ToSet(markup.rows[r]) : IsInline(b) = (markup.kind = "inline")

-----------------------------------------------------------------------------
Button(type, text, same, options) == [type |-> type, text |-> text, samePeer |-> same, options |-> options]

\* Buttons of a switch are for the same chat or another; options are those of a keyboard's.
SomeText == CHOOSE t \in Texts : TRUE
Offered ==
    {Button("callback", text, FALSE, <<>>) : text \in Texts}
        \cup {Button("switch", SomeText, same, <<>>) : same \in BOOLEAN}
        \cup {Button("text", SomeText, FALSE, options) : options \in {<<>>, <<FALSE>>}}
        \cup {Button(type, SomeText, FALSE, <<>>) : type \in {"url", "phone"}}

ButtonLikes ==
    [shape : {"single"}, flat : {<<b>> : b \in Offered}]
        \cup [shape : {"row"}, flat : SeqOf(Offered, MaxRow) \ {<<>>}]
        \cup [shape : {"grid"}, flat : SeqOf(Offered, MaxRows) \ {<<>>}]

\* A message with the markup, or a poll with answers, in a chat; of a bot, or of a user by way of one.
Init ==
    /\ \E keyboard \in BOOLEAN :
          \/ /\ keyboard /\ given \in ButtonLikes
             /\ Accepted(BuildReplyMarkup(given))
             /\ \E viaBot \in BOOLEAN :
                   message = [markup |-> <<BuildReplyMarkup(given)>>, viaBot |-> viaBot, answers |-> <<>>]
          \/ /\ ~keyboard /\ given = <<>>
             /\ message = [markup |-> <<>>, viaBot |-> FALSE, answers |-> SetToSeq(Texts)]
    /\ cache = {}
    /\ inputChat = None /\ inputSender \in {None, "sender"}
    /\ buttons = <<>> /\ pc = "idle" /\ wanted = <<>> /\ sent = <<>> /\ faults = 0

Markup == message.markup[1]
FlatOf(rows) == FlattenSeq(rows)
Switches == SelectSeq(FlatOf(Markup.rows), LAMBDA b : b.type = "switch")

\* Something else makes the cache know a peer, while that matters.
Learn ==
    /\ pc \notin {"find", "done"}
    /\ \E peer \in {"chat", "sender", "bot"} \ cache :
          /\ peer = "bot" => message.viaBot
          /\ cache' = cache \cup {peer}
    /\ UNCHANGED <<given, message, inputChat, inputSender, buttons, pc, wanted, sent, faults>>

-----------------------------------------------------------------------------
\* Mutant: any bot that is known will do.
AnyBot(sender) ==
    IF Switches = <<>> THEN None ELSE IF sender = None THEN "needed" ELSE sender

\* _neededMarkupBot(): the bot of the first button that switches, "needed" if it is not known.
NeededMarkupBot(sender) ==
    IF Switches = <<>> THEN None
    ELSE IF Switches[1].samePeer \/ ~message.viaBot
    THEN (IF sender = None THEN "needed" ELSE sender)
    ELSE (IF "bot" \in cache THEN "bot" ELSE "needed")

SetButtons(chat, bot) == buttons' = <<[rows |-> Markup.rows, chat |-> chat, bot |-> bot]>>

\* What the getter inputChat gives, which keeps it.
CachedChat == IF inputChat = None /\ "chat" \in cache THEN "chat" ELSE inputChat

\* The getter buttons.
ReadButtons ==
    /\ pc = "idle" /\ buttons = <<>> /\ message.markup # <<>>
    /\ inputChat' = CachedChat
    /\ IF inputChat' = None \/ NeededMarkupBot(inputSender) = "needed" THEN UNCHANGED buttons
       ELSE SetButtons(inputChat', NeededMarkupBot(inputSender))
    /\ UNCHANGED <<given, message, cache, inputSender, pc, wanted, sent, faults>>

Request(does, button, chat, bot) == <<[does |-> does, button |-> button, chat |-> chat, bot |-> bot]>>
Ends(with) == pc' = "done" /\ sent' = with

\* Mutant: the answers are counted from zero.
FindNextPoll(by) ==
    CASE by.by \in {"i", "ij"} -> IF by.i + 1 \in DOMAIN message.answers THEN <<message.answers[by.i + 1]>> ELSE <<"throws">>
      [] by.by = "list" -> SubSeq(message.answers, 1, Len(by.list))
      [] by.by = "text" -> SelectSeq(message.answers, LAMBDA a : a = by.text)
      [] OTHER          -> <<>>

\* A list of numbers names as many answers as it has, from the first on.
FindPoll(by) ==
    CASE by.by \in {"i", "ij"} -> IF by.i \in DOMAIN message.answers THEN <<message.answers[by.i]>> ELSE <<"throws">>
      [] by.by = "list" -> SubSeq(message.answers, 1, Len(by.list))
      [] by.by = "text" -> SelectSeq(message.answers, LAMBDA a : a = by.text)
      [] OTHER          -> <<>>

\* click() of a poll, of data, or of a button that is looked for.
Numbers == 1 .. Max({MaxRow, MaxRows}) + 1
Criteria ==
    [by : {"i"}, i : Numbers] \cup [by : {"ij"}, i : Numbers, j : Numbers] \cup [by : {"text"}, text : Texts]
        \cup [by : {"filter"}, type : {"switch"}] \cup [by : {"data"}, data : {SomeText}] \cup [by : {"nothing"}]
        \cup [by : {"list"}, list : {<<1>>, <<2>>, <<1, 2>>}]

Click ==
    /\ pc = "idle"
    /\ wanted' \in Criteria
    /\ LET by == wanted'.by IN
       /\ message.answers = <<>> => by # "list"
       /\ CASE by # "data" /\ message.answers # <<>> /\ FindPoll(wanted') = <<"throws">> ->
                 pc' = "done" /\ UNCHANGED <<inputChat, buttons>>
            [] by = "data" \/ (message.answers # <<>> /\ FindPoll(wanted') # <<"throws">>) ->
                 pc' = "chat" /\ UNCHANGED <<inputChat, buttons>>
            [] by # "data" /\ message.answers = <<>> /\ buttons # <<>> ->
                 pc' = "find" /\ UNCHANGED <<inputChat, buttons>>
            [] OTHER ->
                 /\ inputChat' = CachedChat
                 /\ IF inputChat' # None /\ NeededMarkupBot(inputSender) # "needed"
                    THEN SetButtons(inputChat', NeededMarkupBot(inputSender)) /\ pc' = "find"
                    ELSE UNCHANGED buttons /\ pc' = "chat"
    /\ UNCHANGED <<given, message, cache, inputSender, sent, faults>>

\* getInputChat(): the cache, the server, or the first hundred dialogs.
Fail == faults < MaxFaults /\ faults' = faults + 1

GetInputChat ==
    /\ pc = "chat"
    /\ \/ /\ CachedChat # None /\ inputChat' = CachedChat /\ pc' = "has chat" /\ UNCHANGED <<cache, faults>>
       \/ /\ CachedChat = None /\ inputChat' = "chat" /\ pc' = "has chat"
          /\ cache' = cache \cup {"chat"} /\ UNCHANGED faults
       \/ /\ CachedChat = None /\ Fail /\ pc' = "dialogs" /\ UNCHANGED <<cache, inputChat>>
    /\ UNCHANGED <<given, message, inputSender, buttons, wanted, sent>>

IterDialogs ==
    /\ pc = "dialogs"
    /\ \/ inputChat' = "chat" /\ pc' = "has chat" /\ UNCHANGED sent
       \/ Ends(<<>>) /\ UNCHANGED inputChat
    /\ UNCHANGED <<given, message, cache, inputSender, buttons, wanted, faults>>

\* With the chat: the vote, the callback, or the bot that is needed.
HasChat ==
    /\ pc = "has chat"
    /\ LET c == wanted IN
       CASE c.by = "data" ->
              Ends(Request("callback", c.data, inputChat, None)) /\ UNCHANGED buttons
         [] c.by # "data" /\ message.answers # <<>> ->
              Ends(Request("vote", FindPoll(c), inputChat, None)) /\ UNCHANGED buttons
         [] OTHER ->
              IF NeededMarkupBot(inputSender) = "needed" THEN pc' = "reload" /\ UNCHANGED <<buttons, sent>>
              ELSE SetButtons(inputChat, NeededMarkupBot(inputSender)) /\ pc' = "find" /\ UNCHANGED sent
    /\ UNCHANGED <<given, message, cache, inputChat, inputSender, wanted, faults>>

\* _reloadMessage(): sender and chat become those of the message as it is loaded, whose peers the
\* server sends, or some of them.
Reload ==
    /\ pc = "reload" /\ pc' = "bot"
    /\ \/ /\ \E learnt \in SUBSET {"sender", "bot"} :
                /\ "bot" \in learnt => message.viaBot
                /\ cache' = cache \cup learnt
          /\ inputSender' = (IF "sender" \in cache' THEN "sender" ELSE None)
          /\ inputChat' = (IF "chat" \in cache THEN "chat" ELSE None)
          /\ UNCHANGED faults
       \/ Fail /\ UNCHANGED <<cache, inputSender, inputChat>>
    /\ UNCHANGED <<given, message, buttons, wanted, sent>>

\* The bot again, and at last the one by way of which it came, or the sender, asked of the server.
FindBot ==
    LET chat == "chat"
        needed == NeededMarkupBot(inputSender)
    IN /\ pc = "bot"
       /\ \/ needed # "needed" /\ SetButtons(chat, needed) /\ pc' = "find" /\ UNCHANGED <<inputSender, sent, faults>>
          \/ /\ needed = "needed"
             /\ \/ /\ SetButtons(chat, IF message.viaBot THEN "bot" ELSE "sender") /\ pc' = "find"
                   /\ inputSender' = (IF message.viaBot THEN inputSender ELSE "sender")
                   /\ UNCHANGED <<sent, faults>>
                \/ Fail /\ Ends(<<>>) /\ UNCHANGED <<buttons, inputSender>>
       /\ UNCHANGED <<given, message, cache, inputChat, wanted>>

-----------------------------------------------------------------------------
\* findButton(): nothing, or the one that is found.
At(seq, n) == IF n \in DOMAIN seq THEN <<seq[n]>> ELSE <<>>

FindButton(by) ==
    LET rows == buttons[1].rows
        flat == FlatOf(rows)
    IN CASE by.by = "text"    -> At(SelectSeq(flat, LAMBDA b : b.text = by.text), 1)
         [] by.by = "filter"  -> At(SelectSeq(flat, LAMBDA b : b.type = by.type), 1)
         [] by.by = "ij"      -> IF by.i \in DOMAIN rows THEN At(rows[by.i], by.j) ELSE <<>>
         [] by.by = "i"       -> At(flat, by.i)
         [] by.by = "nothing" -> At(flat, 1)

\* MessageButton.click(): what one does; a bot that does not answer in time is nothing.
Does == [text |-> "message", callback |-> "callback", switch |-> "start", url |-> "url", game |-> "game"]

Press(button) ==
    IF button.type = "phone" THEN <<>>
    ELSE Request(Does[button.type], button, buttons[1].chat, buttons[1].bot)

Find ==
    /\ pc = "find"
    /\ LET found == FindButton(wanted) IN
       Ends(IF found = <<>> THEN <<>> ELSE Press(found[1]))
    /\ UNCHANGED <<given, message, cache, inputChat, inputSender, buttons, wanted, faults>>

Next ==
    Learn \/ ReadButtons \/ Click \/ GetInputChat \/ IterDialogs \/ HasChat \/ Reload \/ FindBot \/ Find

Spec == Init /\ [][Next]_vars

-----------------------------------------------------------------------------
\* The place of the button that was asked for, among those the caller gave.
Asked ==
    CASE wanted.by = "ij" -> IF given.shape = "grid" THEN (IF wanted.j = 1 THEN wanted.i ELSE 0)
                             ELSE (IF wanted.i = 1 THEN wanted.j ELSE 0)
      [] wanted.by = "i"       -> wanted.i
      [] wanted.by = "nothing" -> 1
      [] wanted.by = "text"    -> SelectInSeq(given.flat, LAMBDA b : b.text = wanted.text)
      [] wanted.by = "filter"  -> SelectInSeq(given.flat, LAMBDA b : b.type = wanted.type)

\* Where a caller of buildReplyMarkup() put a button is where click() finds it, and what is sent is
\* that button's, to the message's chat (buttons.ts:20-103, message.ts:1057-1226).
ClickedIsGiven ==
    (sent # <<>> /\ given # <<>> /\ wanted.by # "data") =>
        /\ Asked \in DOMAIN given.flat
        /\ sent[1].button = given.flat[Asked]
        /\ sent[1].does # "url" => sent[1].chat = "chat"

\* The bot that is started is the one the first button that switches needs, when it can be known,
\* and the other one rather than none (message.ts:651-672, 1235-1264).
StartedIsNeeded ==
    (sent # <<>> /\ sent[1].does = "start") =>
        sent[1].bot \in IF ~message.viaBot THEN {"sender"}
                        ELSE IF Switches[1].samePeer THEN {"sender", "bot"} ELSE {"bot"}

\* A vote is for the answer that was asked for; but a list of numbers votes for the first ones
\* (message.ts:1092-1142).
VotesFit ==
    (sent # <<>> /\ sent[1].does = "vote") =>
        /\ wanted.by = "i" => sent[1].button = <<message.answers[wanted.i]>>
        /\ wanted.by = "text" => sent[1].button = <<wanted.text>>
        /\ sent[1].chat = "chat"
=============================================================================
