----------------------------- MODULE TextEntities ----------------------------
(***************************************************************************)
(* Formatted text: HTML and Markdown that is written and parsed            *)
(* (extensions/html.ts, markdown.ts), blanks that are stripped from HTML   *)
(* that was parsed (stripText of Helpers.ts), long text that is split      *)
(* (splitText of Utils.ts), and mentions that are resolved before a text   *)
(* is sent (_parseMessageText of client/messageParse.ts).                  *)
(*                                                                         *)
(* A text is a sequence of symbols, markup a sequence of symbols and tags; *)
(* how a tag is spelled, with its attributes, is left out.                 *)
(***************************************************************************)
EXTENDS Integers, Sequences, SequencesExt, FiniteSets, FiniteSetsExt

CONSTANTS
    Symbols,        \* of texts: "x", a blank " ", a line end "\n", "<" for what is escaped
    Types,          \* of entities
    MaxText,        \* symbols of a text
    MaxSplit, Limit \* symbols of a text to split, and of a chunk

TextAssumption ==
    /\ Symbols \subseteq {"x", " ", "\n", "<"} /\ "pre" \notin Types
    /\ MaxText \in Nat /\ MaxSplit \in Nat /\ Limit \in Nat \ {0}

VARIABLES
    kind, text, entities,   \* what is written or split
    result,
    stage

vars == <<kind, text, entities, result, stage>>

Entity(type, offset, length) == [type |-> type, offset |-> offset, length |-> length]
EndOf(e) == e.offset + e.length
Covers(e) == e.offset + 1 .. EndOf(e)       \* the symbols it is about, counted from 1

IsBlank(c) == c \in {" ", "\n"}
Texts(n) == UNION {[1 .. k -> Symbols] : k \in 1 .. n}
EntitiesOf(n) == {Entity(t, o, l) : t \in Types, o \in 0 .. n - 1, l \in 1 .. n}

\* Entities a message can have: inside its text, those of one type apart.
Fit(e, n) == EndOf(e) <= n
Together(d, e) == d.type # e.type \/ EndOf(d) <= e.offset \/ EndOf(e) <= d.offset

-----------------------------------------------------------------------------
\* HTML.  Markup opens and closes in order: what closes comes first, of what opens the
\* longest, of what closes the shortest, equals in their order and in reverse.
Mark(at, open, e, order) == [at |-> at, open |-> open, span |-> e.length, order |-> order,
                             type |-> e.type]

Marks(es) ==
    UNION {{Mark(es[i].offset, TRUE, es[i], i), Mark(EndOf(es[i]), FALSE, es[i], i)} :
             i \in DOMAIN es}

\* Mutant: what starts at a place comes before what ends there.
BeforeOpensFirst(a, b) ==
    IF a.at # b.at THEN a.at < b.at
    ELSE IF a.open # b.open THEN a.open
    ELSE a.order < b.order

Before(a, b) ==
    IF a.at # b.at THEN a.at < b.at
    ELSE IF a.open # b.open THEN ~a.open
    ELSE IF a.span # b.span THEN (IF a.open THEN a.span > b.span ELSE a.span < b.span)
    ELSE IF a.open THEN a.order < b.order ELSE a.order > b.order

Symbol(c) == [tag |-> "", symbol |-> IF c = "<" THEN "&lt;" ELSE c]
Tag(m) == [tag |-> IF m.open THEN "open" ELSE "close", symbol |-> m.type]

Unparse(t, es) ==
    LET At(i) == SetToSortSeq({m \in Marks(es) : m.at = i}, Before)
        Piece(i) == [k \in DOMAIN At(i) |-> Tag(At(i)[k])]
                       \o (IF i < Len(t) THEN <<Symbol(t[i + 1])>> ELSE <<>>)
    IN FlattenSeq([i \in 1 .. Len(t) + 1 |-> Piece(i - 1)])

Decode(c) == IF c = "&lt;" THEN "<" ELSE c

\* A tag closes the last one of its name, and the entities come as they close.
ParseToken(s, token) ==
    CASE token.tag = "" -> [s EXCEPT !.text = Append(@, Decode(token.symbol))]
      [] token.tag = "open" ->
           [s EXCEPT !.open = Append(@, Entity(token.symbol, Len(s.text), 0))]
      [] OTHER ->
           LET is == {i \in DOMAIN s.open : s.open[i].type = token.symbol}
           IN IF is = {} THEN s
              ELSE LET e == s.open[Max(is)]
                   IN [s EXCEPT !.open = RemoveAt(@, Max(is)),
                                !.entities = Append(@, [e EXCEPT !.length =
                                                           Len(s.text) - e.offset])]

-----------------------------------------------------------------------------
\* stripText.  Of the blanks at the end each shortens the last entity, of those in front each moves
\* or shortens all, in one pass over a list that changes: what has one symbol left takes the first
\* of the list away, and the next one is passed over.
RECURSIVE TrimEnd(_), TrimFront(_), Sweep(_, _), StripFront(_, _), StripEnd(_, _)
TrimEnd(t)   == IF t # <<>> /\ IsBlank(Last(t)) THEN TrimEnd(Front(t)) ELSE t
TrimFront(t) == IF t # <<>> /\ IsBlank(t[1]) THEN TrimFront(Tail(t)) ELSE t

Stripped(t, es) == [text |-> t, entities |-> es]

Sweep(es, i) ==
    IF i > Len(es) THEN es
    ELSE IF es[i].offset # 0 THEN Sweep([es EXCEPT ![i].offset = @ - 1], i + 1)
    ELSE IF es[i].length = 1 THEN Sweep(Tail(es), i + 1)
    ELSE Sweep([es EXCEPT ![i].length = @ - 1], i + 1)

StripFront(t, es) ==
    IF t = <<>> \/ ~IsBlank(t[1]) THEN Stripped(t, es)
    ELSE IF Sweep(es, 1) = <<>> THEN Stripped(TrimFront(t), <<>>)
    ELSE StripFront(Tail(t), Sweep(es, 1))

StripEnd(t, es) ==
    LET e == Last(es)
        rest == IF EndOf(e) # Len(t) THEN es
                ELSE IF e.length = 1 THEN Front(es)
                ELSE Append(Front(es), [e EXCEPT !.length = @ - 1])
    IN IF t = <<>> \/ ~IsBlank(Last(t)) THEN StripFront(t, es)
       ELSE IF rest = <<>> THEN Stripped(TrimFront(TrimEnd(t)), <<>>)
       ELSE StripEnd(Front(t), rest)

StripText(t, es) == IF es = <<>> THEN Stripped(TrimFront(TrimEnd(t)), <<>>) ELSE StripEnd(t, es)

\* HTMLParser.parse.
Parse(markup) ==
    LET s == FoldLeft(ParseToken, [text |-> <<>>, open |-> <<>>, entities |-> <<>>], markup)
        stripped == StripText(s.text, s.entities)
    IN [s EXCEPT !.text = stripped.text, !.entities = stripped.entities]

-----------------------------------------------------------------------------
\* Markdown: a delimiter opens and closes in turn.  What is inserted later at a place comes
\* in front, and it is inserted from the end.
Delimiters(es, i) ==
    FlattenSeq([k \in DOMAIN es |->
       (IF es[k].offset = i THEN <<es[k].type>> ELSE <<>>)
          \o (IF EndOf(es[k]) = i THEN <<es[k].type>> ELSE <<>>)])

UnparseMarkdown(t, es) ==
    FlattenSeq([i \in 1 .. Len(t) + 1 |->
       [k \in DOMAIN Delimiters(es, i - 1) |-> [tag |-> "delimiter",
                                                symbol |-> Delimiters(es, i - 1)[k]]]
          \o (IF i <= Len(t) THEN <<[tag |-> "", symbol |-> t[i]]>> ELSE <<>>)])

ParseDelimiter(s, token) ==
    IF token.tag = "" THEN [s EXCEPT !.text = Append(@, token.symbol)]
    ELSE LET is == {i \in DOMAIN s.open : s.open[i].type = token.symbol}
         IN IF is = {} THEN [s EXCEPT !.open = Append(@, Entity(token.symbol, Len(s.text), 0))]
            ELSE LET i == CHOOSE j \in is : TRUE
                 IN [s EXCEPT !.open = RemoveAt(@, i),
                              !.entities = Append(@, [s.open[i] EXCEPT !.length =
                                                         Len(s.text) - s.open[i].offset])]

ParseMarkdown(markup) ==
    FoldLeft(ParseDelimiter, [text |-> <<>>, open |-> <<>>, entities |-> <<>>], markup)

-----------------------------------------------------------------------------
\* splitText: a chunk ends behind a line, or a blank, in its second half.
LastOf(t, c, end) == Max({0} \cup {i \in 1 .. Len(t) : t[i] = c /\ i <= end + 1})

ChunkEnd(t, offset) ==
    LET end == Min({offset + Limit, Len(t)})
        line == LastOf(t, "\n", end)
        blank == LastOf(t, " ", end)
    IN IF end = Len(t) THEN end
       ELSE IF 2 * (line - 1 - offset) > Limit THEN line
       ELSE IF 2 * (blank - 1 - offset) > Limit THEN blank
       ELSE end

Clip(e, offset, end) ==
    LET start == Max({0, e.offset - offset})
    IN Entity(e.type, start,
              Min({e.length, end - offset - start, EndOf(e) - offset - start}))

ChunkEntities(es, offset, end) ==
    LET met == SelectSeq(es, LAMBDA e : EndOf(e) > offset /\ e.offset < end)
    IN SelectSeq([i \in DOMAIN met |-> Clip(met[i], offset, end)], LAMBDA e : e.length > 0)

SplitText(t, es) ==
    LET Rest[offset \in 0 .. Len(t)] ==
          IF offset = Len(t) THEN <<>>
          ELSE LET end == ChunkEnd(t, offset)
               IN <<[text |-> SubSeq(t, offset + 1, end), offset |-> offset,
                     entities |-> ChunkEntities(es, offset, end)]>> \o Rest[end]
    IN IF Len(t) <= Limit THEN <<[text |-> t, offset |-> 0, entities |-> es]>> ELSE Rest[0]

-----------------------------------------------------------------------------
\* _parseMessageText: from the end, links that name nobody who can be found are dropped, and
\* mentions are left as they are.  An entity here is a link, a mention or neither.
Resolvable == {"mention", "link"}

Mentions(es, unknown) ==
    LET Step(list, i) ==
          IF list[i].type = "link" /\ i \in unknown THEN RemoveAt(list, i) ELSE list
    IN FoldLeft(Step, es, Reverse([i \in DOMAIN es |-> i]))

-----------------------------------------------------------------------------
OneOrTwo(n) ==
    LET fit == {e \in EntitiesOf(n) : Fit(e, n)}
    IN {<<e>> : e \in fit} \cup {<<d, e>> : d, e \in fit}

Init ==
    /\ kind \in {"html", "markdown", "split", "mentions"}
    /\ text \in Texts(CASE kind = "split" -> MaxSplit [] kind = "mentions" -> 1 [] OTHER -> MaxText)
    /\ entities \in
         CASE kind \in {"html", "markdown"} ->
                {es \in OneOrTwo(Len(text)) : Len(es) = 2 => Together(es[1], es[2])}
           [] kind = "mentions" ->
                {[i \in 1 .. 3 |-> Entity(ts[i], i, 1)] :
                   ts \in [1 .. 3 -> Resolvable \cup {"bold"}]}
           [] OTHER -> {<<e>> : e \in {d \in EntitiesOf(Len(text)) : d.type = "bold" /\ Fit(d, Len(text))}}
    /\ result = <<>> /\ stage = "given"

Convert ==
    /\ stage = "given"
    /\ result' \in CASE kind = "html" -> {Parse(Unparse(text, entities))}
                     [] kind = "markdown" -> {ParseMarkdown(UnparseMarkdown(text, entities))}
                     [] kind = "split" -> {SplitText(text, entities)}
                     [] OTHER -> {[unknown |-> u, entities |-> Mentions(entities, u)] :
                                    u \in SUBSET (1 .. 3)}
    /\ stage' = "done"
    /\ UNCHANGED <<kind, text, entities>>

Next == Convert

Spec == Init /\ [][Next]_vars

-----------------------------------------------------------------------------
\* What is left of a text without the blanks around it, and of an entity.
Inner ==
    {i \in DOMAIN text : \E j, k \in DOMAIN text :
        j <= i /\ i <= k /\ ~IsBlank(text[j]) /\ ~IsBlank(text[k])}
Leading == IF Inner = {} THEN 0 ELSE Min(Inner) - 1
Reach == IF Inner = {} THEN 0 ELSE Max(Inner)
Left(e) ==
    LET kept == Covers(e) \cap Inner
    IN Entity(e.type, Min(kept) - 1 - Leading, Cardinality(kept))

\* Where the loops of stripText go wrong (Helpers.ts:229-251): only the last of two entities that
\* share blanks at the end is shortened there; and one that is gone with the blanks in front takes
\* another's place in the list.
SharedBlanks ==
    \E i, j \in DOMAIN entities :
        i # j /\ EndOf(entities[i]) > Reach /\ EndOf(entities[j]) > Reach
            /\ Covers(entities[i]) \cap Covers(entities[j]) # {}
GoneInFront ==
    \E i, j \in DOMAIN entities :
        /\ i # j /\ EndOf(entities[i]) <= Leading
        /\ entities[j].offset < Reach

\* Markup that is written and parsed gives the text and its entities, however they are nested
\* and cross; from HTML, the text without the blanks around it, and the entities on the symbols
\* that are left of them, except where SharedBlanks or GoneInFront names two that it may mistake.
MarkupReadsBack ==
    /\ (stage = "done" /\ kind = "markdown") =>
          /\ result.text = text /\ result.open = <<>>
          /\ Range(result.entities) = Range(entities)
          /\ Len(result.entities) = Len(entities)
    /\ (stage = "done" /\ kind = "html") =>
          LET rest == SelectSeq(entities, LAMBDA e : Covers(e) \cap Inner # {}) IN
          /\ result.text = SubSeq(text, Leading + 1, Reach) /\ result.open = <<>>
          /\ (SharedBlanks \/ GoneInFront)
                \/ (/\ Range(result.entities) = {Left(e) : e \in Range(rest)}
                    /\ Len(result.entities) = Len(rest))

\* The chunks of a long text are the text, and its entity is on the symbols it was on.  A chunk
\* has the documented maximum length (Utils.ts:1466), or one more if a blank or a line end is there.
SplitIsExact ==
    (stage = "done" /\ kind = "split") =>
       /\ FlattenSeq([i \in DOMAIN result |-> result[i].text]) = text
       /\ \A i \in DOMAIN result :
             \/ Len(result[i].text) \in 1 .. Limit
             \/ Len(result[i].text) = Limit + 1 /\ IsBlank(Last(result[i].text))
       /\ UNION {UNION {{c.offset + j : j \in Covers(e)} : e \in Range(c.entities)} :
                   c \in Range(result)} = Covers(entities[1])

\* What is sent keeps all entities but the links to nobody, in their order.
MentionsLeft ==
    (stage = "done" /\ kind = "mentions") =>
       result.entities =
          SelectSeq(entities, LAMBDA e : ~(e.type = "link" /\ e.offset \in result.unknown))

=============================================================================
