------------------------------ MODULE TlObjects -------------------------------
(***************************************************************************)
(* Objects of TL written and read (tl/runtime/createApi.ts), word by word. *)
(* The description of a field is shared by all objects of its type, and    *)
(* the reader of a vector clears isVector in it while it reads the elements*)
(* (createApi.ts:190): an element that cannot be read leaves it cleared.   *)
(*                                                                         *)
(* Messages come from the server, some with constructors the client does   *)
(* not know, and the client sends back objects of the same types.          *)
(***************************************************************************)
EXTENDS Integers, Sequences, SequencesExt, FiniteSetsExt

CONSTANTS
    MaxMessages     \* bound

TlObjectsAssumption == MaxMessages \in Nat

VARIABLES
    lost,           \* fields of types that are no longer vectors
    outcome,        \* of the last call: what went in, whether it threw, what came out
    count

vars == <<lost, outcome, count>>

-----------------------------------------------------------------------------
\* The schema: an object of one type with others in a vector, a vector of numbers, an object that
\* may be missing and a flag.
Field(name, type) == [name |-> name, type |-> type, isVector |-> FALSE, flag |-> -1]
Vector(f)  == [f EXCEPT !.isVector = TRUE]
Flag(f, i) == [f EXCEPT !.flag = i]

argsConfig ==
    [Markup |-> <<Field("flags", "#"), Flag(Field("single", "true"), 0), Vector(Field("rows", "Row")),
                  Flag(Field("row", "Row"), 1), Vector(Field("ids", "int")),
                  Flag(Field("on", "Bool"), 2)>>,
     Row    |-> <<Field("flags", "#"), Flag(Field("inner", "Markup"), 0)>>]

Types == DOMAIN argsConfig
Unknown == "Unknown"

\* A value: a number (a missing one, true and false too), a list or an object.
Number(n)    == [is |-> "int", n |-> n, items |-> <<>>]
Null         == [is |-> "null", n |-> 0, items |-> <<>>]
Bool(b)      == [is |-> "bool", n |-> IF b THEN 1 ELSE 0, items |-> <<>>]
List(s)      == [is |-> "list", n |-> 0, items |-> s]
Object(t, s) == [is |-> t, n |-> 0, items |-> s]

Word(k, n) == [is |-> k, n |-> n]
VectorId   == Word("vector", 0)

-----------------------------------------------------------------------------
\* getBytes.  Threw is no words at all: an object has at least its constructor.
Threw == <<>>

RECURSIVE GetBytes(_, _)

ArgToBytes(v, type, l) ==
    CASE type = "int"  -> IF v.is = "int" THEN <<Word("int", v.n)>> ELSE Threw
      [] type = "Bool" -> <<Word("bool", v.n)>>
      [] OTHER         -> IF v.is \in Types \cup {Unknown} THEN GetBytes(v, l) ELSE Threw

All(parts) == IF \E i \in DOMAIN parts : parts[i] = Threw THEN Threw ELSE FlattenSeq(parts)

\* A flagged field that is not written: undefined, null, or false but for the type Bool.
Missing(f, v) == f.flag >= 0 /\ (v.is = "null" \/ (v.is = "bool" /\ v.n = 0 /\ f.type # "Bool"))

FlagsOf(fields, items) ==
    FoldSet(LAMBDA i, sum : sum + 2 ^ fields[i].flag, 0,
            {i \in DOMAIN fields : fields[i].flag >= 0 /\ ~Missing(fields[i], items[i])})

FieldBytes(t, i, items, l) ==
    LET f == argsConfig[t][i]
        v == items[i]
    IN IF f.isVector /\ <<t, i>> \notin l
       THEN All(<< <<VectorId>>, <<Word("int", Len(v.items))>> >>
                \o [j \in DOMAIN v.items |-> ArgToBytes(v.items[j], f.type, l)])
       ELSE IF f.type = "#" THEN <<Word("int", FlagsOf(argsConfig[t], items))>>
       ELSE ArgToBytes(v, f.type, l)

GetBytes(o, l) ==
    IF o.is = Unknown THEN <<Word(Unknown, 0)>>
    ELSE LET fields  == argsConfig[o.is]
             written == SelectSeq([i \in DOMAIN fields |-> i],
                            LAMBDA i : fields[i].type # "true" /\ ~Missing(fields[i], o.items[i]))
         IN All(<< <<Word(o.is, 0)>> >>
                \o [k \in DOMAIN written |-> FieldBytes(o.is, written[k], o.items, l)])

-----------------------------------------------------------------------------
\* The reader: words that are left, what was read, whether it threw, the fields it lost.
Result(v, rest, ok, l) == [v |-> v, rest |-> rest, ok |-> ok, lost |-> l]
Fails(l) == Result(Null, <<>>, FALSE, l)

RECURSIVE FromReader(_, _, _, _, _), Elements(_, _, _, _, _), ReadObject(_, _)

\* Mutant: the vector's flag is not set again.
ClearedAfter(l, field) == l \cup {field}

\* arg.isVector = true, after the last element.
RestoredAfter(l, field) == l \ {field}

ReadValue(type, words, l) ==
    CASE words = <<>> -> Fails(l)
      [] words # <<>> /\ type \in {"int", "#"} -> Result(Number(Head(words).n), Tail(words), TRUE, l)
      [] words # <<>> /\ type = "Bool" -> Result(Bool(Head(words).n = 1), Tail(words), TRUE, l)
      [] OTHER -> ReadObject(words, l)

\* The elements of a vector, read as single values.
Elements(n, type, words, l, values) ==
    IF n = 0 THEN Result(List(values), words, TRUE, l)
    ELSE LET r == ReadValue(type, words, l) IN
         IF r.ok THEN Elements(n - 1, type, r.rest, r.lost, Append(values, r.v)) ELSE r

\* getArgFromReader.
ArgFromReader(t, i, words, l) ==
    LET f == argsConfig[t][i] IN
    IF f.isVector /\ <<t, i>> \notin l
    THEN LET r == Elements(words[2].n, f.type, SubSeq(words, 3, Len(words)), l \cup {<<t, i>>}, <<>>)
         IN IF r.ok THEN [r EXCEPT !.lost = RestoredAfter(@, <<t, i>>)] ELSE r
    ELSE ReadValue(f.type, words, l)

\* fromReader: the fields from the i-th on.
FromReader(t, i, words, l, items) ==
    IF i > Len(argsConfig[t]) THEN Result(Object(t, items), words, TRUE, l)
    ELSE LET f == argsConfig[t][i]
             set == (items[1].n \div 2 ^ f.flag) % 2 = 1
         IN IF f.flag >= 0 /\ (f.type = "true" \/ ~set)
            THEN FromReader(t, i + 1, words, l,
                            Append(items, IF f.type = "true" THEN Bool(set) ELSE Null))
            ELSE LET r == ArgFromReader(t, i, words, l) IN
                 IF r.ok THEN FromReader(t, i + 1, r.rest, r.lost, Append(items, r.v)) ELSE r

\* tgReadObject: a known constructor, or a vector of objects.
ReadObject(words, l) ==
    IF words # <<>> /\ Head(words).is \in Types THEN FromReader(Head(words).is, 1, Tail(words), l, <<>>)
    ELSE IF words # <<>> /\ Head(words) = VectorId
    THEN Elements(words[2].n, "Object", SubSeq(words, 3, Len(words)), l, <<>>)
    ELSE Fails(l)

-----------------------------------------------------------------------------
\* The messages: objects without others, with an object in another and with unknown ones.
Markup(single, rows, row, ids, on) ==
    LET items == <<Number(0), Bool(single), List(rows), row, List(ids), on>>
    IN Object("Markup", [items EXCEPT ![1] = Number(FlagsOf(argsConfig.Markup, items))])

Row(inner) == Object("Row", <<Number(IF inner = Null THEN 0 ELSE 1), inner>>)

Markups ==
    LET plain   == Row(Null)
        unknown == Object(Unknown, <<>>)
        Deep(o) == Markup(FALSE, <<plain, Row(o)>>, Null, <<Number(3)>>, Null)
    IN {Markup(single, rows, row, ids, on) :
            single \in BOOLEAN, rows \in {<<>>, <<plain, plain>>}, row \in {Null, plain},
            ids \in {<<>>, <<Number(7), Number(0)>>}, on \in {Null, Bool(FALSE), Bool(TRUE)}}
       \cup {Deep(Markup(TRUE, <<plain>>, Null, <<Number(7)>>, Null)),
             Deep(Markup(FALSE, <<unknown>>, Null, <<>>, Null)),
             Markup(FALSE, <<plain, unknown>>, Null, <<Number(3)>>, Null),
             Markup(FALSE, <<>>, unknown, <<Number(3)>>, Null)}

-----------------------------------------------------------------------------
Init ==
    /\ lost = {} /\ count = 0
    /\ outcome = [call |-> "none", value |-> Null, ok |-> TRUE, result |-> Null]

\* A message arrives, as the server wrote it; the error of an unknown constructor is caught by the
\* receive loop, which goes on.
Receive(o) ==
    LET r == ReadObject(GetBytes(o, {}), lost) IN
    /\ lost' = r.lost
    /\ outcome' = [call |-> "receive", value |-> o, ok |-> r.ok, result |-> r.v]

\* An object is sent, and the server reads it.
Send(o) ==
    LET words == GetBytes(o, lost) IN
    /\ outcome' = [call |-> "send", value |-> o, ok |-> words # Threw,
                   result |-> ReadObject(words, {}).v]
    /\ UNCHANGED lost

RECURSIVE Known(_)
Known(v) == v.is # Unknown /\ \A i \in DOMAIN v.items : Known(v.items[i])

Next ==
    /\ count < MaxMessages /\ count' = count + 1
    /\ \E o \in Markups : Receive(o) \/ (Known(o) /\ Send(o))

Spec == Init /\ [][Next]_vars

-----------------------------------------------------------------------------
\* A message whose constructors are all known is read as it was written, one inside another too
\* and after others that could not be read.
ReceivedReadsBack ==
    outcome.call = "receive" =>
        /\ outcome.ok = Known(outcome.value)
        /\ outcome.ok => outcome.result = outcome.value

RECURSIVE HasField(_, _)
HasField(v, field) ==
    \/ v.is = field[1]
    \/ \E i \in DOMAIN v.items : HasField(v.items[i], field)

\* What is sent is read by the server as it is, or not sent: an object with a field that is no
\* longer a vector throws, from the first unreadable element of such a field on.
SentReadsBack ==
    outcome.call = "send" =>
        IF outcome.ok THEN outcome.result = outcome.value
        ELSE \E field \in lost : HasField(outcome.value, field)

\* Only vectors of objects are lost.
LostHoldObjects == \A field \in lost : argsConfig[field[1]][field[2]].type \in Types
=============================================================================
