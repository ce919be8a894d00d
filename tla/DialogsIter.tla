----------------------------- MODULE DialogsIter -----------------------------
(***************************************************************************)
(* _DialogsIter of client/dialogs.ts: the server gives the dialogs with the*)
(* pinned ones first and then by the date of their last message, so a      *)
(* message that comes or is deleted moves a dialog between two chunks.     *)
(*                                                                         *)
(* Left out: folders, a date to begin at and dialogs without an entity.    *)
(***************************************************************************)
EXTENDS RequestIter, FiniteSets, FiniteSetsExt, SequencesExt

CONSTANTS
    Dialogs,
    Pinned,                 \* those that are pinned
    DialogLimits,           \* bound: values of limit
    MaxDate,                \* bound: of a message
    MaxMoves                \* bound: messages that come or are deleted

DialogsIterAssumption ==
    /\ Pinned \subseteq Dialogs
    /\ {MaxDate, MaxMoves} \cup DialogLimits \subseteq Nat

VARIABLES
    date,                   \* of the last message of a dialog
    limit,
    it,
    offsetDate,             \* of messages.getDialogs, 0 at first
    excludePinned,
    seen,
    given,                  \* history: what the application got
    moved                   \* history: the dialogs that changed their place

vars == <<date, limit, it, offsetDate, excludePinned, seen, given, moved>>

ByDate(S) == SetToSortSeq(S, LAMBDA a, b : date[a] > date[b])

\* messages.getDialogs.
GetDialogs(n) ==
    LET from == {d \in Dialogs \ Pinned : offsetDate = 0 \/ date[d] < offsetDate}
        all == (IF excludePinned THEN <<>> ELSE ByDate(Pinned)) \o ByDate(from) IN
    SubSeq(all, 1, IF n < Len(all) THEN n ELSE Len(all))

\* What is pushed of an answer: a dialog that was seen is not pushed again.
Unseen(r) == SelectSeq(r, LAMBDA d : d \notin seen)

\* The next request begins at the last dialog.
NextOffset(r) == date[Last(r)]

LoadNextChunk ==
    LET n == ChunkLimit(it)
        r == GetDialogs(n)
        isLast == Len(r) < n IN
    /\ NeedsChunk(it)
    /\ it' = Loaded(it, Unseen(r), isLast)
    /\ seen' = seen \cup ToSet(r)
    /\ IF isLast THEN UNCHANGED <<offsetDate, excludePinned>>
       ELSE offsetDate' = NextOffset(r) /\ excludePinned' = TRUE
    /\ UNCHANGED <<date, limit, given, moved>>

\* The application asks for the next dialog.
Take ==
    /\ HasElement(it)
    /\ it' = Given(it) /\ given' = Append(given, Element(it))
    /\ UNCHANGED <<date, limit, offsetDate, excludePinned, seen, moved>>

\* A message comes, or the last one is deleted: the dialog has another date.
Move(d) ==
    /\ Cardinality(moved) < MaxMoves /\ d \notin moved /\ ~IsOver(it)
    /\ \E t \in 1 .. MaxDate \ {date[e] : e \in Dialogs} : date' = [date EXCEPT ![d] = t]
    /\ moved' = moved \cup {d}
    /\ UNCHANGED <<limit, it, offsetDate, excludePinned, seen, given>>

Init ==
    /\ date \in {f \in [Dialogs -> 1 .. MaxDate] : \A d, e \in Dialogs : d # e => f[d] # f[e]}
    /\ limit \in DialogLimits /\ it = NewIterator(limit)
    /\ offsetDate = 0 /\ excludePinned = FALSE /\ seen = {} /\ given = <<>> /\ moved = {}

Next == LoadNextChunk \/ Take \/ \E d \in Dialogs : Move(d)

Spec == Init /\ [][Next]_vars

-----------------------------------------------------------------------------
\* A dialog is given once, also when it moves while the application iterates.
DialogsOnce == IsInjective(given)

\* A dialog that keeps its place is not missed, unless the limit is reached, or a chunk had
\* nothing but dialogs that were seen, which ends the iteration with some of it left
\* (requestIter.ts:85).
NoDialogMissed ==
    IsOver(it) /\ it.left = 0 /\ (limit = 0 \/ Len(given) < limit)
       => Dialogs \ moved \subseteq ToSet(given)

=============================================================================
