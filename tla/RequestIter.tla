----------------------------- MODULE RequestIter -----------------------------
(***************************************************************************)
(* requestIter.ts: the iterator under the lists of messages, dialogs and   *)
(* members.  It gives a buffer element by element and loads the next chunk *)
(* when it comes to the end of it.  The application asks for the elements  *)
(* one at a time (for await).                                              *)
(***************************************************************************)
EXTENDS Integers, Sequences

CONSTANTS
    Unlimited,              \* Number.MAX_SAFE_INTEGER
    ChunkSize               \* _MAX_CHUNK_SIZE

RequestIterAssumption == {Unlimited, ChunkSize} \subseteq Nat \ {0}

\* A new iterator.  A limit of zero is no limit.
NewIterator(limit) ==
    [phase |-> "open", left |-> IF limit = 0 THEN Unlimited ELSE limit,
     buffer |-> <<>>, index |-> 0]

\* next() has an element, or has to load a chunk first.
HasElement(it) == it.phase = "open" /\ it.left > 0 /\ it.index < Len(it.buffer)
NeedsChunk(it) == it.phase = "open" /\ it.left > 0 /\ it.index = Len(it.buffer)
IsOver(it) == it.phase = "over" \/ (it.phase = "open" /\ it.left = 0)

Element(it) == it.buffer[it.index + 1]
Given(it) == [it EXCEPT !.left = @ - 1, !.index = @ + 1]

\* How many the next request asks for.
ChunkLimit(it) == IF it.left < ChunkSize THEN it.left ELSE ChunkSize

\* A chunk was loaded; after the last one only its elements are left.  An empty
\* chunk ends the iteration, last or not.
Loaded(it, chunk, isLast) ==
    [it EXCEPT !.buffer = chunk, !.index = 0,
               !.left = IF isLast THEN Len(chunk) ELSE @,
               !.phase = IF chunk = <<>> THEN "over" ELSE @]

=============================================================================
