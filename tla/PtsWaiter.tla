----------------------------- MODULE PtsWaiter -----------------------------
(***************************************************************************)
(* client/PtsWaiter.ts: one counter of updates.  It decides for each       *)
(* pushed update whether it is the next one, a duplicate, or one behind a  *)
(* gap that has to wait in the queue.  The owner's timer, which the host   *)
(* callback onWaitForSkipped arms and clears, belongs to it here.          *)
(*                                                                         *)
(* An update is named by its pts.  The queue is a set: its order by pts is *)
(* the order of dispatch, which no property looks at.  applyingSkippedDepth*)
(* is never seen by a call, as applying does not call back, and            *)
(* waitingForShortPoll is never set.  The counter is initialised before    *)
(* its first update, so check() finds inited().                            *)
(***************************************************************************)
EXTENDS Integers, FiniteSets

VARIABLES
    good,               \* the pts up to which nothing is missing
    last,               \* the greatest pts seen
    count,              \* good plus the sizes of the updates seen since
    requesting,         \* requestingFlag: a difference is being fetched
    waitingForSkipped,
    queue,              \* the updates behind a gap
    timer               \* the owner's timer is armed

counterVars == <<good, last, count, requesting, waitingForSkipped, queue>>
waiterVars  == <<counterVars, timer>>

\* The constructor.
WaiterInit ==
    /\ good = 0 /\ last = 0 /\ count = 0
    /\ requesting = FALSE /\ waitingForSkipped = FALSE
    /\ queue = {} /\ timer = FALSE

\* init(pts).
Reset(pts) == good' = pts /\ last' = pts /\ count' = pts /\ queue' = {}

\* setRequesting(true) forgets the queue: the difference covers it.
StartRequesting ==
    /\ requesting' = TRUE /\ queue' = {}
    /\ UNCHANGED <<good, last, count, waitingForSkipped>>

Greatest(pts) == IF pts > last THEN pts ELSE last

Duplicate(pts, n) == ~requesting /\ n > 0 /\ pts <= good

\* check(): with this update nothing is missing up to the greatest pts seen.
Complete(pts, n) == Greatest(pts) = count + n

\* updated() returns true.
Accepted(pts, n) == requesting \/ (~Duplicate(pts, n) /\ Complete(pts, n))

\* What updateAndApply applies: the update, and the queue it completes.
Applied(pts, n) ==
    IF ~Accepted(pts, n) THEN {}
    ELSE {pts} \cup (IF waitingForSkipped THEN queue ELSE {})

\* The tail of updateAndApply: applySkippedUpdates stops the timer.
ApplyQueue ==
    IF waitingForSkipped /\ queue # {}
    THEN waitingForSkipped' = FALSE /\ timer' = FALSE /\ queue' = {}
    ELSE UNCHANGED <<waitingForSkipped, timer, queue>>

\* Mutant: an update behind a gap is queued and no timer is armed.
EnqueueUnwatched(pts) ==
    queue' = queue \cup {pts} /\ waitingForSkipped' = TRUE /\ UNCHANGED timer

\* check() found a gap: the timer is armed and the update is queued.
Enqueue(pts) ==
    queue' = queue \cup {pts} /\ waitingForSkipped' = TRUE /\ timer' = TRUE

\* Mutant: the greatest pts seen is good although updates are missing.
CountIgnoresGap(pts, n) ==
    /\ last' = Greatest(pts) /\ count' = count + n
    /\ good' = last'
    /\ ApplyQueue

\* updated() and check() of an update that is neither during a request nor old.
Count(pts, n) ==
    /\ last' = Greatest(pts) /\ count' = count + n
    /\ \/ Complete(pts, n) /\ good' = Greatest(pts) /\ ApplyQueue
       \/ ~Complete(pts, n) /\ UNCHANGED good /\ Enqueue(pts)

\* updateAndApply.
UpdateAndApply(pts, n) ==
    /\ UNCHANGED requesting
    /\ \/ requesting /\ ApplyQueue /\ UNCHANGED <<good, last, count>>
       \/ Duplicate(pts, n) /\ UNCHANGED waiterVars
       \/ ~requesting /\ ~Duplicate(pts, n) /\ Count(pts, n)

=============================================================================
