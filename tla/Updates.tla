------------------------------ MODULE Updates ------------------------------
(***************************************************************************)
(* The common update box of client/UpdateManager.ts, on client/PtsWaiter.ts*)
(* and driven by client/updates.ts: pushed updates, numbered containers,   *)
(* gap recovery by getDifference with its retries, catch-up, recovery of a *)
(* stale client, and stop and start.  Channels, qts and dates are left out.*)
(*                                                                         *)
(* An update is named by its pts.  The server pushes an update once or not *)
(* at all, in any order, and answers a request when it likes.  Requests    *)
(* are the awaits of the code: everything else runs to completion, which   *)
(* is an action, or several while draining is not empty.                   *)
(***************************************************************************)
EXTENDS PtsWaiter

CONSTANTS
    StartPts,           \* the account's pts when the client is created
    Events,             \* the pts of the updates to come
    PtsCount,           \* the pts_count of each
    Numbered,           \* those the server pushes in a container with a seq
    Fetchers,           \* bound: requests of the box in flight at once
    MayRestart,         \* the application may disconnect and connect again
    MaxFaults           \* bound: failed requests, too long answers, refreshes

ASSUME UpdatesAssumption ==
    /\ StartPts \in Nat \ {0} /\ MaxFaults \in Nat
    /\ IsFiniteSet(Events) /\ \A e \in Events : e \in Nat /\ e > StartPts
    /\ PtsCount \in [Events -> Nat \ {0}]
    /\ \A e \in Events : /\ e - PtsCount[e] \in {StartPts} \cup Events
                         /\ \A x \in Events : x < e => x <= e - PtsCount[e]
    /\ Numbered \subseteq Events
    /\ IsFiniteSet(Fetchers) /\ MayRestart \in BOOLEAN

VARIABLES
    serverPts,          \* the account's pts on the server
    pushes,             \* pushed updates in flight
    faults,
    running,            \* running
    hasState,           \* state is defined
    pts, seq,           \* state.pts and state.seq
    pendingSeq,         \* containers waiting for a seq gap to close
    draining,           \* the rest of the list drainPendingSeq is going through
    fetching,           \* fetchingDifference
    retryHandle,        \* failRetryTimer is set
    retryTimers,        \* number of retry timers armed
    loop,               \* the requests in flight, and what is done with them
    delivered,          \* history: updates dispatched
    floor,              \* history: a pts the code took over without its updates
    atRisk              \* history: updates jumped over while requesting, or behind a gap at stop()

stateVars   == <<hasState, pts, seq>>
recoverVars == <<fetching, retryHandle, retryTimers, pendingSeq, draining>>
history     == <<delivered, floor, atRisk>>
netVars     == <<serverPts, pushes, faults>>
vars == <<waiterVars, stateVars, recoverVars, running, loop, history, netVars>>

-----------------------------------------------------------------------------
\* The server: the seq it counts, and the updates behind a difference.

SeqAt(p) == Cardinality({e \in Numbered : e <= p})
Between(p, q) == {e \in Events : p < e /\ e <= q}

Off == [phase |-> "off", kind |-> "common", from |-> 0, answer |-> "none", upTo |-> 0]
Idle == {f \in Fetchers : loop[f].phase = "off"}

Fault == faults < MaxFaults /\ faults' = faults + 1

\* An update happens; the server pushes it, or the push is lost.
Occur ==
    /\ \E e \in Events : /\ serverPts = e - PtsCount[e] /\ serverPts' = e
                         /\ pushes' \in {pushes, pushes \cup {e}}
    /\ UNCHANGED <<waiterVars, stateVars, recoverVars, running, loop, history, faults>>

Answered(f, answer, upTo) ==
    loop' = [loop EXCEPT ![f].phase = "answered", ![f].answer = answer, ![f].upTo = upTo]

\* updates.getState and updates.getDifference on the server.
Answer(f) ==
    /\ loop[f].phase = "asked"
    /\ LET from == loop[f].from IN
       \/ loop[f].kind = "getState" /\ Answered(f, "state", serverPts)
       \/ loop[f].kind # "getState" /\ from >= serverPts /\ Answered(f, "empty", serverPts)
       \/ loop[f].kind # "getState" /\ from < serverPts /\ Answered(f, "full", serverPts)
       \/ /\ loop[f].kind # "getState"
          /\ \E p \in Between(from, serverPts) \ {serverPts} : Answered(f, "slice", p)
    /\ UNCHANGED <<waiterVars, stateVars, recoverVars, running, history, netVars>>

\* The request fails, or the server says differenceTooLong.
AnswerBadly(f) ==
    /\ loop[f].phase = "asked"
    /\ Fault
    /\ \/ Answered(f, "error", 0)
       \/ /\ loop[f].kind # "getState" /\ loop[f].from < serverPts
          /\ Answered(f, "tooLong", serverPts)
    /\ UNCHANGED <<waiterVars, stateVars, recoverVars, running, history, serverPts, pushes>>

-----------------------------------------------------------------------------
\* The client.  Nothing else of it runs while drainPendingSeq does.

Quiet == draining = {}

Ask(kind, from) == [Off EXCEPT !.phase = "asked", !.kind = kind, !.from = from]

\* fetchCommonDifference up to its first await.
FetchCommonDifference ==
    /\ fetching' = TRUE
    /\ StartRequesting
    /\ \E f \in Idle : loop' = [loop EXCEPT ![f] = Ask("common", pts)]

\* scheduleCommonDifference.
ScheduleCommonDifference ==
    IF fetching \/ retryHandle \/ ~hasState THEN UNCHANGED <<fetching, loop, counterVars>>
    ELSE FetchCommonDifference

Deliver(E) == delivered' = delivered \cup E

\* feedUpdate and handleShortMessage of an update of the common box.  Every
\* update of an applied queue sets state.pts to that of the update that came.
FeedUpdate(e) ==
    IF ~hasState
    THEN Deliver({e}) /\ UNCHANGED <<waiterVars, pts, atRisk>>
    ELSE /\ UpdateAndApply(e, PtsCount[e])
         /\ Deliver(Applied(e, PtsCount[e]))
         /\ pts' = IF Accepted(e, PtsCount[e]) THEN e ELSE pts
         /\ atRisk' = atRisk \cup IF requesting THEN Between(pts, e) \ {e} ELSE {}

\* onUpdates when stopped.
ReceiveStopped(e) ==
    /\ Quiet /\ ~running
    /\ e \in pushes /\ pushes' = pushes \ {e}
    /\ UNCHANGED <<waiterVars, stateVars, recoverVars, running, loop, history, serverPts, faults>>

\* onUpdates of an update without seq, or when there is no state to compare.
ReceiveUpdate(e) ==
    /\ Quiet /\ running
    /\ e \in pushes /\ pushes' = pushes \ {e}
    /\ e \notin Numbered \/ ~hasState
    /\ FeedUpdate(e)
    /\ UNCHANGED <<hasState, seq, recoverVars, running, loop, floor, serverPts, faults>>

\* handleContainer of the container that is next.
ReceiveNext(e) ==
    /\ Quiet /\ running /\ hasState
    /\ e \in pushes \cap Numbered /\ pushes' = pushes \ {e}
    /\ seq + 1 = SeqAt(e)
    /\ seq' = SeqAt(e)
    /\ FeedUpdate(e)
    /\ UNCHANGED <<hasState, recoverVars, running, loop, floor, serverPts, faults>>

\* handleContainer of a container whose seq was passed.
ReceiveOld(e) ==
    /\ Quiet /\ running /\ hasState
    /\ e \in pushes \cap Numbered /\ pushes' = pushes \ {e}
    /\ seq + 1 > SeqAt(e)
    /\ UNCHANGED <<waiterVars, stateVars, recoverVars, running, loop, history, serverPts, faults>>

\* handleContainer of a container behind a seq gap.
ReceiveEarly(e) ==
    /\ Quiet /\ running /\ hasState
    /\ e \in pushes \cap Numbered /\ pushes' = pushes \ {e}
    /\ seq + 1 < SeqAt(e)
    /\ pendingSeq' = pendingSeq \cup {e}
    /\ ScheduleCommonDifference
    /\ UNCHANGED <<timer, stateVars, retryHandle, retryTimers, draining, running, history,
                   serverPts, faults>>

\* onUpdates of UpdatesTooLong.
ReceiveTooLong ==
    /\ Quiet /\ running
    /\ Fault
    /\ ScheduleCommonDifference
    /\ UNCHANGED <<timer, stateVars, pendingSeq, retryHandle, retryTimers, draining, running,
                   history, serverPts, pushes>>

\* The timer of the waiter.
GapTimeout ==
    /\ Quiet /\ timer
    /\ timer' = FALSE
    /\ ScheduleCommonDifference
    /\ UNCHANGED <<stateVars, pendingSeq, retryHandle, retryTimers, draining, running, history,
                   netVars>>

\* Mutant: the handle of a retry timer that fired is not unset.
RetryFiredKeepsHandle == retryTimers' = retryTimers - 1 /\ UNCHANGED retryHandle

RetryFired == retryTimers' = retryTimers - 1 /\ retryHandle' = FALSE

\* A retry timer.
RetryTimeout ==
    /\ Quiet /\ retryTimers > 0
    /\ RetryFired
    /\ IF fetching \/ ~hasState THEN UNCHANGED <<fetching, loop, counterVars>>
       ELSE FetchCommonDifference
    /\ UNCHANGED <<timer, stateVars, pendingSeq, draining, running, history, netVars>>

\* A request other than the recovery's starts, if one may still start beside it.
Begin(kind, from) ==
    /\ Cardinality(Idle) > 1
    /\ \E f \in Idle : loop' = [loop EXCEPT ![f] = Ask(kind, from)]

\* catchUp, called by the application, and recoverIfStale of the update loop: a
\* difference, or for catchUp the state if there is none.
CatchUp ==
    /\ Quiet
    /\ IF hasState THEN Begin("catchUp", pts) ELSE Begin("getState", 0)
    /\ UNCHANGED <<waiterVars, stateVars, recoverVars, running, history, netVars>>

\* The update loop asks for the state after half an hour without a request.
RefreshState ==
    /\ Quiet /\ running
    /\ Fault
    /\ Begin("getState", 0)
    /\ UNCHANGED <<waiterVars, stateVars, recoverVars, running, history, serverPts, pushes>>

\* start() and ensureState() of a new update loop.
Start ==
    /\ Quiet /\ ~running
    /\ running' = TRUE
    /\ IF hasState THEN UNCHANGED loop ELSE Begin("getState", 0)
    /\ UNCHANGED <<waiterVars, stateVars, recoverVars, history, netVars>>

\* stop(): the requests in flight go on.
Stop ==
    /\ MayRestart /\ Quiet /\ running
    /\ running' = FALSE
    /\ requesting' = FALSE /\ queue' = {} /\ timer' = FALSE
    /\ fetching' = FALSE /\ pendingSeq' = {}
    /\ retryTimers' = retryTimers - (IF retryHandle THEN 1 ELSE 0) /\ retryHandle' = FALSE
    /\ atRisk' = atRisk \cup Between(good, last)
    /\ UNCHANGED <<good, last, count, waitingForSkipped, stateVars, draining, loop, delivered,
                   floor, netVars>>

-----------------------------------------------------------------------------
\* What the client does with an answer.

Got(f, answers) == Quiet /\ loop[f].phase = "answered" /\ loop[f].answer \in answers

Later(p, q) == IF p > q THEN p ELSE q

\* updates.getState returned: the state is replaced and the waiter starts there.
GotState(f) ==
    /\ Got(f, {"state"})
    /\ hasState' = TRUE /\ pts' = loop[f].upTo /\ seq' = SeqAt(loop[f].upTo)
    /\ Reset(loop[f].upTo)
    /\ floor' = Later(loop[f].upTo, floor)
    /\ loop' = [loop EXCEPT ![f] = Off]
    /\ UNCHANGED <<requesting, waitingForSkipped, timer, recoverVars, running, delivered, atRisk,
                   netVars>>

\* fetchDifferenceLoop ends: fetchCommonDifference has its finally block to
\* run, the others are over.
LoopReturns(f) ==
    loop' = [loop EXCEPT ![f] = IF @.kind = "common" THEN [@ EXCEPT !.phase = "ended"] ELSE Off]

\* DifferenceEmpty and DifferenceTooLong.
GotNothing(f) ==
    /\ Got(f, {"empty", "tooLong"})
    /\ IF loop[f].answer = "empty"
       THEN seq' = SeqAt(loop[f].upTo) /\ UNCHANGED <<pts, floor>>
       ELSE pts' = loop[f].upTo /\ floor' = Later(loop[f].upTo, floor) /\ UNCHANGED seq
    /\ LoopReturns(f)
    /\ UNCHANGED <<waiterVars, hasState, recoverVars, running, delivered, atRisk, netVars>>

\* processDifference, after the entities are saved.
ProcessDifference(f) ==
    /\ Got(f, {"full", "slice"})
    /\ Deliver(Between(loop[f].from, loop[f].upTo))
    /\ loop' = [loop EXCEPT ![f].phase = "processed"]
    /\ UNCHANGED <<waiterVars, stateVars, recoverVars, running, floor, atRisk, netVars>>

\* The state of the difference replaces state; after a slice the loop goes on from it.
TakeState(f) ==
    /\ Quiet /\ loop[f].phase = "processed"
    /\ pts' = loop[f].upTo /\ seq' = SeqAt(loop[f].upTo)
    /\ IF loop[f].answer = "full" THEN LoopReturns(f)
       ELSE loop' = [loop EXCEPT ![f] = Ask(loop[f].kind, loop[f].upTo)]
    /\ UNCHANGED <<waiterVars, hasState, recoverVars, running, delivered, floor, atRisk,
                   netVars>>

\* A request failed: fetchCommonDifference has its finally block to run, the
\* others give up.
GotError(f) ==
    /\ Got(f, {"error"})
    /\ LoopReturns(f)
    /\ UNCHANGED <<waiterVars, stateVars, recoverVars, running, history, netVars>>

\* Mutant: a failed fetch is not retried.
RetryNever(f) == UNCHANGED <<retryHandle, retryTimers>>

\* fetchCommonDifference after a failure arms a retry timer.
Retry(f) ==
    IF loop[f].answer = "error" /\ running
    THEN retryHandle' = TRUE /\ retryTimers' = retryTimers + 1
    ELSE UNCHANGED <<retryHandle, retryTimers>>

\* The finally block of fetchCommonDifference, up to the loop of drainPendingSeq.
FinishCommonDifference(f) ==
    /\ Quiet /\ loop[f].phase = "ended"
    /\ requesting' = FALSE
    /\ Reset(pts)
    /\ fetching' = FALSE
    /\ draining' = pendingSeq /\ pendingSeq' = {}
    /\ Retry(f)
    /\ loop' = [loop EXCEPT ![f] = Off]
    /\ UNCHANGED <<waitingForSkipped, timer, stateVars, running, history, netVars>>

\* One container of drainPendingSeq: onUpdates if it is next, dropped otherwise.
DrainPendingSeq ==
    /\ draining # {}
    /\ \E e \in draining :
       /\ \A x \in draining : e <= x
       /\ draining' = draining \ {e}
       /\ \/ /\ seq + 1 = SeqAt(e) /\ running
             /\ seq' = SeqAt(e)
             /\ FeedUpdate(e)
          \/ /\ seq + 1 # SeqAt(e) \/ ~running
             /\ UNCHANGED <<waiterVars, pts, seq, delivered, atRisk>>
    /\ UNCHANGED <<hasState, fetching, retryHandle, retryTimers, pendingSeq, running, loop, floor,
                   netVars>>

-----------------------------------------------------------------------------
Init ==
    /\ WaiterInit
    /\ serverPts = StartPts /\ pushes = {} /\ faults = 0
    /\ running = FALSE /\ hasState = FALSE /\ pts = 0 /\ seq = 0
    /\ pendingSeq = {} /\ draining = {}
    /\ fetching = FALSE /\ retryHandle = FALSE /\ retryTimers = 0
    /\ loop = [f \in Fetchers |-> Off]
    /\ delivered = {} /\ floor = StartPts /\ atRisk = {}

Continue(f) ==
    GotState(f) \/ GotNothing(f) \/ ProcessDifference(f) \/ TakeState(f) \/ GotError(f)
    \/ FinishCommonDifference(f)

Receive(e) ==
    ReceiveStopped(e) \/ ReceiveUpdate(e) \/ ReceiveNext(e) \/ ReceiveOld(e) \/ ReceiveEarly(e)

Next ==
    \/ Occur \/ ReceiveTooLong
    \/ GapTimeout \/ RetryTimeout
    \/ CatchUp \/ RefreshState
    \/ Start \/ Stop \/ DrainPendingSeq
    \/ \E e \in Events : Receive(e)
    \/ \E f \in Fetchers : Answer(f) \/ AnswerBadly(f) \/ Continue(f)

Spec == Init /\ [][Next]_vars

\* Timers fire, requests are answered and promises run on.
FairSpec ==
    /\ Spec
    /\ WF_vars(GapTimeout) /\ WF_vars(RetryTimeout) /\ WF_vars(DrainPendingSeq)
    /\ \A f \in Fetchers : WF_vars(Answer(f)) /\ WF_vars(Continue(f))

-----------------------------------------------------------------------------
Loops == [phase  : {"off", "asked", "answered", "processed", "ended"},
          kind   : {"common", "catchUp", "getState"},
          answer : {"none", "state", "empty", "full", "slice", "tooLong", "error"},
          from   : Nat,
          upTo   : Nat]

\* The type invariant.
TypeOK ==
    /\ {good, last, count, pts, seq, retryTimers, floor} \subseteq Nat
    /\ {requesting, waitingForSkipped, timer, running, hasState, fetching, retryHandle} \subseteq BOOLEAN
    /\ queue \cup pushes \cup pendingSeq \cup draining \cup delivered \cup atRisk \subseteq Events
    /\ serverPts \in {StartPts} \cup Events
    /\ faults \in 0..MaxFaults
    /\ loop \in [Fetchers -> Loops]

\* Between pts and what was taken over without its updates, every update was
\* dispatched, except those the code puts at risk: pushed updates applied during
\* a fetch (PtsWaiter.updated) jump over what is missing, and stop() forgets
\* the updates behind a gap, or the fetch that replaced them, but not that they
\* were counted.
LossIsAtRisk ==
    hasState => \A e \in Between(floor, Later(pts, good)) : e \in delivered \cup atRisk

\* fetchCommonDifference is under way.
CommonRuns == \E f \in Fetchers : loop[f].phase # "off" /\ loop[f].kind = "common"

\* What waits for a gap to close is waited for: an update by the timer, a
\* retry or a fetch, a container by a retry or a fetch.
RecoveryScheduled ==
    /\ queue # {} => timer \/ retryTimers > 0 \/ CommonRuns
    /\ pendingSeq # {} => retryTimers > 0 \/ CommonRuns

\* While the client runs, an update that waits behind a gap is dispatched in the
\* end, through failed differences too, or was at risk.
GapCloses ==
    \A e \in Events : e \in queue ~> e <= floor \/ e \in delivered \cup atRisk \/ ~running

=============================================================================
