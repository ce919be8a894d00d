------------------------------ MODULE Channels ------------------------------
(***************************************************************************)
(* The box of one channel in client/UpdateManager.ts, on PtsWaiter: pushed *)
(* updates, UpdateChannelTooLong, getChannelDifference with its retries,   *)
(* and stop and start, which forget the tracker while a fetch goes on with *)
(* it.  Updates.tla has the common box.                                    *)
(*                                                                         *)
(* An update is named by its pts and counts 1.  The account has its state, *)
(* without which nothing is compared (UpdateManager.ts:260).               *)
(***************************************************************************)
EXTENDS PtsWaiter

CONSTANTS
    StartPts,               \* the channel's pts when the client starts
    LastPts,                \* bound: and in the end
    Fetchers,               \* bound: differences in flight at once
    MaxFaults               \* bound: failed requests, too long answers, unknown channels

ASSUME ChannelsAssumption ==
    /\ {StartPts, LastPts, MaxFaults} \subseteq Nat /\ 0 < StartPts /\ StartPts <= LastPts
    /\ IsFiniteSet(Fetchers)

VARIABLES
    serverPts,              \* the channel's pts on the server
    pushes,                 \* pushed updates in flight
    running,
    tracked,                \* channels has a tracker: the waiter
    known,                  \* its inputChannel is set
    retryHandle,            \* channelFailRetryTimers has one
    retryTimers,            \* number of retry timers armed
    fetch,                  \* the calls of fetchChannelDifference
    delivered,              \* history: updates dispatched
    floor,                  \* history: a pts that was taken over without its updates
    forgotten,              \* history: what the queue held when a fetch began that failed
    skipped,                \* history: or that ended for want of the channel
    faults

recoverVars == <<known, retryHandle, retryTimers>>
netVars     == <<serverPts, pushes>>
vars == <<waiterVars, netVars, running, tracked, recoverVars, fetch, delivered, floor, forgotten,
          skipped, faults>>

Between(p, q) == (p + 1) .. q
Later(p, q) == IF p > q THEN p ELSE q

Fault == faults < MaxFaults /\ faults' = faults + 1

\* own: its tracker is still the one in channels.
Off == [phase |-> "off", own |-> FALSE, from |-> 0, upTo |-> 0, queue |-> {}]
Idle == {f \in Fetchers : fetch[f].phase = "off"}

-----------------------------------------------------------------------------
\* Pushed updates.

\* Something happens in the channel; it is pushed, or the push is lost.
Occur ==
    /\ serverPts < LastPts /\ serverPts' = serverPts + 1
    /\ pushes' \in {pushes, pushes \cup {serverPts'}}
    /\ UNCHANGED <<waiterVars, running, tracked, recoverVars, fetch, delivered, floor, forgotten,
                   skipped, faults>>

\* feedUpdate of an update of the channel: the first one begins its tracker.
FeedUpdate(e) ==
    /\ running /\ e \in pushes /\ pushes' = pushes \ {e}
    /\ \/ /\ good = 0
          /\ Reset(e) /\ tracked' = TRUE
          /\ delivered' = delivered \cup {e} /\ floor' = e
          /\ UNCHANGED <<requesting, waitingForSkipped, timer>>
       \/ /\ good > 0
          /\ UpdateAndApply(e, 1)
          /\ delivered' = delivered \cup Applied(e, 1)
          /\ UNCHANGED <<tracked, floor>>
    /\ UNCHANGED <<serverPts, running, recoverVars, fetch, forgotten, skipped, faults>>

\* onUpdates when stopped.
DropUpdate(e) ==
    /\ ~running /\ e \in pushes /\ pushes' = pushes \ {e}
    /\ UNCHANGED <<waiterVars, serverPts, running, tracked, recoverVars, fetch, delivered, floor,
                   forgotten, skipped, faults>>

\* fetchChannelDifference up to its first await, unless a retry is armed.
FetchChannelDifference(armed) ==
    IF ~tracked \/ requesting \/ good = 0 \/ armed THEN UNCHANGED <<counterVars, fetch>>
    ELSE /\ StartRequesting
         /\ \E f \in Idle : fetch' = [fetch EXCEPT ![f] =
               [phase |-> IF known THEN "asked" ELSE "resolving", own |-> TRUE,
                from |-> good, upTo |-> 0, queue |-> queue]]

\* UpdateChannelTooLong, with the pts of the server or without.
ChannelTooLong ==
    /\ running /\ Fault /\ tracked' = TRUE
    /\ \E p \in {0, serverPts} :
       \/ /\ good = 0 /\ p > 0
          /\ Reset(p) /\ floor' = p /\ UNCHANGED <<requesting, waitingForSkipped, fetch>>
       \/ /\ good > 0 /\ (p = 0 \/ good < p)
          /\ FetchChannelDifference(retryHandle) /\ UNCHANGED floor
       \/ /\ IF good = 0 THEN p = 0 ELSE p > 0 /\ p <= good
          /\ UNCHANGED <<counterVars, fetch, floor>>
    /\ UNCHANGED <<timer, netVars, running, recoverVars, delivered, forgotten, skipped>>

\* The timer of the tracker.
GapTimeout ==
    /\ timer /\ timer' = FALSE
    /\ FetchChannelDifference(retryHandle)
    /\ UNCHANGED <<netVars, running, tracked, recoverVars, delivered, floor, forgotten, skipped,
                   faults>>

\* A retry timer.
RetryTimeout ==
    /\ retryTimers > 0 /\ retryTimers' = retryTimers - 1
    /\ retryHandle' = FALSE
    /\ FetchChannelDifference(FALSE)
    /\ UNCHANGED <<timer, netVars, running, tracked, known, delivered, floor, forgotten, skipped,
                   faults>>

Start ==
    /\ ~running /\ running' = TRUE
    /\ UNCHANGED <<waiterVars, netVars, tracked, recoverVars, fetch, delivered, floor, forgotten,
                   skipped, faults>>

\* stop(): the tracker is forgotten, a fetch in flight goes on with it.
Stop ==
    /\ running /\ running' = FALSE /\ Fault
    /\ good' = 0 /\ last' = 0 /\ count' = 0 /\ requesting' = FALSE /\ waitingForSkipped' = FALSE
    /\ queue' = {} /\ timer' = FALSE /\ tracked' = FALSE /\ known' = FALSE
    /\ retryTimers' = retryTimers - (IF retryHandle THEN 1 ELSE 0) /\ retryHandle' = FALSE
    /\ fetch' = [f \in Fetchers |-> [fetch[f] EXCEPT !.own = FALSE]]
    /\ UNCHANGED <<netVars, delivered, floor, forgotten, skipped>>

-----------------------------------------------------------------------------
\* A fetch f.

\* resolveChannel found the channel.
Resolved(f) ==
    /\ fetch[f].phase = "resolving"
    /\ fetch' = [fetch EXCEPT ![f].phase = "asked"]
    /\ known' = (known \/ fetch[f].own)
    /\ UNCHANGED <<waiterVars, netVars, running, tracked, retryHandle, retryTimers, delivered,
                   floor, forgotten, skipped, faults>>

\* The finally block, of a fetch that may have an orphan for a tracker.
Ends(f) ==
    /\ fetch' = [fetch EXCEPT ![f] = Off]
    /\ requesting' = (requesting /\ ~fetch[f].own)
    /\ UNCHANGED <<waitingForSkipped, timer, netVars, running, tracked, known>>

\* resolveChannel found nothing: no retry.
Unresolved(f) ==
    /\ fetch[f].phase = "resolving" /\ Fault
    /\ Ends(f)
    /\ skipped' = skipped \cup fetch[f].queue
    /\ UNCHANGED <<good, last, count, queue, retryHandle, retryTimers, delivered, floor, forgotten>>

\* updates.getChannelDifference on the server: all there is, or a slice of it.
Answer(f) ==
    /\ fetch[f].phase = "asked"
    /\ LET all == Later(serverPts, fetch[f].from) IN
       \E p \in Between(fetch[f].from, serverPts) \cup {all} :
          fetch' = [fetch EXCEPT ![f].phase = IF p = all THEN "final" ELSE "slice", ![f].upTo = p]
    /\ UNCHANGED <<waiterVars, netVars, running, tracked, recoverVars, delivered, floor, forgotten,
                   skipped, faults>>

\* tracker.pts.init.
Initialised(f, pts) ==
    IF fetch[f].own THEN Reset(pts) ELSE UNCHANGED <<good, last, count, queue>>

\* A difference, after its entities are saved: if it is not final, the loop asks for the next.
GotDifference(f) ==
    /\ fetch[f].phase \in {"final", "slice"}
    /\ delivered' = delivered \cup Between(fetch[f].from, fetch[f].upTo)
    /\ Initialised(f, fetch[f].upTo)
    /\ IF fetch[f].phase = "final" THEN Ends(f)
       ELSE /\ fetch' = [fetch EXCEPT ![f].phase = "asked", ![f].from = fetch[f].upTo]
            /\ UNCHANGED <<requesting, waitingForSkipped, timer, netVars, running, tracked, known>>
    /\ UNCHANGED <<retryHandle, retryTimers, floor, forgotten, skipped, faults>>

\* ChannelDifferenceTooLong: the dialog says where to go on.
GotTooLong(f) ==
    /\ fetch[f].phase = "asked" /\ fetch[f].from < serverPts /\ Fault
    /\ Initialised(f, serverPts)
    /\ floor' = IF fetch[f].own THEN serverPts ELSE floor
    /\ Ends(f)
    /\ UNCHANGED <<retryHandle, retryTimers, delivered, forgotten, skipped>>

\* Mutant: a failed fetch is not retried.
RetryNever(f) == UNCHANGED <<retryHandle, retryTimers>>

Retry(f) ==
    IF running THEN retryHandle' = TRUE /\ retryTimers' = retryTimers + 1
    ELSE UNCHANGED <<retryHandle, retryTimers>>

\* Mutant: a fetch that fails has the tracker go on behind what the queue held.
GoesOnBehind(f) == Initialised(f, last)

\* A fetch that fails leaves the tracker as it is: the queue is gone, its counts are not.
GoesOn(f) == UNCHANGED <<good, last, count, queue>>

\* The request failed.
Failed(f) ==
    /\ fetch[f].phase = "asked" /\ Fault
    /\ GoesOn(f)
    /\ Ends(f) /\ Retry(f)
    /\ forgotten' = forgotten \cup fetch[f].queue
    /\ UNCHANGED <<delivered, floor, skipped>>

-----------------------------------------------------------------------------
Init ==
    /\ WaiterInit
    /\ serverPts = StartPts /\ pushes = {}
    /\ running = TRUE /\ tracked = FALSE /\ known = FALSE
    /\ retryHandle = FALSE /\ retryTimers = 0
    /\ fetch = [f \in Fetchers |-> Off]
    /\ delivered = {} /\ floor = 0 /\ forgotten = {} /\ skipped = {} /\ faults = 0

Continue(f) == Resolved(f) \/ Answer(f) \/ GotDifference(f)

Timeout == GapTimeout \/ RetryTimeout

Next ==
    \/ Occur \/ ChannelTooLong \/ Timeout \/ Start \/ Stop
    \/ \E e \in pushes : FeedUpdate(e) \/ DropUpdate(e)
    \/ \E f \in Fetchers : Continue(f) \/ Unresolved(f) \/ GotTooLong(f) \/ Failed(f)

Spec == Init /\ [][Next]_vars

\* Timers fire, requests are answered and promises run on.
FairSpec ==
    /\ Spec
    /\ WF_vars(GapTimeout) /\ WF_vars(RetryTimeout)
    /\ \A f \in Fetchers : WF_vars(Continue(f))

-----------------------------------------------------------------------------
Updates == 0 .. LastPts

\* The type invariant.
TypeOK ==
    /\ {good, last, count, retryTimers} \subseteq Nat
    /\ {requesting, waitingForSkipped, timer, running, tracked, known, retryHandle} \subseteq BOOLEAN
    /\ queue \cup pushes \cup delivered \cup forgotten \cup skipped \cup {floor} \subseteq Updates
    /\ serverPts \in StartPts .. LastPts /\ faults \in 0 .. MaxFaults
    /\ fetch \in [Fetchers -> [phase : {"off", "resolving", "asked", "final", "slice"}, own : BOOLEAN,
                               from : Updates, upTo : Updates, queue : SUBSET Updates]]

\* What the tracker has passed since it began was dispatched, but for what waited behind a gap
\* when a fetch began that then failed or did not find the channel: the queue is cleared
\* (PtsWaiter.ts:53) and the counts are not set back, unlike those of the common box
\* (UpdateManager.ts:464), so the update that fills the gap makes up for all of it.
LossIsForgotten ==
    good > 0 => \A e \in Between(floor, good) : e \in delivered \cup forgotten \cup skipped

\* What waits behind a gap is watched by the timer or a retry.
QueueIsWatched ==
    queue # {} => timer \/ retryTimers > 0

ChannelIsWatched == TypeOK /\ LossIsForgotten /\ QueueIsWatched

WaitsForGap(e) == e \in queue

\* What the end of a gap means for an update that waited: it is dispatched, skipped with its
\* channel, or made up for by the one that fills the gap, if it was forgotten.
GapClosed(e) ==
    \/ e \in delivered \cup skipped \/ e <= floor \/ ~running
    \/ e \in forgotten /\ e <= good

\* While the client runs, an update that waits behind a gap does not wait for ever
\* (UpdateManager.ts:417-443, 595-610).
GapCloses == \A e \in Between(StartPts, LastPts) : WaitsForGap(e) ~> GapClosed(e)

=============================================================================
