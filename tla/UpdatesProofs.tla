--------------------------- MODULE UpdatesProofs ---------------------------
(***************************************************************************)
(* Proofs about Updates: its type invariant, that a gap which waits to     *)
(* close is always watched, and that no update is lost that is not put at  *)
(* risk.  The waiter compares sums of pts_count and not the updates: the   *)
(* last proof shows that the sum of what was counted since the last good   *)
(* pts tells which updates were, because each fills the pts between it and *)
(* the one before and is counted once.                                     *)
(***************************************************************************)
EXTENDS Updates, FiniteSetTheorems, TLAPS

USE UpdatesAssumption

\* The seq of a pts is a number.
LEMMA SeqType == \A p : SeqAt(p) \in Nat
<1> SUFFICES ASSUME NEW p PROVE SeqAt(p) \in Nat OBVIOUS
<1>1. {e \in Numbered : e <= p} \subseteq Events OBVIOUS
<1>2. IsFiniteSet({e \in Numbered : e <= p}) BY <1>1, FS_Subset
<1> QED BY <1>2, FS_CardinalityType DEF SeqAt

\* updateAndApply keeps the types of the waiter's variables, applies updates
\* only, and leaves a queue only behind an armed timer.
LEMMA WaiterType ==
    ASSUME TypeOK, NEW e \in Events, UpdateAndApply(e, PtsCount[e])
    PROVE  /\ {good', last', count'} \subseteq Nat
           /\ {requesting', waitingForSkipped', timer'} \subseteq BOOLEAN
           /\ queue' \subseteq Events
           /\ Applied(e, PtsCount[e]) \subseteq Events
           /\ queue' = {} \/ timer' \/ (queue' = queue /\ timer' = timer)
<1>1. Greatest(e) \in Nat BY DEF Greatest, TypeOK
<1>2. PtsCount[e] \in Nat /\ count + PtsCount[e] \in Nat BY DEF TypeOK
<1>3. Applied(e, PtsCount[e]) \subseteq Events BY DEF Applied, TypeOK
<1>4. CASE requesting /\ ApplyQueue /\ UNCHANGED <<good, last, count, requesting>>
  BY <1>3, <1>4 DEF ApplyQueue, TypeOK
<1>5. CASE UNCHANGED waiterVars
  BY <1>3, <1>5 DEF waiterVars, counterVars, TypeOK
<1>6. CASE Count(e, PtsCount[e]) /\ UNCHANGED requesting
  BY <1>1, <1>2, <1>3, <1>6 DEF Count, ApplyQueue, Enqueue, TypeOK
<1> QED BY <1>4, <1>5, <1>6 DEF UpdateAndApply

\* feedUpdate likewise.
LEMMA FeedType ==
    ASSUME TypeOK, NEW e \in Events, FeedUpdate(e)
    PROVE  /\ {good', last', count', pts'} \subseteq Nat
           /\ {requesting', waitingForSkipped', timer'} \subseteq BOOLEAN
           /\ queue' \cup delivered' \cup atRisk' \subseteq Events
           /\ queue' = {} \/ timer' \/ (queue' = queue /\ timer' = timer)
           /\ hasState \/ queue' = queue
<1>1. CASE ~hasState BY <1>1 DEF FeedUpdate, Deliver, waiterVars, counterVars, TypeOK
<1>2. CASE hasState
  <2>1. UpdateAndApply(e, PtsCount[e]) BY <1>2 DEF FeedUpdate
  <2>2. pts' \in Nat BY <1>2 DEF FeedUpdate, TypeOK
  <2>3. delivered' \subseteq Events BY <1>2, <2>1, WaiterType DEF FeedUpdate, Deliver, TypeOK
  <2>4. atRisk' \subseteq Events BY <1>2 DEF FeedUpdate, Between, TypeOK
  <2> QED BY <1>2, <2>1, <2>2, <2>3, <2>4, WaiterType DEF TypeOK
<1> QED BY <1>1, <1>2

\* The loop variable keeps its type whatever is done with one request.
LEMMA LoopType ==
    ASSUME TypeOK, NEW f \in Fetchers, NEW r \in Loops, loop' = [loop EXCEPT ![f] = r]
    PROVE  loop' \in [Fetchers -> Loops]
BY DEF TypeOK

\* A new request is one.
LEMMA AskType ==
    ASSUME NEW kind \in {"common", "catchUp", "getState"}, NEW from \in Nat
    PROVE  Ask(kind, from) \in Loops /\ Off \in Loops
BY DEF Ask, Off, Loops

\* scheduleCommonDifference keeps the types.
LEMMA FetchType ==
    ASSUME TypeOK, FetchCommonDifference \/ UNCHANGED <<fetching, loop, counterVars>>
    PROVE  /\ {good', last', count'} \subseteq Nat
           /\ {requesting', waitingForSkipped', fetching'} \subseteq BOOLEAN
           /\ queue' \subseteq Events
           /\ loop' \in [Fetchers -> Loops]
<1>1. CASE UNCHANGED <<fetching, loop, counterVars>> BY <1>1 DEF counterVars, TypeOK
<1>2. CASE FetchCommonDifference
  <2>1. PICK f \in Fetchers : loop' = [loop EXCEPT ![f] = Ask("common", pts)]
    BY <1>2 DEF FetchCommonDifference, Idle
  <2>2. loop' \in [Fetchers -> Loops] BY <2>1, AskType, LoopType DEF TypeOK
  <2> QED BY <1>2, <2>2 DEF FetchCommonDifference, StartRequesting, TypeOK
<1> QED BY <1>1, <1>2

\* Starting another request keeps the type of loop.
LEMMA BeginType ==
    ASSUME TypeOK, NEW kind \in {"common", "catchUp", "getState"}, NEW from \in Nat,
           Begin(kind, from)
    PROVE  loop' \in [Fetchers -> Loops]
<1>1. PICK f \in Fetchers : loop' = [loop EXCEPT ![f] = Ask(kind, from)] BY DEF Begin, Idle
<1> QED BY <1>1, AskType, LoopType

\* The end of a difference loop keeps the type of loop.
LEMMA ReturnType ==
    ASSUME TypeOK, NEW f \in Fetchers, LoopReturns(f)
    PROVE  loop' \in [Fetchers -> Loops]
<1>1. loop[f] \in Loops BY DEF TypeOK
<1>2. [loop[f] EXCEPT !.phase = "ended"] \in Loops BY <1>1 DEF Loops
<1>3. Off \in Loops BY AskType
<1> QED BY <1>2, <1>3, LoopType DEF LoopReturns, TypeOK

\* A retry timer is armed while the handle is set: stop() cancels one.
HandleArmed == retryHandle => retryTimers > 0

\* The constructor's values have their types.
LEMMA InitType == Init => TypeOK /\ HandleArmed
<1> SUFFICES ASSUME Init PROVE TypeOK /\ HandleArmed OBVIOUS
<1>1. Off \in Loops BY AskType
<1>2. loop \in [Fetchers -> Loops] BY <1>1 DEF Init
<1>3. StartPts \in Nat /\ MaxFaults \in Nat OBVIOUS
<1>4. {good, last, count, pts, seq, retryTimers, floor} \subseteq Nat BY <1>3 DEF Init, WaiterInit
<1>5. faults \in 0..MaxFaults BY <1>3 DEF Init
<1>6. queue \cup pushes \cup pendingSeq \cup draining \cup delivered \cup atRisk \subseteq Events
  BY DEF Init, WaiterInit
<1> QED BY <1>2, <1>4, <1>5, <1>6 DEF Init, WaiterInit, TypeOK, HandleArmed

\* Every step keeps the types.
LEMMA TypeStep == TypeOK /\ HandleArmed /\ [Next]_vars => TypeOK'
<1> SUFFICES ASSUME TypeOK, HandleArmed, [Next]_vars PROVE TypeOK' OBVIOUS
<1>1. CASE Occur
  BY <1>1 DEF Occur, TypeOK, waiterVars, counterVars, stateVars, recoverVars, history
<1>2. CASE ReceiveTooLong
  BY <1>2, FetchType DEF ReceiveTooLong, ScheduleCommonDifference, Fault, TypeOK, stateVars, history
<1>3. CASE GapTimeout
  BY <1>3, FetchType DEF GapTimeout, ScheduleCommonDifference, TypeOK, stateVars, history, netVars
<1>4. CASE RetryTimeout
  <2>1. FetchCommonDifference \/ UNCHANGED <<fetching, loop, counterVars>> BY <1>4 DEF RetryTimeout
  <2>2. retryTimers' \in Nat /\ retryHandle' \in BOOLEAN
    <3>1. retryTimers \in Nat /\ retryTimers > 0 BY <1>4 DEF RetryTimeout, TypeOK
    <3>2. retryTimers' = retryTimers - 1 /\ retryHandle' = FALSE BY <1>4 DEF RetryTimeout, RetryFired
    <3>3. retryTimers - 1 \in Nat BY <3>1
    <3> QED BY <3>2, <3>3
  <2> QED BY <1>4, <2>1, <2>2, FetchType DEF RetryTimeout, TypeOK, stateVars, history, netVars
<1>5. CASE CatchUp
  <2>1. loop' \in [Fetchers -> Loops] BY <1>5, BeginType DEF CatchUp, TypeOK
  <2> QED BY <1>5, <2>1
      DEF CatchUp, TypeOK, waiterVars, counterVars, stateVars, recoverVars, history, netVars
<1>6. CASE RefreshState
  <2>1. loop' \in [Fetchers -> Loops] BY <1>6, BeginType DEF RefreshState
  <2> QED BY <1>6, <2>1
      DEF RefreshState, Fault, TypeOK, waiterVars, counterVars, stateVars, recoverVars, history
<1>7. CASE Start
  <2>1. loop' \in [Fetchers -> Loops] BY <1>7, BeginType DEF Start, TypeOK
  <2> QED BY <1>7, <2>1
      DEF Start, TypeOK, waiterVars, counterVars, stateVars, recoverVars, history, netVars
<1>8. CASE Stop
  <2>1. retryTimers' \in Nat
    <3>1. retryTimers \in Nat /\ (retryHandle => retryTimers > 0) BY DEF TypeOK, HandleArmed
    <3> QED BY <1>8, <3>1 DEF Stop
  <2>2. atRisk' \subseteq Events BY <1>8 DEF Stop, Between, TypeOK
  <2> QED BY <1>8, <2>1, <2>2, ZenonT(30) DEF Stop, TypeOK, stateVars, netVars
<1>9. CASE DrainPendingSeq
  <2>1. PICK e \in Events : \/ seq' = SeqAt(e) /\ FeedUpdate(e)
                            \/ UNCHANGED <<waiterVars, pts, seq, delivered, atRisk>>
    BY <1>9 DEF DrainPendingSeq, TypeOK
  <2>2. draining' \subseteq Events BY <1>9 DEF DrainPendingSeq, TypeOK
  <2>3. CASE seq' = SeqAt(e) /\ FeedUpdate(e)
    BY <1>9, <2>2, <2>3, FeedType, SeqType DEF DrainPendingSeq, TypeOK, netVars
  <2>4. CASE UNCHANGED <<waiterVars, pts, seq, delivered, atRisk>>
    BY <1>9, <2>2, <2>4 DEF DrainPendingSeq, TypeOK, netVars, waiterVars, counterVars
  <2> QED BY <2>1, <2>3, <2>4
<1>10. ASSUME NEW e \in Events, Receive(e) PROVE TypeOK'
  <2>1. CASE ReceiveStopped(e) \/ ReceiveOld(e)
    BY <2>1 DEF ReceiveStopped, ReceiveOld, TypeOK, waiterVars, counterVars, stateVars, recoverVars,
                history
  <2>2. CASE ReceiveUpdate(e)
    BY <2>2, FeedType DEF ReceiveUpdate, TypeOK, recoverVars
  <2>3. CASE ReceiveNext(e)
    BY <2>3, FeedType, SeqType DEF ReceiveNext, TypeOK, recoverVars
  <2>4. CASE ReceiveEarly(e)
    BY <2>4, FetchType DEF ReceiveEarly, ScheduleCommonDifference, TypeOK, stateVars, history
  <2> QED BY <1>10, <2>1, <2>2, <2>3, <2>4 DEF Receive
<1>11. ASSUME NEW f \in Fetchers, Answer(f) \/ AnswerBadly(f) PROVE TypeOK'
  <2>1. PICK answer \in {"state", "empty", "full", "slice", "tooLong", "error"}, upTo \in Nat :
            Answered(f, answer, upTo)
    BY <1>11 DEF Answer, AnswerBadly, Between, TypeOK
  <2>2. loop[f] \in Loops BY DEF TypeOK
  <2>3. [loop[f] EXCEPT !.phase = "answered", !.answer = answer, !.upTo = upTo] \in Loops
    BY <2>2 DEF Loops
  <2>4. loop' \in [Fetchers -> Loops] BY <2>1, <2>3, LoopType DEF Answered, TypeOK
  <2> QED BY <1>11, <2>4
      DEF Answer, AnswerBadly, Fault, TypeOK, waiterVars, counterVars, stateVars, recoverVars, history,
          netVars
<1>12. ASSUME NEW f \in Fetchers, Continue(f) PROVE TypeOK'
  <2> DEFINE p == loop[f].upTo
  <2>1. loop[f] \in Loops /\ p \in Nat /\ loop[f].kind \in {"common", "catchUp", "getState"}
    BY DEF TypeOK, Loops
  <2>2. Off \in Loops /\ Later(p, floor) \in Nat BY <2>1, AskType DEF Later, TypeOK
  <2>3. LoopReturns(f) => loop' \in [Fetchers -> Loops] BY ReturnType
  <2>4. CASE GotState(f)
    <3>1. loop' \in [Fetchers -> Loops] BY <2>2, <2>4, LoopType DEF GotState
    <3> QED BY <2>1, <2>2, <2>4, <3>1, SeqType DEF GotState, Reset, TypeOK, recoverVars, netVars
  <2>5. CASE GotNothing(f)
    <3>1. {pts', seq', floor'} \subseteq Nat BY <2>1, <2>2, <2>5, SeqType DEF GotNothing, TypeOK
    <3> QED BY <2>3, <2>5, <3>1
        DEF GotNothing, TypeOK, waiterVars, counterVars, recoverVars, netVars
  <2>6. CASE ProcessDifference(f)
    <3>1. [loop[f] EXCEPT !.phase = "processed"] \in Loops BY <2>1 DEF Loops
    <3>2. loop' \in [Fetchers -> Loops] BY <2>6, <3>1, LoopType DEF ProcessDifference
    <3> QED BY <2>6, <3>2
        DEF ProcessDifference, Deliver, Between, TypeOK, waiterVars, counterVars, stateVars,
            recoverVars, netVars
  <2>7. CASE TakeState(f)
    <3>1. Ask(loop[f].kind, p) \in Loops BY <2>1, AskType
    <3>2. loop' \in [Fetchers -> Loops] BY <2>3, <2>7, <3>1, LoopType DEF TakeState
    <3> QED BY <2>1, <2>7, <3>2, SeqType
        DEF TakeState, TypeOK, waiterVars, counterVars, recoverVars, netVars
  <2>8. CASE GotError(f)
    BY <2>3, <2>8
    DEF GotError, TypeOK, waiterVars, counterVars, stateVars, recoverVars, history, netVars
  <2>9. CASE FinishCommonDifference(f)
    <3>1. loop' \in [Fetchers -> Loops] BY <2>2, <2>9, LoopType DEF FinishCommonDifference
    <3>2. retryTimers' \in Nat /\ retryHandle' \in BOOLEAN
      <4>1. retryTimers \in Nat /\ retryHandle \in BOOLEAN BY DEF TypeOK
      <4>2. \/ retryHandle' = TRUE /\ retryTimers' = retryTimers + 1
            \/ retryHandle' = retryHandle /\ retryTimers' = retryTimers
        BY <2>9 DEF FinishCommonDifference, Retry
      <4>3. retryHandle' \in BOOLEAN BY <4>1, <4>2, Zenon
      <4>4. retryTimers' \in Nat BY <4>1, <4>2
      <4> QED BY <4>3, <4>4
    <3> QED BY <2>9, <3>1, <3>2
        DEF FinishCommonDifference, Reset, TypeOK, stateVars, history, netVars
  <2> QED BY <1>12, <2>4, <2>5, <2>6, <2>7, <2>8, <2>9 DEF Continue
<1>13. CASE UNCHANGED vars
  BY <1>13 DEF vars, TypeOK, waiterVars, counterVars, stateVars, recoverVars, history, netVars
<1> QED BY <1>1, <1>2, <1>3, <1>4, <1>5, <1>6, <1>7, <1>8, <1>9, <1>10, <1>11, <1>12, <1>13 DEF Next

-----------------------------------------------------------------------------
(* What waits is watched *)

\* The inductive strengthening of RecoveryScheduled: the flag fetchingDifference
\* and the handle of the retry timer, which make scheduleCommonDifference do
\* nothing, are set only while a fetch or a retry is there; nothing waits before
\* there is a state; and a fetch never ends as a getState does.
WatchInv ==
    /\ RecoveryScheduled
    /\ HandleArmed
    /\ fetching => CommonRuns
    /\ ~hasState => queue = {} /\ pendingSeq = {}
    /\ \A f \in Fetchers : loop[f].phase = "answered" /\ loop[f].answer = "state"
                          => loop[f].kind = "getState"

\* CommonRuns of the next state, from the entry that is a fetch in it.
LEMMA RunsOn ==
    ASSUME NEW f \in Fetchers, loop'[f].phase # "off", loop'[f].kind = "common"
    PROVE  CommonRuns'
BY DEF CommonRuns

\* Only the end of a fetch takes it away: an entry that keeps running keeps its kind.
LEMMA RunsStill ==
    ASSUME CommonRuns,
           \A g \in Fetchers : loop[g].phase # "off" /\ loop[g].kind = "common"
                               => loop'[g].phase # "off" /\ loop'[g].kind = "common"
    PROVE  CommonRuns'
BY DEF CommonRuns

\* A fetch that starts in an idle place takes none away, is under way, and is not
\* answered; the same holds of any other request, but it is no fetch.
LEMMA AskWatch ==
    ASSUME TypeOK, WatchInv, NEW kind, NEW from, NEW f \in Idle,
           loop' = [loop EXCEPT ![f] = Ask(kind, from)]
    PROVE  /\ CommonRuns => CommonRuns'
           /\ kind = "common" => CommonRuns'
           /\ \A g \in Fetchers : loop'[g].phase = "answered" /\ loop'[g].answer = "state"
                                  => loop'[g].kind = "getState"
<1>1. f \in Fetchers /\ loop[f].phase = "off" BY DEF Idle
<1>2. loop'[f] = Ask(kind, from) /\ \A g \in Fetchers \ {f} : loop'[g] = loop[g] BY <1>1 DEF TypeOK
<1>3. Ask(kind, from).phase = "asked" /\ Ask(kind, from).kind = kind BY DEF Ask, Off
<1>4. CommonRuns => CommonRuns' BY <1>1, <1>2, RunsStill
<1>5. kind = "common" => CommonRuns' BY <1>1, <1>2, <1>3, RunsOn
<1> QED BY <1>2, <1>3, <1>4, <1>5 DEF WatchInv

\* scheduleCommonDifference, and what it depends on.
LEMMA ScheduleWatch ==
    ASSUME TypeOK, WatchInv,
           \/ FetchCommonDifference
           \/ UNCHANGED <<fetching, loop, counterVars>>
    PROVE  /\ CommonRuns => CommonRuns'
           /\ fetching' => CommonRuns'
           /\ FetchCommonDifference => CommonRuns'
           /\ queue' = {} \/ queue' = queue
           /\ \A g \in Fetchers : loop'[g].phase = "answered" /\ loop'[g].answer = "state"
                                  => loop'[g].kind = "getState"
<1>1. CASE UNCHANGED <<fetching, loop, counterVars>> /\ ~FetchCommonDifference
  BY <1>1 DEF counterVars, WatchInv, CommonRuns
<1>2. CASE FetchCommonDifference
  <2>1. PICK f \in Idle : loop' = [loop EXCEPT ![f] = Ask("common", pts)]
    BY <1>2 DEF FetchCommonDifference
  <2> QED BY <1>2, <2>1, AskWatch DEF FetchCommonDifference, StartRequesting
<1> QED BY <1>1, <1>2

\* A step of one request that is not over, and does not become an answered state.
LEMMA KeepWatch ==
    ASSUME TypeOK, WatchInv, NEW f \in Fetchers, NEW r, loop' = [loop EXCEPT ![f] = r],
           loop[f].kind = "common" /\ loop[f].phase # "off" => r.phase # "off" /\ r.kind = "common",
           r.phase = "answered" /\ r.answer = "state" => r.kind = "getState"
    PROVE  /\ CommonRuns => CommonRuns'
           /\ \A g \in Fetchers : loop'[g].phase = "answered" /\ loop'[g].answer = "state"
                                  => loop'[g].kind = "getState"
<1>1. loop'[f] = r /\ \A g \in Fetchers \ {f} : loop'[g] = loop[g] BY DEF TypeOK
<1>2. CommonRuns => CommonRuns' BY <1>1, RunsStill
<1> QED BY <1>1, <1>2 DEF WatchInv

\* Nothing waits when the client is created.
LEMMA InitWatch == Init => WatchInv
BY DEF Init, WaiterInit, WatchInv, RecoveryScheduled, HandleArmed, CommonRuns, Off

\* Every step keeps what waits watched.
LEMMA WatchStep == TypeOK /\ WatchInv /\ [Next]_vars => WatchInv'
<1> SUFFICES ASSUME TypeOK, WatchInv, [Next]_vars PROVE WatchInv' OBVIOUS
<1> DEFINE States == \A g \in Fetchers : loop[g].phase = "answered" /\ loop[g].answer = "state"
                                        => loop[g].kind = "getState"
<1>0. retryTimers \in Nat BY DEF TypeOK
<1>1. ASSUME UNCHANGED <<loop, fetching, retryHandle, retryTimers, pendingSeq, hasState>>,
             queue' = {} \/ timer' \/ (queue' = queue /\ timer' = timer),
             hasState \/ queue' = queue
      PROVE  WatchInv'
  BY <1>1 DEF WatchInv, RecoveryScheduled, HandleArmed, CommonRuns
<1>2. CASE Occur \/ UNCHANGED vars
  BY <1>1, <1>2 DEF Occur, vars, waiterVars, counterVars, stateVars, recoverVars
<1>3. CASE ReceiveTooLong
  <2>1. FetchCommonDifference \/ UNCHANGED <<fetching, loop, counterVars>>
    BY <1>3 DEF ReceiveTooLong, ScheduleCommonDifference
  <2> QED BY <1>3, <2>1, ScheduleWatch
      DEF ReceiveTooLong, WatchInv, RecoveryScheduled, HandleArmed, stateVars
<1>4. CASE GapTimeout
  <2>1. FetchCommonDifference \/ (UNCHANGED <<fetching, loop, counterVars>>
                                  /\ (fetching \/ retryHandle \/ ~hasState))
    BY <1>4 DEF GapTimeout, ScheduleCommonDifference
  <2> QED BY <1>4, <2>1, ScheduleWatch
      DEF GapTimeout, WatchInv, RecoveryScheduled, HandleArmed, stateVars
<1>5. CASE RetryTimeout
  <2>1. FetchCommonDifference \/ (UNCHANGED <<fetching, loop, counterVars>>
                                  /\ (fetching \/ ~hasState))
    BY <1>5 DEF RetryTimeout
  <2>2. ~hasState \/ CommonRuns' BY <2>1, ScheduleWatch DEF WatchInv
  <2> QED BY <1>5, <2>1, <2>2, ScheduleWatch
      DEF RetryTimeout, RetryFired, WatchInv, RecoveryScheduled, HandleArmed, stateVars
<1>6. CASE CatchUp \/ RefreshState \/ Start
  <2>1. \/ UNCHANGED loop
        \/ \E f \in Idle, kind \in {"catchUp", "getState"}, from \in {0, pts} :
              loop' = [loop EXCEPT ![f] = Ask(kind, from)]
    BY <1>6 DEF CatchUp, RefreshState, Start, Begin
  <2>2. (CommonRuns => CommonRuns') /\ States' BY <2>1, AskWatch DEF CommonRuns, WatchInv
  <2>3. UNCHANGED <<queue, timer, fetching, retryHandle, retryTimers, pendingSeq, hasState>>
    BY <1>6 DEF CatchUp, RefreshState, Start, waiterVars, counterVars, recoverVars, stateVars
  <2> QED BY <2>2, <2>3 DEF WatchInv, RecoveryScheduled, HandleArmed
<1>7. CASE Stop
  BY <1>7 DEF Stop, WatchInv, RecoveryScheduled, HandleArmed, stateVars
<1>8. CASE DrainPendingSeq
  <2>1. PICK e \in Events : FeedUpdate(e) \/ UNCHANGED waiterVars BY <1>8 DEF DrainPendingSeq, TypeOK
  <2> QED BY <1>1, <1>8, <2>1, FeedType DEF DrainPendingSeq, waiterVars, counterVars
<1>9. ASSUME NEW e \in Events, Receive(e) PROVE WatchInv'
  <2>1. CASE ReceiveStopped(e) \/ ReceiveOld(e)
    BY <1>1, <2>1 DEF ReceiveStopped, ReceiveOld, waiterVars, counterVars, stateVars, recoverVars
  <2>2. CASE ReceiveUpdate(e) \/ ReceiveNext(e)
    BY <1>1, <2>2, FeedType DEF ReceiveUpdate, ReceiveNext, recoverVars
  <2>3. CASE ReceiveEarly(e)
    <3>1. FetchCommonDifference \/ (UNCHANGED <<fetching, loop, counterVars>>
                                    /\ (fetching \/ retryHandle))
      BY <2>3 DEF ReceiveEarly, ScheduleCommonDifference
    <3> QED BY <2>3, <3>1, ScheduleWatch
        DEF ReceiveEarly, WatchInv, RecoveryScheduled, HandleArmed, stateVars
  <2> QED BY <1>9, <2>1, <2>2, <2>3 DEF Receive
<1>10. ASSUME NEW f \in Fetchers, Answer(f) \/ AnswerBadly(f) PROVE WatchInv'
  <2>1. PICK answer, upTo : /\ Answered(f, answer, upTo) /\ loop[f].phase = "asked"
                            /\ answer = "state" => loop[f].kind = "getState"
    BY <1>10 DEF Answer, AnswerBadly
  <2> DEFINE r == [loop[f] EXCEPT !.phase = "answered", !.answer = answer, !.upTo = upTo]
  <2>2. loop[f] \in Loops BY DEF TypeOK
  <2>3. r.phase = "answered" /\ r.kind = loop[f].kind /\ r.answer = answer BY <2>2 DEF Loops
  <2>4. loop' = [loop EXCEPT ![f] = r] BY <2>1 DEF Answered, TypeOK
  <2>5. (CommonRuns => CommonRuns') /\ States'
    <3> HIDE DEF r
    <3> QED BY <2>1, <2>3, <2>4, KeepWatch
  <2>6. UNCHANGED <<queue, timer, fetching, retryHandle, retryTimers, pendingSeq, hasState>>
    BY <1>10 DEF Answer, AnswerBadly, waiterVars, counterVars, recoverVars, stateVars
  <2> QED BY <2>5, <2>6 DEF WatchInv, RecoveryScheduled, HandleArmed
<1>11. ASSUME NEW f \in Fetchers, Continue(f) PROVE WatchInv'
  <2>0. loop[f] \in Loops BY DEF TypeOK
  <2>1. ASSUME (CommonRuns => CommonRuns') /\ States',
               UNCHANGED <<queue, timer, fetching, retryHandle, retryTimers, pendingSeq, hasState>>
        PROVE  WatchInv'
    BY <2>1 DEF WatchInv, RecoveryScheduled, HandleArmed
  <2>2. LoopReturns(f) => (CommonRuns => CommonRuns') /\ States'
    <3> SUFFICES ASSUME LoopReturns(f) PROVE (CommonRuns => CommonRuns') /\ States' OBVIOUS
    <3>1. CASE loop[f].kind = "common"
      <4> DEFINE r == [loop[f] EXCEPT !.phase = "ended"]
      <4>1. loop' = [loop EXCEPT ![f] = r] BY <3>1 DEF LoopReturns, TypeOK
      <4>2. r.phase = "ended" /\ r.kind = "common" BY <2>0, <3>1 DEF Loops
      <4> HIDE DEF r
      <4> QED BY <4>1, <4>2, KeepWatch
    <3>2. CASE loop[f].kind # "common"
      <4>1. loop' = [loop EXCEPT ![f] = Off] BY <3>2 DEF LoopReturns, TypeOK
      <4> QED BY <3>2, <4>1, KeepWatch DEF Off
    <3> QED BY <3>1, <3>2
  <2>3. CASE GotState(f)
    <3>1. loop[f].kind = "getState" /\ loop' = [loop EXCEPT ![f] = Off]
      BY <2>3 DEF GotState, Got, WatchInv
    <3>2. (CommonRuns => CommonRuns') /\ States' BY <3>1, KeepWatch DEF Off
    <3> QED BY <2>3, <3>2
        DEF GotState, Reset, recoverVars, WatchInv, RecoveryScheduled, HandleArmed
  <2>4. CASE GotNothing(f) \/ GotError(f)
    BY <2>1, <2>2, <2>4 DEF GotNothing, GotError, waiterVars, counterVars, recoverVars, stateVars
  <2>5. CASE ProcessDifference(f)
    <3> DEFINE r == [loop[f] EXCEPT !.phase = "processed"]
    <3>1. loop' = [loop EXCEPT ![f] = r] BY <2>5 DEF ProcessDifference, TypeOK
    <3>2. r.phase = "processed" /\ r.kind = loop[f].kind BY <2>0 DEF Loops
    <3>3. (CommonRuns => CommonRuns') /\ States'
      <4> HIDE DEF r
      <4> QED BY <3>1, <3>2, KeepWatch
    <3> QED BY <2>1, <2>5, <3>3
        DEF ProcessDifference, waiterVars, counterVars, recoverVars, stateVars
  <2>6. CASE TakeState(f)
    <3>1. (CommonRuns => CommonRuns') /\ States'
      <4>1. CASE LoopReturns(f) BY <2>2, <4>1
      <4>2. CASE loop' = [loop EXCEPT ![f] = Ask(loop[f].kind, loop[f].upTo)]
        BY <4>2, KeepWatch DEF Ask, Off
      <4> QED BY <2>6, <4>1, <4>2 DEF TakeState
    <3> QED BY <2>1, <2>6, <3>1 DEF TakeState, waiterVars, counterVars, recoverVars
  <2>7. CASE FinishCommonDifference(f)
    <3>1. queue' = {} /\ pendingSeq' = {} /\ fetching' = FALSE /\ loop' = [loop EXCEPT ![f] = Off]
      BY <2>7 DEF FinishCommonDifference, Reset
    <3>2. HandleArmed'
      <4>1. \/ retryTimers' = retryTimers + 1
            \/ retryHandle' = retryHandle /\ retryTimers' = retryTimers
        BY <2>7 DEF FinishCommonDifference, Retry
      <4>2. CASE retryTimers' = retryTimers + 1 BY <1>0, <4>2 DEF HandleArmed
      <4>3. CASE retryHandle' = retryHandle /\ retryTimers' = retryTimers
        BY <4>3 DEF WatchInv, HandleArmed
      <4> QED BY <4>1, <4>2, <4>3
    <3>3. States' BY <3>1 DEF WatchInv, Off, TypeOK
    <3> QED BY <3>1, <3>2, <3>3 DEF WatchInv, RecoveryScheduled
  <2> QED BY <1>11, <2>3, <2>4, <2>5, <2>6, <2>7 DEF Continue
<1> QED BY <1>2, <1>3, <1>4, <1>5, <1>6, <1>7, <1>8, <1>9, <1>10, <1>11 DEF Next

\* Every reachable state has its type: in particular the retry timers that stop()
\* cancels were armed.
THEOREM UpdatesTypeCorrect == Spec => []TypeOK
<1> DEFINE Inv == TypeOK /\ WatchInv
<1>1. Init => Inv BY InitType, InitWatch
<1>2. Inv /\ [Next]_vars => Inv' BY TypeStep, WatchStep DEF WatchInv
<1>3. Inv => TypeOK OBVIOUS
<1> HIDE DEF Inv
<1> QED BY <1>1, <1>2, <1>3, PTL DEF Spec

\* A pushed update behind a gap always has its timer, a retry or a fetch, and a
\* container behind a seq gap a retry or a fetch, however the application stops
\* and starts the client and however the fetches fail and overlap.
THEOREM GapsWatched == Spec => []RecoveryScheduled
<1> DEFINE Inv == TypeOK /\ WatchInv
<1>1. Init => Inv BY InitType, InitWatch
<1>2. Inv /\ [Next]_vars => Inv' BY TypeStep, WatchStep DEF WatchInv
<1>3. Inv => RecoveryScheduled BY DEF WatchInv
<1> HIDE DEF Inv
<1> QED BY <1>1, <1>2, <1>3, PTL DEF Spec

-----------------------------------------------------------------------------
(* What is lost was put at risk *)

\* Where the account's pts may stand.
Marks == {StartPts} \cup Events

\* The pts that an update fills, and those that a set of updates does.
Cell(e) == e - PtsCount[e] + 1 .. e
Cells(W) == UNION {Cell(e) : e \in W}

\* Every update up to p was dispatched or is at risk.
Safe(p) == \A e \in Between(floor, p) : e \in delivered \cup atRisk

\* W are the updates counted since good: their cells sum up to the count, they
\* come no more, and each is queued or accounted for unless the queue was given up
\* to a fetch.
Counts(W) ==
    /\ W \subseteq Between(good, last)
    /\ Cardinality(Cells(W)) = count - good
    /\ ~requesting => W \subseteq queue \cup delivered \cup atRisk
    /\ \A e \in W : e <= serverPts /\ e \notin pushes \cup pendingSeq \cup draining

WaiterInv ==
    /\ queue # {} => waitingForSkipped
    /\ requesting => queue = {}
    /\ \E W \in SUBSET Events : Counts(W)

\* An update is on its way once.
OnceInv ==
    /\ \A e \in pushes \cup pendingSeq \cup draining : e <= serverPts
    /\ pushes \cap (pendingSeq \cup draining) = {}
    /\ pendingSeq \cap draining = {}

\* A request asked from a safe pts, and the state it brings is safe once its
\* updates are dispatched.
EntrySafe(l) ==
    /\ l.phase # "off" /\ l.kind # "getState" => hasState /\ Safe(l.from)
    /\ l.phase = "answered" => \/ l.answer = "error"
                               \/ l.upTo \in Marks /\ (l.kind = "getState" <=> l.answer = "state")
    /\ l.phase = "processed" => l.kind # "getState" /\ l.upTo \in Marks /\ Safe(l.upTo)
    /\ l.phase = "ended" => l.kind = "common"

StateSafe ==
    /\ hasState => {pts, good, last} \subseteq Marks /\ Safe(pts) /\ Safe(good)
    /\ ~hasState => ~requesting

LossInv ==
    /\ WaiterInv
    /\ OnceInv
    /\ StateSafe
    /\ \A f \in Fetchers : EntrySafe(loop[f])

-----------------------------------------------------------------------------
(* Sums of pts_count tell sets of updates *)

\* The pts after a up to b.
LEMMA Interval ==
    ASSUME NEW a \in Int, NEW b \in Int, a <= b
    PROVE  IsFiniteSet(a + 1 .. b) /\ Cardinality(a + 1 .. b) = b - a
<1> DEFINE c == a + 1
<1>1. c \in Int OBVIOUS
<1>2. b - c + 1 = b - a OBVIOUS
<1>3. IF c > b THEN 0 = b - a ELSE b - c + 1 = b - a OBVIOUS
<1>4. IsFiniteSet(c .. b) /\ Cardinality(c .. b) = IF c > b THEN 0 ELSE b - c + 1
  <2> HIDE DEF c
  <2> QED BY <1>1, FS_Interval
<1> QED BY <1>3, <1>4

\* Updates fill the pts without overlap, from one mark to the next.
LEMMA CellFacts ==
    /\ Marks \subseteq Nat
    /\ \A e \in Events : /\ IsFiniteSet(Cell(e)) /\ Cardinality(Cell(e)) = PtsCount[e]
                         /\ \A m \in Marks : m < e => m <= e - PtsCount[e]
    /\ \A e, x \in Events : e # x => Cell(e) \cap Cell(x) = {}
<1>1. \A e \in Events : /\ e \in Nat /\ PtsCount[e] \in Nat \ {0} /\ e - PtsCount[e] \in Nat
                        /\ e - PtsCount[e] >= StartPts
  <2> SUFFICES ASSUME NEW e \in Events
               PROVE  /\ e \in Nat /\ PtsCount[e] \in Nat \ {0} /\ e - PtsCount[e] \in Nat
                      /\ e - PtsCount[e] >= StartPts
    OBVIOUS
  <2>1. e \in Nat /\ PtsCount[e] \in Nat \ {0} /\ StartPts \in Nat OBVIOUS
  <2>2. e - PtsCount[e] \in {StartPts} \cup Events OBVIOUS
  <2> QED BY <2>1, <2>2
<1>2. Marks \subseteq Nat BY DEF Marks
<1>3. \A e \in Events : IsFiniteSet(Cell(e)) /\ Cardinality(Cell(e)) = PtsCount[e]
  <2> TAKE e \in Events
  <2> DEFINE a == e - PtsCount[e]
  <2>1. a \in Int /\ e \in Int /\ a <= e /\ e - a = PtsCount[e] BY <1>1
  <2>2. IsFiniteSet(a + 1 .. e) /\ Cardinality(a + 1 .. e) = e - a
    <3> HIDE DEF a
    <3> QED BY <2>1, Interval
  <2> QED BY <2>1, <2>2 DEF Cell
<1>4. \A e \in Events : \A m \in Marks : m < e => m <= e - PtsCount[e]
  <2> TAKE e \in Events
  <2> TAKE m \in Marks
  <2>1. CASE m = StartPts BY <1>1, <2>1
  <2>2. CASE m \in Events BY <2>2
  <2> QED BY <2>1, <2>2 DEF Marks
<1>5. \A e, x \in Events : e < x => Cell(e) \cap Cell(x) = {}
  BY <1>1, <1>4 DEF Marks, Cell
<1>6. \A e, x \in Events : e # x => e < x \/ x < e BY <1>1
<1> QED BY <1>2, <1>3, <1>4, <1>5, <1>6

\* The cells of updates up to some pts are finitely many.
LEMMA CellsFinite ==
    ASSUME NEW W \in SUBSET Events, NEW p \in Nat, \A e \in W : e <= p
    PROVE  IsFiniteSet(Cells(W)) /\ Cells(W) \subseteq 0 .. p
<1>1. Cells(W) \subseteq 0 .. p
  <2> SUFFICES ASSUME NEW e \in W, NEW i \in Cell(e) PROVE i \in 0 .. p BY DEF Cells
  <2>1. e \in Nat /\ e - PtsCount[e] \in Nat
    <3>1. e - PtsCount[e] \in Marks BY DEF Marks
    <3> QED BY <3>1, CellFacts
  <2> QED BY <2>1 DEF Cell
<1>2. IsFiniteSet(0 .. p) BY FS_Interval
<1> QED BY <1>1, <1>2, FS_Subset

\* Counting one more update adds its pts_count.
LEMMA CellsMore ==
    ASSUME NEW W \in SUBSET Events, NEW p \in Nat, \A e \in W : e <= p,
           NEW e \in Events \ W
    PROVE  Cardinality(Cells(W \cup {e})) = Cardinality(Cells(W)) + PtsCount[e]
<1>1. Cells(W \cup {e}) = Cells(W) \cup Cell(e) BY DEF Cells
<1>2. Cells(W) \cap Cell(e) = {} BY CellFacts DEF Cells
<1>3. IsFiniteSet(Cells(W)) /\ IsFiniteSet(Cell(e)) /\ Cardinality(Cell(e)) = PtsCount[e]
  BY CellFacts, CellsFinite
<1>4. Cardinality(Cells(W)) \in Nat /\ PtsCount[e] \in Nat BY <1>3, FS_CardinalityType
<1>5. Cardinality(Cells(W) \cap Cell(e)) = 0
  <2>1. Cardinality({}) = 0 BY FS_EmptySet
  <2> QED BY <1>2, <2>1
<1>6. Cardinality(Cells(W) \cup Cell(e))
        = Cardinality(Cells(W)) + Cardinality(Cell(e)) - Cardinality(Cells(W) \cap Cell(e))
  BY <1>3, FS_Union
<1> HIDE DEF Cells, Cell
<1>7. Cardinality(Cells(W) \cup Cell(e)) = Cardinality(Cells(W)) + PtsCount[e]
  BY <1>3, <1>4, <1>5, <1>6
<1> QED BY <1>1, <1>7

\* When the sum reaches the greatest pts seen, nothing is missing up to it.
LEMMA SumTells ==
    ASSUME NEW W \in SUBSET Events, NEW m \in Marks, NEW p \in Nat, m <= p,
           \A e \in W : m < e /\ e <= p,
           Cardinality(Cells(W)) = p - m
    PROVE  Between(m, p) \subseteq W
<1>0. m \in Nat BY CellFacts
<1>1. IsFiniteSet(m + 1 .. p) /\ Cardinality(m + 1 .. p) = p - m BY <1>0, Interval
<1>2. Cells(W) \subseteq m + 1 .. p
  <2> SUFFICES ASSUME NEW e \in W, NEW i \in Cell(e) PROVE i \in m + 1 .. p BY DEF Cells
  <2>1. m <= e - PtsCount[e] /\ e \in Nat /\ PtsCount[e] \in Nat BY CellFacts
  <2> QED BY <1>0, <2>1 DEF Cell
<1>3. Cells(W) = m + 1 .. p BY <1>1, <1>2, FS_Subset
<1> SUFFICES ASSUME NEW e \in Between(m, p) PROVE e \in W OBVIOUS
<1>4. e \in Events /\ e \in m + 1 .. p /\ e \in Cell(e)
  <2>1. e \in Events /\ m < e /\ e <= p BY DEF Between
  <2>2. e \in Nat /\ PtsCount[e] \in Nat \ {0} BY <2>1
  <2> QED BY <1>0, <2>1, <2>2 DEF Cell
<1>5. PICK x \in W : e \in Cell(x) BY <1>3, <1>4 DEF Cells
<1> QED BY <1>4, <1>5, CellFacts
-----------------------------------------------------------------------------
(* The waiter *)

\* What is on the way in the next state was so before, or the server's pts passed
\* it now.
Onward ==
    /\ serverPts <= serverPts'
    /\ \A e \in pushes' \cup pendingSeq' \cup draining' :
          e \in pushes \cup pendingSeq \cup draining \/ serverPts < e

\* The histories grow.
Grows == delivered \subseteq delivered' /\ atRisk \subseteq atRisk' /\ floor <= floor'

\* What was safe stays so.
LEMMA SafeStays == Grows /\ TypeOK /\ TypeOK' => \A p : Safe(p) => Safe(p)'
<1> SUFFICES ASSUME Grows, TypeOK, TypeOK', NEW p, Safe(p), NEW e \in Between(floor', p)
             PROVE  e \in delivered' \cup atRisk'
  BY DEF Safe, Between
<1>1. e \in Events /\ floor' < e /\ e <= p BY DEF Between
<1>2. floor < e
  <2>1. e \in Nat /\ floor \in Int /\ floor' \in Int BY <1>1 DEF TypeOK
  <2> QED BY <1>1, <2>1 DEF Grows
<1>3. e \in Between(floor, p) BY <1>1, <1>2 DEF Between
<1> QED BY <1>3 DEF Safe, Grows

\* A step that leaves the waiter alone, or forgets the queue for a fetch.
LEMMA WaiterKept ==
    ASSUME TypeOK, TypeOK', WaiterInv, Grows, Onward,
           UNCHANGED <<good, last, count, waitingForSkipped>>,
           \/ UNCHANGED <<queue, requesting>>
           \/ requesting' /\ queue' = {}
           \/ ~requesting' /\ queue' = {} /\ Between(good, last) \subseteq atRisk'
    PROVE  WaiterInv'
<1>1. PICK W \in SUBSET Events : Counts(W) BY DEF WaiterInv
<1>2. W \subseteq Between(good', last') BY <1>1 DEF Counts, Between
<1>3. Cardinality(Cells(W)) = count' - good' BY <1>1 DEF Counts
<1>4. ~requesting' => W \subseteq queue' \cup delivered' \cup atRisk'
  BY <1>1 DEF Counts, Grows
<1>5. \A e \in W : e <= serverPts' /\ e \notin pushes' \cup pendingSeq' \cup draining'
  <2> TAKE e \in W
  <2>1. e \in Nat /\ serverPts \in Nat /\ e <= serverPts
    BY <1>1 DEF Counts, TypeOK
  <2>2. serverPts' \in Nat BY DEF TypeOK
  <2> QED BY <1>1, <2>1, <2>2 DEF Counts, Onward
<1>6. Counts(W)' BY <1>2, <1>3, <1>4, <1>5 DEF Counts, Between
<1>7. (queue' # {} => waitingForSkipped') /\ (requesting' => queue' = {}) BY DEF WaiterInv
<1> QED BY <1>6, <1>7 DEF WaiterInv
\* init(pts) starts the count anew.
LEMMA WaiterReset ==
    ASSUME NEW p \in Nat, Reset(p)
    PROVE  WaiterInv'
<1>1. Cardinality(Cells({})) = 0 BY FS_EmptySet DEF Cells
<1>2. Counts({})' BY <1>1 DEF Reset, Counts
<1>3. queue' = {} BY DEF Reset
<1> QED BY <1>2, <1>3 DEF WaiterInv

\* An update that completes what was seen leaves nothing missing.
LEMMA CompleteIsSafe ==
    ASSUME TypeOK, TypeOK', WaiterInv, StateSafe, hasState, ~requesting,
           NEW e \in Events, e \notin pushes' \cup pendingSeq' \cup draining',
           ~Duplicate(e, PtsCount[e]), Complete(e, PtsCount[e]), Count(e, PtsCount[e]),
           e \in pushes \cup pendingSeq \cup draining,
           delivered' = delivered \cup Applied(e, PtsCount[e]), UNCHANGED <<floor, requesting>>,
           atRisk \subseteq atRisk'
    PROVE  WaiterInv' /\ good' \in Marks /\ last' \in Marks /\ Safe(good)' /\ e <= good'
<1> DEFINE n == PtsCount[e]
<1>0. PICK G : G = Greatest(e) OBVIOUS
<1>1. PICK W \in SUBSET Events : Counts(W) BY DEF WaiterInv
<1>2. good \in Marks /\ last \in Marks /\ good \in Nat /\ last \in Nat /\ count \in Nat
      /\ e \in Nat /\ n \in Nat \ {0}
  BY DEF StateSafe, TypeOK
<1>3. good < e BY <1>2 DEF Duplicate
<1>4. G \in Nat /\ e <= G /\ last <= G /\ G \in Marks BY <1>0, <1>2 DEF Greatest, Marks
<1>5. good' = G /\ last' = G /\ count' = G /\ G = count + n
  BY <1>0 DEF Count, Complete
<1>6. e \notin W /\ \A x \in W : x <= last /\ good < x /\ x \in Nat
  BY <1>1 DEF Counts, Between
<1>7. Cardinality(Cells(W \cup {e})) = G - good
  <2>1. Cardinality(Cells(W \cup {e})) = Cardinality(Cells(W)) + n
    BY <1>2, <1>6, CellsMore
  <2>2. Cardinality(Cells(W)) = count - good BY <1>1 DEF Counts
  <2> QED BY <1>2, <1>5, <2>1, <2>2
<1>8. Between(good, G) \subseteq W \cup {e}
  <2>1. \A x \in W \cup {e} : good < x /\ x <= G BY <1>2, <1>3, <1>4, <1>6
  <2>2. good <= G BY <1>2, <1>3, <1>4
  <2> QED BY <1>2, <1>4, <1>7, <2>1, <2>2, SumTells
<1>9. W \cup {e} \subseteq delivered' \cup atRisk'
  <2>1. W \subseteq queue \cup delivered \cup atRisk BY <1>1 DEF Counts
  <2>2. {e} \cup queue \subseteq Applied(e, n) BY DEF Applied, Accepted, WaiterInv
  <2> QED BY <2>1, <2>2
<1>10. Safe(G)'
  <2> SUFFICES ASSUME NEW x \in Events, floor < x, x <= G PROVE x \in delivered' \cup atRisk'
    BY DEF Safe, Between
  <2>1. CASE x <= good
    <3>1. x \in Between(floor, good) BY <2>1 DEF Between
    <3> QED BY <3>1 DEF StateSafe, Safe
  <2>2. CASE ~(x <= good)
    <3>1. x \in Between(good, G)
      <4>1. good < x BY <1>2, <2>2
      <4> QED BY <4>1 DEF Between
    <3> QED BY <1>8, <1>9, <3>1
  <2> QED BY <2>1, <2>2
<1>11. WaiterInv'
  <2>1. queue' = {} BY DEF Count, ApplyQueue, WaiterInv
  <2>2. Cardinality(Cells({})) = count' - good' BY <1>4, <1>5, FS_EmptySet DEF Cells
  <2>3. Counts({})' BY <2>2 DEF Counts
  <2> QED BY <2>1, <2>3 DEF WaiterInv
<1>12. Safe(good)' BY <1>5, <1>10
<1> QED BY <1>4, <1>5, <1>11, <1>12
\* An update behind a gap is counted with the others.
LEMMA GapIsCounted ==
    ASSUME TypeOK, TypeOK', WaiterInv, OnceInv, Grows, Onward, ~requesting,
           NEW e \in Events, e \notin pushes' \cup pendingSeq' \cup draining',
           ~Duplicate(e, PtsCount[e]), ~Complete(e, PtsCount[e]), Count(e, PtsCount[e]),
           e \in pushes \cup pendingSeq \cup draining,
           UNCHANGED requesting
    PROVE  WaiterInv'
<1> DEFINE n == PtsCount[e]
<1>1. PICK W \in SUBSET Events : Counts(W) BY DEF WaiterInv
<1>2. /\ good \in Nat /\ last \in Nat /\ count \in Nat /\ e \in Nat /\ n \in Nat \ {0}
      /\ serverPts \in Nat /\ serverPts' \in Nat /\ last' \in Nat
  BY DEF TypeOK
<1>3. good < e BY <1>2 DEF Duplicate
<1>4. /\ last' = Greatest(e) /\ e <= last' /\ last <= last'
      /\ count' = count + n /\ good' = good
      /\ queue' = queue \cup {e} /\ waitingForSkipped'
  BY <1>2 DEF Count, Enqueue, Greatest
<1>5. e \notin W /\ \A x \in W : x <= last /\ good < x /\ x \in Nat
  BY <1>1 DEF Counts, Between
<1>6. W \cup {e} \subseteq Between(good', last')
  BY <1>2, <1>3, <1>4, <1>5 DEF Between
<1>7. Cardinality(Cells(W \cup {e})) = count' - good'
  <2>1. Cardinality(Cells(W \cup {e})) = Cardinality(Cells(W)) + n
    BY <1>2, <1>5, CellsMore
  <2>2. Cardinality(Cells(W)) = count - good BY <1>1 DEF Counts
  <2> QED BY <1>2, <1>4, <2>1, <2>2
<1>8. W \cup {e} \subseteq queue' \cup delivered' \cup atRisk'
  BY <1>1, <1>4 DEF Counts, Grows
<1>9. \A x \in W \cup {e} : x <= serverPts' /\ x \notin pushes' \cup pendingSeq' \cup draining'
  <2> TAKE x \in W \cup {e}
  <2>1. x <= serverPts /\ x \in Nat BY <1>1, <1>2 DEF Counts, OnceInv
  <2>2. x \notin pushes' \cup pendingSeq' \cup draining'
    BY <1>1, <1>2, <2>1 DEF Counts, Onward
  <2> QED BY <1>2, <2>1, <2>2 DEF Onward
<1>10. Counts(W \cup {e})' BY <1>6, <1>7, <1>8, <1>9 DEF Counts
<1>11. W \cup {e} \in SUBSET Events OBVIOUS
<1> QED BY <1>4, <1>10, <1>11 DEF WaiterInv

\* feedUpdate of an update that was on its way loses none that is not put at risk.
LEMMA FeedIsSafe ==
    ASSUME TypeOK, TypeOK', WaiterInv, OnceInv, StateSafe, Onward,
           NEW e \in pushes \cup draining, e \notin pushes' \cup pendingSeq' \cup draining',
           FeedUpdate(e), UNCHANGED <<floor, hasState>>
    PROVE  WaiterInv' /\ StateSafe' /\ Grows
<1> DEFINE n == PtsCount[e]
<1>0. e \in Events /\ e \in Nat /\ pts \in Nat /\ floor \in Nat BY DEF TypeOK
<1>1. Grows BY <1>0 DEF FeedUpdate, Deliver, Grows
<1>2. CASE ~hasState
  BY <1>1, <1>2, WaiterKept DEF FeedUpdate, waiterVars, counterVars, StateSafe
<1>3. CASE hasState /\ requesting
  <2>1. UNCHANGED <<good, last, count, requesting, waitingForSkipped, queue>>
    BY <1>3 DEF FeedUpdate, UpdateAndApply, ApplyQueue, Duplicate, WaiterInv
  <2>2. WaiterInv' BY <1>1, <2>1, WaiterKept
  <2>3. pts' = e /\ e \in delivered' /\ atRisk' = atRisk \cup (Between(pts, e) \ {e})
    BY <1>3 DEF FeedUpdate, Accepted, Applied, Deliver
  <2>4. Safe(pts)'
    <3> SUFFICES ASSUME NEW x \in Events, floor < x, x <= e PROVE x \in delivered' \cup atRisk'
      BY <2>3 DEF Safe, Between
    <3>1. CASE x <= pts
      <4>1. x \in Between(floor, pts) BY <3>1 DEF Between
      <4> QED BY <1>1, <1>3, <4>1 DEF StateSafe, Safe, Grows
    <3>2. CASE ~(x <= pts)
      <4>1. pts < x BY <1>0, <3>2 DEF TypeOK
      <4>2. x \in Between(pts, e) BY <4>1 DEF Between
      <4> QED BY <2>3, <4>2
    <3> QED BY <3>1, <3>2
  <2>5. Safe(good)'
    <3>1. Safe(good) BY <1>3 DEF StateSafe
    <3> QED BY <1>1, <2>1, <3>1, SafeStays DEF Safe, Between
  <2> QED BY <1>0, <1>1, <1>3, <2>1, <2>2, <2>3, <2>4, <2>5 DEF StateSafe, Marks
<1>4. CASE hasState /\ ~requesting
  <2>0. UpdateAndApply(e, n) /\ requesting' = requesting BY <1>4 DEF FeedUpdate, UpdateAndApply
  <2>1. CASE Duplicate(e, n) /\ UNCHANGED waiterVars
    <3>1. pts' = pts BY <1>4, <2>1 DEF FeedUpdate, Accepted
    <3>2. WaiterInv' BY <1>1, <2>1, WaiterKept DEF waiterVars, counterVars
    <3>3. (Safe(pts) => Safe(pts)') /\ (Safe(good) => Safe(good)')
      BY <1>1, <2>1, <3>1, SafeStays DEF Safe, Between, waiterVars, counterVars
    <3> QED BY <1>1, <1>4, <2>1, <3>1, <3>2, <3>3 DEF StateSafe, waiterVars, counterVars
  <2>2. CASE ~Duplicate(e, n) /\ Count(e, n) /\ Complete(e, n)
    <3>1. pts' = e /\ delivered' = delivered \cup Applied(e, n)
      BY <1>4, <2>2 DEF FeedUpdate, Accepted, Deliver
    <3>2. WaiterInv' /\ good' \in Marks /\ last' \in Marks /\ Safe(good)' /\ e <= good'
      BY <1>0, <1>1, <1>4, <2>0, <2>2, <3>1, CompleteIsSafe DEF Grows
    <3>3. Safe(pts)'
      <4> SUFFICES ASSUME NEW x \in Events, floor < x, x <= e PROVE x \in delivered' \cup atRisk'
        BY <3>1 DEF Safe, Between
      <4>1. x \in Nat /\ good' \in Nat BY DEF TypeOK
      <4>2. x <= good' BY <1>0, <3>2, <4>1
      <4> QED BY <3>2, <4>2 DEF Safe, Between
    <3> QED BY <1>0, <1>1, <1>4, <3>1, <3>2, <3>3 DEF StateSafe, Marks
  <2>3. CASE ~Duplicate(e, n) /\ Count(e, n) /\ ~Complete(e, n)
    <3>1. pts' = pts /\ good' = good /\ last' = Greatest(e)
      BY <1>4, <2>3 DEF FeedUpdate, Accepted, Count
    <3>2. WaiterInv' BY <1>0, <1>1, <1>4, <2>0, <2>3, GapIsCounted
    <3>3. (Safe(pts) => Safe(pts)') /\ (Safe(good) => Safe(good)')
      BY <1>1, <3>1, SafeStays DEF Safe, Between
    <3>4. last \in Marks => last' \in Marks BY <1>0, <3>1 DEF Greatest, Marks
    <3> QED BY <1>1, <1>4, <3>1, <3>2, <3>3, <3>4 DEF StateSafe
  <2> QED BY <1>4, <2>0, <2>1, <2>2, <2>3, Zenon DEF UpdateAndApply, Count
<1> QED BY <1>2, <1>3, <1>4
-----------------------------------------------------------------------------
(* The requests, and the whole *)

\* A request that is left alone stays safe, and so do the others when one moves on.
LEMMA EntriesStay ==
    ASSUME TypeOK, TypeOK', Grows, hasState => hasState', \A f \in Fetchers : EntrySafe(loop[f]),
           \/ UNCHANGED loop
           \/ \E f \in Fetchers : \E r : loop' = [loop EXCEPT ![f] = r] /\ EntrySafe(r)'
    PROVE  \A f \in Fetchers : EntrySafe(loop[f])'
<1>1. \A r : EntrySafe(r) => EntrySafe(r)'
  <2> SUFFICES ASSUME NEW r, EntrySafe(r) PROVE EntrySafe(r)' OBVIOUS
  <2>1. \A p : Safe(p) => Safe(p)' BY SafeStays
  <2> QED BY <2>1 DEF EntrySafe
<1>2. \A g \in Fetchers : loop'[g] = loop[g] => EntrySafe(loop[g])'
  <2> TAKE g \in Fetchers
  <2>1. PICK r : r = loop[g] OBVIOUS
  <2>2. EntrySafe(r)' BY <1>1, <2>1
  <2> HAVE loop'[g] = loop[g]
  <2>3. loop'[g] = r BY <2>1
  <2> QED BY <2>2, <2>3 DEF EntrySafe
<1>3. CASE UNCHANGED loop BY <1>2, <1>3
<1>4. ASSUME NEW f \in Fetchers, NEW r, loop' = [loop EXCEPT ![f] = r], EntrySafe(r)'
      PROVE  \A g \in Fetchers : EntrySafe(loop[g])'
  <2>1. loop'[f] = r /\ \A g \in Fetchers \ {f} : loop'[g] = loop[g] BY <1>4 DEF TypeOK
  <2>2. EntrySafe(loop[f])' BY <1>4, <2>1 DEF EntrySafe
  <2> QED BY <1>2, <2>1, <2>2
<1> QED BY <1>3, <1>4

\* The box's state is left alone.
LEMMA StateStays ==
    ASSUME TypeOK, TypeOK', Grows, StateSafe, UNCHANGED <<pts, good, last, hasState>>,
           requesting' => requesting \/ hasState
    PROVE  StateSafe'
<1>1. (Safe(pts) => Safe(pts)') /\ (Safe(good) => Safe(good)')
  BY SafeStays DEF Safe, Between
<1> QED BY <1>1 DEF StateSafe

\* A request that starts.
LEMMA AskSafe ==
    ASSUME NEW kind, NEW from, kind = "getState" \/ (hasState' /\ Safe(from)')
    PROVE  EntrySafe(Ask(kind, from))' /\ EntrySafe(Off)'
BY DEF EntrySafe, Ask, Off

\* scheduleCommonDifference.
LEMMA ScheduleSafe ==
    ASSUME TypeOK, TypeOK', LossInv, Grows, Onward, UNCHANGED <<hasState, pts, delivered, atRisk, floor>>,
           (FetchCommonDifference /\ hasState) \/ UNCHANGED <<fetching, loop, counterVars>>
    PROVE  WaiterInv' /\ StateSafe' /\ \A f \in Fetchers : EntrySafe(loop[f])'
<1>1. CASE UNCHANGED <<fetching, loop, counterVars>>
  BY <1>1, WaiterKept, StateStays, EntriesStay DEF LossInv, counterVars
<1>2. CASE FetchCommonDifference /\ hasState
  <2>1. requesting' /\ queue' = {} /\ UNCHANGED <<good, last, count, waitingForSkipped>>
    BY <1>2 DEF FetchCommonDifference, StartRequesting
  <2>2. WaiterInv' BY <2>1, WaiterKept DEF LossInv
  <2>3. StateSafe' BY <1>2, <2>1, StateStays DEF LossInv
  <2>4. PICK p : p = pts OBVIOUS
  <2>5. Safe(p)' BY <1>2, <2>4 DEF LossInv, StateSafe, Safe, Between
  <2>6. EntrySafe(Ask("common", p))' BY <1>2, <2>5, AskSafe
  <2>7. PICK f \in Fetchers : loop' = [loop EXCEPT ![f] = Ask("common", p)]
    BY <1>2, <2>4 DEF FetchCommonDifference, Idle
  <2>8. \A g \in Fetchers : EntrySafe(loop[g])' BY <2>6, <2>7, EntriesStay DEF LossInv
  <2> QED BY <2>2, <2>3, <2>8
<1> QED BY <1>1, <1>2

\* A request beside the recovery's.
LEMMA BeginSafe ==
    ASSUME TypeOK, TypeOK', LossInv, Grows, hasState => hasState',
           \/ UNCHANGED loop
           \/ Begin("getState", 0)
           \/ Begin("catchUp", pts) /\ hasState
    PROVE  \A f \in Fetchers : EntrySafe(loop[f])'
<1>1. CASE UNCHANGED loop BY <1>1, EntriesStay DEF LossInv
<1>2. CASE Begin("getState", 0)
  <2>1. PICK f \in Fetchers : loop' = [loop EXCEPT ![f] = Ask("getState", 0)]
    BY <1>2 DEF Begin, Idle
  <2> QED BY <2>1, AskSafe, EntriesStay DEF LossInv
<1>3. CASE Begin("catchUp", pts) /\ hasState
  <2>1. PICK p : p = pts OBVIOUS
  <2>2. Safe(p) BY <1>3, <2>1 DEF LossInv, StateSafe, Safe, Between
  <2>3. EntrySafe(Ask("catchUp", p))' BY <1>3, <2>2, AskSafe, SafeStays
  <2>4. PICK f \in Fetchers : loop' = [loop EXCEPT ![f] = Ask("catchUp", p)]
    BY <1>3, <2>1 DEF Begin, Idle
  <2> QED BY <2>3, <2>4, EntriesStay DEF LossInv
<1> QED BY <1>1, <1>2, <1>3
\* A difference loop that ends.
LEMMA ReturnSafe ==
    ASSUME TypeOK, TypeOK', LossInv, Grows, UNCHANGED hasState,
           NEW f \in Fetchers, loop[f].phase # "off", LoopReturns(f)
    PROVE  \A g \in Fetchers : EntrySafe(loop[g])'
<1>1. CASE loop[f].kind = "common"
  <2>1. PICK r : r = [loop[f] EXCEPT !.phase = "ended"] OBVIOUS
  <2>2. r.phase = "ended" /\ r.kind = "common" /\ r.from = loop[f].from
    BY <1>1, <2>1 DEF TypeOK, Loops
  <2>3. hasState /\ Safe(r.from) BY <1>1, <2>2 DEF LossInv, EntrySafe
  <2>4. EntrySafe(r)' BY <2>2, <2>3, SafeStays DEF EntrySafe
  <2>5. loop' = [loop EXCEPT ![f] = r] BY <1>1, <2>1 DEF LoopReturns, TypeOK
  <2> QED BY <2>4, <2>5, EntriesStay DEF LossInv
<1>2. CASE loop[f].kind # "common"
  <2>1. loop' = [loop EXCEPT ![f] = Off] BY <1>2 DEF LoopReturns, TypeOK
  <2>2. EntrySafe(Off)' BY DEF EntrySafe, Off
  <2> QED BY <2>1, <2>2, EntriesStay DEF LossInv
<1> QED BY <1>1, <1>2

\* A step that changes neither the box's state nor its requests but by receiving.
LEMMA ReceiveSafe ==
    ASSUME TypeOK, TypeOK', LossInv, NEW e \in pushes \cup draining,
           \/ /\ e \in pushes /\ pushes' = pushes \ {e}
              /\ UNCHANGED <<pendingSeq, draining>>
           \/ /\ e \in draining /\ draining' = draining \ {e}
              /\ UNCHANGED <<pushes, pendingSeq>>,
           FeedUpdate(e) \/ UNCHANGED <<waiterVars, pts, delivered, atRisk>>,
           UNCHANGED <<serverPts, floor, hasState, loop>>
    PROVE  LossInv'
<1>1. Onward BY DEF Onward, TypeOK
<1>2. e \notin pushes' \cup pendingSeq' \cup draining' BY DEF LossInv, OnceInv
<1>3. OnceInv' BY DEF LossInv, OnceInv
<1>4. floor' <= floor /\ floor <= floor' BY DEF TypeOK
<1>5. WaiterInv' /\ StateSafe' /\ Grows
  <2>1. CASE FeedUpdate(e) BY <1>1, <1>2, <2>1, FeedIsSafe DEF LossInv
  <2>2. CASE UNCHANGED <<waiterVars, pts, delivered, atRisk>>
    <3>1. Grows BY <1>4, <2>2 DEF Grows
    <3> QED BY <1>1, <2>2, <3>1, WaiterKept, StateStays DEF LossInv, waiterVars, counterVars
  <2> QED BY <2>1, <2>2
<1>6. \A f \in Fetchers : EntrySafe(loop[f])' BY <1>5, EntriesStay DEF LossInv
<1> QED BY <1>3, <1>5, <1>6 DEF LossInv

\* An answer: the state it brings is a mark.
LEMMA AnswerSafe ==
    ASSUME TypeOK, TypeOK', LossInv, Grows, UNCHANGED hasState,
           NEW f \in Fetchers, Answer(f) \/ AnswerBadly(f)
    PROVE  \A g \in Fetchers : EntrySafe(loop[g])'
<1>1. PICK answer, upTo : /\ Answered(f, answer, upTo) /\ loop[f].phase = "asked"
                          /\ \/ answer = "error"
                             \/ upTo \in Marks /\ (loop[f].kind = "getState" <=> answer = "state")
  <2> DEFINE Goal(answer, upTo) ==
                /\ Answered(f, answer, upTo) /\ loop[f].phase = "asked"
                /\ \/ answer = "error"
                   \/ upTo \in Marks /\ (loop[f].kind = "getState" <=> answer = "state")
  <2> SUFFICES \E a, u : Goal(a, u) OBVIOUS
  <2>1. serverPts \in Marks BY DEF TypeOK, Marks
  <2>2. CASE Answer(f)
    <3>1. CASE loop[f].kind = "getState" /\ Answered(f, "state", serverPts)
      <4>1. Goal("state", serverPts) BY <2>1, <2>2, <3>1 DEF Answer
      <4> QED BY <4>1
    <3>2. ASSUME NEW answer \in {"empty", "full"},
                 loop[f].kind # "getState", Answered(f, answer, serverPts)
          PROVE  \E a, u : Goal(a, u)
      <4>1. Goal(answer, serverPts) BY <2>1, <2>2, <3>2 DEF Answer
      <4> QED BY <4>1
    <3>3. ASSUME loop[f].kind # "getState",
                 NEW p \in Between(loop[f].from, serverPts), Answered(f, "slice", p)
          PROVE  \E a, u : Goal(a, u)
      <4>1. Goal("slice", p) BY <2>2, <3>3 DEF Answer, Between, Marks
      <4> QED BY <4>1
    <3> HIDE DEF Goal
    <3> QED BY <2>2, <3>1, <3>2, <3>3 DEF Answer
  <2>3. CASE AnswerBadly(f)
    <3>1. CASE Answered(f, "error", 0)
      <4>1. Goal("error", 0) BY <2>3, <3>1 DEF AnswerBadly
      <4> QED BY <4>1
    <3>2. CASE loop[f].kind # "getState" /\ Answered(f, "tooLong", serverPts)
      <4>1. Goal("tooLong", serverPts) BY <2>1, <2>3, <3>2 DEF AnswerBadly
      <4> QED BY <4>1
    <3> QED BY <2>3, <3>1, <3>2 DEF AnswerBadly
  <2> QED BY <2>2, <2>3
<1>2. PICK r : r = [loop[f] EXCEPT !.phase = "answered", !.answer = answer, !.upTo = upTo] OBVIOUS
<1>3. /\ r.phase = "answered" /\ r.kind = loop[f].kind /\ r.from = loop[f].from
      /\ r.answer = answer /\ r.upTo = upTo
  <2>1. loop[f] \in Loops BY DEF TypeOK
  <2> QED BY <1>2, <2>1 DEF Loops
<1>4. r.kind # "getState" => hasState /\ Safe(r.from) BY <1>1, <1>3 DEF LossInv, EntrySafe
<1>5. EntrySafe(r)' BY <1>1, <1>3, <1>4, SafeStays DEF EntrySafe
<1>6. loop' = [loop EXCEPT ![f] = r] BY <1>1, <1>2 DEF Answered, TypeOK
<1> QED BY <1>5, <1>6, EntriesStay DEF LossInv

\* The constructor's state.
LEMMA InitLoss == Init => LossInv
<1> SUFFICES ASSUME Init PROVE LossInv OBVIOUS
<1>1. Counts({})
  <2>1. Cardinality(Cells({})) = 0 BY FS_EmptySet DEF Cells
  <2> QED BY <2>1 DEF Counts, Init, WaiterInit
<1>2. WaiterInv BY <1>1 DEF WaiterInv, Init, WaiterInit
<1>3. OnceInv /\ StateSafe BY DEF OnceInv, StateSafe, Init, WaiterInit
<1>4. \A f \in Fetchers : EntrySafe(loop[f]) BY DEF EntrySafe, Init, Off
<1> QED BY <1>2, <1>3, <1>4 DEF LossInv
\* Every step keeps the accounts.
LEMMA LossStep == TypeOK /\ TypeOK' /\ LossInv /\ [Next]_vars => LossInv'
<1> SUFFICES ASSUME TypeOK, TypeOK', LossInv, [Next]_vars PROVE LossInv' OBVIOUS
<1> DEFINE Safes == \A f \in Fetchers : EntrySafe(loop[f])
<1>0. serverPts \in Nat /\ floor \in Nat BY DEF TypeOK
\* A step that delivers nothing, receives nothing, and leaves the server alone.
<1>1. ASSUME UNCHANGED <<pushes, serverPts, delivered, floor>>, atRisk \subseteq atRisk'
      PROVE  /\ Grows
             /\ UNCHANGED <<pendingSeq, draining>> => Onward /\ OnceInv'
             /\ pendingSeq' = {} /\ draining' = draining => Onward /\ OnceInv'
  BY <1>0, <1>1 DEF Grows, Onward, LossInv, OnceInv
<1>2. CASE Occur
  <2>1. PICK e \in Events : /\ serverPts = e - PtsCount[e] /\ serverPts' = e
                            /\ pushes' \in {pushes, pushes \cup {e}}
    BY <1>2 DEF Occur
  <2>2. UNCHANGED <<waiterVars, stateVars, recoverVars, running, loop, history, faults>>
    BY <1>2 DEF Occur
  <2>3. serverPts < serverPts'
    <3>1. e \in Nat /\ PtsCount[e] \in Nat \ {0} OBVIOUS
    <3> QED BY <2>1, <3>1
  <2>4. Onward BY <1>0, <2>1, <2>2, <2>3 DEF Onward, recoverVars
  <2>5. Grows BY <1>0, <2>2 DEF Grows, history
  <2>6. OnceInv'
    <3>1. pendingSeq' = pendingSeq /\ draining' = draining BY <2>2 DEF recoverVars
    <3>2. \A x \in pushes \cup pendingSeq \cup draining : x <= serverPts /\ x \in Nat
      BY DEF LossInv, OnceInv, TypeOK
    <3>3. e \notin pushes \cup pendingSeq \cup draining BY <1>0, <2>1, <2>3, <3>2
    <3>4. \A x \in pushes' \cup pendingSeq' \cup draining' : x <= serverPts'
      <4> TAKE x \in pushes' \cup pendingSeq' \cup draining'
      <4>1. x \in pushes \cup pendingSeq \cup draining \/ x = e BY <2>1, <3>1
      <4> QED BY <1>0, <2>1, <2>3, <3>2, <4>1
    <3>5. pushes' \subseteq pushes \cup {e} BY <2>1
    <3>6. pushes' \cap (pendingSeq' \cup draining') = {} BY <3>1, <3>3, <3>5 DEF LossInv, OnceInv
    <3> QED BY <3>1, <3>4, <3>6 DEF LossInv, OnceInv
  <2> QED BY <2>2, <2>4, <2>5, <2>6, WaiterKept, StateStays, EntriesStay
      DEF LossInv, waiterVars, counterVars, stateVars
<1>3. CASE ReceiveTooLong \/ GapTimeout \/ RetryTimeout
  <2>1. (FetchCommonDifference /\ hasState) \/ UNCHANGED <<fetching, loop, counterVars>>
    BY <1>3 DEF ReceiveTooLong, GapTimeout, RetryTimeout, ScheduleCommonDifference
  <2>2. UNCHANGED <<hasState, pts, delivered, atRisk, floor, pushes, serverPts, pendingSeq, draining>>
    BY <1>3 DEF ReceiveTooLong, GapTimeout, RetryTimeout, stateVars, history, netVars
  <2>3. Grows /\ Onward /\ OnceInv' BY <1>1, <2>2
  <2> QED BY <2>1, <2>2, <2>3, ScheduleSafe DEF LossInv
<1>4. CASE CatchUp \/ RefreshState \/ Start
  <2>1. UNCHANGED <<waiterVars, stateVars, recoverVars, history, pushes, serverPts>>
    BY <1>4 DEF CatchUp, RefreshState, Start, netVars
  <2>2. UNCHANGED loop \/ Begin("getState", 0) \/ (Begin("catchUp", pts) /\ hasState)
    BY <1>4 DEF CatchUp, RefreshState, Start
  <2>3. Grows /\ Onward /\ OnceInv' BY <1>1, <2>1 DEF recoverVars, history
  <2>4. hasState' = hasState BY <2>1 DEF stateVars
  <2>5. Safes' BY <2>2, <2>3, <2>4, BeginSafe
  <2> QED BY <2>1, <2>3, <2>5, WaiterKept, StateStays DEF LossInv, waiterVars, counterVars, stateVars
<1>5. CASE Stop
  <2>1. /\ UNCHANGED <<good, last, count, waitingForSkipped, stateVars, draining, loop, delivered,
                       floor, netVars>>
        /\ requesting' = FALSE /\ queue' = {} /\ pendingSeq' = {}
        /\ atRisk' = atRisk \cup Between(good, last)
    BY <1>5 DEF Stop
  <2>2. Grows /\ Onward /\ OnceInv' BY <1>1, <2>1 DEF netVars
  <2>3. WaiterInv' BY <2>1, <2>2, WaiterKept DEF LossInv
  <2>4. StateSafe' BY <2>1, <2>2, StateStays DEF LossInv, stateVars
  <2>5. Safes' BY <2>1, <2>2, EntriesStay DEF LossInv, stateVars
  <2> QED BY <2>2, <2>3, <2>4, <2>5 DEF LossInv
<1>6. CASE DrainPendingSeq
  <2>1. PICK e \in draining : /\ draining' = draining \ {e}
                              /\ FeedUpdate(e) \/ UNCHANGED <<waiterVars, pts, delivered, atRisk>>
    BY <1>6 DEF DrainPendingSeq
  <2>2. UNCHANGED <<pushes, pendingSeq, serverPts, floor, hasState, loop>>
    BY <1>6 DEF DrainPendingSeq, netVars
  <2> QED BY <2>1, <2>2, ReceiveSafe
<1>7. ASSUME NEW e \in Events, Receive(e) PROVE LossInv'
  <2>1. CASE ReceiveStopped(e) \/ ReceiveOld(e) \/ ReceiveUpdate(e) \/ ReceiveNext(e)
    <3>1. e \in pushes /\ pushes' = pushes \ {e} /\ UNCHANGED <<pendingSeq, draining>>
      BY <2>1 DEF ReceiveStopped, ReceiveOld, ReceiveUpdate, ReceiveNext, recoverVars
    <3>2. FeedUpdate(e) \/ UNCHANGED <<waiterVars, pts, delivered, atRisk>>
      BY <2>1 DEF ReceiveStopped, ReceiveOld, ReceiveUpdate, ReceiveNext, stateVars, history
    <3>3. UNCHANGED <<serverPts, floor, hasState, loop>>
      BY <2>1 DEF ReceiveStopped, ReceiveOld, ReceiveUpdate, ReceiveNext, stateVars, history
    <3> QED BY <3>1, <3>2, <3>3, ReceiveSafe
  <2>2. CASE ReceiveEarly(e)
    <3>1. (FetchCommonDifference /\ hasState) \/ UNCHANGED <<fetching, loop, counterVars>>
      BY <2>2 DEF ReceiveEarly, ScheduleCommonDifference
    <3>2. /\ UNCHANGED <<hasState, pts, delivered, atRisk, floor, serverPts, draining>>
          /\ e \in pushes /\ pushes' = pushes \ {e} /\ pendingSeq' = pendingSeq \cup {e}
      BY <2>2 DEF ReceiveEarly, stateVars, history
    <3>3. Grows /\ Onward BY <1>0, <3>2 DEF Grows, Onward
    <3>4. OnceInv' BY <3>2 DEF LossInv, OnceInv
    <3> QED BY <3>1, <3>2, <3>3, <3>4, ScheduleSafe DEF LossInv
  <2> QED BY <1>7, <2>1, <2>2 DEF Receive
<1>8. ASSUME NEW f \in Fetchers, Answer(f) \/ AnswerBadly(f) PROVE LossInv'
  <2>1. UNCHANGED <<waiterVars, stateVars, recoverVars, history, pushes, serverPts>>
    BY <1>8 DEF Answer, AnswerBadly, netVars
  <2>2. Grows /\ Onward /\ OnceInv' BY <1>1, <2>1 DEF recoverVars, history
  <2>3. Safes' BY <1>8, <2>1, <2>2, AnswerSafe DEF stateVars
  <2> QED BY <2>1, <2>2, <2>3, WaiterKept, StateStays DEF LossInv, waiterVars, counterVars, stateVars
<1>9. ASSUME NEW f \in Fetchers, Continue(f) PROVE LossInv'
  <2>0. PICK l : l = loop[f] OBVIOUS
  <2>1. EntrySafe(l) /\ l \in Loops BY <2>0 DEF LossInv, TypeOK
  <2>2. CASE GotState(f)
    <3>1. /\ l.phase = "answered" /\ l.answer = "state" /\ l.upTo \in Marks /\ l.upTo \in Nat
          /\ hasState' = TRUE /\ pts' = l.upTo /\ Reset(l.upTo) /\ floor' = Later(l.upTo, floor)
          /\ loop' = [loop EXCEPT ![f] = Off]
          /\ UNCHANGED <<recoverVars, delivered, atRisk, netVars>>
      BY <2>0, <2>1, <2>2 DEF GotState, Got, EntrySafe, Loops
    <3>2. floor <= floor' /\ l.upTo <= floor' BY <1>0, <3>1 DEF Later
    <3>3. Grows BY <3>1, <3>2 DEF Grows
    <3>4. OnceInv' BY <3>1 DEF LossInv, OnceInv, recoverVars, netVars
    <3>5. WaiterInv' BY <3>1, WaiterReset
    <3>6. Safe(pts)' /\ Safe(good)'
      <4>1. floor' \in Nat BY DEF TypeOK
      <4>2. Between(floor', l.upTo) = {} BY <3>1, <3>2, <4>1 DEF Between
      <4> QED BY <3>1, <4>2 DEF Safe, Reset
    <3>7. StateSafe' BY <3>1, <3>6 DEF StateSafe, Reset
    <3>8. Safes'
      <4>1. EntrySafe(Off)' BY DEF EntrySafe, Off
      <4> QED BY <3>1, <3>3, <4>1, EntriesStay DEF LossInv
    <3> QED BY <3>4, <3>5, <3>7, <3>8 DEF LossInv
  <2>3. CASE GotNothing(f)
    <3>1. /\ l.phase = "answered" /\ l.answer \in {"empty", "tooLong"}
          /\ LoopReturns(f)
          /\ UNCHANGED <<waiterVars, hasState, recoverVars, delivered, atRisk, netVars>>
          /\ \/ UNCHANGED <<pts, floor>>
             \/ pts' = l.upTo /\ floor' = Later(l.upTo, floor)
      BY <2>0, <2>3 DEF GotNothing, Got
    <3>2. l.upTo \in Marks /\ l.upTo \in Nat /\ hasState
      BY <2>1, <3>1 DEF EntrySafe, Loops
    <3>3. Grows BY <1>0, <3>1, <3>2 DEF Grows, Later
    <3>4. Onward /\ OnceInv' BY <1>0, <3>1 DEF Onward, LossInv, OnceInv, recoverVars, netVars
    <3>5. WaiterInv' BY <3>1, <3>3, <3>4, WaiterKept DEF LossInv, waiterVars, counterVars
    <3>6. StateSafe'
      <4>1. CASE UNCHANGED <<pts, floor>>
        BY <3>1, <3>3, <4>1, StateStays DEF LossInv, waiterVars, counterVars
      <4>2. CASE pts' = l.upTo /\ floor' = Later(l.upTo, floor)
        <5>1. l.upTo <= floor' /\ floor' \in Nat BY <1>0, <3>2, <4>2 DEF Later
        <5>2. Between(floor', l.upTo) = {} BY <3>2, <5>1 DEF Between
        <5>3. Safe(pts)' BY <4>2, <5>2 DEF Safe
        <5>4. good' = good /\ last' = last /\ hasState' = hasState
          BY <3>1 DEF waiterVars, counterVars
        <5>5. Safe(good)'
          <6>1. Safe(good) BY <3>2 DEF LossInv, StateSafe
          <6> QED BY <3>3, <5>4, <6>1, SafeStays DEF Safe, Between
        <5> QED BY <3>2, <4>2, <5>3, <5>4, <5>5 DEF LossInv, StateSafe
      <4> QED BY <3>1, <4>1, <4>2
    <3>7. Safes' BY <2>0, <3>1, <3>3, ReturnSafe
    <3> QED BY <3>4, <3>5, <3>6, <3>7 DEF LossInv
  <2>4. CASE ProcessDifference(f)
    <3>1. /\ l.phase = "answered" /\ l.answer \in {"full", "slice"}
          /\ delivered' = delivered \cup Between(l.from, l.upTo)
          /\ UNCHANGED <<waiterVars, stateVars, recoverVars, floor, atRisk, netVars>>
      BY <2>0, <2>4 DEF ProcessDifference, Got, Deliver
    <3>2. l.upTo \in Marks /\ l.kind # "getState" /\ hasState /\ Safe(l.from)
      BY <2>1, <3>1 DEF EntrySafe
    <3>3. Grows BY <1>0, <3>1 DEF Grows
    <3>4. Onward /\ OnceInv' BY <1>0, <3>1 DEF Onward, LossInv, OnceInv, recoverVars, netVars
    <3>5. Safe(l.upTo)'
      <4> SUFFICES ASSUME NEW x \in Events, floor < x, x <= l.upTo
                   PROVE  x \in delivered' \cup atRisk'
        BY <3>1 DEF Safe, Between
      <4>1. x \in Nat /\ l.from \in Nat BY <2>1 DEF Loops
      <4>2. CASE x <= l.from BY <3>1, <3>2, <4>2 DEF Safe, Between
      <4>3. CASE l.from < x BY <3>1, <4>3 DEF Between
      <4> QED BY <4>1, <4>2, <4>3
    <3>6. PICK r : r = [l EXCEPT !.phase = "processed"] OBVIOUS
    <3>7. /\ r.phase = "processed" /\ r.kind = l.kind /\ r.from = l.from /\ r.upTo = l.upTo
      BY <2>1, <3>6 DEF Loops
    <3>8. Safe(l.from)' BY <3>2, <3>3, SafeStays
    <3>9. EntrySafe(r)' BY <3>1, <3>2, <3>5, <3>7, <3>8 DEF EntrySafe, stateVars
    <3>10. loop' = [loop EXCEPT ![f] = r] BY <2>0, <2>4, <3>6 DEF ProcessDifference, TypeOK
    <3>11. Safes' BY <3>1, <3>3, <3>9, <3>10, EntriesStay DEF LossInv, stateVars
    <3> QED BY <3>1, <3>3, <3>4, <3>11, WaiterKept, StateStays
        DEF LossInv, waiterVars, counterVars, stateVars
  <2>5. CASE TakeState(f)
    <3>1. /\ l.phase = "processed" /\ pts' = l.upTo
          /\ UNCHANGED <<waiterVars, hasState, recoverVars, delivered, floor, atRisk, netVars>>
          /\ LoopReturns(f) \/ loop' = [loop EXCEPT ![f] = Ask(l.kind, l.upTo)]
      BY <2>0, <2>5 DEF TakeState
    <3>2. l.upTo \in Marks /\ l.kind # "getState" /\ hasState /\ Safe(l.upTo)
      BY <2>1, <3>1 DEF EntrySafe
    <3>3. Grows BY <1>0, <3>1 DEF Grows
    <3>4. Onward /\ OnceInv' BY <1>0, <3>1 DEF Onward, LossInv, OnceInv, recoverVars, netVars
    <3>5. Safe(l.upTo)' BY <3>2, <3>3, SafeStays
    <3>6. StateSafe'
      <4>1. good' = good /\ last' = last /\ hasState' = hasState
        BY <3>1 DEF waiterVars, counterVars
      <4>2. Safe(pts)' BY <3>1, <3>5 DEF Safe
      <4>3. Safe(good)'
        <5>1. Safe(good) BY <3>2 DEF LossInv, StateSafe
        <5> QED BY <3>3, <4>1, <5>1, SafeStays DEF Safe, Between
      <4> QED BY <3>1, <3>2, <4>1, <4>2, <4>3 DEF LossInv, StateSafe
    <3>7. Safes'
      <4>1. CASE LoopReturns(f) BY <2>0, <3>1, <3>3, <4>1, ReturnSafe
      <4>2. CASE loop' = [loop EXCEPT ![f] = Ask(l.kind, l.upTo)]
        <5>1. EntrySafe(Ask(l.kind, l.upTo))' BY <3>1, <3>2, <3>5, AskSafe
        <5> QED BY <3>1, <3>3, <4>2, <5>1, EntriesStay DEF LossInv
      <4> QED BY <3>1, <4>1, <4>2
    <3> QED BY <3>1, <3>3, <3>4, <3>6, <3>7, WaiterKept DEF LossInv, waiterVars, counterVars
  <2>6. CASE GotError(f)
    <3>1. /\ l.phase = "answered" /\ LoopReturns(f)
          /\ UNCHANGED <<waiterVars, stateVars, recoverVars, history, netVars>>
      BY <2>0, <2>6 DEF GotError, Got
    <3>2. Grows /\ Onward /\ OnceInv' BY <1>1, <3>1 DEF recoverVars, history, netVars
    <3>3. Safes' BY <2>0, <3>1, <3>2, ReturnSafe DEF stateVars
    <3> QED BY <3>1, <3>2, <3>3, WaiterKept, StateStays
        DEF LossInv, waiterVars, counterVars, stateVars
  <2>7. CASE FinishCommonDifference(f)
    <3>1. /\ l.phase = "ended" /\ Reset(pts) /\ requesting' = FALSE
          /\ draining' = pendingSeq /\ pendingSeq' = {} /\ draining = {}
          /\ loop' = [loop EXCEPT ![f] = Off]
          /\ UNCHANGED <<stateVars, history, netVars>>
      BY <2>0, <2>7 DEF FinishCommonDifference, Quiet
    <3>2. hasState BY <2>1, <3>1 DEF EntrySafe
    <3>3. Grows BY <1>0, <3>1 DEF Grows, history
    <3>4. OnceInv' BY <3>1 DEF LossInv, OnceInv, netVars
    <3>5. WaiterInv' BY <3>1, WaiterReset DEF TypeOK
    <3>6. Safe(pts)' /\ Safe(good)'
      <4>1. Safe(pts) BY <3>2 DEF LossInv, StateSafe
      <4>2. pts' = pts /\ good' = pts BY <3>1 DEF Reset, stateVars
      <4> QED BY <3>3, <4>1, <4>2, SafeStays DEF Safe, Between
    <3>7. StateSafe' BY <3>1, <3>2, <3>6 DEF LossInv, StateSafe, Reset, stateVars
    <3>8. EntrySafe(Off)' BY DEF EntrySafe, Off
    <3>9. Safes' BY <3>1, <3>3, <3>8, EntriesStay DEF LossInv, stateVars
    <3> QED BY <3>4, <3>5, <3>7, <3>9 DEF LossInv
  <2> QED BY <1>9, <2>2, <2>3, <2>4, <2>5, <2>6, <2>7 DEF Continue
<1>10. CASE UNCHANGED vars
  <2>1. UNCHANGED <<waiterVars, stateVars, recoverVars, loop, history, netVars>>
    BY <1>10 DEF vars
  <2>2. Grows /\ Onward /\ OnceInv' BY <1>1, <2>1 DEF recoverVars, history, netVars
  <2> QED BY <2>1, <2>2, WaiterKept, StateStays, EntriesStay
      DEF LossInv, waiterVars, counterVars, stateVars
<1> QED BY <1>2, <1>3, <1>4, <1>5, <1>6, <1>7, <1>8, <1>9, <1>10 DEF Next

\* No update is lost that the code does not put at risk: between the pts it took over
\* without updates and the one it stands at, or the waiter counts as good, every update was
\* dispatched or jumped over while a difference was being fetched, or forgotten by stop().
THEOREM LossKnown == Spec => []LossIsAtRisk
<1> DEFINE Inv == TypeOK /\ WatchInv /\ LossInv
<1>1. Init => Inv BY InitType, InitWatch, InitLoss
<1>2. Inv /\ [Next]_vars => Inv' BY TypeStep, WatchStep, LossStep DEF WatchInv
<1>3. Inv => LossIsAtRisk
  BY DEF LossInv, StateSafe, LossIsAtRisk, Safe, Later
<1> HIDE DEF Inv
<1> QED BY <1>1, <1>2, <1>3, PTL DEF Spec

=============================================================================
