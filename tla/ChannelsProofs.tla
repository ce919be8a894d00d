---------------------------- MODULE ChannelsProofs ----------------------------
(***************************************************************************)
(* What a channel's tracker passed was dispatched, or was forgotten by a   *)
(* fetch that failed, and what waits behind a gap is watched: for any      *)
(* number of updates, fetches and failures.                                *)
(*                                                                         *)
(* The counter alone does not know which updates it counted.  The argument *)
(* names them: as many as the count is ahead of the good pts, all above it *)
(* and none above the greatest pts seen.  When the count reaches that pts, *)
(* they are all there is in between.  It holds because no update is pushed *)
(* twice and because those that come during a fetch are not counted.       *)
(***************************************************************************)
EXTENDS Channels, FiniteSetTheorems, TLAPS

\* A fetch whose tracker is still the one of the channel.
Owned(f) == fetch[f].own

\* What the queue held when the fetch of the tracker began.
Taken == UNION {fetch[f].queue : f \in {g \in Fetchers : Owned(g)}}

\* The tracker is ahead of nothing the server does not have, and what was pushed is older still.
BoundInv ==
    /\ good <= serverPts /\ last <= serverPts
    /\ pushes \subseteq 1 .. serverPts

\* At most one fetch is the tracker's, which goes on from where that is and blocks it.
FetchInv ==
    /\ \A f \in Fetchers :
          /\ Owned(f) => fetch[f].phase # "off" /\ requesting /\ good > 0 /\ fetch[f].from = good
          /\ fetch[f].from <= serverPts
          /\ fetch[f].phase \in {"slice", "final"} =>
                fetch[f].from <= fetch[f].upTo /\ fetch[f].upTo <= serverPts
    /\ \A f, g \in Fetchers : Owned(f) /\ Owned(g) => f = g

\* Updates wait only in a tracker that has begun and asks for no difference.
WatchInv ==
    /\ good > 0 => tracked
    /\ queue # {} => waitingForSkipped /\ good > 0 /\ ~requesting
    /\ retryHandle => retryTimers > 0

\* The updates that were counted since the good pts was set.
Counts(counted) ==
    /\ counted \subseteq Between(good, last) /\ counted \cap pushes = {}
    /\ count = good + Cardinality(counted)
    /\ counted \subseteq queue \cup Taken \cup delivered \cup forgotten \cup skipped

CountInv == good > 0 => good <= last /\ \E counted \in SUBSET Nat : Counts(counted)

ChannelInv ==
    TypeOK /\ BoundInv /\ FetchInv /\ WatchInv /\ CountInv /\ LossIsForgotten /\ QueueIsWatched

-----------------------------------------------------------------------------
(* What the types give, and what keeps each part of the invariant *)

Fetches == [phase : {"off", "resolving", "asked", "final", "slice"}, own : BOOLEAN,
            from : Updates, upTo : Updates, queue : SUBSET Updates]

\* TypeOK, one variable at a time.
Typed ==
    /\ good \in Nat /\ last \in Nat /\ count \in Nat /\ retryTimers \in Nat
    /\ requesting \in BOOLEAN /\ waitingForSkipped \in BOOLEAN /\ timer \in BOOLEAN
    /\ running \in BOOLEAN /\ tracked \in BOOLEAN /\ known \in BOOLEAN /\ retryHandle \in BOOLEAN
    /\ queue \subseteq Updates /\ pushes \subseteq Updates /\ delivered \subseteq Updates
    /\ forgotten \subseteq Updates /\ skipped \subseteq Updates /\ floor \in Updates
    /\ serverPts \in StartPts .. LastPts /\ faults \in 0 .. MaxFaults
    /\ fetch \in [Fetchers -> Fetches]

LEMMA Types == TypeOK <=> Typed
BY DEF TypeOK, Typed, Fetches

LEMMA Bounds ==
    /\ StartPts \in Nat /\ LastPts \in Nat /\ MaxFaults \in Nat /\ 0 < StartPts /\ StartPts <= LastPts
    /\ Off \in Fetches /\ Off.phase = "off" /\ Off.own = FALSE /\ Off.from = 0
BY ChannelsAssumption DEF Off, Fetches, Updates

\* Server and counter are within the updates.
LEMMA Within ==
    ASSUME ChannelInv
    PROVE  serverPts \in Nat /\ serverPts <= LastPts /\ good \in Updates /\ last \in Updates
BY Types, Bounds DEF ChannelInv, Typed, BoundInv, Updates

LEMMA FaultCounts == ASSUME Typed, Fault PROVE faults' \in 0 .. MaxFaults
BY Bounds DEF Fault, Typed

\* Who only tells more and pushes nothing old keeps what was counted.
LEMMA CountKeeps ==
    ASSUME ChannelInv, UNCHANGED <<good, last, count>>,
           queue \cup Taken \cup delivered \cup forgotten \cup skipped
              \subseteq queue' \cup Taken' \cup delivered' \cup forgotten' \cup skipped',
           pushes' \subseteq pushes \cup {serverPts + 1}
    PROVE  CountInv'
<1>1. SUFFICES ASSUME good > 0
               PROVE  good <= last /\ \E counted \in SUBSET Nat : Counts(counted)'
  BY DEF CountInv
<1>2. PICK counted \in SUBSET Nat : Counts(counted) BY <1>1 DEF ChannelInv, CountInv
<1>3. good \in Nat /\ last \in Nat /\ last <= serverPts /\ serverPts \in Nat /\ good <= last
  BY <1>1, Types, Within DEF ChannelInv, Typed, BoundInv, CountInv
<1>4. \A e \in Between(good, last) : e # serverPts + 1 BY <1>3 DEF Between
<1>5. counted \subseteq Between(good, last) /\ counted \cap pushes' = {}
  BY <1>2, <1>4 DEF Counts
<1>6. Counts(counted)' BY <1>2, <1>5 DEF Counts, Between
<1> QED BY <1>3, <1>6

\* A counter that begins has counted nothing.
LEMMA CountBegins ==
    ASSUME good' \in Nat, last' = good', count' = good'
    PROVE  CountInv'
<1>1. Counts({})'
  <2>1. Cardinality({}) = 0 BY FS_EmptySet
  <2> QED BY <2>1 DEF Counts, Between
<1>2. {} \in SUBSET Nat OBVIOUS
<1> QED BY <1>1, <1>2 DEF CountInv

\* Who only tells more and leaves the counter loses nothing.
LEMMA LossKeeps ==
    ASSUME LossIsForgotten, UNCHANGED <<good, floor>>, delivered \subseteq delivered',
           forgotten \subseteq forgotten', skipped \subseteq skipped'
    PROVE  LossIsForgotten'
BY DEF LossIsForgotten, Between

\* What happens to one fetch happens to no other.
LEMMA OneFetch ==
    ASSUME fetch \in [Fetchers -> Fetches], NEW f \in Fetchers, NEW r, fetch' = [fetch EXCEPT ![f] = r]
    PROVE  fetch'[f] = r /\ \A g \in Fetchers \ {f} : fetch'[g] = fetch[g]
OBVIOUS

\* Taken with one fetch apart.
LEMMA TakenBy ==
    ASSUME NEW f \in Fetchers, Owned(f) PROVE fetch[f].queue \subseteq Taken
BY DEF Taken

-----------------------------------------------------------------------------
(* The parts of several steps: a fetch that begins and one that ends *)

LEMMA FetchBegins ==
    ASSUME ChannelInv, NEW armed \in BOOLEAN, FetchChannelDifference(armed),
           UNCHANGED <<netVars, delivered, floor, forgotten, skipped>>
    PROVE  /\ UNCHANGED <<good, last, count, waitingForSkipped>> /\ requesting' \in BOOLEAN
           /\ queue' \subseteq queue /\ (queue' # {} => armed /\ ~requesting')
           /\ fetch' \in [Fetchers -> Fetches]
           /\ BoundInv' /\ FetchInv' /\ CountInv' /\ LossIsForgotten'
<1>0. Typed /\ BoundInv /\ FetchInv /\ WatchInv /\ CountInv /\ LossIsForgotten
  BY Types DEF ChannelInv
<1>1. UNCHANGED <<good, last, count, waitingForSkipped>>
  BY DEF FetchChannelDifference, StartRequesting, counterVars
<1>2. BoundInv' /\ LossIsForgotten' /\ pushes' = pushes /\ serverPts' = serverPts
  BY <1>0, <1>1, LossKeeps DEF netVars, BoundInv
<1>3. CASE ~tracked \/ requesting \/ good = 0 \/ armed
  <2>1. UNCHANGED <<queue, requesting, fetch>> BY <1>3 DEF FetchChannelDifference, counterVars
  <2>2. Taken' = Taken BY <2>1 DEF Taken, Owned
  <2>3. CountInv' BY <1>1, <1>2, <2>1, <2>2, CountKeeps
  <2>4. FetchInv' BY <1>0, <1>1, <1>2, <2>1 DEF FetchInv, Owned
  <2>5. queue # {} => armed /\ ~requesting BY <1>0, <1>3 DEF WatchInv, Typed
  <2> QED BY <1>0, <1>1, <1>2, <2>1, <2>3, <2>4, <2>5 DEF Typed
<1>4. CASE ~(~tracked \/ requesting \/ good = 0 \/ armed)
  <2>1. /\ StartRequesting
        /\ \E f \in Idle : fetch' = [fetch EXCEPT ![f] =
              [phase |-> IF known THEN "asked" ELSE "resolving", own |-> TRUE,
               from |-> good, upTo |-> 0, queue |-> queue]]
    BY <1>4 DEF FetchChannelDifference
  <2>2a. PICK f \in Fetchers :
            /\ fetch[f].phase = "off"
            /\ fetch' = [fetch EXCEPT ![f] =
                  [phase |-> IF known THEN "asked" ELSE "resolving", own |-> TRUE,
                   from |-> good, upTo |-> 0, queue |-> queue]]
    BY <2>1 DEF Idle
  <2>2b. PICK r : r = [phase |-> IF known THEN "asked" ELSE "resolving", own |-> TRUE,
                       from |-> good, upTo |-> 0, queue |-> queue]
    OBVIOUS
  <2>2. fetch[f].phase = "off" /\ fetch' = [fetch EXCEPT ![f] = r] BY <2>2a, <2>2b
  <2>3. requesting' = TRUE /\ queue' = {} BY <2>1 DEF StartRequesting
  <2>4. r.phase \in {"asked", "resolving"} /\ r.own = TRUE /\ r.from = good /\ r.upTo = 0
        /\ r.queue = queue
    BY <2>2b
  <2>5. r \in Fetches
    <3>1. good \in Updates /\ 0 \in Updates /\ queue \in SUBSET Updates
      BY <1>0, Within, Bounds DEF Typed, Updates
    <3> QED BY <2>2b, <3>1 DEF Fetches
  <2>6. fetch'[f] = r /\ \A g \in Fetchers \ {f} : fetch'[g] = fetch[g]
    BY <1>0, <2>2, OneFetch DEF Typed
  <2>7. fetch' \in [Fetchers -> Fetches] BY <1>0, <2>2, <2>5 DEF Typed
  <2>8. \A g \in Fetchers : ~Owned(g)
    BY <1>0, <1>4 DEF FetchInv
  <2>9. good \in Nat /\ good > 0 /\ good <= serverPts BY <1>0, <1>4 DEF Typed, BoundInv
  <2>10. \A g \in Fetchers : Owned(g)' => g = f BY <2>6, <2>8 DEF Owned
  <2>11. ASSUME NEW g \in Fetchers
         PROVE  /\ Owned(g)' => fetch'[g].phase # "off" /\ requesting' /\ good' > 0
                                /\ fetch'[g].from = good'
                /\ fetch'[g].from <= serverPts'
                /\ fetch'[g].phase \in {"slice", "final"} =>
                      fetch'[g].from <= fetch'[g].upTo /\ fetch'[g].upTo <= serverPts'
    <3>1. CASE g = f BY <1>1, <1>2, <2>3, <2>4, <2>6, <2>9, <3>1
    <3>2. CASE g # f
      <4>1. ~Owned(g)' BY <2>10, <3>2
      <4>2. fetch'[g] = fetch[g] BY <2>6, <3>2
      <4> QED BY <1>0, <1>2, <4>1, <4>2 DEF FetchInv
    <3> QED BY <3>1, <3>2
  <2>12. FetchInv' BY <2>10, <2>11 DEF FetchInv
  <2>13. Taken = {} BY <2>8 DEF Taken
  <2>14. queue \subseteq Taken' BY <2>4, <2>6 DEF Taken, Owned
  <2>15. CountInv' BY <1>1, <1>2, <2>13, <2>14, CountKeeps
  <2> QED BY <1>1, <1>2, <2>3, <2>7, <2>12, <2>15
<1> QED BY <1>3, <1>4

LEMMA FetchEnds ==
    ASSUME ChannelInv, NEW f \in Fetchers, Ends(f), Owned(f) \/ UNCHANGED good
    PROVE  /\ fetch' \in [Fetchers -> Fetches] /\ requesting' \in BOOLEAN
           /\ requesting' => requesting
           /\ Owned(f) => \A g \in Fetchers : ~Owned(g)'
           /\ FetchInv'
           /\ Taken \subseteq Taken' \cup fetch[f].queue
<1>0. Typed /\ FetchInv BY Types DEF ChannelInv
<1>1. fetch'[f] = Off /\ \A g \in Fetchers \ {f} : fetch'[g] = fetch[g]
  BY <1>0, OneFetch DEF Typed, Ends
<1>2. fetch' \in [Fetchers -> Fetches] BY <1>0, Bounds DEF Typed, Ends
<1>3. requesting' = (requesting /\ ~Owned(f)) /\ serverPts' = serverPts
  BY DEF Ends, Owned, netVars
<1>4. requesting' \in BOOLEAN /\ (requesting' => requesting) BY <1>3
<1>5. ~Owned(f)' /\ \A g \in Fetchers \ {f} : Owned(g)' <=> Owned(g) BY <1>1, Bounds DEF Owned
<1>6. Owned(f) => \A g \in Fetchers : ~Owned(g)' BY <1>0, <1>5 DEF FetchInv
<1>7. ASSUME NEW g \in Fetchers
      PROVE  /\ Owned(g)' => fetch'[g].phase # "off" /\ requesting' /\ good' > 0
                             /\ fetch'[g].from = good'
             /\ fetch'[g].from <= serverPts'
             /\ fetch'[g].phase \in {"slice", "final"} =>
                   fetch'[g].from <= fetch'[g].upTo /\ fetch'[g].upTo <= serverPts'
  <2>1. CASE g = f
    <3>1. fetch'[g].from = 0 /\ fetch'[g].phase = "off" /\ ~Owned(g)' BY <1>1, <1>5, <2>1, Bounds
    <3>2. 0 <= serverPts' BY <1>3, Within
    <3> QED BY <3>1, <3>2
  <2>2. CASE g # f
    <3>1. fetch'[g] = fetch[g] BY <1>1, <2>2
    <3>2. Owned(g)' => Owned(g) /\ ~Owned(f) BY <1>5, <1>6, <2>2
    <3>3. Owned(g)' => UNCHANGED good /\ requesting' = requesting
      BY <1>0, <1>3, <3>2 DEF Typed
    <3> QED BY <1>0, <1>3, <3>1, <3>2, <3>3 DEF FetchInv
  <2> QED BY <2>1, <2>2
<1>8. FetchInv' BY <1>0, <1>5, <1>7 DEF FetchInv
<1>9. Taken \subseteq Taken' \cup fetch[f].queue
  <2>1. ASSUME NEW g \in Fetchers, Owned(g), g # f PROVE fetch[g].queue \subseteq Taken'
    BY <1>1, <1>5, <2>1 DEF Taken
  <2> QED BY <2>1 DEF Taken
<1> QED BY <1>2, <1>4, <1>6, <1>8, <1>9

-----------------------------------------------------------------------------
(* A pushed update *)

LEMMA TypesNext == TypeOK' <=> Typed'
BY DEF TypeOK, Typed, Fetches

LEMMA Assembled ==
    ASSUME Typed', BoundInv', FetchInv', WatchInv', CountInv', LossIsForgotten', QueueIsWatched'
    PROVE  ChannelInv'
BY TypesNext DEF ChannelInv

\* An update that is counted: behind a gap it is one more, and when it fills the gap everything up
\* to the greatest pts was counted.
LEMMA Counted ==
    ASSUME ChannelInv, NEW e \in pushes, pushes' = pushes \ {e},
           good > 0, ~requesting, ~Duplicate(e, 1), Count(e, 1),
           delivered' = delivered \cup Applied(e, 1), forgotten' = forgotten, skipped' = skipped,
           floor' = floor, serverPts' = serverPts, fetch' = fetch
    PROVE  /\ good' \in Nat /\ last' \in Nat /\ count' \in Nat /\ good' > 0
           /\ good' <= serverPts /\ last' <= serverPts
           /\ CountInv' /\ LossIsForgotten'
<1>0. Typed /\ BoundInv /\ FetchInv /\ WatchInv /\ CountInv /\ LossIsForgotten
  BY Types DEF ChannelInv
<1>1. good \in Nat /\ last \in Nat /\ count \in Nat /\ e \in Nat /\ serverPts \in Nat
      /\ good < e /\ e <= serverPts /\ good <= last /\ last <= serverPts
  BY <1>0, Within DEF Typed, BoundInv, CountInv, Duplicate
<1>2. PICK counted \in SUBSET Nat : Counts(counted) BY <1>0 DEF CountInv
<1>3. /\ counted \subseteq Between(good, last) /\ e \notin counted
      /\ count = good + Cardinality(counted)
      /\ counted \subseteq queue \cup Taken \cup delivered \cup forgotten \cup skipped
  BY <1>2 DEF Counts
<1>4. PICK top \in Nat : top = Greatest(e) BY <1>1 DEF Greatest
<1>5. last <= top /\ e <= top /\ top <= serverPts /\ good < top BY <1>1, <1>4 DEF Greatest
<1>6. PICK all : all = counted \cup {e} OBVIOUS
<1>7. IsFiniteSet(Between(good, top)) /\ Cardinality(Between(good, top)) = top - good
  <2>1. good + 1 \in Int /\ top \in Int /\ ~(good + 1 > top) BY <1>1, <1>5
  <2>2. IsFiniteSet((good + 1) .. top) /\ Cardinality((good + 1) .. top) = top - (good + 1) + 1
    BY <2>1, FS_Interval
  <2> QED BY <1>1, <2>2 DEF Between
<1>8. all \in SUBSET Nat /\ all \subseteq Between(good, top)
  BY <1>1, <1>3, <1>5, <1>6 DEF Between
<1>9. IsFiniteSet(all) /\ (Cardinality(all) = Cardinality(Between(good, top)) => all = Between(good, top))
  BY <1>7, <1>8, FS_Subset
<1>10. IsFiniteSet(counted) BY <1>6, <1>9, FS_Subset
<1>11. Cardinality(all) = Cardinality(counted) + 1 BY <1>3, <1>6, <1>10, FS_AddElement
<1>12. Cardinality(counted) \in Nat BY <1>10, FS_CardinalityType
<1>13. last' = top /\ count' = count + 1 BY <1>4 DEF Count
<1>14. Taken = {} /\ Taken' = {}
  BY <1>0 DEF FetchInv, Taken, Owned
<1>15. CASE Complete(e, 1) /\ good' = Greatest(e) /\ ApplyQueue
  <2>1. top = count + 1 BY <1>4, <1>15 DEF Complete
  <2>2. all = Between(good, top) BY <1>1, <1>3, <1>7, <1>9, <1>11, <1>12, <2>1
  <2>3. good' = top BY <1>4, <1>15
  <2>4. count' = top BY <1>13, <2>1
  <2>5. CountInv' BY <1>13, <2>3, <2>4, CountBegins
  <2>6. Accepted(e, 1) BY <1>15 DEF Accepted
  <2>7. queue \cup {e} \subseteq delivered'
    <3>1. Applied(e, 1) = {e} \cup (IF waitingForSkipped THEN queue ELSE {})
      BY <2>6 DEF Applied
    <3> QED BY <1>0, <3>1 DEF WatchInv
  <2>8. Between(good, top) \subseteq delivered' \cup forgotten' \cup skipped'
    BY <1>3, <1>6, <1>14, <2>2, <2>7
  <2>9. ASSUME NEW d \in Between(floor, top), d \notin Between(good, top)
        PROVE  d \in delivered' \cup forgotten' \cup skipped'
    <3>1. d \in Between(floor, good) BY <1>0, <1>1, <1>5, <2>9, Bounds DEF Between, Typed, Updates
    <3> QED BY <1>0, <3>1 DEF LossIsForgotten
  <2>10. LossIsForgotten' BY <2>3, <2>8, <2>9 DEF LossIsForgotten, Between
  <2> QED BY <1>1, <1>5, <1>13, <2>3, <2>4, <2>5, <2>10
<1>16. CASE ~Complete(e, 1) /\ UNCHANGED good /\ Enqueue(e)
  <2>1. queue' = queue \cup {e} BY <1>16 DEF Enqueue
  <2>2. delivered \subseteq delivered' OBVIOUS
  <2>3. LossIsForgotten' BY <1>0, <1>16, <2>2, LossKeeps
  <2>4. Counts(all)'
    <3>1. count' = good' + Cardinality(all) BY <1>1, <1>3, <1>11, <1>12, <1>13, <1>16
    <3>2. all \subseteq Between(good, last)' BY <1>8, <1>13, <1>16 DEF Between
    <3>3. all \cap pushes' = {} BY <1>2, <1>6 DEF Counts
    <3>4. all \subseteq queue' \cup Taken' \cup delivered' \cup forgotten' \cup skipped'
      BY <1>3, <1>6, <1>14, <2>1, <2>2
    <3> QED BY <3>1, <3>2, <3>3, <3>4 DEF Counts
  <2>5. CountInv' BY <1>1, <1>5, <1>8, <1>13, <1>16, <2>4 DEF CountInv
  <2>6. count' \in Nat BY <1>1, <1>13
  <2> QED BY <1>1, <1>5, <1>13, <1>16, <2>3, <2>5, <2>6
<1> QED BY <1>15, <1>16 DEF Count

LEMMA FeedStep ==
    ASSUME ChannelInv, NEW e \in pushes, FeedUpdate(e)
    PROVE  ChannelInv'
<1>0. Typed /\ BoundInv /\ FetchInv /\ WatchInv /\ CountInv /\ LossIsForgotten /\ QueueIsWatched
  BY Types DEF ChannelInv
<1>1. good \in Nat /\ e \in Nat /\ e > 0 /\ e <= serverPts /\ serverPts \in Nat /\ e \in Updates
  BY <1>0, Within DEF Typed, BoundInv
<1>2. /\ pushes' = pushes \ {e}
      /\ UNCHANGED <<serverPts, running, recoverVars, fetch, forgotten, skipped, faults>>
  BY DEF FeedUpdate
<1>3. Taken' = Taken BY <1>2 DEF Taken, Owned
<1>4. CASE /\ good = 0
           /\ Reset(e) /\ tracked' = TRUE
           /\ delivered' = delivered \cup {e} /\ floor' = e
           /\ UNCHANGED <<requesting, waitingForSkipped, timer>>
  <2>1. good' = e /\ last' = e /\ count' = e /\ queue' = {} BY <1>4 DEF Reset
  <2>2. Typed'
    <3>1. queue' \subseteq Updates /\ pushes' \subseteq Updates /\ delivered' \subseteq Updates
      BY <1>0, <1>1, <1>2, <1>4, <2>1 DEF Typed
    <3> QED BY <1>0, <1>1, <1>2, <1>4, <2>1, <3>1 DEF Typed, recoverVars
  <2>3. BoundInv' BY <1>0, <1>1, <1>2, <2>1 DEF BoundInv
  <2>4. \A f \in Fetchers : ~Owned(f) BY <1>0, <1>1, <1>4 DEF FetchInv
  <2>5. FetchInv' BY <1>0, <1>2, <2>4 DEF FetchInv, Owned
  <2>6. WatchInv' BY <1>0, <1>2, <1>4, <2>1 DEF WatchInv, recoverVars
  <2>7. CountInv' BY <1>1, <2>1, CountBegins
  <2>8. LossIsForgotten' BY <1>1, <1>4, <2>1 DEF LossIsForgotten, Between
  <2>9. QueueIsWatched' BY <2>1 DEF QueueIsWatched
  <2> QED BY <2>2, <2>3, <2>5, <2>6, <2>7, <2>8, <2>9, Assembled
<1>5. CASE /\ good > 0
           /\ UpdateAndApply(e, 1)
           /\ delivered' = delivered \cup Applied(e, 1)
           /\ UNCHANGED <<tracked, floor>>
  <2>1. requesting' = requesting BY <1>5 DEF UpdateAndApply
  <2>2. Applied(e, 1) \subseteq {e} \cup queue BY DEF Applied
  <2>3. pushes' \subseteq Updates /\ delivered' \subseteq Updates
    BY <1>0, <1>1, <1>2, <1>5, <2>2 DEF Typed
  <2>4. /\ queue' \subseteq queue \cup {e}
        /\ waitingForSkipped' \in BOOLEAN /\ timer' \in BOOLEAN
        /\ queue' # {} => /\ waitingForSkipped' /\ ~requesting'
                          /\ timer' \/ retryTimers > 0
    <3>1. UNCHANGED waiterVars => UNCHANGED <<queue, waitingForSkipped, timer>>
      BY DEF waiterVars, counterVars
    <3>2. ApplyQueue => \/ UNCHANGED <<queue, waitingForSkipped, timer>>
                        \/ waitingForSkipped' = FALSE /\ timer' = FALSE /\ queue' = {}
      BY DEF ApplyQueue
    <3>3. Enqueue(e) => queue' = queue \cup {e} /\ waitingForSkipped' = TRUE /\ timer' = TRUE
      BY DEF Enqueue
    <3>4. \/ UNCHANGED <<queue, waitingForSkipped, timer>>
          \/ waitingForSkipped' = FALSE /\ timer' = FALSE /\ queue' = {}
          \/ ~requesting /\ queue' = queue \cup {e} /\ waitingForSkipped' = TRUE /\ timer' = TRUE
      BY <1>5, <3>1, <3>2, <3>3 DEF UpdateAndApply, Count
    <3>5. CASE UNCHANGED <<queue, waitingForSkipped, timer>>
      BY <1>0, <2>1, <3>5 DEF Typed, WatchInv, QueueIsWatched
    <3>6. CASE waitingForSkipped' = FALSE /\ timer' = FALSE /\ queue' = {}
      BY <3>6
    <3>7. CASE ~requesting /\ queue' = queue \cup {e} /\ waitingForSkipped' = TRUE /\ timer' = TRUE
      BY <2>1, <3>7
    <3> QED BY <3>4, <3>5, <3>6, <3>7
  <2>5. /\ good' \in Nat /\ last' \in Nat /\ count' \in Nat /\ good' > 0
        /\ good' <= serverPts /\ last' <= serverPts
        /\ CountInv' /\ LossIsForgotten'
        /\ requesting => UNCHANGED good
    <3>1. CASE UNCHANGED <<good, last, count>> /\ queue \subseteq queue' \cup delivered'
      <4>1. delivered \subseteq delivered' /\ pushes' \subseteq pushes \cup {serverPts + 1}
        BY <1>2, <1>5
      <4>2. CountInv' BY <1>2, <1>3, <3>1, <4>1, CountKeeps
      <4>3. LossIsForgotten' BY <1>0, <1>2, <1>5, <3>1, <4>1, LossKeeps
      <4> QED BY <1>0, <1>5, <3>1, <4>2, <4>3 DEF Typed, BoundInv
    <3>2. CASE requesting /\ ApplyQueue /\ UNCHANGED <<good, last, count>>
      <4>1. queue = {} BY <1>0, <3>2 DEF WatchInv
      <4> QED BY <3>1, <3>2, <4>1
    <3>3. CASE Duplicate(e, 1) /\ UNCHANGED waiterVars
      <4>1. UNCHANGED <<good, last, count, queue>> BY <3>3 DEF waiterVars, counterVars
      <4> QED BY <3>1, <4>1
    <3>4. CASE ~requesting /\ ~Duplicate(e, 1) /\ Count(e, 1)
      BY <1>2, <1>5, <3>4, Counted
    <3> QED BY <1>5, <3>2, <3>3, <3>4 DEF UpdateAndApply
  <2>6. Typed'
    <3>1. queue' \subseteq Updates BY <1>0, <1>1, <2>4 DEF Typed
    <3> QED BY <1>0, <1>2, <1>5, <2>1, <2>3, <2>4, <2>5, <3>1 DEF Typed, recoverVars
  <2>7. BoundInv' BY <1>0, <1>2, <2>5 DEF BoundInv
  <2>8. FetchInv'
    <3>1. \A f \in Fetchers : Owned(f) => good' = good BY <1>0, <2>5 DEF FetchInv
    <3> QED BY <1>0, <1>2, <2>1, <3>1 DEF FetchInv, Owned
  <2>9. WatchInv' BY <1>0, <1>2, <1>5, <2>4, <2>5 DEF WatchInv, recoverVars
  <2>10. QueueIsWatched' BY <1>2, <2>4 DEF QueueIsWatched, recoverVars
  <2> QED BY <2>5, <2>6, <2>7, <2>8, <2>9, <2>10, Assembled
<1> QED BY <1>4, <1>5 DEF FeedUpdate

-----------------------------------------------------------------------------
(* The server, the timers and the client that stops and starts *)

\* Steps that touch neither the counter nor the fetches.
LEMMA QuietStep ==
    ASSUME ChannelInv,
           Occur \/ Start \/ (\E e \in pushes : DropUpdate(e)) \/ UNCHANGED vars
    PROVE  ChannelInv'
<1>0. Typed /\ BoundInv /\ FetchInv /\ WatchInv /\ CountInv /\ LossIsForgotten /\ QueueIsWatched
  BY Types DEF ChannelInv
<1>1. UNCHANGED <<waiterVars, tracked, recoverVars, fetch, delivered, floor, forgotten, skipped, faults>>
  BY DEF Occur, Start, DropUpdate, vars
<1>2. UNCHANGED <<good, last, count, requesting, waitingForSkipped, queue, timer>>
  BY <1>1 DEF waiterVars, counterVars
<1>3. running' \in BOOLEAN
  BY <1>0 DEF Typed, Occur, Start, DropUpdate, vars
<1>4. /\ serverPts' \in StartPts .. LastPts /\ serverPts <= serverPts'
      /\ pushes' \subseteq pushes \cup {serverPts + 1} /\ pushes' \subseteq 1 .. serverPts'
  <2>1. serverPts \in Nat /\ serverPts \in StartPts .. LastPts /\ pushes \subseteq 1 .. serverPts
    BY <1>0, Within DEF Typed, BoundInv
  <2>2. CASE Occur
    <3>1. serverPts' = serverPts + 1 /\ serverPts < LastPts
          /\ pushes' \subseteq pushes \cup {serverPts + 1}
      BY <2>2 DEF Occur
    <3> QED BY <2>1, <3>1, Bounds
  <2>3. CASE ~Occur
    <3>1. serverPts' = serverPts /\ pushes' \subseteq pushes
      BY <2>3 DEF Start, DropUpdate, vars, netVars
    <3> QED BY <2>1, <3>1
  <2> QED BY <2>2, <2>3
<1>5. Taken' = Taken BY <1>1 DEF Taken, Owned
<1>6. Typed'
  <2>1. pushes' \subseteq Updates
    <3>1. serverPts' \in Nat /\ serverPts' <= LastPts BY <1>4, Bounds
    <3> QED BY <1>4, <3>1, Bounds DEF Updates
  <2> QED BY <1>0, <1>1, <1>2, <1>3, <1>4, <2>1 DEF Typed, recoverVars
<1>7. BoundInv'
  <2>1. serverPts \in Nat /\ serverPts' \in Nat BY <1>4, Within, Bounds
  <2> QED BY <1>0, <1>2, <1>4, <2>1 DEF BoundInv, Typed
<1>8. FetchInv'
  <2>1. \A f \in Fetchers : fetch[f].from \in Nat /\ fetch[f].upTo \in Nat
    BY <1>0, Bounds DEF Typed, Fetches, Updates
  <2>2. serverPts \in Nat /\ serverPts' \in Nat BY <1>4, Within, Bounds
  <2>3. \A f \in Fetchers :
           /\ fetch[f].from <= serverPts'
           /\ fetch[f].phase \in {"slice", "final"} =>
                 fetch[f].from <= fetch[f].upTo /\ fetch[f].upTo <= serverPts'
    BY <1>0, <1>4, <2>1, <2>2 DEF FetchInv
  <2> QED BY <1>0, <1>1, <1>2, <2>3 DEF FetchInv, Owned
<1>9. WatchInv' BY <1>0, <1>1, <1>2 DEF WatchInv, recoverVars
<1>10. CountInv' BY <1>1, <1>2, <1>4, <1>5, CountKeeps
<1>11. LossIsForgotten' BY <1>0, <1>1, <1>2, LossKeeps
<1>12. QueueIsWatched' BY <1>0, <1>1, <1>2 DEF QueueIsWatched, recoverVars
<1> QED BY <1>6, <1>7, <1>8, <1>9, <1>10, <1>11, <1>12, Assembled

LEMMA TimerStep ==
    ASSUME ChannelInv, GapTimeout \/ RetryTimeout
    PROVE  ChannelInv'
<1>0. Typed /\ WatchInv /\ QueueIsWatched BY Types DEF ChannelInv
<1>1. PICK armed \in BOOLEAN :
         /\ FetchChannelDifference(armed)
         /\ \/ armed = FALSE /\ retryTimers > 0 /\ retryTimers' = retryTimers - 1
               /\ retryHandle' = FALSE /\ timer' = timer
            \/ armed = retryHandle /\ UNCHANGED <<retryHandle, retryTimers>> /\ timer' = FALSE
  BY <1>0 DEF GapTimeout, RetryTimeout, recoverVars, Typed
<1>2. UNCHANGED <<netVars, running, tracked, known, delivered, floor, forgotten, skipped, faults>>
  BY DEF GapTimeout, RetryTimeout, recoverVars
<1>3. /\ UNCHANGED <<good, last, count, waitingForSkipped>> /\ requesting' \in BOOLEAN
      /\ queue' \subseteq queue /\ (queue' # {} => armed /\ ~requesting')
      /\ fetch' \in [Fetchers -> Fetches]
      /\ BoundInv' /\ FetchInv' /\ CountInv' /\ LossIsForgotten'
  BY <1>1, <1>2, FetchBegins
<1>4. retryTimers' \in Nat /\ retryHandle' \in BOOLEAN /\ timer' \in BOOLEAN
      /\ (retryHandle' => retryTimers' > 0)
  <2>1. CASE /\ armed = FALSE /\ retryTimers > 0 /\ retryTimers' = retryTimers - 1
             /\ retryHandle' = FALSE /\ timer' = timer
    <3>1. retryTimers - 1 \in Nat BY <1>0, <2>1 DEF Typed
    <3>2. timer' \in BOOLEAN BY <1>0, <2>1 DEF Typed
    <3> QED BY <2>1, <3>1, <3>2
  <2>2. CASE armed = retryHandle /\ UNCHANGED <<retryHandle, retryTimers>> /\ timer' = FALSE
    BY <1>0, <2>2 DEF Typed, WatchInv
  <2> QED BY <1>1, <2>1, <2>2
<1>5. Typed' BY <1>0, <1>2, <1>3, <1>4 DEF Typed, netVars
<1>6. WatchInv' BY <1>0, <1>2, <1>3, <1>4 DEF WatchInv
<1>7. QueueIsWatched' BY <1>0, <1>1, <1>3, <1>4 DEF QueueIsWatched
<1> QED BY <1>3, <1>5, <1>6, <1>7, Assembled

LEMMA TooLongStep ==
    ASSUME ChannelInv, ChannelTooLong
    PROVE  ChannelInv'
<1>0. Typed /\ BoundInv /\ FetchInv /\ WatchInv /\ CountInv /\ LossIsForgotten /\ QueueIsWatched
  BY Types DEF ChannelInv
<1>1. /\ UNCHANGED <<timer, netVars, running, recoverVars, delivered, forgotten, skipped>>
      /\ tracked' = TRUE /\ faults' \in 0 .. MaxFaults
  BY <1>0, FaultCounts DEF ChannelTooLong
<1>2. PICK p \in {0, serverPts} :
       \/ /\ good = 0 /\ p > 0
          /\ Reset(p) /\ floor' = p /\ UNCHANGED <<requesting, waitingForSkipped, fetch>>
       \/ /\ good > 0 /\ (p = 0 \/ good < p)
          /\ FetchChannelDifference(retryHandle) /\ UNCHANGED floor
       \/ /\ IF good = 0 THEN p = 0 ELSE p > 0 /\ p <= good
          /\ UNCHANGED <<counterVars, fetch, floor>>
  BY DEF ChannelTooLong
<1>3. CASE good = 0 /\ p > 0 /\ Reset(p) /\ floor' = p /\ UNCHANGED <<requesting, waitingForSkipped, fetch>>
  <2>1. good' = p /\ last' = p /\ count' = p /\ queue' = {} BY <1>3 DEF Reset
  <2>2. p \in Nat /\ p \in Updates /\ p <= serverPts BY <1>3, Within, Bounds DEF Updates
  <2>3. Typed' BY <1>0, <1>1, <1>3, <2>1, <2>2 DEF Typed, netVars, recoverVars
  <2>4. BoundInv' BY <1>0, <1>1, <2>1, <2>2 DEF BoundInv, netVars
  <2>5. \A f \in Fetchers : ~Owned(f) BY <1>0, <1>3 DEF FetchInv
  <2>6. FetchInv' BY <1>0, <1>1, <1>3, <2>5 DEF FetchInv, Owned, netVars
  <2>7. WatchInv' BY <1>0, <1>1, <2>1 DEF WatchInv, recoverVars
  <2>8. CountInv' BY <2>1, <2>2, CountBegins
  <2>9. LossIsForgotten' BY <1>3, <2>1, <2>2 DEF LossIsForgotten, Between
  <2>10. QueueIsWatched' BY <2>1 DEF QueueIsWatched
  <2> QED BY <2>3, <2>4, <2>6, <2>7, <2>8, <2>9, <2>10, Assembled
<1>4. CASE good > 0 /\ FetchChannelDifference(retryHandle) /\ UNCHANGED floor
  <2>1. /\ UNCHANGED <<good, last, count, waitingForSkipped>> /\ requesting' \in BOOLEAN
        /\ queue' \subseteq queue /\ (queue' # {} => ~requesting')
        /\ fetch' \in [Fetchers -> Fetches]
        /\ BoundInv' /\ FetchInv' /\ CountInv' /\ LossIsForgotten'
    <3>1. retryHandle \in BOOLEAN BY <1>0 DEF Typed
    <3> QED BY <1>1, <1>4, <3>1, FetchBegins
  <2>2. Typed' BY <1>0, <1>1, <1>4, <2>1 DEF Typed, netVars, recoverVars
  <2>3. WatchInv' BY <1>0, <1>1, <2>1 DEF WatchInv, recoverVars
  <2>4. QueueIsWatched' BY <1>0, <1>1, <2>1 DEF QueueIsWatched, recoverVars
  <2> QED BY <2>1, <2>2, <2>3, <2>4, Assembled
<1>5. CASE UNCHANGED <<counterVars, fetch, floor>>
  <2>1. UNCHANGED <<good, last, count, requesting, waitingForSkipped, queue>>
    BY <1>5 DEF counterVars
  <2>2. Typed' BY <1>0, <1>1, <1>5, <2>1 DEF Typed, netVars, recoverVars
  <2>3. BoundInv' BY <1>0, <1>1, <2>1 DEF BoundInv, netVars
  <2>4. FetchInv' BY <1>0, <1>1, <1>5, <2>1 DEF FetchInv, Owned, netVars
  <2>5. WatchInv' BY <1>0, <1>1, <2>1 DEF WatchInv, recoverVars
  <2>6. CountInv'
    <3>1. Taken' = Taken BY <1>5 DEF Taken, Owned
    <3>2. pushes' = pushes BY <1>1 DEF netVars
    <3> QED BY <1>1, <2>1, <3>1, <3>2, CountKeeps
  <2>7. LossIsForgotten' BY <1>0, <1>1, <1>5, <2>1, LossKeeps
  <2>8. QueueIsWatched' BY <1>0, <1>1, <2>1 DEF QueueIsWatched, recoverVars
  <2> QED BY <2>2, <2>3, <2>4, <2>5, <2>6, <2>7, <2>8, Assembled
<1> QED BY <1>2, <1>3, <1>4, <1>5

LEMMA StopStep ==
    ASSUME ChannelInv, Stop
    PROVE  ChannelInv'
<1>0. Typed /\ BoundInv /\ FetchInv /\ WatchInv BY Types DEF ChannelInv
<1>1. /\ good' = 0 /\ last' = 0 /\ count' = 0 /\ requesting' = FALSE /\ waitingForSkipped' = FALSE
      /\ queue' = {} /\ timer' = FALSE /\ tracked' = FALSE /\ known' = FALSE /\ running' = FALSE
      /\ retryHandle' = FALSE /\ retryTimers' = retryTimers - (IF retryHandle THEN 1 ELSE 0)
      /\ fetch' = [f \in Fetchers |-> [fetch[f] EXCEPT !.own = FALSE]]
      /\ UNCHANGED <<netVars, delivered, floor, forgotten, skipped>>
      /\ faults' \in 0 .. MaxFaults
  BY <1>0, FaultCounts DEF Stop
<1>2. retryTimers' \in Nat
  <2>1. CASE retryHandle BY <1>0, <1>1, <2>1 DEF Typed, WatchInv
  <2>2. CASE ~retryHandle BY <1>0, <1>1, <2>2 DEF Typed
  <2> QED BY <2>1, <2>2
<1>3. ASSUME NEW f \in Fetchers
      PROVE  /\ fetch'[f] \in Fetches /\ ~Owned(f)'
             /\ fetch'[f].from = fetch[f].from /\ fetch'[f].upTo = fetch[f].upTo
             /\ fetch'[f].phase = fetch[f].phase
  <2>1. fetch[f] \in Fetches BY <1>0 DEF Typed
  <2>2. fetch'[f] = [fetch[f] EXCEPT !.own = FALSE] BY <1>1
  <2> QED BY <2>1, <2>2 DEF Fetches, Owned
<1>4. fetch' \in [Fetchers -> Fetches]
  <2>1. DOMAIN fetch' = Fetchers /\ fetch' = [f \in Fetchers |-> fetch'[f]] BY <1>1
  <2> QED BY <1>3, <2>1
<1>5. Typed' BY <1>0, <1>1, <1>2, <1>4 DEF Typed, netVars
<1>6. BoundInv' BY <1>0, <1>1, Within DEF BoundInv, netVars
<1>7. FetchInv' BY <1>0, <1>1, <1>3 DEF FetchInv, netVars
<1>8. WatchInv' BY <1>1 DEF WatchInv
<1>9. CountInv' BY <1>1 DEF CountInv
<1>10. LossIsForgotten' BY <1>1 DEF LossIsForgotten
<1>11. QueueIsWatched' BY <1>1 DEF QueueIsWatched
<1> QED BY <1>5, <1>6, <1>7, <1>8, <1>9, <1>10, <1>11, Assembled

-----------------------------------------------------------------------------
(* A fetch *)

\* It waits or asks on, and the tracker stays as it is.
LEMMA GoesOnStep ==
    ASSUME ChannelInv, NEW f \in Fetchers, Resolved(f) \/ Answer(f)
    PROVE  ChannelInv'
<1>0. Typed /\ BoundInv /\ FetchInv /\ WatchInv /\ CountInv /\ LossIsForgotten /\ QueueIsWatched
  BY Types DEF ChannelInv
<1>1. fetch[f] \in Fetches /\ fetch[f].from <= serverPts /\ fetch[f].from \in Nat /\ serverPts \in Nat
      /\ serverPts <= LastPts
  BY <1>0, Within, Bounds DEF FetchInv, Typed, Fetches, Updates
<1>2. /\ UNCHANGED <<waiterVars, netVars, running, tracked, retryHandle, retryTimers, delivered,
                     floor, forgotten, skipped, faults>>
      /\ known' \in BOOLEAN
  <2>1. CASE Resolved(f)
    <3>1. known' = (known \/ fetch[f].own) BY <2>1 DEF Resolved
    <3> QED BY <2>1, <3>1 DEF Resolved
  <2>2. CASE Answer(f) BY <1>0, <2>2 DEF Answer, recoverVars, Typed
  <2> QED BY <2>1, <2>2
<1>3. UNCHANGED <<good, last, count, requesting, waitingForSkipped, queue, timer, serverPts, pushes>>
  BY <1>2 DEF waiterVars, counterVars, netVars
<1>4. PICK r \in Fetches :
         /\ fetch' = [fetch EXCEPT ![f] = r]
         /\ r.own = fetch[f].own /\ r.from = fetch[f].from /\ r.queue = fetch[f].queue
         /\ r.phase # "off"
         /\ r.phase \in {"slice", "final"} => r.from <= r.upTo /\ r.upTo <= serverPts
  <2>1. CASE Resolved(f)
    <3>1. PICK r : r = [fetch[f] EXCEPT !.phase = "asked"] OBVIOUS
    <3>2. r \in Fetches /\ r.own = fetch[f].own /\ r.from = fetch[f].from
          /\ r.queue = fetch[f].queue /\ r.phase = "asked"
      BY <1>1, <3>1 DEF Fetches
    <3>3. fetch' = [fetch EXCEPT ![f] = r] BY <1>0, <2>1, <3>1 DEF Resolved, Typed
    <3> QED BY <3>2, <3>3
  <2>2. CASE Answer(f)
    <3>1. PICK all : all = Later(serverPts, fetch[f].from) OBVIOUS
    <3>2. all \in Nat /\ fetch[f].from <= all /\ all <= serverPts BY <1>1, <3>1 DEF Later
    <3>3. PICK p \in Between(fetch[f].from, serverPts) \cup {all} :
             fetch' = [fetch EXCEPT ![f].phase = IF p = all THEN "final" ELSE "slice", ![f].upTo = p]
      BY <2>2, <3>1 DEF Answer
    <3>4. p \in Nat /\ fetch[f].from <= p /\ p <= serverPts /\ p \in Updates
      BY <1>1, <3>2, <3>3, Bounds DEF Between, Updates
    <3>5. PICK r : r = [fetch[f] EXCEPT !.phase = IF p = all THEN "final" ELSE "slice", !.upTo = p]
      OBVIOUS
    <3>6. r \in Fetches /\ r.own = fetch[f].own /\ r.from = fetch[f].from
          /\ r.queue = fetch[f].queue /\ r.phase \in {"final", "slice"} /\ r.upTo = p
      BY <1>1, <3>4, <3>5 DEF Fetches
    <3>7. fetch' = [fetch EXCEPT ![f] = r] BY <1>0, <3>3, <3>5 DEF Typed
    <3> QED BY <3>4, <3>6, <3>7
  <2> QED BY <2>1, <2>2
<1>5. fetch'[f] = r /\ \A g \in Fetchers \ {f} : fetch'[g] = fetch[g]
  BY <1>0, <1>4, OneFetch DEF Typed
<1>6. fetch' \in [Fetchers -> Fetches] BY <1>0, <1>4 DEF Typed
<1>7. Typed' BY <1>0, <1>2, <1>3, <1>6 DEF Typed
<1>8. BoundInv' BY <1>0, <1>3 DEF BoundInv
<1>9. \A g \in Fetchers : /\ Owned(g)' <=> Owned(g)
                          /\ fetch'[g].from = fetch[g].from /\ fetch'[g].queue = fetch[g].queue
  BY <1>4, <1>5 DEF Owned
<1>10. FetchInv'
  <2>1. ASSUME NEW g \in Fetchers
        PROVE  /\ Owned(g) => fetch'[g].phase # "off"
               /\ fetch'[g].phase \in {"slice", "final"} =>
                     fetch'[g].from <= fetch'[g].upTo /\ fetch'[g].upTo <= serverPts'
    <3>1. CASE g = f BY <1>3, <1>4, <1>5, <3>1
    <3>2. CASE g # f BY <1>0, <1>3, <1>5, <3>2 DEF FetchInv
    <3> QED BY <3>1, <3>2
  <2> QED BY <1>0, <1>3, <1>9, <2>1 DEF FetchInv
<1>11. WatchInv' BY <1>0, <1>2, <1>3 DEF WatchInv
<1>12. Taken' = Taken BY <1>9 DEF Taken
<1>13. CountInv' BY <1>2, <1>3, <1>12, CountKeeps
<1>14. LossIsForgotten' BY <1>0, <1>2, <1>3, LossKeeps
<1>15. QueueIsWatched' BY <1>0, <1>2, <1>3 DEF QueueIsWatched
<1> QED BY <1>7, <1>8, <1>10, <1>11, <1>13, <1>14, <1>15, Assembled

\* It ends without an answer: what the queue held is forgotten or skipped.
LEMMA FailsStep ==
    ASSUME ChannelInv, NEW f \in Fetchers, Unresolved(f) \/ Failed(f)
    PROVE  ChannelInv'
<1>0. Typed /\ BoundInv /\ FetchInv /\ WatchInv /\ CountInv /\ LossIsForgotten /\ QueueIsWatched
  BY Types DEF ChannelInv
<1>1. /\ UNCHANGED <<good, last, count, queue, delivered, floor>>
      /\ Ends(f) /\ faults' \in 0 .. MaxFaults
      /\ \/ skipped' = skipped \cup fetch[f].queue /\ forgotten' = forgotten
         \/ forgotten' = forgotten \cup fetch[f].queue /\ skipped' = skipped
  BY <1>0, FaultCounts DEF Unresolved, Failed, GoesOn
<1>2. UNCHANGED <<waitingForSkipped, timer, netVars, running, tracked, known>> BY <1>1 DEF Ends
<1>3. /\ fetch' \in [Fetchers -> Fetches] /\ requesting' \in BOOLEAN
      /\ requesting' => requesting
      /\ FetchInv' /\ Taken \subseteq Taken' \cup fetch[f].queue
  BY <1>1, FetchEnds
<1>4. retryTimers' \in Nat /\ retryHandle' \in BOOLEAN /\ (retryHandle' => retryTimers' > 0)
      /\ (retryTimers > 0 => retryTimers' > 0)
  <2>1. UNCHANGED <<retryHandle, retryTimers>> \/ (retryHandle' = TRUE /\ retryTimers' = retryTimers + 1)
    BY DEF Unresolved, Failed, Retry
  <2>2. CASE UNCHANGED <<retryHandle, retryTimers>> BY <1>0, <2>2 DEF Typed, WatchInv
  <2>3. CASE retryHandle' = TRUE /\ retryTimers' = retryTimers + 1
    <3>1. retryTimers + 1 \in Nat /\ retryTimers + 1 > 0 BY <1>0 DEF Typed
    <3> QED BY <2>3, <3>1
  <2> QED BY <2>1, <2>2, <2>3
<1>5. forgotten' \subseteq Updates /\ skipped' \subseteq Updates
  <2>1. fetch[f].queue \subseteq Updates BY <1>0 DEF Typed, Fetches
  <2> QED BY <1>0, <1>1, <2>1 DEF Typed
<1>6. Typed' BY <1>0, <1>1, <1>2, <1>3, <1>4, <1>5 DEF Typed, netVars
<1>7. BoundInv' BY <1>0, <1>1, <1>2 DEF BoundInv, netVars
<1>8. WatchInv' BY <1>0, <1>1, <1>2, <1>3, <1>4 DEF WatchInv
<1>9. forgotten \subseteq forgotten' /\ skipped \subseteq skipped' BY <1>1
<1>10. CountInv'
  <2>1. fetch[f].queue \subseteq forgotten' \cup skipped' BY <1>1
  <2>2. pushes' = pushes BY <1>2 DEF netVars
  <2> QED BY <1>1, <1>3, <1>9, <2>1, <2>2, CountKeeps
<1>11. LossIsForgotten' BY <1>0, <1>1, <1>9, LossKeeps
<1>12. QueueIsWatched' BY <1>0, <1>1, <1>2, <1>4 DEF QueueIsWatched
<1> QED BY <1>3, <1>6, <1>7, <1>8, <1>10, <1>11, <1>12, Assembled

\* It is answered: the tracker begins again where the answer ends, if it is still its own.
LEMMA GotStep ==
    ASSUME ChannelInv, NEW f \in Fetchers, GotDifference(f) \/ GotTooLong(f)
    PROVE  ChannelInv'
<1>0. Typed /\ BoundInv /\ FetchInv /\ WatchInv /\ CountInv /\ LossIsForgotten /\ QueueIsWatched
  BY Types DEF ChannelInv
<1>1. fetch[f] \in Fetches /\ fetch[f].from <= serverPts /\ fetch[f].from \in Nat
      /\ fetch[f].upTo \in Nat /\ fetch[f].upTo \in Updates
      /\ serverPts \in Nat /\ serverPts <= LastPts /\ serverPts \in Updates
  BY <1>0, Within, Bounds DEF FetchInv, Typed, Fetches, Updates
<1>2. PICK pts \in {fetch[f].upTo, serverPts} :
         /\ Initialised(f, pts) /\ pts \in Nat /\ fetch[f].from <= pts /\ pts <= serverPts
         /\ pts \in Updates
         /\ \/ floor' = floor /\ delivered' = delivered \cup Between(fetch[f].from, pts)
            \/ floor' = (IF Owned(f) THEN pts ELSE floor) /\ delivered' = delivered
  <2>1. CASE GotDifference(f)
    <3>1. fetch[f].from <= fetch[f].upTo /\ fetch[f].upTo <= serverPts
      BY <1>0, <2>1 DEF GotDifference, FetchInv
    <3> QED BY <1>1, <2>1, <3>1 DEF GotDifference
  <2>2. CASE GotTooLong(f) BY <1>1, <2>2 DEF GotTooLong, Owned
  <2> QED BY <2>1, <2>2
<1>3. UNCHANGED <<retryHandle, retryTimers, forgotten, skipped>> /\ faults' \in 0 .. MaxFaults
  BY <1>0, FaultCounts DEF GotDifference, GotTooLong, Typed
<1>4. UNCHANGED <<waitingForSkipped, timer, netVars, running, tracked, known>>
  BY DEF GotDifference, GotTooLong, Ends
<1>5. serverPts' = serverPts /\ pushes' = pushes BY <1>4 DEF netVars
<1>6. CASE Owned(f)
  <2>1. good' = pts /\ last' = pts /\ count' = pts /\ queue' = {}
    BY <1>2, <1>6 DEF Initialised, Reset, Owned
  <2>2. good > 0 /\ fetch[f].from = good /\ requesting /\ good \in Nat
    BY <1>0, <1>6 DEF FetchInv, Typed
  <2>3. pts > 0 /\ pts >= good BY <1>1, <1>2, <2>2
  <2>4. fetch' \in [Fetchers -> Fetches] /\ requesting' \in BOOLEAN /\ FetchInv'
    <3>1. CASE Ends(f) BY <1>6, <3>1, FetchEnds
    <3>2. CASE ~Ends(f)
      <4>1. /\ fetch' = [fetch EXCEPT ![f].phase = "asked", ![f].from = fetch[f].upTo]
            /\ requesting' = requesting /\ pts = fetch[f].upTo
        <5>1. GotDifference(f) BY <3>2 DEF GotTooLong
        <5>2. fetch' = [fetch EXCEPT ![f].phase = "asked", ![f].from = fetch[f].upTo]
              /\ requesting' = requesting
          BY <3>2, <5>1 DEF GotDifference
        <5>3. good' = fetch[f].upTo BY <1>6, <5>1 DEF GotDifference, Initialised, Reset, Owned
        <5> QED BY <2>1, <5>2, <5>3
      <4>2. PICK r : r = [fetch[f] EXCEPT !.phase = "asked", !.from = fetch[f].upTo] OBVIOUS
      <4>3. r \in Fetches /\ r.phase = "asked" /\ r.from = pts /\ r.own = fetch[f].own
        BY <1>1, <4>1, <4>2 DEF Fetches
      <4>4. fetch' = [fetch EXCEPT ![f] = r] BY <1>0, <4>1, <4>2 DEF Typed
      <4>5. fetch'[f] = r /\ \A g \in Fetchers \ {f} : fetch'[g] = fetch[g]
        BY <1>0, <4>4, OneFetch DEF Typed
      <4>6. fetch' \in [Fetchers -> Fetches] BY <1>0, <4>3, <4>4 DEF Typed
      <4>7. \A g \in Fetchers : (Owned(g)' <=> Owned(g)) /\ (Owned(g) => g = f)
        BY <1>0, <1>6, <4>3, <4>5 DEF Owned, FetchInv
      <4>8. ASSUME NEW g \in Fetchers
            PROVE  /\ Owned(g)' => fetch'[g].phase # "off" /\ requesting' /\ good' > 0
                                   /\ fetch'[g].from = good'
                   /\ fetch'[g].from <= serverPts'
                   /\ fetch'[g].phase \in {"slice", "final"} =>
                         fetch'[g].from <= fetch'[g].upTo /\ fetch'[g].upTo <= serverPts'
        <5>1. CASE g = f BY <1>2, <1>5, <2>1, <2>2, <2>3, <4>1, <4>3, <4>5, <5>1
        <5>2. CASE g # f BY <1>0, <1>5, <4>5, <4>7, <5>2 DEF FetchInv
        <5> QED BY <5>1, <5>2
      <4>9. FetchInv' BY <4>7, <4>8 DEF FetchInv
      <4> QED BY <1>0, <4>1, <4>6, <4>9 DEF Typed
    <3> QED BY <3>1, <3>2
  <2>5. Typed'
    <3>1. delivered' \subseteq Updates /\ floor' \in Updates
      <4>1. Between(fetch[f].from, pts) \subseteq Updates
        BY <1>1, <1>2, Bounds DEF Between, Updates
      <4> QED BY <1>0, <1>2, <4>1 DEF Typed
    <3>2. queue' \subseteq Updates BY <2>1
    <3> QED BY <1>0, <1>2, <1>3, <1>4, <1>5, <2>1, <2>4, <3>1, <3>2 DEF Typed
  <2>6. BoundInv' BY <1>0, <1>2, <1>5, <2>1 DEF BoundInv
  <2>7. WatchInv' BY <1>0, <1>3, <1>4, <2>1, <2>2 DEF WatchInv
  <2>8. CountInv' BY <1>2, <2>1, CountBegins
  <2>9. LossIsForgotten'
    <3>1. CASE floor' = floor /\ delivered' = delivered \cup Between(fetch[f].from, pts)
      <4>1. ASSUME NEW e \in Between(floor, pts)
            PROVE  e \in delivered' \cup forgotten' \cup skipped'
        <5>1. CASE e <= good
          <6>1. e \in Between(floor, good) BY <1>0, <1>2, <2>2, <4>1, <5>1, Bounds DEF Between, Typed, Updates
          <6> QED BY <1>0, <1>3, <2>2, <3>1, <6>1 DEF LossIsForgotten
        <5>2. CASE ~(e <= good)
          <6>1. e \in Between(good, pts) BY <1>0, <1>2, <2>2, <4>1, <5>2, Bounds DEF Between, Typed, Updates
          <6> QED BY <2>2, <3>1, <6>1
        <5> QED BY <5>1, <5>2
      <4> QED BY <2>1, <3>1, <4>1 DEF LossIsForgotten, Between
    <3>2. CASE floor' = (IF Owned(f) THEN pts ELSE floor)
      BY <1>2, <1>6, <2>1, <3>2 DEF LossIsForgotten, Between
    <3> QED BY <1>2, <3>1, <3>2
  <2>10. QueueIsWatched' BY <2>1 DEF QueueIsWatched
  <2> QED BY <2>4, <2>5, <2>6, <2>7, <2>8, <2>9, <2>10, Assembled
<1>7. CASE ~Owned(f)
  <2>1. UNCHANGED <<good, last, count, queue, floor>>
    BY <1>2, <1>7 DEF Initialised, Owned
  <2>2. /\ fetch' \in [Fetchers -> Fetches] /\ requesting' = requesting /\ FetchInv'
        /\ Taken' = Taken
    <3>1. PICK r \in Fetches :
             /\ fetch' = [fetch EXCEPT ![f] = r] /\ r.own = FALSE /\ r.from <= serverPts
             /\ r.phase \notin {"slice", "final"} /\ requesting' = requesting
      <4>1. CASE Ends(f)
        <5>1. fetch' = [fetch EXCEPT ![f] = Off] /\ requesting' = requesting
          BY <1>0, <1>7, <4>1 DEF Ends, Owned, Typed
        <5>2. Off \in Fetches /\ Off.own = FALSE /\ Off.from <= serverPts
              /\ Off.phase \notin {"slice", "final"}
          <6>1. Off \in Fetches /\ Off.own = FALSE BY Bounds, Zenon
          <6>2. Off.from = 0 /\ Off.phase = "off" BY Bounds, Zenon
          <6>3. Off.from <= serverPts BY <1>1, <6>2
          <6>4. Off.phase \notin {"slice", "final"} BY <6>2
          <6> QED BY <6>1, <6>3, <6>4, Zenon
        <5> QED BY <5>1, <5>2, Zenon
      <4>2. CASE ~Ends(f)
        <5>1. /\ fetch' = [fetch EXCEPT ![f].phase = "asked", ![f].from = fetch[f].upTo]
              /\ requesting' = requesting /\ fetch[f].upTo <= serverPts
          BY <1>0, <4>2 DEF GotDifference, GotTooLong, FetchInv
        <5>2. PICK r : r = [fetch[f] EXCEPT !.phase = "asked", !.from = fetch[f].upTo] OBVIOUS
        <5>3. r \in Fetches /\ r.phase = "asked" /\ r.from = fetch[f].upTo /\ r.own = FALSE
          BY <1>1, <1>7, <5>2 DEF Fetches, Owned
        <5>4. fetch' = [fetch EXCEPT ![f] = r] BY <1>0, <5>1, <5>2 DEF Typed
        <5> QED BY <5>1, <5>3, <5>4
      <4> QED BY <4>1, <4>2
    <3>2. fetch'[f] = r /\ \A g \in Fetchers \ {f} : fetch'[g] = fetch[g]
      BY <1>0, <3>1, OneFetch DEF Typed
    <3>3. \A g \in Fetchers : /\ Owned(g)' <=> Owned(g)
                              /\ Owned(g) => g # f /\ fetch'[g].queue = fetch[g].queue
      BY <1>7, <3>1, <3>2 DEF Owned
    <3>4. Taken' = Taken BY <3>3 DEF Taken
    <3>5. ASSUME NEW g \in Fetchers
          PROVE  /\ Owned(g)' => fetch'[g].phase # "off" /\ requesting' /\ good' > 0
                                 /\ fetch'[g].from = good'
                 /\ fetch'[g].from <= serverPts'
                 /\ fetch'[g].phase \in {"slice", "final"} =>
                       fetch'[g].from <= fetch'[g].upTo /\ fetch'[g].upTo <= serverPts'
      <4>1. CASE g = f BY <1>5, <3>1, <3>2, <3>3, <4>1
      <4>2. CASE g # f BY <1>0, <1>5, <2>1, <3>1, <3>2, <3>3, <4>2 DEF FetchInv
      <4> QED BY <4>1, <4>2
    <3>6. FetchInv' BY <1>0, <3>3, <3>5 DEF FetchInv
    <3>7. fetch' \in [Fetchers -> Fetches] BY <1>0, <3>1 DEF Typed
    <3> QED BY <3>1, <3>4, <3>6, <3>7
  <2>3. delivered \subseteq delivered' BY <1>2
  <2>4. Typed'
    <3>1. delivered' \subseteq Updates
      <4>1. Between(fetch[f].from, pts) \subseteq Updates
        BY <1>1, <1>2, Bounds DEF Between, Updates
      <4> QED BY <1>0, <1>2, <4>1 DEF Typed
    <3> QED BY <1>0, <1>3, <1>4, <1>5, <2>1, <2>2, <3>1 DEF Typed
  <2>5. BoundInv' BY <1>0, <1>5, <2>1 DEF BoundInv
  <2>6. WatchInv' BY <1>0, <1>3, <1>4, <2>1, <2>2 DEF WatchInv
  <2>7. CountInv' BY <1>3, <1>5, <2>1, <2>2, <2>3, CountKeeps
  <2>8. LossIsForgotten' BY <1>0, <1>3, <2>1, <2>3, LossKeeps
  <2>9. QueueIsWatched' BY <1>0, <1>3, <1>4, <2>1 DEF QueueIsWatched
  <2> QED BY <2>2, <2>4, <2>5, <2>6, <2>7, <2>8, <2>9, Assembled
<1> QED BY <1>6, <1>7

-----------------------------------------------------------------------------
(* Every step *)

LEMMA ChannelStart == ASSUME Init PROVE ChannelInv
<1>1. Typed
  <2>1. serverPts \in StartPts .. LastPts /\ 0 \in Updates /\ faults \in 0 .. MaxFaults
    BY Bounds DEF Init, Updates
  <2>2. fetch \in [Fetchers -> Fetches] BY Bounds DEF Init
  <2> QED BY <2>1, <2>2 DEF Init, WaiterInit, Typed
<1>2. serverPts \in Nat BY Bounds DEF Init
<1>3. BoundInv BY <1>2 DEF Init, WaiterInit, BoundInv
<1>4. \A f \in Fetchers : ~Owned(f) /\ fetch[f].phase = "off" /\ fetch[f].from = 0
  BY Bounds DEF Init, Owned
<1>5. FetchInv BY <1>2, <1>4 DEF FetchInv
<1>6. WatchInv /\ CountInv /\ LossIsForgotten /\ QueueIsWatched
  BY DEF Init, WaiterInit, WatchInv, CountInv, LossIsForgotten, QueueIsWatched
<1> QED BY <1>1, <1>3, <1>5, <1>6, Types DEF ChannelInv

LEMMA ChannelStep == ASSUME ChannelInv, [Next]_vars PROVE ChannelInv'
<1>1. CASE Occur \/ Start \/ (\E e \in pushes : DropUpdate(e)) \/ UNCHANGED vars BY <1>1, QuietStep
<1>2. CASE ChannelTooLong BY <1>2, TooLongStep
<1>3. CASE Timeout BY <1>3, TimerStep DEF Timeout
<1>4. CASE Stop BY <1>4, StopStep
<1>5. ASSUME NEW e \in pushes, FeedUpdate(e) PROVE ChannelInv' BY <1>5, FeedStep
<1>6. ASSUME NEW f \in Fetchers, Continue(f) \/ Unresolved(f) \/ GotTooLong(f) \/ Failed(f)
      PROVE  ChannelInv'
  BY <1>6, GoesOnStep, FailsStep, GotStep DEF Continue
<1> QED BY <1>1, <1>2, <1>3, <1>4, <1>5, <1>6 DEF Next

\* What the tracker of a channel passed was dispatched, or was forgotten by a fetch that failed or
\* did not find the channel, and what waits behind a gap has a timer or a retry that will look
\* again: for any updates, losses, orders, restarts and failures (PtsWaiter.ts,
\* UpdateManager.ts:417-628).
THEOREM ChannelWatched == Spec => []ChannelIsWatched
<1>1. Init => ChannelInv BY ChannelStart
<1>2. ChannelInv /\ [Next]_vars => ChannelInv' BY ChannelStep
<1>3. ChannelInv => ChannelIsWatched BY DEF ChannelInv, ChannelIsWatched
<1> QED BY <1>1, <1>2, <1>3, PTL DEF Spec
=============================================================================
