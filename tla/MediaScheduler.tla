--------------------------- MODULE MediaScheduler ---------------------------
(***************************************************************************)
(* network/MediaScheduler.ts with network/BalancePolicy.ts: the calls of   *)
(* getFile (or savePart) for the parts of one file share the sessions of   *)
(* one data center, each with a window; a call that fits in no window      *)
(* waits.  purge() forgets the balance, not the calls that use it, so      *)
(* there is a generation of it per purge.                                  *)
(*                                                                         *)
(* A part is the unit of a window.  The slot of a session is modelled by   *)
(* its shifted id and by what its removal does to the calls that use it.   *)
(***************************************************************************)
EXTENDS Integers, Sequences, FiniteSets

CONSTANTS
    TotalParts,             \* number of parts of the file
    Purges,                 \* bound: how often the application may call disconnect()
    StartWindow, MaxWindow, MaxSessions, RemoveAfterTimeouts,   \* BalancePolicyOptions
    Ring,                   \* number of shifted ids (kMaxMediaDcCount)
    RequestRetries,         \* requestRetries
    MaxFaults               \* bound: failures, floods and slow answers

ASSUME SchedulerAssumption ==
    /\ {TotalParts, StartWindow, MaxWindow, MaxSessions, RemoveAfterTimeouts, Ring, RequestRetries}
           \subseteq Nat \ {0}
    /\ StartWindow <= MaxWindow
    /\ {Purges, MaxFaults} \subseteq Nat

Parts       == 0 .. TotalParts - 1
Generations == 0 .. Purges

VARIABLES
    balance,                \* the balances: sessions of the policy, waiters, flood wait
    current,                \* the generation that _balances holds
    stage,                  \* open, closed (_closed), gone (the network is closed too)
    call,                   \* the calls of getFile or savePart, one per part
    aborted,                \* the signal of the transfer
    faults

schedulerVars == <<balance, current, stage, call, aborted, faults>>

Fault == faults < MaxFaults /\ faults' = faults + 1

-----------------------------------------------------------------------------
\* BalancePolicy: S maps the id of each session to its load, in order of age.

Fresh == [requested |-> 0, window |-> StartWindow, timeouts |-> 0]

\* Mutant: a session leaves the last place of its window free.
FitsOneLess(S) == {i \in DOMAIN S : S[i].requested + 1 < S[i].window}

Fits(S) == {i \in DOMAIN S : S[i].requested + 1 <= S[i].window}

\* pick: the least loaded session with room, the oldest of those.
Pick(S) ==
    CHOOSE i \in Fits(S) : \A k \in Fits(S) :
        S[i].requested < S[k].requested \/ (S[i].requested = S[k].requested /\ i <= k)

Without(S, i) == [k \in DOMAIN S \ {i} |-> S[k]]

Start(S, i) == [S EXCEPT ![i].requested = @ + 1]

\* Mutant: the part of a call that failed stays charged to its session.
ReleaseNothing(S, i) == S

Release(S, i) ==
    IF i \in DOMAIN S
    THEN [S EXCEPT ![i].requested = IF @ > 0 THEN @ - 1 ELSE 0]
    ELSE S

\* remove: the last session stays.
Remove(S, i) == IF i \in DOMAIN S /\ Cardinality(DOMAIN S) > 1 THEN Without(S, i) ELSE S

\* _slow.
Slow(S, i) ==
    IF i \notin DOMAIN S THEN S
    ELSE LET T == [S EXCEPT ![i].timeouts = @ + 1] IN
         IF T[i].timeouts >= RemoveAfterTimeouts THEN Remove(T, i) ELSE T

Fail(S, i) == Slow(Release(S, i), i)

Forgiven(S, i) == IF i \in DOMAIN S THEN [Release(S, i) EXCEPT ![i].timeouts = 0] ELSE S

\* succeed: an answer that was slow counts against the session; one that used up
\* the window widens it, or adds a session once the time since the last allows.
Succeed(b, i, full, slow, gatePassed) ==
    LET S == Forgiven(b.sessions, i) IN
    IF slow THEN [b EXCEPT !.sessions = Slow(S, i)]
    ELSE IF i \notin DOMAIN S \/ ~full THEN [b EXCEPT !.sessions = S]
    ELSE IF S[i].window < MaxWindow THEN [b EXCEPT !.sessions = [S EXCEPT ![i].window = @ + 1]]
    ELSE IF gatePassed /\ Cardinality(DOMAIN S) < MaxSessions
    THEN [b EXCEPT !.sessions = [k \in DOMAIN S \cup {b.nextId} |->
                                    IF k = b.nextId THEN Fresh ELSE S[k]],
                   !.nextId = @ + 1]
    ELSE [b EXCEPT !.sessions = S]

-----------------------------------------------------------------------------
\* A call, and the balance of one data center.

NoCall == [phase |-> "none", gen |-> 0, id |-> 0, full |-> FALSE, outcome |-> "none", attempt |-> 0]

FreshBalance == [sessions |-> [i \in {0} |-> Fresh], nextId |-> 1, waiters |-> <<>>, flood |-> FALSE]

\* shiftedById: grow counts slots as the policy counts ids.
Shifted(i) == i % Ring

\* The promise of a call's last request settles; its continuation is to run.
Answer(c, outcome) == [c EXCEPT !.phase = "answered", !.outcome = outcome]

\* getFile or savePart is over.
Settled(phase, outcome) == [NoCall EXCEPT !.phase = phase, !.outcome = outcome]

\* network.removeSession, or the death of the slot: calls on it are rejected.
Killed(C, s) ==
    [p \in Parts |-> IF C[p].phase = "running" /\ Shifted(C[p].id) = s
                     THEN Answer(C[p], "removed") ELSE C[p]]

\* _run once the balance has room: the session is charged, then its slot is
\* asked for, which fails when the network is closed.
Run(p, g) ==
    LET i == Pick(balance[g].sessions)
        S == Start(balance[g].sessions, i) IN
    /\ balance' = [balance EXCEPT ![g].sessions = S]
    /\ call' = [call EXCEPT ![p] =
                   IF stage = "gone" THEN Settled("failed", "error")
                   ELSE [@ EXCEPT !.phase = "running", !.gen = g, !.id = i,
                                  !.full = S[i].requested >= S[i].window]]

\* A retry goes to the front of the waiters.
Queue(p, g) ==
    /\ balance' = [balance EXCEPT ![g].waiters =
                      IF call[p].attempt > 0 THEN <<p>> \o @ ELSE Append(@, p)]
    /\ call' = [call EXCEPT ![p].phase = "queued", ![p].gen = g]

PickOrQueue(p, g) == IF Fits(balance[g].sessions) # {} THEN Run(p, g) ELSE Queue(p, g)

\* One turn of the loop of getFile or savePart, with the start of _run.
Attempt(p) ==
    /\ call[p].phase = "ready"
    /\ IF call[p].attempt = RequestRetries \/ aborted \/ stage # "open"
       THEN /\ call' = [call EXCEPT ![p] = Settled("failed",
                           IF aborted /\ @.attempt < RequestRetries THEN "abort" ELSE "error")]
            /\ UNCHANGED balance
       ELSE IF balance[current].flood
       THEN call' = [call EXCEPT ![p].phase = "flooded", ![p].gen = current] /\ UNCHANGED balance
       ELSE PickOrQueue(p, current)
    /\ UNCHANGED <<current, stage, aborted, faults>>

\* The flood wait is over.
FloodEnds(g) ==
    /\ balance[g].flood
    /\ balance' = [balance EXCEPT ![g].flood = FALSE]
    /\ UNCHANGED <<current, stage, call, aborted, faults>>

FloodWaited(p) ==
    /\ call[p].phase = "flooded" /\ ~balance[call[p].gen].flood
    /\ PickOrQueue(p, call[p].gen)
    /\ UNCHANGED <<current, stage, aborted, faults>>

\* A waiter that was woken picks again.
Resume(p) ==
    /\ call[p].phase = "woken"
    /\ IF Fits(balance[call[p].gen].sessions) = {} /\ aborted
       THEN call' = [call EXCEPT ![p] = Settled("failed", "abort")] /\ UNCHANGED balance
       ELSE PickOrQueue(p, call[p].gen)
    /\ UNCHANGED <<current, stage, aborted, faults>>

-----------------------------------------------------------------------------
\* What settles the request of a running call.

Running(p) == call[p].phase = "running"

Reply(p) ==
    /\ Running(p)
    /\ IF aborted THEN call' = [call EXCEPT ![p] = Answer(@, "abort")]
                  ELSE call' = [call EXCEPT ![p] = Answer(@, "ok")]
    /\ UNCHANGED <<balance, current, stage, aborted, faults>>

\* A flood wait, an error the scheduler does not know, or the deadline.
ReplyBadly(p) ==
    /\ Running(p) /\ Fault
    /\ \E outcome \in {"flood", "error", "timeout"} : call' = [call EXCEPT ![p] = Answer(@, outcome)]
    /\ UNCHANGED <<balance, current, stage, aborted>>

\* The sender of a slot loses its key: its requests are rejected with TIMEOUT
\* and the sibling slots of the data center die.
KeyBreaks(p) ==
    /\ Running(p) /\ Fault
    /\ call' = [q \in Parts |-> IF ~Running(q) THEN call[q]
                                ELSE IF Shifted(call[q].id) = Shifted(call[p].id)
                                THEN Answer(call[q], "timeout") ELSE Answer(call[q], "removed")]
    /\ UNCHANGED <<balance, current, stage, aborted>>

\* The finally block of _run: one waiter is woken.
WakeOne(b) == IF b.waiters = <<>> THEN b ELSE [b EXCEPT !.waiters = Tail(@)]

\* Mutant: the ticket is taken out of the waiters and not called.
WokenNobody(C, b) == C

Woken(C, b) == IF b.waiters = <<>> THEN C ELSE [C EXCEPT ![Head(b.waiters)].phase = "woken"]

\* _run returns: the window is released, perhaps widened.
Returned(p) ==
    /\ call[p].phase = "answered" /\ call[p].outcome = "ok"
    /\ LET g == call[p].gen IN
       \E slow, gatePassed \in BOOLEAN :
          /\ IF slow THEN Fault ELSE UNCHANGED faults
          /\ balance' = [balance EXCEPT ![g] =
                            WakeOne(Succeed(@, call[p].id, call[p].full, slow, gatePassed))]
          /\ call' = [Woken(call, balance[g]) EXCEPT ![p] = Settled("got", "ok")]
    /\ UNCHANGED <<current, stage, aborted>>

\* The catch block of _run: a flood only releases; other errors count against
\* the session, and a dead slot removes it.
Blame(S, i, outcome) ==
    IF outcome = "flood" THEN Release(S, i)
    ELSE IF outcome = "removed" THEN Remove(Fail(S, i), i) ELSE Fail(S, i)

\* getFile goes on after a flood, a dead slot or a time-out, and gives up after
\* any other error.
AfterError(c) ==
    IF c.outcome \in {"flood", "removed", "timeout"}
    THEN [NoCall EXCEPT !.phase = "ready", !.attempt = c.attempt + 1]
    ELSE Settled("failed", c.outcome)

Threw(p) ==
    /\ call[p].phase = "answered" /\ call[p].outcome # "ok"
    /\ LET g == call[p].gen
           i == call[p].id
           S == Blame(balance[g].sessions, i, call[p].outcome)
           dropped == i \in DOMAIN balance[g].sessions \ DOMAIN S
           C == IF dropped THEN Killed(call, Shifted(i)) ELSE call IN
       /\ balance' = [balance EXCEPT ![g] = [WakeOne(balance[g]) EXCEPT !.sessions = S,
                         !.flood = @ \/ call[p].outcome = "flood"]]
       /\ call' = [Woken(C, balance[g]) EXCEPT ![p] = AfterError(@)]
    /\ UNCHANGED <<current, stage, aborted, faults>>

-----------------------------------------------------------------------------
\* disconnect(): the media scheduler forgets its balances, then the network
\* retires the slots.
Purge ==
    /\ stage = "open" /\ current + 1 \in Generations
    /\ current' = current + 1
    /\ call' = [p \in Parts |-> IF Running(p) THEN Answer(call[p], "removed") ELSE call[p]]
    /\ UNCHANGED <<balance, stage, aborted, faults>>

\* MediaScheduler.close, after the purge of destroy(): wakeAll on what _balances holds.
Close ==
    /\ stage = "open" /\ current > 0
    /\ stage' = "closed"
    /\ balance' = [balance EXCEPT ![current].waiters = <<>>]
    /\ call' = [p \in Parts |->
                   IF call[p].phase = "queued" /\ call[p].gen = current
                   THEN [call[p] EXCEPT !.phase = "woken"] ELSE call[p]]
    /\ UNCHANGED <<current, aborted, faults>>

\* Network.close.
CloseNetwork ==
    /\ stage = "closed"
    /\ stage' = "gone"
    /\ call' = [p \in Parts |-> IF Running(p) THEN Answer(call[p], "removed") ELSE call[p]]
    /\ UNCHANGED <<balance, current, aborted, faults>>

\* The signal fires: who waits leaves the waiters or the flood wait at once, a
\* running call when it next looks (Reply).
Abort ==
    /\ aborted' = TRUE
    /\ balance' = [g \in Generations |-> [balance[g] EXCEPT !.waiters = <<>>]]
    /\ call' = [p \in Parts |-> IF call[p].phase \in {"queued", "flooded"}
                                THEN Settled("failed", "abort") ELSE call[p]]

SchedulerInit ==
    /\ balance = [g \in Generations |-> FreshBalance]
    /\ current = 0 /\ stage = "open"
    /\ call = [p \in Parts |-> NoCall]
    /\ aborted = FALSE /\ faults = 0

CallStep(p) ==
    Attempt(p) \/ FloodWaited(p) \/ Resume(p) \/ Returned(p) \/ Threw(p)

=============================================================================
