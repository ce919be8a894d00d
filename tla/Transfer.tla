------------------------------ MODULE Transfer ------------------------------
(***************************************************************************)
(* downloadFile with streamParallel (client/downloads.ts) or uploadFile    *)
(* (client/uploads.ts), on MediaScheduler: a loop starts a task per part as*)
(* a semaphore lets it, a task fetches or sends its part with retries, and *)
(* the parts of a download reach the file through an OrderedWriter.        *)
(***************************************************************************)
EXTENDS MediaScheduler

CONSTANTS
    Limits,                 \* capacities the options and the application's configuration give
    Empty                   \* parts past the end of the file, which arrive empty

ASSUME TransferAssumption == Limits \subseteq Nat \ {0} /\ Limits # {} /\ Empty \subseteq Parts

VARIABLES
    kind,                   \* download or upload
    cancelled,              \* progressCallback.isCanceled or onProgress.isCanceled
    limit,                  \* capacity of the semaphore of tasks
    loop,                   \* where the loop over the parts awaits
    next,                   \* i of that loop
    permits,                \* _available of the semaphore
    task,                   \* the task of each part
    firstError,
    nextIdx, stash,         \* of the OrderedWriter
    drains,                 \* the writes whose drain is chained to _draining
    inWrite,                \* the first drain awaits the file
    rejected,               \* a drain failed: every later one is rejected
    through,                \* history: parts written to the file, or saved by the server
    result                  \* the promise of the transfer

loopVars   == <<loop, next, permits>>
writerVars == <<nextIdx, stash, drains, inWrite, rejected>>
userVars   == <<kind, cancelled, limit>>
vars == <<schedulerVars, userVars, loopVars, task, firstError, writerVars, through, result>>

Download == kind = "download"

\* Everything that was resolved runs on before the next timer, packet, answer of
\* the file or of the application is looked at.  Nothing is, after the end.
Continuing(p) ==
    /\ task[p] = "requesting"
    /\ \/ call[p].phase \in {"ready", "woken", "answered", "got", "failed"}
       \/ call[p].phase = "flooded" /\ ~balance[call[p].gen].flood

Quiet ==
    /\ loop \in {"waiting", "join"}
    /\ drains = <<>> \/ inWrite
    /\ \A p \in Parts : ~Continuing(p)

-----------------------------------------------------------------------------
\* The loop over the parts, with BoundedSemaphore.acquire.

Stopped == firstError # "none" \/ (Download /\ aborted)

LoopTop ==
    /\ loop = "top"
    /\ IF next = TotalParts \/ Stopped THEN loop' = "join" /\ UNCHANGED permits
       ELSE IF permits > 0 THEN loop' = "acquired" /\ permits' = permits - 1
       ELSE loop' = "waiting" /\ UNCHANGED permits
    /\ UNCHANGED <<schedulerVars, userVars, next, task, firstError, writerVars, through, result>>

\* acquire() of a waiter that was woken takes its permit now.
TakePermit ==
    /\ loop = "woken"
    /\ loop' = "acquired" /\ permits' = permits - 1
    /\ UNCHANGED <<schedulerVars, userVars, next, task, firstError, writerVars, through, result>>

\* The part's task starts, up to the first turn of getFile or savePart.
StartTask ==
    /\ loop = "acquired"
    /\ IF Stopped
       THEN loop' = "join" /\ permits' = permits + 1 /\ UNCHANGED <<next, task, call>>
       ELSE /\ loop' = "top" /\ next' = next + 1
            /\ task' = [task EXCEPT ![next] = "requesting"]
            /\ call' = [call EXCEPT ![next].phase = "ready"]
            /\ UNCHANGED permits
    /\ UNCHANGED <<balance, current, stage, aborted, faults, userVars, firstError, writerVars,
                   through, result>>

\* The finally block of tasks: release() of the semaphore.
Ends(ps) ==
    /\ task' = [p \in Parts |-> IF p \in ps THEN "ended" ELSE task[p]]
    /\ permits' = permits + Cardinality(ps)
    /\ loop' = IF loop = "waiting" /\ ps # {} THEN "woken" ELSE loop

\* if (!firstError) firstError = err.
Blames(error) == firstError' = IF firstError = "none" THEN error ELSE firstError

Result == IF firstError = "none" \/ (Download /\ firstError = "abort") THEN "good" ELSE "bad"

\* Mutant: the tasks under way are not awaited.
JoinEarly ==
    /\ loop = "join"
    /\ loop' = "over" /\ result' = Result
    /\ UNCHANGED <<schedulerVars, userVars, next, permits, task, firstError, writerVars, through>>

\* Promise.all(tasks), then the end of the function.
Join ==
    /\ loop = "join" /\ \A p \in Parts : task[p] \in {"none", "ended"}
    /\ loop' = "over" /\ result' = Result
    /\ UNCHANGED <<schedulerVars, userVars, next, permits, task, firstError, writerVars, through>>

-----------------------------------------------------------------------------
\* The task of a part of a download.

\* getFile returned: with an error elsewhere the part is thrown away.
Got(p) ==
    /\ Download /\ task[p] = "requesting" /\ call[p].phase = "got"
    /\ IF firstError = "none"
       THEN task' = [task EXCEPT ![p] = "checking"] /\ UNCHANGED <<loop, permits>>
       ELSE Ends({p})
    /\ UNCHANGED <<schedulerVars, userVars, next, firstError, writerVars, through, result>>

\* The hash does not match, or the progress callback throws.
CheckFails(p) ==
    /\ Quiet /\ task[p] = "checking"
    /\ Fault
    /\ Blames("error")
    /\ Ends({p})
    /\ UNCHANGED <<balance, current, stage, call, aborted, userVars, next, writerVars, through,
                   result>>

\* reportProgress, which aborts when the user cancelled, and OrderedWriter.write.
Write(p) ==
    /\ Quiet /\ task[p] = "checking"
    /\ IF cancelled THEN Abort /\ UNCHANGED <<current, stage, faults>> ELSE UNCHANGED schedulerVars
    /\ stash' = stash \cup {p} /\ drains' = Append(drains, p)
    /\ task' = [task EXCEPT ![p] = "writing"]
    /\ UNCHANGED <<userVars, loopVars, firstError, nextIdx, inWrite, rejected, through, result>>

\* One turn of _drain: it takes the next part from the stash and writes it, which
\* an empty part does not need, or is over.  After a drain that failed, the others are rejected in turn.
Drain ==
    /\ drains # <<>> /\ ~inWrite
    /\ \/ /\ ~rejected /\ nextIdx \in stash \cap Empty
          /\ stash' = stash \ {nextIdx} /\ nextIdx' = nextIdx + 1
          /\ UNCHANGED <<loop, permits, task, firstError, drains, inWrite>>
       \/ /\ ~rejected /\ nextIdx \in stash \ Empty
          /\ stash' = stash \ {nextIdx} /\ inWrite' = TRUE
          /\ UNCHANGED <<loop, permits, task, firstError, nextIdx, drains>>
       \/ /\ rejected \/ nextIdx \notin stash
          /\ drains' = Tail(drains)
          /\ Ends({Head(drains)})
          /\ IF rejected THEN Blames("error") ELSE UNCHANGED firstError
          /\ UNCHANGED <<nextIdx, stash, inWrite>>
    /\ UNCHANGED <<schedulerVars, userVars, next, rejected, through, result>>

\* The file took the part.
Written ==
    /\ Quiet /\ inWrite
    /\ inWrite' = FALSE /\ nextIdx' = nextIdx + 1
    /\ through' = Append(through, nextIdx)
    /\ UNCHANGED <<schedulerVars, userVars, loopVars, task, firstError, stash, drains, rejected,
                   result>>

WriteFails ==
    /\ Quiet /\ inWrite /\ Fault
    /\ inWrite' = FALSE /\ rejected' = TRUE
    /\ UNCHANGED <<balance, current, stage, call, aborted, userVars, loopVars, task, firstError,
                   nextIdx, stash, drains, through, result>>

\* getFile threw.
GetFailed(p) ==
    /\ Download /\ task[p] = "requesting" /\ call[p].phase = "failed"
    /\ Blames(call[p].outcome)
    /\ Ends({p})
    /\ UNCHANGED <<schedulerVars, userVars, next, writerVars, through, result>>

-----------------------------------------------------------------------------
\* The task of a part of an upload.

\* savePart returned: the part is saved, and the user may have cancelled.
Saved(p) ==
    /\ ~Download /\ task[p] = "requesting" /\ call[p].phase = "got"
    /\ through' = Append(through, p)
    /\ IF cancelled THEN Blames("error") /\ Abort /\ UNCHANGED <<current, stage, faults>>
                    ELSE UNCHANGED <<firstError, schedulerVars>>
    /\ Ends({p})
    /\ UNCHANGED <<userVars, next, writerVars, result>>

\* savePart threw, or the part could not be read: the other parts are aborted.
SaveFailed(p) ==
    /\ ~Download /\ task[p] = "requesting" /\ call[p].phase = "failed"
    /\ Blames(call[p].outcome)
    /\ Abort /\ UNCHANGED <<current, stage, faults>>
    /\ Ends({p})
    /\ UNCHANGED <<userVars, next, writerVars, through, result>>

-----------------------------------------------------------------------------
\* The user cancels, once.
Cancel ==
    /\ Quiet /\ ~cancelled /\ Fault
    /\ cancelled' = TRUE
    /\ UNCHANGED <<balance, current, stage, call, aborted, kind, limit, loopVars, task, firstError,
                   writerVars, through, result>>

Init ==
    /\ SchedulerInit
    /\ kind \in {"download", "upload"} /\ cancelled = FALSE
    /\ loop = "top" /\ next = 0 /\ limit \in Limits /\ permits = limit
    /\ task = [p \in Parts |-> "none"] /\ firstError = "none"
    /\ nextIdx = 0 /\ stash = {} /\ drains = <<>> /\ inWrite = FALSE /\ rejected = FALSE
    /\ through = <<>> /\ result = "none"

Untouched == UNCHANGED <<userVars, loopVars, task, firstError, writerVars, through, result>>

\* The continuations of a call, and what comes from outside.
Continue(p)  == CallStep(p) /\ Untouched
AnswerTo(p)  == Quiet /\ Reply(p) /\ Untouched
FloodOver(g) == Quiet /\ FloodEnds(g) /\ Untouched

Fails(p)   == Quiet /\ (ReplyBadly(p) \/ KeyBreaks(p)) /\ Untouched
Disconnect == Quiet /\ Purge /\ Untouched
Destroy    == Quiet /\ (Close \/ CloseNetwork) /\ Untouched

Loop == LoopTop \/ TakePermit \/ StartTask \/ Join

TaskStep(p) == Got(p) \/ Write(p) \/ GetFailed(p) \/ Saved(p) \/ SaveFailed(p)

Next ==
    \/ Loop \/ Drain \/ Written \/ WriteFails
    \/ Cancel \/ Disconnect \/ Destroy
    \/ \E g \in Generations : FloodOver(g)
    \/ \E p \in Parts : \/ TaskStep(p) \/ CheckFails(p)
                        \/ Continue(p) \/ AnswerTo(p) \/ Fails(p)

Spec == Init /\ [][Next]_vars

\* Promises run on, the deadline of a request fires, a flood wait ends, and the
\* file takes what it is given.
FairSpec ==
    /\ Spec
    /\ WF_vars(Loop) /\ WF_vars(Drain) /\ WF_vars(Written)
    /\ \A g \in Generations : WF_vars(FloodOver(g))
    /\ \A p \in Parts : WF_vars(TaskStep(p)) /\ WF_vars(Continue(p)) /\ WF_vars(AnswerTo(p))

-----------------------------------------------------------------------------
\* The type invariant.
TypeOK ==
    /\ \A g \in Generations :
          /\ DOMAIN balance[g].sessions \subseteq 0 .. balance[g].nextId - 1
          /\ \A i \in DOMAIN balance[g].sessions :
                balance[g].sessions[i] \in [requested : 0 .. MaxWindow,
                                            window    : StartWindow .. MaxWindow,
                                            timeouts  : Nat]
          /\ balance[g].waiters \in Seq(Parts) /\ balance[g].flood \in BOOLEAN
    /\ current \in Generations /\ stage \in {"open", "closed", "gone"}
    /\ call \in [Parts -> [phase : {"none", "ready", "flooded", "queued", "woken", "running",
                                    "answered", "got", "failed"},
                           gen : Generations, id : Nat, full : BOOLEAN,
                           outcome : {"none", "ok", "flood", "error", "timeout", "removed", "abort"},
                           attempt : 0 .. RequestRetries]]
    /\ {aborted, cancelled, inWrite, rejected} \subseteq BOOLEAN /\ faults \in 0 .. MaxFaults
    /\ kind \in {"download", "upload"}
    /\ loop \in {"top", "waiting", "woken", "acquired", "join", "over"}
    /\ limit \in Limits /\ next \in 0 .. TotalParts /\ nextIdx \in 0 .. TotalParts /\ permits \in Nat
    /\ task \in [Parts -> {"none", "requesting", "checking", "writing", "ended"}]
    /\ firstError \in {"none", "error", "abort"}
    /\ stash \subseteq Parts /\ drains \in Seq(Parts) /\ through \in Seq(Parts)
    /\ result \in {"none", "good", "bad"}

\* The windows of BalancePolicy count what is under way: what a session is
\* charged is what runs on it, and fits its window, through retries, removals and
\* ids that repeat.  Only a call that asked a closed network for its slot
\* (MediaScheduler.ts:297, outside the try) stays charged.
WindowsAccount ==
    stage # "gone" =>
    \A g \in Generations : \A i \in DOMAIN balance[g].sessions :
       LET s == balance[g].sessions[i]
           users == {p \in Parts : /\ call[p].phase \in {"running", "answered"}
                                   /\ call[p].gen = g /\ call[p].id = i} IN
       s.requested = Cardinality(users) /\ s.requested <= s.window

\* No lost wake-up: while calls wait for a window, some call of the same balance
\* is going to wake one, until the network is closed.  A waiter is woken only by
\* the end of another call (MediaScheduler.ts:348).
WaitersHaveWaker ==
    stage # "gone" =>
    \A g \in Generations : balance[g].waiters # <<>> =>
       \E p \in Parts : /\ call[p].phase \in {"running", "answered", "woken"}
                        /\ call[p].gen = g

\* The semaphore bounds the tasks: what was started and has not ended, with the
\* permits left and the one the loop holds, is the limit.
TasksBounded ==
    Cardinality({p \in Parts : task[p] \notin {"none", "ended"}}) + permits
      + (IF loop = "acquired" THEN 1 ELSE 0) = limit

\* What is charged is what runs, in the windows and in the semaphore.
ChargesAccount == TypeOK /\ WindowsAccount /\ TasksBounded

\* What FileTransfer.tla promises: parts come through once, those of a download
\* in order, never after the result; a good result has all parts or was cancelled.
File == INSTANCE FileTransfer
FileSpec == File!Spec

\* A transfer comes to its result, whatever fails, unless the network is closed.
TransferEnds == <>(result # "none" \/ stage = "gone")

=============================================================================
