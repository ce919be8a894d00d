---------------------------- MODULE EventDispatch ----------------------------
(***************************************************************************)
(* From the update manager to the event handlers of the application:       *)
(* dispatch() of client/UpdateManager.ts, which drops messages it has      *)
(* dispatched lately, _dispatchUpdate of client/updates.ts, one run for an *)
(* update, any number of them at the same time, and events/Album.ts, which *)
(* collects the messages of an album until none comes for half a second.   *)
(*                                                                         *)
(* The filters of the builders admit everything here.                      *)
(***************************************************************************)
EXTENDS Integers, Sequences, FiniteSets, SequencesExt

CONSTANTS
    Handlers,               \* the sequence of handlers that are added, by name
    AlbumHandlers,          \* those with an Album builder; the others have a NewMessage
    Together,               \* handlers that were added with the same callback
    Grouped,                \* messages of the one album there is
    RecentSize,             \* RECENT_MESSAGE_BUFFER_SIZE
    MaxMessages,            \* bound: messages, numbers
    MaxRepeats,             \* bound: messages that come again
    MaxFaults,              \* bound: failures, removals, StopPropagation, disconnect()
    None

EventDispatchAssumption ==
    /\ Handlers \in Seq(ToSet(Handlers)) /\ IsInjective(Handlers)
    /\ AlbumHandlers \cup Together \subseteq ToSet(Handlers)
    /\ Grouped \subseteq 1 .. MaxMessages
    /\ {RecentSize, MaxMessages, MaxRepeats, MaxFaults} \subseteq Nat
    /\ None \notin ToSet(Handlers)

VARIABLES
    builders,               \* _eventBuilders of the client
    resolved,               \* the builders that are resolved
    self,                   \* _selfInputPeer is known
    recent,                 \* recentMessageQueue
    came,                   \* messages that have come
    runs,                   \* runs of _dispatchUpdate
    album,                  \* _ALBUMS: what was collected, and whose timer runs
    calls,                  \* history: the messages a handler was called with, in order
    lost,                   \* history: messages of an album when the client disconnected
    repeats, faults

vars == <<builders, resolved, self, recent, came, runs, album, calls, lost, repeats, faults>>

Fault == faults < MaxFaults /\ faults' = faults + 1

NoAlbum == [messages |-> <<>>, timer |-> None]

-----------------------------------------------------------------------------
\* isDuplicateMessage, and the run it lets begin.

AfterResolved == IF self THEN "building" ELSE "asking"

\* What a run awaits at place k of its list.
PhaseAt(list, k) ==
    IF k > Len(list) THEN "done" ELSE IF list[k] \in resolved THEN AfterResolved ELSE "resolving"

Remembered(q, m) ==
    IF Len(q) < RecentSize THEN Append(q, m) ELSE Append(Tail(q), m)

Comes(m) ==
    /\ IF Contains(recent, m) THEN UNCHANGED <<recent, runs>>
       ELSE /\ recent' = Remembered(recent, m)
            /\ runs' = Append(runs, [message |-> m, list |-> builders, at |-> 1,
                                  phase |-> PhaseAt(builders, 1), skipped |-> {}])
    /\ UNCHANGED <<builders, resolved, self, album, calls, lost, faults>>

\* The next message, or one that came before: pushed and in a difference.
NewMessage == came < MaxMessages /\ came' = came + 1 /\ Comes(came') /\ UNCHANGED repeats

Repeat ==
    /\ repeats < MaxRepeats /\ repeats' = repeats + 1
    /\ \E m \in 1 .. came : Comes(m)
    /\ UNCHANGED came

-----------------------------------------------------------------------------
\* A run i: it awaits the builder, the account and the callback of one handler after the
\* other, from the list as it was when the run began.
Handler(i) == runs[i].list[runs[i].at]

Goes(i, phase) == runs' = [runs EXCEPT ![i].phase = phase]

NextHandler(i, skipped) ==
    runs' = [runs EXCEPT ![i].at = @ + 1, ![i].phase = PhaseAt(runs[i].list, runs[i].at + 1),
                         ![i].skipped = @ \cup skipped]

\* A builder that cannot be resolved is passed over.
Resolve(i) ==
    /\ runs[i].phase = "resolving"
    /\ \/ Goes(i, AfterResolved) /\ resolved' = resolved \cup {Handler(i)} /\ UNCHANGED faults
       \/ NextHandler(i, {Handler(i)}) /\ Fault /\ UNCHANGED resolved
    /\ UNCHANGED <<self, album, calls>>

\* getMe: a failure is ignored.
GetMe(i) ==
    /\ runs[i].phase = "asking"
    /\ Goes(i, "building")
    /\ \/ self' = TRUE /\ UNCHANGED faults
       \/ Fault /\ UNCHANGED self
    /\ UNCHANGED <<resolved, album, calls>>

\* Mutant: a timer that is replaced takes its messages with it.
CollectedAnew(a, m) == <<m>>

Collected(a, m) == Append(a.messages, m)

\* build() of an Album starts the timer anew, for the callback of this run; other
\* events go to the callback.
Build(i) ==
    /\ runs[i].phase = "building"
    /\ IF Handler(i) \in AlbumHandlers
       THEN /\ NextHandler(i, {}) /\ UNCHANGED calls
            /\ album' = IF runs[i].message \notin Grouped THEN album
                        ELSE [messages |-> Collected(album, runs[i].message), timer |-> Handler(i)]
       ELSE /\ Goes(i, "calling") /\ UNCHANGED album
            /\ calls' = [calls EXCEPT ![Handler(i)] = Append(@, runs[i].message)]
    /\ UNCHANGED <<resolved, self, faults>>

\* The callback returns or throws, and StopPropagation ends the run.
Return(i) ==
    /\ runs[i].phase = "calling"
    /\ \/ NextHandler(i, {}) /\ UNCHANGED faults
       \/ Goes(i, "stopped") /\ Fault
    /\ UNCHANGED <<resolved, self, album, calls>>

Dispatch(i) ==
    /\ Resolve(i) \/ GetMe(i) \/ Build(i) \/ Return(i)
    /\ UNCHANGED <<builders, recent, came, lost, repeats>>

\* The timer of the album.
AlbumTimer ==
    /\ album.timer # None
    /\ calls' = [calls EXCEPT ![album.timer] = @ \o album.messages]
    /\ album' = NoAlbum
    /\ UNCHANGED <<builders, resolved, self, recent, came, runs, lost, repeats, faults>>

\* removeEventHandler takes away all that have the builder or the callback.
RemoveEventHandler(h) ==
    LET same == IF h \in Together THEN Together ELSE {h} IN
    /\ Contains(builders, h) /\ Fault
    /\ builders' = SelectSeq(builders, LAMBDA g : g \notin same)
    /\ UNCHANGED <<resolved, self, recent, came, runs, album, calls, lost, repeats>>

\* _teardownUpdateState of disconnect().
Disconnect ==
    /\ album # NoAlbum /\ Fault
    /\ album' = NoAlbum /\ lost' = lost \cup ToSet(album.messages)
    /\ UNCHANGED <<builders, resolved, self, recent, came, runs, calls, repeats>>

Init ==
    /\ builders = Handlers /\ resolved = {} /\ self = FALSE /\ recent = <<>> /\ came = 0
    /\ runs = <<>> /\ album = NoAlbum /\ calls = [h \in ToSet(Handlers) |-> <<>>]
    /\ lost = {} /\ repeats = 0 /\ faults = 0

Next ==
    \/ NewMessage \/ Repeat \/ AlbumTimer \/ Disconnect
    \/ \E i \in DOMAIN runs : Dispatch(i)
    \/ \E h \in ToSet(Handlers) : RemoveEventHandler(h)

Spec == Init /\ [][Next]_vars

-----------------------------------------------------------------------------
Concerns(h, m) == h \in AlbumHandlers => m \in Grouped

\* A run that goes through its list, not ended by StopPropagation, has called every handler
\* whose builder it could resolve, or the message waits for the timer of an album, or
\* went with it when the client disconnected; however runs, removals and timers interleave.
HandlersCalled ==
    \A i \in DOMAIN runs : runs[i].phase = "done" =>
        \A h \in ToSet(runs[i].list) \ runs[i].skipped : Concerns(h, runs[i].message) =>
            Contains(calls[h] \o album.messages, runs[i].message) \/ runs[i].message \in lost

\* A message that comes twice, pushed and in a difference, is dispatched twice only when as
\* many others as the window holds came between, and a handler gets it once for
\* each time, alone or in an album.
CalledOnce ==
    /\ \A i, j \in DOMAIN runs : i < j /\ runs[i].message = runs[j].message =>
          Cardinality({runs[k].message : k \in i + 1 .. j - 1}) >= RecentSize
    /\ \A h \in ToSet(Handlers), m \in 1 .. MaxMessages :
          Cardinality({k \in DOMAIN calls[h] : calls[h][k] = m}) <=
             Cardinality({i \in DOMAIN runs : runs[i].message = m})

=============================================================================
