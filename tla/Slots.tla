-------------------------------- MODULE Slots --------------------------------
(***************************************************************************)
(* The senders of one data center beside the main one: network/Network.ts, *)
(* network/SenderSlot.ts, network/Dcenter.ts, and the function that makes a*)
(* sender ready, _connectSender of client/telegramBaseClient.ts.  A session*)
(* has a slot, a slot connects a sender when it is asked for one and drops *)
(* it when it is idle; media sessions share one temporary key.             *)
(*                                                                         *)
(* Slots and senders are objects, kept in arrays.                          *)
(* An action is what runs between two awaits; of a sender only its life is *)
(* kept, MTProtoSender.tla has the rest.                                   *)
(***************************************************************************)
EXTENDS Integers, Sequences, FiniteSets, TLC

CONSTANTS
    Sessions,               \* shifted ids of the data center
    Media,                  \* those of downloads and uploads
    NumSlots, NumSenders,   \* bounds: the objects that exist at a time
    Workers,                \* invoke() with a dcId, or a call of MediaScheduler
    MaxFaults               \* bound: connections lost, keys rejected, errors, keys that expire

ASSUME SlotsAssumption ==
    /\ Media \subseteq Sessions
    /\ {NumSlots, NumSenders, MaxFaults} \subseteq Nat

Slots   == 1 .. NumSlots
Senders == 1 .. NumSenders
None    == 0
Queued  == -1              \* an attempt that has no sender yet

VARIABLES
    registry,               \* Network._slots
    closed,                 \* Network._closed
    slot,                   \* the slots
    chain,                  \* attempts to connect, one at a time (_connectChains)
    sender,                 \* the senders
    mediaKey, mediaBound,   \* of Dcenter; a key is its number, 0 for none
    worker,                 \* who uses the sessions
    boundKeys,              \* history: keys the server bound
    badKeys,                \* history: keys whose use broke a sender
    racedKeys,              \* history: keys that replaced one made meanwhile
    forsaken,               \* history: senders let go while they were reconnecting or broken
    faults

keyVars == <<mediaKey, mediaBound, boundKeys, badKeys, racedKeys>>
vars == <<registry, closed, slot, chain, sender, keyVars, worker, forsaken, faults>>

Fault == faults < MaxFaults /\ faults' = faults + 1

NewSlot == [session |-> None, state |-> "none", sender |-> None, active |-> 0,
            idleTimer |-> FALSE, trying |-> None]

NewSender == [slot |-> None, phase |-> "none", link |-> "off", key |-> 0, authenticated |-> FALSE,
              again |-> FALSE]

NoWorker == [phase |-> "off", slot |-> None, sender |-> None]

OfMedia(s) == slot[s].session \in Media

\* _userConnected of a sender.
Online(x) == sender[x].link \in {"binding", "on"}

\* A continuation is ready: a caller got its sender, or was turned away, or its
\* slot died under it.
Continuing(w) ==
    \/ worker[w].phase \in {"served", "rejected"}
    \/ worker[w].phase = "using" /\ OfMedia(worker[w].slot) /\ slot[worker[w].slot].state = "dead"

Quiet == \A w \in Workers : ~Continuing(w)

-----------------------------------------------------------------------------
\* SenderSlot.

\* _armIdle of a slot that is ready and has no work.
Armed(t) == IF t.state = "ready" /\ t.active = 0 THEN [t EXCEPT !.idleTimer = TRUE] ELSE t

\* enter and leave.
Enter(t) == [t EXCEPT !.active = @ + 1, !.idleTimer = FALSE]

Leave(t) == Armed([t EXCEPT !.active = @ - 1])

\* sender.disconnect(): final for a sender that is connected; one that is
\* reconnecting goes on to connect.
Dropped(X) ==
    /\ sender' = [x \in Senders |-> IF x \in X /\ Online(x)
                                    THEN NewSender
                                    ELSE sender[x]]
    /\ forsaken' = forsaken \cup {x \in X : ~Online(x)}

\* Mutant: an attempt that ends finds a slot that died and stays with it.
DeadKeepsState(t) == [t EXCEPT !.idleTimer = FALSE, !.sender = None]

\* markDead.
Dead(t) == [t EXCEPT !.state = "dead", !.idleTimer = FALSE, !.sender = None]

SendersOf(D) == {slot[s].sender : s \in D} \ {None}

\* An object is made in the first place that nobody holds any more.
FreeSlots ==
    {s \in Slots :
        \/ slot[s].state = "none"
        \/ /\ slot[s].state = "dead" /\ slot[s].trying = None
           /\ \A x \in Senders : sender[x].slot # s
           /\ \A w \in Workers : worker[w].slot # s}

FreeSenders ==
    {x \in Senders : sender[x] = NewSender /\ \A w \in Workers : worker[w].sender # x}

FreeKeys == (1 .. NumSenders + 1) \ ({mediaKey} \cup {sender[x].key : x \in Senders})

First(S) == CHOOSE i \in S : \A k \in S : i <= k

\* getSession: the registered slot, or a new one.
GetSession(k, s) ==
    IF registry[k] # None THEN s = registry[k] ELSE FreeSlots # {} /\ s = First(FreeSlots)

\* ensureConnected when there is no sender at hand: join the attempt or start one.
TryToConnect(t) ==
    IF t.trying # None THEN t
    ELSE [t EXCEPT !.state = "connecting", !.idleTimer = FALSE, !.trying = Queued]

\* A caller asks a session for its sender: lease(), or _run of MediaScheduler,
\* which enters the slot first.
Ask(w, k, s) ==
    LET t == IF registry[k] = None THEN [NewSlot EXCEPT !.session = k, !.state = "idle"]
             ELSE slot[s]
        u == IF k \in Media THEN Enter(t) ELSE t
        ready == u.state = "ready" /\ Online(u.sender) IN
    /\ Quiet /\ ~closed
    /\ worker[w].phase = "off"
    /\ GetSession(k, s)
    /\ registry' = [registry EXCEPT ![k] = s]
    /\ slot' = [slot EXCEPT ![s] = IF ready THEN u ELSE TryToConnect(u)]
    /\ chain' = IF ready \/ u.trying # None THEN chain ELSE Append(chain, s)
    /\ worker' = [worker EXCEPT ![w] = [phase  |-> IF ready THEN "served" ELSE "waiting",
                                        slot   |-> s,
                                        sender |-> IF ready THEN u.sender ELSE None]]
    /\ UNCHANGED <<closed, sender, keyVars, forsaken, faults>>

\* A lease enters the slot once it has the sender.
Serve(w) ==
    /\ worker[w].phase = "served"
    /\ worker' = [worker EXCEPT ![w].phase = "using"]
    /\ slot' = IF OfMedia(worker[w].slot) THEN slot
               ELSE [slot EXCEPT ![worker[w].slot] = Enter(@)]
    /\ UNCHANGED <<registry, closed, chain, sender, keyVars, forsaken, faults>>

\* ensureConnected threw: a call of the scheduler leaves the slot it had entered.
Reject(w) ==
    /\ worker[w].phase = "rejected"
    /\ worker' = [worker EXCEPT ![w] = NoWorker]
    /\ slot' = IF OfMedia(worker[w].slot) THEN [slot EXCEPT ![worker[w].slot] = Leave(@)]
               ELSE slot
    /\ UNCHANGED <<registry, closed, chain, sender, keyVars, forsaken, faults>>

\* The work is done, or raceWithSlotDeath ends it: release() or leave().
Release(w) ==
    /\ worker[w].phase = "using"
    /\ Quiet \/ Continuing(w)
    /\ worker' = [worker EXCEPT ![w] = NoWorker]
    /\ slot' = [slot EXCEPT ![worker[w].slot] = Leave(@)]
    /\ UNCHANGED <<registry, closed, chain, sender, keyVars, forsaken, faults>>

\* _idleTick.
IdleTick(s) ==
    /\ Quiet /\ slot[s].idleTimer
    /\ IF slot[s].state = "ready" /\ slot[s].active = 0
       THEN /\ slot' = [slot EXCEPT ![s].idleTimer = FALSE, ![s].state = "idle", ![s].sender = None]
            /\ Dropped({slot[s].sender})
       ELSE slot' = [slot EXCEPT ![s].idleTimer = FALSE] /\ UNCHANGED <<sender, forsaken>>
    /\ UNCHANGED <<registry, closed, chain, keyVars, worker, faults>>

-----------------------------------------------------------------------------
\* An attempt to connect: _gatedConnect and _connectSender.

\* resetMediaTempKey.
ResetMediaKey == mediaKey' = 0 /\ mediaBound' = FALSE

\* The attempt that is first in the chain makes its sender, after it threw away a
\* temporary key that is about to expire.
GatedConnect ==
    /\ Quiet /\ chain # <<>>
    /\ LET s == Head(chain) IN
       /\ slot[s].trying = Queued
       /\ FreeSenders # {}
       /\ LET x == First(FreeSenders) IN
          /\ slot' = [slot EXCEPT ![s].trying = x]
          /\ sender' = [sender EXCEPT ![x] = [NewSender EXCEPT !.slot = s, !.phase = "opening"]]
          /\ forsaken' = forsaken \ {x}
       /\ \/ UNCHANGED <<mediaKey, mediaBound, faults>>
          \/ OfMedia(s) /\ mediaBound /\ Fault /\ ResetMediaKey
    /\ UNCHANGED <<registry, closed, chain, boundKeys, badKeys, racedKeys, worker>>

\* The connection of a sender is up, for the first time or again.  A first one
\* goes on to the initial request.
Linked(x, link, key) ==
    [sender[x] EXCEPT !.link = link, !.key = key,
                      !.phase = IF @ = "opening" /\ link = "on" THEN "asking" ELSE @]

\* _connect: a media sender makes the key if there is none, and binds it unless the
\* data center says that it is bound.  One that reconnects with a key it has
\* never authenticated throws the key away, for all senders of the data center.
Connect(x) ==
    LET drops == sender[x].phase # "opening" /\ ~sender[x].authenticated
        key == IF drops THEN 0 ELSE mediaKey IN
    /\ Quiet /\ sender[x].phase \in {"opening", "asking", "up"} /\ sender[x].link = "off"
    /\ IF ~OfMedia(sender[x].slot)
       THEN sender' = [sender EXCEPT ![x] = Linked(x, "on", 0)] /\ UNCHANGED keyVars
       ELSE /\ mediaKey' = key /\ mediaBound' = (mediaBound /\ ~drops)
            /\ sender' = [sender EXCEPT ![x] =
                  IF key = 0 THEN Linked(x, "keying", 0)
                  ELSE [Linked(x, IF mediaBound THEN "on" ELSE "binding", key)
                           EXCEPT !.authenticated = TRUE]]
            /\ UNCHANGED <<boundKeys, badKeys, racedKeys>>
    /\ UNCHANGED <<registry, closed, slot, chain, worker, forsaken, faults>>

\* doAuthentication returns a key: it is that of the data center, whatever
\* another sender made meanwhile.
MakeKey(x) ==
    /\ Quiet /\ sender[x].link = "keying"
    /\ LET key == First(FreeKeys)
           others == {mediaKey} \cup {sender[y].key : y \in Senders} IN
       /\ mediaKey' = key
       /\ boundKeys' = boundKeys \cap others /\ badKeys' = badKeys \cap others
       /\ racedKeys' = (racedKeys \cap others) \cup (IF mediaKey # 0 THEN {key} ELSE {})
       /\ sender' = [sender EXCEPT ![x] = Linked(x, IF mediaBound THEN "on" ELSE "binding", key)]
    /\ UNCHANGED <<registry, closed, slot, chain, mediaBound, worker, forsaken, faults>>

\* A sender decrypts with the key the data center has now, so what comes under
\* an older one breaks it (Stale).
Current(x) == OfMedia(sender[x].slot) => sender[x].key = mediaKey

\* onBound.
Bind(x) ==
    /\ Quiet /\ sender[x].link = "binding" /\ Current(x)
    /\ mediaBound' = TRUE /\ boundKeys' = boundKeys \cup {mediaKey}
    /\ sender' = [sender EXCEPT ![x] = Linked(x, "on", mediaKey)]
    /\ UNCHANGED <<registry, closed, slot, chain, mediaKey, badKeys, racedKeys, worker,
                   forsaken, faults>>

\* onFailed: the key is thrown away, and connect() tries again.
BindFails(x) ==
    /\ Quiet /\ sender[x].link = "binding" /\ Current(x)
    /\ Fault
    /\ ResetMediaKey
    /\ sender' = [sender EXCEPT ![x].link = "off"]
    /\ UNCHANGED <<registry, closed, slot, chain, boundKeys, badKeys, racedKeys, worker,
                   forsaken>>

\* A sender at work sends under the key of the data center, whoever made it.
Rekey(x) ==
    /\ Quiet /\ sender[x].phase = "up" /\ sender[x].link = "on"
    /\ mediaKey # 0 /\ ~Current(x)
    /\ sender' = [sender EXCEPT ![x].key = mediaKey]
    /\ UNCHANGED <<registry, closed, slot, chain, keyVars, worker, forsaken, faults>>

\* Mutant: only one of the callers that share an attempt is answered.
OneAnswered(s, phase, x) ==
    LET C == {w \in Workers : worker[w].phase = "waiting" /\ worker[w].slot = s} IN
    IF C = {} THEN UNCHANGED worker
    ELSE worker' = [worker EXCEPT ![CHOOSE w \in C : TRUE] = [@ EXCEPT !.phase = phase, !.sender = x]]

\* The callers of ensureConnected that share the attempt of slot s.
Answered(s, phase, x) ==
    worker' = [w \in Workers |-> IF worker[w].phase = "waiting" /\ worker[w].slot = s
                                 THEN [worker[w] EXCEPT !.phase = phase, !.sender = x]
                                 ELSE worker[w]]

\* The initial request was answered.  A slot that died meanwhile drops the sender;
\* one that already had a sender, which was reconnecting, forgets that.
Connected(x) ==
    LET s == sender[x].slot
        taken == [slot[s] EXCEPT !.state = "ready", !.sender = x, !.trying = None] IN
    /\ Quiet /\ sender[x].phase = "asking" /\ sender[x].link = "on" /\ Current(x)
    /\ chain' = Tail(chain)
    /\ IF slot[s].state = "dead"
       THEN /\ slot' = [slot EXCEPT ![s].trying = None]
            /\ Dropped({x})
            /\ Answered(s, "rejected", None)
       ELSE /\ slot' = [slot EXCEPT ![s] = Armed(taken)]
            /\ sender' = [sender EXCEPT ![x].phase = "up", ![x].authenticated = TRUE]
            /\ forsaken' = forsaken \cup ({slot[s].sender} \ {None})
            /\ Answered(s, "served", x)
    /\ UNCHANGED <<registry, closed, keyVars, faults>>

\* The attempt threw: the slot is idle again, unless it is dead.
AttemptOver(x) ==
    LET s == sender[x].slot IN
    /\ chain' = Tail(chain)
    /\ slot' = [slot EXCEPT ![s].trying = None,
                            ![s].state = IF @ = "dead" THEN @ ELSE "idle"]
    /\ Answered(s, "rejected", None)

\* The authorization cannot be exported: _connectSender tries again, but not
\* a second time, because by then it has disconnected the sender itself.
ExportFails(x) ==
    /\ Quiet /\ sender[x].phase = "opening" /\ sender[x].link = "off"
    /\ Fault
    /\ IF sender[x].again
       THEN AttemptOver(x) /\ sender' = [sender EXCEPT ![x] = NewSender]
       ELSE sender' = [sender EXCEPT ![x].again = TRUE] /\ UNCHANGED <<slot, chain, worker>>
    /\ UNCHANGED <<registry, closed, keyVars, forsaken>>

\* The initial request is refused: the sender is disconnected and connects anew.
InitFails(x) ==
    /\ Quiet /\ sender[x].phase = "asking" /\ sender[x].link = "on" /\ Current(x)
    /\ Fault
    /\ sender' = [sender EXCEPT ![x].phase = "opening", ![x].link = "off", ![x].again = TRUE]
    /\ UNCHANGED <<registry, closed, slot, chain, keyVars, worker, forsaken>>

-----------------------------------------------------------------------------
\* A connection is lost: the sender reconnects by itself.
Disconnect(x) ==
    /\ Quiet /\ sender[x].link = "on" /\ sender[x].phase \in {"asking", "up"}
    /\ Fault
    /\ sender' = [sender EXCEPT ![x].link = "off"]
    /\ UNCHANGED <<registry, closed, slot, chain, keyVars, worker, forsaken>>

\* Mutant: the siblings of a media slot whose key broke live on.
SiblingsSpared(s) == {}

\* The slots that share the temporary key of slot s.
Siblings(s) == IF OfMedia(s) THEN {registry[k] : k \in Media} \ {None} ELSE {}

\* _handleBadAuthKey and _onSenderBreak: the slot and, for a media slot, its
\* siblings die, and the temporary key is thrown away.  A sender that waits for
\* the answer to its initial request gets an error and is left as it is; one that is
\* binding connects again.
Break(x) ==
    LET s == sender[x].slot
        D == {s} \cup Siblings(s)
        live == {d \in D : slot[d].state # "dead"}
        X == SendersOf(live)
        binding == sender[x].link = "binding"
        attempt == sender[x].phase = "asking" IN
    /\ registry' = [k \in Sessions |-> IF registry[k] \in D THEN None ELSE registry[k]]
    /\ badKeys' = IF OfMedia(s) THEN badKeys \cup {sender[x].key} ELSE badKeys
    /\ ResetMediaKey
    /\ sender' = [y \in Senders |->
          IF y = x /\ binding
          THEN [sender[x] EXCEPT !.phase = IF attempt THEN "up" ELSE @, !.link = "off",
                                 !.authenticated = FALSE]
          ELSE IF y \in X /\ Online(y) THEN NewSender
          ELSE IF y = x THEN [sender[x] EXCEPT !.phase = "broken"]
          ELSE sender[y]]
    /\ forsaken' = forsaken \cup {y \in X : ~Online(y)}
                            \cup (IF attempt \/ (binding /\ x \in X) THEN {x} ELSE {})
    /\ slot' = [d \in Slots |->
          LET over == IF attempt /\ d = s THEN [slot[d] EXCEPT !.trying = None] ELSE slot[d] IN
          IF d \in live THEN Dead(over) ELSE over]
    /\ IF attempt THEN chain' = Tail(chain) /\ Answered(s, "rejected", None)
                  ELSE UNCHANGED <<chain, worker>>
    /\ UNCHANGED <<closed, boundKeys, racedKeys>>

\* The server rejects the key of a sender.
SenderBreaks(x) ==
    /\ Quiet /\ Online(x) /\ sender[x].phase \in {"opening", "asking", "up"}
    /\ Fault
    /\ Break(x)

\* The answer that a sender waits for comes under a key that the data center
\* no longer has.
Stale(x) ==
    /\ Quiet /\ Online(x) /\ ~Current(x)
    /\ sender[x].phase = "asking" \/ sender[x].link = "binding"
    /\ Break(x) /\ UNCHANGED faults

\* purge() of disconnect(), or close() of destroy().
Purge(closes) ==
    LET D == {registry[k] : k \in Sessions} \ {None} IN
    /\ Quiet /\ ~closed /\ (D # {} \/ closes)
    /\ closed' = closes
    /\ IF closes THEN UNCHANGED faults ELSE Fault
    /\ registry' = [k \in Sessions |-> None]
    /\ slot' = [s \in Slots |-> IF s \in D THEN Dead(slot[s]) ELSE slot[s]]
    /\ Dropped(SendersOf(D))
    /\ UNCHANGED <<chain, keyVars, worker>>

Init ==
    /\ registry = [k \in Sessions |-> None] /\ closed = FALSE
    /\ slot = [s \in Slots |-> NewSlot] /\ chain = <<>>
    /\ sender = [x \in Senders |-> NewSender]
    /\ mediaKey = 0 /\ mediaBound = FALSE
    /\ boundKeys = {} /\ badKeys = {} /\ racedKeys = {}
    /\ worker = [w \in Workers |-> NoWorker]
    /\ forsaken = {} /\ faults = 0

WorkerStep(w) == Serve(w) \/ Reject(w) \/ Release(w)

SenderStep(x) == Connect(x) \/ MakeKey(x) \/ Bind(x) \/ Connected(x) \/ Stale(x)

SenderFails(x) ==
    BindFails(x) \/ ExportFails(x) \/ InitFails(x) \/ Disconnect(x) \/ SenderBreaks(x)

Next ==
    \/ GatedConnect
    \/ \E closes \in BOOLEAN : Purge(closes)
    \/ \E s \in Slots : IdleTick(s)
    \/ \E x \in Senders : SenderStep(x) \/ Rekey(x) \/ SenderFails(x)
    \/ \E w \in Workers : WorkerStep(w) \/ \E k \in Sessions, s \in Slots : Ask(w, k, s)

Spec == Init /\ [][Next]_vars

\* Promises run on and the network answers.  Steps of callers come between, so a
\* step waits for its turn again and again: strong fairness, as the event loop
\* takes events in order.
FairSpec ==
    /\ Spec
    /\ SF_vars(GatedConnect)
    /\ \A x \in Senders : SF_vars(SenderStep(x))
    /\ \A w \in Workers : WF_vars(WorkerStep(w))

-----------------------------------------------------------------------------
\* The type invariant.
TypeOK ==
    /\ registry \in [Sessions -> Slots \cup {None}] /\ closed \in BOOLEAN
    /\ slot \in [Slots -> [session : Sessions \cup {None},
                           state : {"none", "idle", "connecting", "ready", "dead"},
                           sender : Senders \cup {None}, active : Nat, idleTimer : BOOLEAN,
                           trying : Senders \cup {None, Queued}]]
    /\ chain \in Seq(Slots)
    /\ sender \in [Senders -> [slot : Slots \cup {None},
                               phase : {"none", "opening", "asking", "up", "broken"},
                               link : {"off", "keying", "binding", "on"},
                               key : Nat, authenticated : BOOLEAN, again : BOOLEAN]]
    /\ mediaKey \in 0 .. NumSenders + 1 /\ mediaBound \in BOOLEAN
    /\ boundKeys \cup badKeys \cup racedKeys \subseteq 1 .. NumSenders + 1
    /\ worker \in [Workers -> [phase : {"off", "waiting", "served", "rejected", "using"},
                               slot : Slots \cup {None}, sender : Senders \cup {None}]]
    /\ forsaken \subseteq Senders /\ faults \in 0 .. MaxFaults

\* No sender leaks: one that is not taken down is the attempt of its slot or the
\* sender of a registered slot, except where the code lets go of a sender that is
\* reconnecting by itself (SenderSlot.ts:73, 137, 163), or was refused its key while it waited
\* for its initial request (telegramBaseClient.ts:644).
NoSenderLeaks ==
    \A x \in Senders : sender[x] # NewSender =>
       \/ slot[sender[x].slot].trying = x
       \/ /\ slot[sender[x].slot].sender = x
          /\ registry[slot[sender[x].slot].session] = sender[x].slot
       \/ x \in forsaken

\* A sender is not taken from who uses it: it is the sender of the slot for as long
\* as the slot lives, idle timers and shared attempts notwithstanding, unless
\* another caller found it reconnecting and had the slot connected anew.
UsedSenderStays ==
    \A w \in Workers : worker[w].phase \in {"served", "using"} =>
       \/ slot[worker[w].slot].state = "dead"
       \/ slot[worker[w].slot].sender = worker[w].sender
       \/ worker[w].sender \in forsaken

\* The count of a slot is the number of its users, so its idle timer runs
\* only when there are none.
SlotsCount ==
    \A s \in Slots :
       LET users == {w \in Workers : worker[w].slot = s /\
                        (worker[w].phase = "using" \/ (OfMedia(s) /\ worker[w].phase # "off"))} IN
       /\ slot[s].active = Cardinality(users)
       /\ slot[s].idleTimer => users = {}

\* Network.ts:180: siblings share the invalidated temporary key.  A key the
\* server rejected is not the key of a media sender that a slot could hand out.
BadKeyUnused ==
    \A k \in Media : registry[k] # None =>
       LET x == slot[registry[k]].sender IN x # None /\ Online(x) => sender[x].key \notin badKeys

\* mediaBound is about the key the data center has: a sender skips the binding only of a
\* key that was bound, unless two senders made a key at the same time
\* (MTProtoSender.ts:436-450 reads and writes the shared key around an await).
BoundKeyIsBound == mediaBound => mediaKey \in boundKeys \cup racedKeys

\* Senders and slots account for each other.
SendersAreHeld == TypeOK /\ NoSenderLeaks /\ UsedSenderStays /\ SlotsCount

\* The temporary key the senders of a data center share is one they may use.
KeyIsSound == BadKeyUnused /\ BoundKeyIsBound

Waits(w) == worker[w].phase = "waiting"
Settled(w) == ~Waits(w) \/ FreeSenders = {}

\* Who waits for a sender is served or turned away, whatever happens to the
\* attempts ahead in the chain, as long as the bound leaves a sender to make.  One
\* fault is allowed here: after two, two senders can break each other over the
\* key without end, because one that reconnects is not in the chain that keeps attempts apart.
AskersSettle == \A w \in Workers : Waits(w) ~> Settled(w)

\* For TLC: callers and media sessions differ in nothing but their names.
CallerSymmetry == Permutations(Workers) \cup Permutations(Media)

=============================================================================
