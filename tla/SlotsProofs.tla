------------------------------ MODULE SlotsProofs ------------------------------
(***************************************************************************)
(* Proofs about Slots: senders, slots and callers account for each other,  *)
(* and the temporary key that media senders share is one they may use.     *)
(***************************************************************************)
EXTENDS Slots, FiniteSetTheorems, SequenceTheorems, WellFoundedInduction, TLAPS

USE SlotsAssumption

-----------------------------------------------------------------------------
(* The inductive invariant *)

Alive(s) == slot[s].state \notin {"none", "dead"}

\* The callers a slot counts.
Users(s) ==
    {w \in Workers : worker[w].slot = s /\
        (worker[w].phase = "using" \/ (OfMedia(s) /\ worker[w].phase # "off"))}

\* The registry has exactly the slots that live, each under its session.
RegistryInv ==
    /\ \A k \in Sessions : registry[k] # None =>
          slot[registry[k]].session = k /\ Alive(registry[k])
    /\ \A s \in Slots : Alive(s) => registry[slot[s].session] = s

\* The states of a slot.
SlotInv ==
    \A s \in Slots :
       /\ slot[s].state = "none" => slot[s] = NewSlot
       /\ slot[s].state # "none" => slot[s].session \in Sessions
       /\ slot[s].state = "ready" => slot[s].sender # None
       /\ slot[s].state = "dead" => slot[s].sender = None
       /\ slot[s].idleTimer => slot[s].state = "ready" /\ slot[s].active = 0
       /\ slot[s].trying # None => slot[s].state \in {"connecting", "dead"}

\* The states of a sender; one that connects first is the attempt of its slot.
SenderInv ==
    \A x \in Senders :
       /\ sender[x].phase = "none" => sender[x] = NewSender
       /\ sender[x].phase # "none" =>
             sender[x].slot \in Slots /\ slot[sender[x].slot].state # "none"
       /\ sender[x].phase \in {"opening", "asking"} => slot[sender[x].slot].trying = x
       /\ sender[x].phase = "opening" => sender[x].link # "on"
       /\ sender[x].link = "keying" => sender[x].key = 0
       /\ sender[x].link \in {"keying", "binding"} => OfMedia(sender[x].slot)
       /\ Online(x) /\ OfMedia(sender[x].slot) => sender[x].key \in 1 .. NumSenders + 1

\* What a slot holds is its own.
HoldInv ==
    \A s \in Slots :
       /\ slot[s].trying \in Senders =>
             /\ sender[slot[s].trying].slot = s
             /\ sender[slot[s].trying].phase \in {"opening", "asking"}
       /\ slot[s].sender \in Senders =>
             /\ sender[slot[s].sender].slot = s
             /\ sender[slot[s].sender].phase = "up"

\* Attempts wait in the chain, and only the first of them has a sender.
ChainInv ==
    \A s \in Slots :
       /\ slot[s].trying # None => \E i \in DOMAIN chain : chain[i] = s
       /\ slot[s].trying \in Senders => chain # <<>> /\ Head(chain) = s

\* The states of a caller.
CallerInv ==
    \A w \in Workers :
       /\ worker[w].phase = "off" => worker[w] = NoWorker
       /\ worker[w].phase # "off" =>
             worker[w].slot \in Slots /\ slot[worker[w].slot].state # "none"
       /\ worker[w].phase \in {"served", "using"} => worker[w].sender # None

\* The counts, of callers that are finitely many at a time.
CountInv ==
    \A s \in Slots : IsFiniteSet(Users(s)) /\ slot[s].active = Cardinality(Users(s))

\* No live media slot has a sender under a key that broke.
BadInv ==
    /\ mediaKey \notin badKeys
    /\ \A x \in Senders :
          sender[x].phase # "none" /\ OfMedia(sender[x].slot)
             /\ slot[sender[x].slot].state # "dead" => sender[x].key \notin badKeys

BoundInv == (mediaBound => mediaKey # 0) /\ BoundKeyIsBound

HeldInv ==
    TypeOK /\ RegistryInv /\ SlotInv /\ SenderInv /\ HoldInv /\ ChainInv /\ CallerInv
      /\ CountInv /\ NoSenderLeaks /\ UsedSenderStays

KeyInv == BadInv /\ BoundInv

-----------------------------------------------------------------------------
(* Types, and what First and FreeKeys give *)

SlotRecords == [session : Sessions \cup {None},
                state : {"none", "idle", "connecting", "ready", "dead"},
                sender : Senders \cup {None}, active : Nat, idleTimer : BOOLEAN,
                trying : Senders \cup {None, Queued}]

SenderRecords == [slot : Slots \cup {None}, phase : {"none", "opening", "asking", "up", "broken"},
                  link : {"off", "keying", "binding", "on"}, key : Nat,
                  authenticated : BOOLEAN, again : BOOLEAN]

CallerRecords == [phase : {"off", "waiting", "served", "rejected", "using"},
                  slot : Slots \cup {None}, sender : Senders \cup {None}]

\* The types of the tables.
LEMMA Tables ==
    TypeOK <=> /\ registry \in [Sessions -> Slots \cup {None}] /\ closed \in BOOLEAN
               /\ slot \in [Slots -> SlotRecords] /\ chain \in Seq(Slots)
               /\ sender \in [Senders -> SenderRecords]
               /\ mediaKey \in 0 .. NumSenders + 1 /\ mediaBound \in BOOLEAN
               /\ boundKeys \cup badKeys \cup racedKeys \subseteq 1 .. NumSenders + 1
               /\ worker \in [Workers -> CallerRecords]
               /\ forsaken \subseteq Senders /\ faults \in 0 .. MaxFaults
BY DEF TypeOK, SlotRecords, SenderRecords, CallerRecords

\* The bounds are numbers.
LEMMA Bounds == NumSlots \in Nat /\ NumSenders \in Nat /\ MaxFaults \in Nat /\ Media \subseteq Sessions
OBVIOUS

\* What is none of the objects.
LEMMA Names ==
    /\ None \notin Senders /\ None \notin Slots /\ Queued \notin Senders /\ Queued # None
    /\ Senders \subseteq Nat /\ Slots \subseteq Nat
BY Bounds DEF None, Queued, Senders, Slots

\* Every set of numbers has a first one.
LEMMA FirstIn ==
    ASSUME NEW S \in SUBSET Nat, S # {}
    PROVE  First(S) \in S
<1>1. PICK R : IsWellFoundedOn(R, Nat) /\ R = {ss \in Nat \X Nat : ss[1] < ss[2]}
  BY NatLessThanWellFounded DEF OpToRel
<1>2. PICK x \in S : \A y \in S : <<y, x>> \notin R BY <1>1, WFMin
<1>3. \A a, b \in Nat : b < a => <<b, a>> \in R BY <1>1
<1>4. \A y \in S : ~(y < x) BY <1>2, <1>3, Zenon
<1>5. \A y \in S : x <= y BY <1>4
<1> QED BY <1>2, <1>5 DEF First

\* A key is left for the sender that makes one: it has none itself.
LEMMA KeysLeft ==
    ASSUME TypeOK, NEW x \in Senders, sender[x].key = 0
    PROVE  FreeKeys # {}
<1> USE DEF Senders
<1> SUFFICES ASSUME FreeKeys = {} PROVE FALSE OBVIOUS
<1> DEFINE K == 1 .. NumSenders + 1
           Owners == (0 .. NumSenders) \ {x}
           owner == [k \in K |-> IF k = mediaKey THEN 0
                                 ELSE CHOOSE y \in Senders : sender[y].key = k]
<1>1. IsFiniteSet(K) /\ Cardinality(K) = NumSenders + 1
  <2>1. NumSenders + 1 \in Int /\ 1 \in Int /\ ~(1 > NumSenders + 1) BY Bounds
  <2>2. (NumSenders + 1) - 1 + 1 = NumSenders + 1 BY Bounds
  <2> QED BY <2>1, <2>2, FS_Interval
<1>2. IsFiniteSet(Owners) /\ Cardinality(Owners) = NumSenders
  <2>1. 0 \in Int /\ NumSenders \in Int /\ ~(0 > NumSenders) /\ NumSenders - 0 + 1 = NumSenders + 1
    BY Bounds
  <2>2. IsFiniteSet(0 .. NumSenders) /\ Cardinality(0 .. NumSenders) = NumSenders + 1
    BY <2>1, FS_Interval
  <2>3. x \in 0 .. NumSenders BY Bounds
  <2>4. IsFiniteSet(Owners) /\ Cardinality(Owners) = (NumSenders + 1) - 1
    BY <2>2, <2>3, FS_RemoveElement
  <2> QED BY <2>4, Bounds
<1>3. \A k \in K : k # mediaKey => \E y \in Senders : sender[y].key = k
  BY DEF FreeKeys
<1>4. \A k \in K : k # mediaKey => owner[k] \in Senders /\ sender[owner[k]].key = k
  BY <1>3
<1>5. \A k \in K : owner[k] \in Owners
  <2> TAKE k \in K
  <2>1. CASE k = mediaKey BY <2>1, Bounds
  <2>2. CASE k # mediaKey
    <3>1. owner[k] \in Senders /\ sender[owner[k]].key = k BY <2>2, <1>4
    <3>2. owner[k] # x BY <3>1, Bounds
    <3> HIDE DEF owner
    <3>3. owner[k] \in 0 .. NumSenders BY <3>1, Bounds
    <3> QED BY <3>2, <3>3
  <2> QED BY <2>1, <2>2
<1>6. owner \in [K -> Owners] BY <1>5
<1>7. NumSenders < NumSenders + 1 BY Bounds
<1> HIDE DEF owner, K, Owners
<1>8. PICK j \in K, k \in K : j # k /\ owner[j] = owner[k]
  <2>1. Cardinality(Owners) < Cardinality(K) BY <1>1, <1>2, <1>7
  <2> QED BY <1>1, <1>2, <1>6, <2>1, FS_PigeonHole
<1>9. \A i \in K : i = mediaKey => owner[i] \notin Senders BY Bounds DEF owner, K
<1> QED BY <1>4, <1>8, <1>9

\* The objects that are made exist.
LEMMA Made ==
    /\ FreeSlots \subseteq Slots /\ (FreeSlots # {} => First(FreeSlots) \in FreeSlots)
    /\ FreeSenders \subseteq Senders /\ (FreeSenders # {} => First(FreeSenders) \in FreeSenders)
    /\ FreeKeys \subseteq 1 .. NumSenders + 1 /\ (FreeKeys # {} => First(FreeKeys) \in FreeKeys)
<1>1. FreeSlots \subseteq Slots /\ FreeSenders \subseteq Senders /\ FreeKeys \subseteq 1 .. NumSenders + 1
  BY DEF FreeSlots, FreeSenders, FreeKeys
<1>2. 1 .. NumSenders + 1 \subseteq Nat BY Bounds
<1>3. FreeSlots \in SUBSET Nat /\ FreeSenders \in SUBSET Nat /\ FreeKeys \in SUBSET Nat
  BY <1>1, <1>2, Names
<1> QED BY <1>1, <1>3, FirstIn

\* New objects.
LEMMA News ==
    /\ NewSlot \in SlotRecords /\ NewSender \in SenderRecords /\ NoWorker \in CallerRecords
    /\ NewSender.phase = "none" /\ NewSender.link = "off" /\ NewSender.key = 0
    /\ NewSlot.state = "none" /\ NewSlot.trying = None /\ NewSlot.sender = None
    /\ NewSlot.active = 0 /\ NewSlot.idleTimer = FALSE
    /\ NoWorker.phase = "off" /\ NoWorker.slot = None /\ NoWorker.sender = None
BY DEF NewSlot, NewSender, NoWorker, SlotRecords, SenderRecords, CallerRecords

\* Everything starts in the invariant.
LEMMA InitHeld == Init => HeldInv /\ KeyInv
<1> SUFFICES ASSUME Init PROVE HeldInv /\ KeyInv OBVIOUS
<1>0. /\ \A s \in Slots : slot[s] = NewSlot
      /\ \A x \in Senders : sender[x] = NewSender
      /\ \A w \in Workers : worker[w] = NoWorker
      /\ \A k \in Sessions : registry[k] = None
  BY DEF Init
<1>1. TypeOK
  <2>1. <<>> \in Seq(Slots) OBVIOUS
  <2>2. slot \in [Slots -> SlotRecords] /\ sender \in [Senders -> SenderRecords]
        /\ worker \in [Workers -> CallerRecords] /\ registry \in [Sessions -> Slots \cup {None}]
    BY News DEF Init
  <2>3. 0 \in 0 .. MaxFaults /\ 0 \in 0 .. NumSenders + 1 BY Bounds
  <2> QED BY <2>1, <2>2, <2>3, Tables DEF Init
<1>2. RegistryInv BY <1>0, News DEF RegistryInv, Alive
<1>3. SlotInv BY <1>0, News DEF SlotInv
<1>4. SenderInv BY <1>0, News DEF SenderInv, Online
<1>5. HoldInv BY <1>0, News, Names DEF HoldInv
<1>6. ChainInv BY <1>0, News, Names DEF ChainInv
<1>7. CallerInv BY <1>0, News DEF CallerInv
<1>8. CountInv
  <2>1. \A s \in Slots : Users(s) = {} BY <1>0, News, Names DEF Users
  <2> QED BY <1>0, <2>1, News, FS_EmptySet DEF CountInv
<1>9. NoSenderLeaks /\ UsedSenderStays BY <1>0, News DEF NoSenderLeaks, UsedSenderStays
<1>10. KeyInv
  <2>1. mediaKey \notin badKeys /\ ~mediaBound BY DEF Init
  <2> QED BY <1>0, <2>1, News DEF KeyInv, BadInv, BoundInv, BoundKeyIsBound
<1> QED BY <1>1, <1>2, <1>3, <1>4, <1>5, <1>6, <1>7, <1>8, <1>9, <1>10 DEF HeldInv

-----------------------------------------------------------------------------
(* Steps of a sender that leave the slots and the callers alone *)

\* A record a sender may have in the place of the one it has.
Follows(x, r) ==
    /\ r \in SenderRecords /\ r.slot = sender[x].slot /\ r.phase # "none"
    /\ (r.phase \in {"opening", "asking"}) <=> (sender[x].phase \in {"opening", "asking"})
    /\ (r.phase = "up") <=> (sender[x].phase = "up")
    /\ r.phase = "opening" => r.link # "on"
    /\ r.link = "keying" => r.key = 0
    /\ r.link \in {"keying", "binding"} => OfMedia(r.slot)
    /\ r.link \in {"binding", "on"} /\ OfMedia(r.slot) => r.key \in 1 .. NumSenders + 1

\* The counters and keys have their types in the next state.
KeysTyped ==
    /\ mediaKey' \in 0 .. NumSenders + 1 /\ mediaBound' \in BOOLEAN
    /\ boundKeys' \cup badKeys' \cup racedKeys' \subseteq 1 .. NumSenders + 1
    /\ faults' \in 0 .. MaxFaults

LEMMA SenderMoves ==
    ASSUME HeldInv, NEW x \in Senders, sender[x].phase # "none", NEW r, Follows(x, r),
           sender' = [sender EXCEPT ![x] = r], KeysTyped,
           UNCHANGED <<registry, closed, slot, chain, worker, forsaken>>
    PROVE  HeldInv'
<1>0. TypeOK BY DEF HeldInv
<1>1. sender \in [Senders -> SenderRecords] BY <1>0, Tables
<1>2. sender'[x] = r /\ \A y \in Senders \ {x} : sender'[y] = sender[y] BY <1>1
<1>3. sender' \in [Senders -> SenderRecords] BY <1>1 DEF Follows
<1>4. TypeOK' BY <1>0, <1>3, Tables DEF KeysTyped, TypeOK, SenderRecords
<1>5. RegistryInv' /\ SlotInv' /\ ChainInv' /\ CallerInv'
  BY DEF HeldInv, RegistryInv, SlotInv, ChainInv, CallerInv, Alive
<1>6. SenderInv'
  <2>1. \A y \in Senders \ {x} : Online(y)' <=> Online(y) BY <1>2 DEF Online
  <2>2. Online(x)' <=> r.link \in {"binding", "on"} BY <1>2 DEF Online
  <2>3. \A s : OfMedia(s)' <=> OfMedia(s) BY DEF OfMedia
  <2> QED BY <1>2, <2>1, <2>2, <2>3 DEF HeldInv, SenderInv, Follows
<1>7. HoldInv' BY <1>2 DEF HeldInv, HoldInv, Follows
<1>8. CountInv'
  <2>1. \A s \in Slots : Users(s)' = Users(s) BY DEF Users, OfMedia
  <2> QED BY <2>1 DEF HeldInv, CountInv
<1>9. NoSenderLeaks'
  <2>1. sender[x] # NewSender BY News
  <2> QED BY <1>2, <2>1 DEF HeldInv, NoSenderLeaks, Follows
<1>10. UsedSenderStays' BY DEF HeldInv, UsedSenderStays
<1> QED BY <1>4, <1>5, <1>6, <1>7, <1>8, <1>9, <1>10 DEF HeldInv

\* A sender whose link comes up, or is being made.
LEMMA LinkedIs ==
    ASSUME NEW x \in Senders, sender[x] \in SenderRecords, NEW l \in {"off", "keying", "binding", "on"},
           NEW k \in Nat
    PROVE  /\ Linked(x, l, k) \in SenderRecords
           /\ Linked(x, l, k).slot = sender[x].slot
           /\ Linked(x, l, k).link = l /\ Linked(x, l, k).key = k
           /\ Linked(x, l, k).phase = IF sender[x].phase = "opening" /\ l = "on" THEN "asking"
                                      ELSE sender[x].phase
BY DEF Linked, SenderRecords

\* A fault is within its bound.
LEMMA FaultCounts == ASSUME TypeOK, Fault PROVE faults' \in 0 .. MaxFaults
<1>1. faults \in 0 .. MaxFaults BY Tables
<1> QED BY <1>1, Bounds DEF Fault

LEMMA LinkSteps ==
    ASSUME HeldInv, NEW x \in Senders,
           Connect(x) \/ MakeKey(x) \/ Bind(x) \/ Rekey(x) \/ BindFails(x) \/ InitFails(x) \/ Disconnect(x)
    PROVE  HeldInv' /\ KeysTyped
<1>0. TypeOK /\ SenderInv BY DEF HeldInv
<1>1. /\ sender[x] \in SenderRecords /\ mediaKey \in 0 .. NumSenders + 1 /\ mediaBound \in BOOLEAN
      /\ boundKeys \cup badKeys \cup racedKeys \subseteq 1 .. NumSenders + 1
      /\ faults \in 0 .. MaxFaults
  BY <1>0, Tables
<1>2. mediaKey \in Nat /\ (mediaKey # 0 => mediaKey \in 1 .. NumSenders + 1) /\ 0 \in Nat
      /\ 0 \in 0 .. NumSenders + 1 /\ 0 # 1 /\ 0 \notin 1 .. NumSenders + 1
      /\ 1 .. NumSenders + 1 \subseteq 0 .. NumSenders + 1 /\ 1 .. NumSenders + 1 \subseteq Nat
  BY <1>1, Bounds
<1>3. sender[x].phase # "none"
  <2>1. sender[x].phase = "none" => sender[x].link = "off" BY <1>0, News DEF SenderInv
  <2> QED BY <2>1 DEF Connect, MakeKey, Bind, Rekey, BindFails, InitFails, Disconnect
<1>4. /\ sender[x].phase = "opening" => sender[x].link # "on"
      /\ sender[x].link = "keying" => sender[x].key = 0
      /\ sender[x].link \in {"keying", "binding"} => OfMedia(sender[x].slot)
      /\ sender[x].link \in {"binding", "on"} /\ OfMedia(sender[x].slot) => sender[x].key \in 1 .. NumSenders + 1
  BY <1>0 DEF SenderInv, Online
<1>5. CASE Connect(x)
  <2>1. CASE ~OfMedia(sender[x].slot)
    <3> DEFINE r == Linked(x, "on", 0)
    <3>1. sender' = [sender EXCEPT ![x] = r] /\ UNCHANGED <<registry, closed, slot, chain, worker, forsaken>>
          /\ UNCHANGED keyVars /\ faults' = faults
      BY <1>5, <2>1 DEF Connect
    <3>2. Follows(x, r) BY <1>1, <1>2, <1>3, <2>1, LinkedIs DEF Follows
    <3>3. KeysTyped BY <1>1, <3>1 DEF KeysTyped, keyVars
    <3> QED BY <1>3, <3>1, <3>2, <3>3, SenderMoves
  <2>2. CASE OfMedia(sender[x].slot)
    <3>1. PICK key \in {0, mediaKey} :
             /\ mediaKey' = key /\ mediaBound' \in BOOLEAN
             /\ sender' = [sender EXCEPT ![x] =
                   IF key = 0 THEN Linked(x, "keying", 0)
                   ELSE [Linked(x, IF mediaBound THEN "on" ELSE "binding", key)
                            EXCEPT !.authenticated = TRUE]]
             /\ UNCHANGED <<boundKeys, badKeys, racedKeys, registry, closed, slot, chain, worker, forsaken, faults>>
      BY <1>1, <1>5, <2>2 DEF Connect
    <3>2. PICK r : r = IF key = 0 THEN Linked(x, "keying", 0)
                       ELSE [Linked(x, IF mediaBound THEN "on" ELSE "binding", key)
                               EXCEPT !.authenticated = TRUE]
      OBVIOUS
    <3>3. Follows(x, r)
      <4>1. CASE key = 0 BY <1>1, <1>2, <1>3, <2>2, <3>2, <4>1, LinkedIs DEF Follows
      <4>2. CASE key # 0
        <5>1. PICK l \in {"binding", "on"} : l = IF mediaBound THEN "on" ELSE "binding" OBVIOUS
        <5>2. PICK q : q = Linked(x, l, key) OBVIOUS
        <5>3. key \in Nat /\ key \in 1 .. NumSenders + 1 BY <1>2, <4>2
        <5>4. q \in SenderRecords /\ q.slot = sender[x].slot /\ q.link = l /\ q.key = key
              /\ q.phase = IF sender[x].phase = "opening" /\ l = "on" THEN "asking" ELSE sender[x].phase
          BY <1>1, <5>2, <5>3, LinkedIs
        <5>5. r = [q EXCEPT !.authenticated = TRUE] BY <3>2, <4>2, <5>1, <5>2
        <5>6. r \in SenderRecords /\ r.slot = q.slot /\ r.link = q.link /\ r.key = q.key /\ r.phase = q.phase
          BY <5>4, <5>5 DEF SenderRecords
        <5> QED BY <1>3, <2>2, <5>1, <5>3, <5>4, <5>6 DEF Follows
      <4> QED BY <4>1, <4>2
    <3>4. sender' = [sender EXCEPT ![x] = r] BY <3>1, <3>2
    <3>5. KeysTyped BY <1>1, <1>2, <3>1 DEF KeysTyped
    <3> QED BY <1>3, <3>1, <3>3, <3>4, <3>5, SenderMoves
  <2> QED BY <2>1, <2>2
<1>6. CASE MakeKey(x)
  <2>1. PICK key : key = First(FreeKeys) OBVIOUS
  <2>2. key \in 1 .. NumSenders + 1
    <3>1. sender[x].key = 0 BY <1>4, <1>6 DEF MakeKey
    <3> QED BY <1>0, <2>1, <3>1, KeysLeft, Made
  <2>3. PICK l \in {"binding", "on"} : l = IF mediaBound THEN "on" ELSE "binding" OBVIOUS
  <2>4. PICK r : r = Linked(x, l, key) OBVIOUS
  <2>5. sender' = [sender EXCEPT ![x] = r] BY <1>6, <2>1, <2>3, <2>4 DEF MakeKey
  <2>6. Follows(x, r)
    <3>1. OfMedia(sender[x].slot) BY <1>4, <1>6 DEF MakeKey
    <3> QED BY <1>1, <1>2, <1>3, <2>2, <2>3, <2>4, <3>1, LinkedIs DEF Follows
  <2>7. KeysTyped BY <1>1, <1>2, <1>6, <2>1, <2>2 DEF KeysTyped, MakeKey
  <2> QED BY <1>3, <1>6, <2>5, <2>6, <2>7, SenderMoves DEF MakeKey
<1>7. CASE Bind(x)
  <2>0. OfMedia(sender[x].slot) /\ sender[x].key = mediaKey /\ mediaKey \in 1 .. NumSenders + 1
    BY <1>4, <1>7 DEF Bind, Current
  <2>1. PICK r : r = Linked(x, "on", mediaKey) OBVIOUS
  <2>2. Follows(x, r) BY <1>1, <1>2, <1>3, <2>0, <2>1, LinkedIs DEF Follows
  <2>3. KeysTyped BY <1>1, <1>7, <2>0 DEF KeysTyped, Bind
  <2>4. sender' = [sender EXCEPT ![x] = r] BY <1>7, <2>1 DEF Bind
  <2> QED BY <1>3, <1>7, <2>2, <2>3, <2>4, SenderMoves DEF Bind
<1>8. CASE Rekey(x)
  <2>1. PICK r : r = [sender[x] EXCEPT !.key = mediaKey] OBVIOUS
  <2>2. /\ r \in SenderRecords /\ r.slot = sender[x].slot /\ r.link = sender[x].link
        /\ r.phase = sender[x].phase /\ r.key = mediaKey
    BY <1>1, <1>2, <2>1 DEF SenderRecords
  <2>3. Follows(x, r) BY <1>2, <1>3, <1>4, <1>8, <2>2 DEF Follows, Rekey
  <2>4. KeysTyped BY <1>1, <1>8 DEF KeysTyped, Rekey, keyVars
  <2>5. sender' = [sender EXCEPT ![x] = r] BY <1>1, <1>8, <2>1 DEF Rekey
  <2> QED BY <1>3, <1>8, <2>3, <2>4, <2>5, SenderMoves DEF Rekey
<1>9. CASE BindFails(x) \/ Disconnect(x)
  <2>1. PICK r : r = [sender[x] EXCEPT !.link = "off"] OBVIOUS
  <2>2. /\ r \in SenderRecords /\ r.slot = sender[x].slot /\ r.link = "off"
        /\ r.phase = sender[x].phase /\ r.key = sender[x].key
    BY <1>1, <2>1 DEF SenderRecords
  <2>3. Follows(x, r) BY <1>3, <2>2 DEF Follows
  <2>4. faults' \in 0 .. MaxFaults BY <1>0, <1>9, FaultCounts DEF BindFails, Disconnect
  <2>5. KeysTyped BY <1>1, <1>2, <1>9, <2>4 DEF KeysTyped, BindFails, Disconnect, ResetMediaKey, keyVars
  <2>6. sender' = [sender EXCEPT ![x] = r] BY <1>1, <1>9, <2>1 DEF BindFails, Disconnect
  <2>7. UNCHANGED <<registry, closed, slot, chain, worker, forsaken>> BY <1>9 DEF BindFails, Disconnect
  <2> QED BY <1>3, <2>3, <2>5, <2>6, <2>7, SenderMoves
<1>10. CASE InitFails(x)
  <2>1. PICK r : r = [sender[x] EXCEPT !.phase = "opening", !.link = "off", !.again = TRUE] OBVIOUS
  <2>2. r \in SenderRecords /\ r.slot = sender[x].slot /\ r.link = "off" /\ r.phase = "opening"
    BY <1>1, <2>1 DEF SenderRecords
  <2>3. Follows(x, r) BY <1>10, <2>2 DEF Follows, InitFails
  <2>4. faults' \in 0 .. MaxFaults BY <1>0, <1>10, FaultCounts DEF InitFails
  <2>5. KeysTyped BY <1>1, <1>10, <2>4 DEF KeysTyped, InitFails, keyVars
  <2>6. sender' = [sender EXCEPT ![x] = r] BY <1>1, <1>10, <2>1 DEF InitFails
  <2> QED BY <1>3, <1>10, <2>3, <2>5, <2>6, SenderMoves DEF InitFails
<1> QED BY <1>5, <1>6, <1>7, <1>8, <1>9, <1>10

-----------------------------------------------------------------------------
(* Steps of a caller that has its answer *)

\* A slot as it is but for its count and its timer.
Recounted(s, t) ==
    /\ t \in SlotRecords /\ t.session = slot[s].session /\ t.state = slot[s].state
    /\ t.sender = slot[s].sender /\ t.trying = slot[s].trying
    /\ t.idleTimer => t.state = "ready" /\ t.active = 0

LEMMA CallerMoves ==
    ASSUME HeldInv, NEW w \in Workers, worker[w].phase # "off",
           NEW s, s = worker[w].slot, NEW t, Recounted(s, t), slot' = [slot EXCEPT ![s] = t],
           NEW c \in CallerRecords, worker' = [worker EXCEPT ![w] = c],
           c = NoWorker \/ (worker[w].phase = "served" /\ c.phase = "using"
                              /\ c.slot = s /\ c.sender = worker[w].sender),
           IsFiniteSet(Users(s)'), t.active = Cardinality(Users(s)'),
           UNCHANGED <<registry, closed, chain, sender, keyVars, forsaken, faults>>
    PROVE  HeldInv'
<1>0. TypeOK /\ s \in Slots /\ slot[s].state # "none" BY DEF HeldInv, CallerInv
<1>1. slot \in [Slots -> SlotRecords] /\ worker \in [Workers -> CallerRecords] BY <1>0, Tables
<1>2. slot'[s] = t /\ (\A d \in Slots \ {s} : slot'[d] = slot[d])
      /\ worker'[w] = c /\ \A v \in Workers \ {w} : worker'[v] = worker[v]
  BY <1>0, <1>1
<1>3. \A d \in Slots : /\ slot'[d].session = slot[d].session /\ slot'[d].state = slot[d].state
                       /\ slot'[d].sender = slot[d].sender /\ slot'[d].trying = slot[d].trying
  BY <1>2 DEF Recounted
<1>4. \A d \in Slots : OfMedia(d)' <=> OfMedia(d) BY <1>3 DEF OfMedia
<1>5. TypeOK'
  <2>1. slot' \in [Slots -> SlotRecords] BY <1>0, <1>1 DEF Recounted
  <2>2. worker' \in [Workers -> CallerRecords] BY <1>1
  <2> QED BY <1>0, <2>1, <2>2, Tables DEF TypeOK, SlotRecords, CallerRecords, keyVars
<1>6. RegistryInv'
  <2>1. \A k \in Sessions : registry[k] # None => registry[k] \in Slots BY <1>0, Tables
  <2> QED BY <1>3, <2>1 DEF HeldInv, RegistryInv, Alive
<1>7. SlotInv'
  <2>1. \A d \in Slots : slot'[d] = slot[d] \/ d = s BY <1>2
  <2> QED BY <1>0, <1>2, <1>3, <2>1 DEF HeldInv, SlotInv, Recounted
<1>8. SenderInv'
  <2>1. \A x : Online(x)' <=> Online(x) BY DEF Online
  <2>2. \A x \in Senders : sender[x].phase # "none" => sender[x].slot \in Slots
    BY DEF HeldInv, SenderInv
  <2>3. \A x \in Senders : sender[x].phase = "none" => sender[x].link = "off" BY News DEF HeldInv, SenderInv
  <2> QED BY <1>3, <1>4, <2>1, <2>2, <2>3 DEF HeldInv, SenderInv, Online
<1>9. HoldInv' /\ ChainInv' BY <1>3 DEF HeldInv, HoldInv, ChainInv
<1>10. CallerInv' BY <1>0, <1>2, <1>3, News DEF HeldInv, CallerInv
<1>11. CountInv'
  <2>1. ASSUME NEW d \in Slots, d # s PROVE Users(d)' = Users(d)
    <3>1. c.slot # d /\ worker[w].slot # d BY <2>1, News, Names
    <3> QED BY <1>2, <1>4, <3>1 DEF Users
  <2> QED BY <1>2, <2>1 DEF HeldInv, CountInv
<1>12. NoSenderLeaks'
  <2>1. \A x \in Senders : sender[x] # NewSender => sender[x].slot \in Slots
    BY DEF HeldInv, SenderInv
  <2> QED BY <1>3, <2>1 DEF HeldInv, NoSenderLeaks
<1>13. UsedSenderStays' BY <1>0, <1>2, <1>3, News DEF HeldInv, UsedSenderStays, CallerInv
<1> QED BY <1>5, <1>6, <1>7, <1>8, <1>9, <1>10, <1>11, <1>12, <1>13 DEF HeldInv

\* enter and leave change the count and the timer.
LEMMA EnterLeave ==
    ASSUME TypeOK, SlotInv, NEW s \in Slots
    PROVE  /\ Recounted(s, slot[s]) /\ Recounted(s, Enter(slot[s]))
           /\ Enter(slot[s]).active = slot[s].active + 1
           /\ Leave(slot[s]).active = slot[s].active - 1
           /\ slot[s].active > 0 => Recounted(s, Leave(slot[s]))
<1>0. slot[s] \in SlotRecords BY Tables
<1>1. slot[s].active \in Nat BY <1>0 DEF SlotRecords
<1>2. Recounted(s, slot[s]) BY <1>0 DEF Recounted, SlotInv
<1>3. Recounted(s, Enter(slot[s])) /\ Enter(slot[s]).active = slot[s].active + 1
  <2>1. PICK t : t = Enter(slot[s]) OBVIOUS
  <2>2. PICK n \in Nat : n = slot[s].active + 1 BY <1>1
  <2>3. t = [slot[s] EXCEPT !.active = n, !.idleTimer = FALSE] BY <2>1, <2>2 DEF Enter
  <2>4. /\ t \in SlotRecords /\ t.session = slot[s].session /\ t.state = slot[s].state
        /\ t.sender = slot[s].sender /\ t.trying = slot[s].trying /\ t.active = n
        /\ t.idleTimer = FALSE
    BY <1>0, <2>3 DEF SlotRecords
  <2> QED BY <2>1, <2>2, <2>4 DEF Recounted
<1>4. PICK t : t = [slot[s] EXCEPT !.active = @ - 1] OBVIOUS
<1>5. t.active = slot[s].active - 1 /\ t.session = slot[s].session /\ t.state = slot[s].state
      /\ t.sender = slot[s].sender /\ t.trying = slot[s].trying /\ t.idleTimer = slot[s].idleTimer
  BY <1>0, <1>4 DEF SlotRecords
<1>6. Leave(slot[s]) = IF t.state = "ready" /\ t.active = 0 THEN [t EXCEPT !.idleTimer = TRUE] ELSE t
  BY <1>4 DEF Leave, Armed
<1>7. Leave(slot[s]).active = slot[s].active - 1 BY <1>0, <1>4, <1>5, <1>6 DEF SlotRecords
<1>8. ASSUME slot[s].active > 0 PROVE Recounted(s, Leave(slot[s]))
  <2>1. slot[s].active - 1 \in Nat BY <1>1, <1>8
  <2>2. t \in SlotRecords BY <1>0, <1>4, <2>1 DEF SlotRecords
  <2>3. PICK u : u = Leave(slot[s]) OBVIOUS
  <2>4. u \in SlotRecords /\ u.session = t.session /\ u.state = t.state /\ u.sender = t.sender
        /\ u.trying = t.trying /\ u.active = t.active
        /\ (u.idleTimer => t.idleTimer \/ (t.state = "ready" /\ t.active = 0))
    BY <1>6, <2>2, <2>3 DEF SlotRecords
  <2>5. ~t.idleTimer BY <1>5, <1>8 DEF SlotInv
  <2> QED BY <1>5, <2>3, <2>4, <2>5 DEF Recounted
<1> QED BY <1>2, <1>3, <1>7, <1>8

LEMMA CallerSteps ==
    ASSUME HeldInv, NEW w \in Workers, WorkerStep(w)
    PROVE  HeldInv'
<1>0. TypeOK /\ SlotInv /\ CallerInv /\ CountInv BY DEF HeldInv
<1>1. worker \in [Workers -> CallerRecords] /\ slot \in [Slots -> SlotRecords] BY <1>0, Tables
<1>2. PICK s : s = worker[w].slot OBVIOUS
<1>3. worker[w].phase # "off" BY DEF WorkerStep, Serve, Reject, Release
<1>4. s \in Slots BY <1>0, <1>2, <1>3 DEF CallerInv
<1>5. IsFiniteSet(Users(s)) /\ slot[s].active = Cardinality(Users(s)) /\ slot[s].active \in Nat
  BY <1>0, <1>4, FS_CardinalityType DEF CountInv
<1>6. w \in Users(s) <=> worker[w].phase = "using" \/ OfMedia(s) BY <1>2, <1>3 DEF Users
<1>7. ASSUME NEW t, NEW c \in CallerRecords, slot' = [slot EXCEPT ![s] = t], Recounted(s, t),
             worker' = [worker EXCEPT ![w] = c], c = NoWorker \/ c.slot = s
      PROVE  Users(s)' = IF c.phase = "using" \/ (OfMedia(s) /\ c.phase # "off")
                         THEN Users(s) \cup {w} ELSE Users(s) \ {w}
  <2>1. OfMedia(s)' <=> OfMedia(s) BY <1>1, <1>4, <1>7 DEF OfMedia, Recounted
  <2>2. worker'[w] = c /\ \A v \in Workers \ {w} : worker'[v] = worker[v] BY <1>1, <1>7
  <2> QED BY <1>7, <2>1, <2>2, News DEF Users
<1>8. CASE Serve(w)
  <2>1. PICK c : c = [worker[w] EXCEPT !.phase = "using"] OBVIOUS
  <2>2. c \in CallerRecords /\ c.phase = "using" /\ c.slot = s /\ c.sender = worker[w].sender
    BY <1>1, <1>2, <2>1 DEF CallerRecords
  <2>3. PICK t : t = IF OfMedia(s) THEN slot[s] ELSE Enter(slot[s]) OBVIOUS
  <2>4. Recounted(s, t) BY <1>0, <1>4, <2>3, EnterLeave
  <2>5. slot' = [slot EXCEPT ![s] = t] /\ worker' = [worker EXCEPT ![w] = c]
        /\ worker[w].phase = "served"
        /\ UNCHANGED <<registry, closed, chain, sender, keyVars, forsaken, faults>>
    BY <1>1, <1>2, <1>4, <1>8, <2>1, <2>3 DEF Serve
  <2>6. Users(s)' = Users(s) \cup {w} BY <1>7, <2>2, <2>4, <2>5
  <2>7. IsFiniteSet(Users(s)') /\ t.active = Cardinality(Users(s)')
    <3>1. w \in Users(s) <=> OfMedia(s) BY <1>6, <2>5
    <3>2. t.active = IF OfMedia(s) THEN slot[s].active ELSE slot[s].active + 1
      BY <1>0, <1>4, <2>3, EnterLeave
    <3>3. IsFiniteSet(Users(s) \cup {w}) /\ Cardinality(Users(s) \cup {w}) =
             IF w \in Users(s) THEN Cardinality(Users(s)) ELSE Cardinality(Users(s)) + 1
      BY <1>5, FS_AddElement
    <3> QED BY <1>5, <2>6, <3>1, <3>2, <3>3
  <2> QED BY <1>2, <1>3, <2>2, <2>4, <2>5, <2>7, CallerMoves
<1>9. CASE Reject(w) \/ Release(w)
  <2>1. PICK t : t = IF w \in Users(s) THEN Leave(slot[s]) ELSE slot[s] OBVIOUS
  <2>2. slot' = [slot EXCEPT ![s] = t] /\ worker' = [worker EXCEPT ![w] = NoWorker]
        /\ UNCHANGED <<registry, closed, chain, sender, keyVars, forsaken, faults>>
    BY <1>1, <1>2, <1>4, <1>6, <1>9, <2>1 DEF Reject, Release
  <2>3. IsFiniteSet(Users(s) \ {w}) /\ Cardinality(Users(s) \ {w}) =
             IF w \in Users(s) THEN Cardinality(Users(s)) - 1 ELSE Cardinality(Users(s))
    BY <1>5, FS_RemoveElement
  <2>4. w \in Users(s) => slot[s].active > 0
    <3>1. w \in Users(s) => Cardinality(Users(s)) # 0 BY <1>5, FS_EmptySet
    <3> QED BY <1>5, <3>1
  <2>5. Recounted(s, t) BY <1>0, <1>4, <2>1, <2>4, EnterLeave
  <2>6. t.active = Cardinality(Users(s) \ {w}) BY <1>0, <1>4, <1>5, <2>1, <2>3, EnterLeave
  <2>7. Users(s)' = Users(s) \ {w} BY <1>7, <2>2, <2>5, News
  <2> QED BY <1>2, <1>3, <2>2, <2>3, <2>5, <2>6, <2>7, News, CallerMoves
<1> QED BY <1>8, <1>9 DEF WorkerStep

-----------------------------------------------------------------------------
(* Steps that take senders down *)

\* A sender that is dropped is gone, or reconnects on its own account.
LEMMA DroppedIs ==
    ASSUME HeldInv, NEW X \in SUBSET Senders, Dropped(X)
    PROVE  /\ sender' \in [Senders -> SenderRecords] /\ forsaken \subseteq forsaken'
           /\ forsaken' \subseteq Senders
           /\ \A y \in Senders : sender'[y] = sender[y] \/ (y \in X /\ sender'[y] = NewSender)
           /\ \A y \in X : sender'[y] = NewSender \/ y \in forsaken'
<1>1. sender \in [Senders -> SenderRecords] /\ forsaken \subseteq Senders BY Tables DEF HeldInv
<1>2. \A y \in Senders : sender'[y] = IF y \in X /\ Online(y) THEN NewSender ELSE sender[y]
  BY DEF Dropped
<1>3. sender' \in [Senders -> SenderRecords] BY <1>1, News DEF Dropped
<1>4. forsaken' = forsaken \cup {x \in X : ~Online(x)} BY DEF Dropped
<1> QED BY <1>1, <1>2, <1>3, <1>4

\* Nobody is served when callers are quiet.
LEMMA NoneServed == ASSUME Quiet, NEW w \in Workers PROVE worker[w].phase \notin {"served", "rejected"}
BY DEF Quiet, Continuing

\* What an attempt or a sender that broke may be after it.
Ended(y, r) ==
    /\ r \in SenderRecords /\ r.slot = sender[y].slot /\ sender[y].phase # "none"
    /\ r.phase \in {"up", "broken"} \/ (r.phase = "opening" /\ sender[y].phase = "opening" /\ r.link = "off")
    /\ r.link = "off" \/ (r.link = sender[y].link /\ r.key = sender[y].key)

\* A sender is kept, or gone, or has ended.
LEMMA SendersStay ==
    ASSUME HeldInv,
           \A y \in Senders : sender'[y] = sender[y] \/ sender'[y] = NewSender \/ Ended(y, sender'[y]),
           \A d \in Slots : /\ slot'[d].session = slot[d].session
                            /\ slot[d].state # "none" => slot'[d].state # "none",
           \A y \in Senders : sender'[y].phase \in {"opening", "asking"} =>
                                 slot'[sender[y].slot].trying = slot[sender[y].slot].trying
    PROVE  SenderInv'
<1>1. \A y \in Senders : sender[y].phase # "none" => sender[y].slot \in Slots
  BY DEF HeldInv, SenderInv
<1>2. \A y \in Senders : sender[y].phase = "none" => sender[y].link = "off" BY News DEF HeldInv, SenderInv
<1> SUFFICES ASSUME NEW y \in Senders
             PROVE  /\ sender'[y].phase = "none" => sender'[y] = NewSender
                    /\ sender'[y].phase # "none" =>
                          sender'[y].slot \in Slots /\ slot'[sender'[y].slot].state # "none"
                    /\ sender'[y].phase \in {"opening", "asking"} => slot'[sender'[y].slot].trying = y
                    /\ sender'[y].phase = "opening" => sender'[y].link # "on"
                    /\ sender'[y].link = "keying" => sender'[y].key = 0
                    /\ sender'[y].link \in {"keying", "binding"} => OfMedia(sender[y].slot)'
                    /\ Online(y)' /\ OfMedia(sender[y].slot)' => sender'[y].key \in 1 .. NumSenders + 1
  BY DEF SenderInv
<1>3. Online(y)' <=> sender'[y].link \in {"binding", "on"} BY DEF Online
<1>4. Online(y) <=> sender[y].link \in {"binding", "on"} BY DEF Online
<1>5. CASE sender'[y] = NewSender BY <1>3, <1>5, News
<1>6. CASE sender'[y] = sender[y] /\ sender[y].phase = "none" BY <1>6, <1>5 DEF HeldInv, SenderInv
<1>7. CASE (sender'[y] = sender[y] \/ Ended(y, sender'[y])) /\ sender[y].phase # "none"
  <2>1. PICK d \in Slots : d = sender[y].slot BY <1>1, <1>7
  <2>2. sender'[y].slot = d BY <1>7, <2>1 DEF Ended
  <2>3. OfMedia(sender[y].slot)' <=> OfMedia(d) BY <2>2 DEF OfMedia
  <2>4. /\ slot[d].state # "none"
        /\ sender[y].phase \in {"opening", "asking"} => slot[d].trying = y
        /\ sender[y].phase = "opening" => sender[y].link # "on"
        /\ sender[y].link = "keying" => sender[y].key = 0
        /\ sender[y].link \in {"keying", "binding"} => OfMedia(d)
        /\ Online(y) /\ OfMedia(d) => sender[y].key \in 1 .. NumSenders + 1
    BY <1>7, <2>1 DEF HeldInv, SenderInv
  <2>5. slot'[d].state # "none" BY <2>4
  <2>6. sender'[y].phase \in {"opening", "asking"} => sender[y].phase \in {"opening", "asking"}
    BY <1>7 DEF Ended
  <2>7. sender'[y].phase \in {"opening", "asking"} => slot'[d].trying = y BY <2>1, <2>4, <2>6
  <2>8. sender'[y].phase # "none" BY <1>7 DEF Ended
  <2>9. CASE sender'[y] = sender[y] BY <1>3, <1>4, <2>9, <2>2, <2>3, <2>4, <2>5, <2>7, <2>8
  <2>10. CASE Ended(y, sender'[y])
    <3>1. sender'[y].phase = "opening" => sender'[y].link # "on" BY <2>10 DEF Ended
    <3>2. sender'[y].link = "keying" => sender'[y].key = 0 BY <2>4, <2>10 DEF Ended
    <3>3. sender'[y].link \in {"keying", "binding"} => OfMedia(d) BY <2>4, <2>10 DEF Ended
    <3>4. Online(y)' /\ OfMedia(d) => sender'[y].key \in 1 .. NumSenders + 1
      BY <1>3, <1>4, <2>4, <2>10 DEF Ended
    <3> QED BY <2>2, <2>3, <2>5, <2>7, <2>8, <3>1, <3>2, <3>3, <3>4
  <2> QED BY <1>7, <2>9, <2>10
<1> QED BY <1>5, <1>6, <1>7 DEF Ended

\* A caller is left alone or gets its answer.
Answers ==
    /\ worker' \in [Workers -> CallerRecords]
    /\ \A w \in Workers :
          \/ worker'[w] = worker[w]
          \/ /\ worker[w].phase = "waiting" /\ worker'[w].slot = worker[w].slot
             /\ \/ worker'[w].phase = "rejected"
                \/ worker'[w].phase = "served" /\ worker'[w].sender # None

LEMMA CallersStay ==
    ASSUME HeldInv, Answers,
           \A d \in Slots : /\ slot'[d].session = slot[d].session /\ slot'[d].active = slot[d].active
                            /\ slot[d].state # "none" => slot'[d].state # "none"
    PROVE  CallerInv' /\ CountInv'
<1>1. CallerInv'
  <2>1. CallerInv BY DEF HeldInv
  <2>2. \A w \in Workers : worker'[w] = worker[w] \/ worker'[w].phase # "off" BY DEF Answers
  <2>3. \A w \in Workers : worker'[w].phase # "off" =>
            worker'[w].slot \in Slots /\ slot'[worker'[w].slot].state # "none"
    BY <2>1 DEF Answers, CallerInv
  <2>4. \A w \in Workers : worker'[w].phase \in {"served", "using"} => worker'[w].sender # None
    BY <2>1 DEF Answers, CallerInv
  <2> QED BY <2>1, <2>2, <2>3, <2>4 DEF CallerInv
<1>2. ASSUME NEW d \in Slots PROVE Users(d)' = Users(d)
  <2>1. OfMedia(d)' <=> OfMedia(d) BY DEF OfMedia
  <2> QED BY <2>1 DEF Users, Answers
<1>3. CountInv' BY <1>2 DEF HeldInv, CountInv
<1> QED BY <1>1, <1>3

LEMMA NoAnswers == ASSUME HeldInv, UNCHANGED worker PROVE Answers
BY Tables DEF Answers, HeldInv

LEMMA AnsweredIs ==
    ASSUME HeldInv, NEW s, NEW x \in Senders \cup {None}, NEW phase \in {"served", "rejected"},
           Answered(s, phase, x), phase = "served" => x # None
    PROVE  /\ Answers
           /\ \A w \in Workers : worker'[w] = worker[w] \/ (worker[w].slot = s
                                      /\ worker'[w].phase = phase /\ worker'[w].sender = x)
<1>1. worker \in [Workers -> CallerRecords] BY Tables DEF HeldInv
<1>2. \A w \in Workers :
         worker'[w] = IF worker[w].phase = "waiting" /\ worker[w].slot = s
                      THEN [worker[w] EXCEPT !.phase = phase, !.sender = x] ELSE worker[w]
  BY DEF Answered
<1>3. ASSUME NEW r \in CallerRecords, NEW q, q = [r EXCEPT !.phase = phase, !.sender = x]
      PROVE  q \in CallerRecords /\ q.slot = r.slot /\ q.phase = phase /\ q.sender = x
  BY <1>3 DEF CallerRecords
<1>4. \A w \in Workers : worker[w] \in CallerRecords BY <1>1
<1>5. \A w \in Workers : worker'[w] \in CallerRecords BY <1>2, <1>3, <1>4
<1>6. worker' \in [Workers -> CallerRecords] BY <1>5 DEF Answered
<1>7. ASSUME NEW w \in Workers
      PROVE  \/ worker'[w] = worker[w]
             \/ /\ worker[w].phase = "waiting" /\ worker[w].slot = s /\ worker'[w].slot = s
                /\ worker'[w].phase = phase /\ worker'[w].sender = x
  <2>1. PICK u : u = worker[w] OBVIOUS
  <2>2. u \in CallerRecords BY <1>4, <2>1
  <2>3. CASE u.phase = "waiting" /\ u.slot = s
    <3>1. worker'[w] = [u EXCEPT !.phase = phase, !.sender = x] BY <1>2, <2>1, <2>3
    <3> QED BY <1>3, <2>1, <2>2, <2>3, <3>1
  <2>4. CASE ~(u.phase = "waiting" /\ u.slot = s) BY <1>2, <2>1, <2>4
  <2> QED BY <2>3, <2>4
<1> QED BY <1>6, <1>7, ZenonT(30) DEF Answers

\* The slots of L die: how registry, slots, senders and callers change.
Retiring(L) ==
    /\ \A d \in L : Alive(d)
    /\ registry' = [k \in Sessions |-> IF registry[k] \in L THEN None ELSE registry[k]]
    /\ \A d \in Slots : /\ slot'[d].session = slot[d].session /\ slot'[d].active = slot[d].active
                         /\ slot'[d].trying \in {slot[d].trying, None}
    /\ \A d \in L : slot'[d].state = "dead" /\ slot'[d].sender = None /\ ~slot'[d].idleTimer
    /\ \A d \in Slots \ L : slot'[d] = [slot[d] EXCEPT !.trying = slot'[d].trying]
    /\ \A y \in Senders : sender'[y] = sender[y] \/ sender'[y] = NewSender \/ Ended(y, sender'[y])
    /\ \A y \in Senders : sender'[y].phase \in {"opening", "asking"} =>
          slot'[sender[y].slot].trying = slot[sender[y].slot].trying
    /\ \A d \in Slots : slot'[d].trying \in Senders =>
          /\ sender'[slot'[d].trying].slot = d
          /\ sender'[slot'[d].trying].phase \in {"opening", "asking"}
    /\ \A d \in Slots \ L : slot[d].sender \in Senders =>
          sender'[slot[d].sender] = sender[slot[d].sender]
    /\ \A d \in L : slot[d].sender \in Senders =>
          sender'[slot[d].sender] = NewSender \/ slot[d].sender \in forsaken'
    /\ \A y \in Senders : sender[y] # NewSender /\ slot[sender[y].slot].trying = y =>
          \/ sender'[y] = NewSender \/ y \in forsaken' \/ slot'[sender[y].slot].trying = y
    /\ forsaken \subseteq forsaken'
    /\ \A w \in Workers : worker'[w].phase = "served" => worker'[w] = worker[w]

LEMMA Retires ==
    ASSUME HeldInv, TypeOK', ChainInv', Answers, NEW L \in SUBSET Slots, Retiring(L)
    PROVE  HeldInv'
<1> USE DEF Retiring
<1>0. TypeOK /\ RegistryInv /\ SlotInv /\ SenderInv /\ HoldInv /\ CallerInv BY DEF HeldInv
<1>1. /\ slot \in [Slots -> SlotRecords] /\ registry \in [Sessions -> Slots \cup {None}]
      /\ \A d \in Slots : slot[d] \in SlotRecords
  BY <1>0, Tables
<1>2. ASSUME NEW d \in Slots \ L
      PROVE  /\ slot'[d].state = slot[d].state /\ slot'[d].sender = slot[d].sender
             /\ slot'[d].idleTimer = slot[d].idleTimer
  <2>1. slot'[d] = [slot[d] EXCEPT !.trying = slot'[d].trying] /\ slot[d] \in SlotRecords BY <1>1
  <2> QED BY <2>1 DEF SlotRecords
<1>3. \A d \in Slots : /\ slot[d].state # "none" => slot'[d].state # "none"
                       /\ slot'[d].state # "dead" => slot'[d].state = slot[d].state
  BY <1>2
<1>4. RegistryInv'
  <2>1. \A k \in Sessions : registry'[k] # None => registry[k] \in Slots \ L /\ registry'[k] = registry[k]
    BY <1>1
  <2>2. \A k \in Sessions : registry'[k] # None =>
           slot'[registry'[k]].session = k /\ slot'[registry'[k]].state \notin {"none", "dead"}
    BY <1>0, <1>2, <2>1 DEF RegistryInv, Alive
  <2>3. \A d \in Slots : slot'[d].state \notin {"none", "dead"} => d \notin L /\ Alive(d)
    BY <1>2 DEF Alive
  <2>4. \A d \in Slots : Alive(d) => slot[d].session \in Sessions BY <1>0 DEF Alive, SlotInv
  <2>5. \A d \in Slots : slot'[d].state \notin {"none", "dead"} => registry'[slot'[d].session] = d
    BY <1>0, <1>1, <2>3, <2>4 DEF RegistryInv
  <2> QED BY <2>2, <2>5 DEF RegistryInv, Alive
<1>5. SlotInv'
  <2> SUFFICES ASSUME NEW d \in Slots
               PROVE  /\ slot'[d].state = "none" => slot'[d] = NewSlot
                      /\ slot'[d].state # "none" => slot'[d].session \in Sessions
                      /\ slot'[d].state = "ready" => slot'[d].sender # None
                      /\ slot'[d].state = "dead" => slot'[d].sender = None
                      /\ slot'[d].idleTimer => slot'[d].state = "ready" /\ slot'[d].active = 0
                      /\ slot'[d].trying # None => slot'[d].state \in {"connecting", "dead"}
    BY DEF SlotInv
  <2>1. CASE d \in L
    <3>1. slot[d].session \in Sessions BY <1>0, <2>1 DEF Alive, SlotInv
    <3> QED BY <2>1, <3>1
  <2>2. CASE d \notin L
    <3>1. /\ slot'[d].state = slot[d].state /\ slot'[d].sender = slot[d].sender
          /\ slot'[d].idleTimer = slot[d].idleTimer
      BY <1>2, <2>2
    <3>2. slot'[d].state = "none" => slot'[d] = NewSlot
      <4> SUFFICES ASSUME slot'[d].state = "none" PROVE slot'[d] = NewSlot OBVIOUS
      <4>1. slot[d] = NewSlot /\ slot'[d].trying = None BY <1>0, <3>1, News DEF SlotInv
      <4>2. slot'[d] = [slot[d] EXCEPT !.trying = slot'[d].trying] BY <2>2
      <4> QED BY <4>1, <4>2 DEF NewSlot
    <3> QED BY <1>0, <3>1, <3>2 DEF SlotInv
  <2> QED BY <2>1, <2>2
<1>6. SenderInv' BY <1>3, SendersStay
<1>7. HoldInv'
  <2>1. ASSUME NEW d \in Slots, slot'[d].sender \in Senders
        PROVE  sender'[slot'[d].sender].slot = d /\ sender'[slot'[d].sender].phase = "up"
    <3>1. d \notin L BY <2>1, Names
    <3>2. slot'[d].sender = slot[d].sender BY <1>2, <3>1
    <3> QED BY <1>0, <2>1, <3>1, <3>2 DEF HoldInv
  <2> QED BY <2>1 DEF HoldInv
<1>8. CallerInv' /\ CountInv' BY <1>3, CallersStay
<1>9. NoSenderLeaks'
  <2> SUFFICES ASSUME NEW y \in Senders, sender'[y] # NewSender, y \notin forsaken'
               PROVE  \/ slot'[sender'[y].slot].trying = y
                      \/ /\ slot'[sender'[y].slot].sender = y
                         /\ registry'[slot'[sender'[y].slot].session] = sender'[y].slot
    BY DEF NoSenderLeaks
  <2>1. sender[y] # NewSender /\ sender'[y].slot = sender[y].slot /\ sender[y].slot \in Slots
    BY <1>0, News DEF Ended, SenderInv
  <2>2. PICK d \in Slots : d = sender[y].slot BY <2>1
  <2>3. CASE slot[d].trying = y BY <2>1, <2>2, <2>3
  <2>4. CASE slot[d].sender = y /\ registry[slot[d].session] = d
    <3>1. d \notin L BY <2>4
    <3>2. slot'[d].sender = y BY <1>2, <2>4, <3>1
    <3>3. slot[d].session \in Sessions BY <1>0, <2>1, <2>2 DEF SenderInv, SlotInv
    <3>4. registry'[slot[d].session] = d BY <2>4, <3>1, <3>3
    <3> QED BY <2>1, <2>2, <3>2, <3>4
  <2>5. y \notin forsaken OBVIOUS
  <2>6. slot[d].trying = y \/ (slot[d].sender = y /\ registry[slot[d].session] = d)
    BY <2>1, <2>2, <2>5 DEF HeldInv, NoSenderLeaks
  <2> QED BY <2>3, <2>4, <2>6
<1>10. UsedSenderStays'
  <2> SUFFICES ASSUME NEW w \in Workers, worker'[w].phase \in {"served", "using"},
                      worker'[w] = worker[w]
               PROVE  \/ slot'[worker[w].slot].state = "dead"
                      \/ slot'[worker[w].slot].sender = worker[w].sender
                      \/ worker[w].sender \in forsaken'
    BY DEF Answers, UsedSenderStays
  <2>1. worker[w].slot \in Slots BY <1>0 DEF CallerInv
  <2> QED BY <1>2, <2>1 DEF HeldInv, UsedSenderStays
<1> QED BY <1>4, <1>5, <1>6, <1>7, <1>8, <1>9, <1>10 DEF HeldInv

\* The slots the registry has are alive, and hold senders that are up.
LEMMA Registered ==
    ASSUME HeldInv, NEW k \in Sessions, registry[k] # None
    PROVE  registry[k] \in Slots /\ Alive(registry[k]) /\ slot[registry[k]].session = k
BY Tables DEF HeldInv, RegistryInv

LEMMA DeadIs ==
    ASSUME NEW t \in SlotRecords
    PROVE  /\ Dead(t) \in SlotRecords /\ Dead(t).session = t.session /\ Dead(t).active = t.active
           /\ Dead(t).trying = t.trying /\ Dead(t).state = "dead" /\ Dead(t).sender = None
           /\ Dead(t).idleTimer = FALSE
BY DEF Dead, SlotRecords

LEMMA PurgeKeeps ==
    ASSUME HeldInv, NEW closes \in BOOLEAN, Purge(closes)
    PROVE  HeldInv'
<1>0. TypeOK /\ HoldInv /\ SlotInv /\ ChainInv BY DEF HeldInv
<1>1. slot \in [Slots -> SlotRecords] /\ registry \in [Sessions -> Slots \cup {None}]
      /\ \A d \in Slots : slot[d] \in SlotRecords
  BY <1>0, Tables
<1>2. PICK L : L = {registry[k] : k \in Sessions} \ {None} OBVIOUS
<1>3. L \in SUBSET Slots /\ \A d \in L : Alive(d) BY <1>2, Registered
<1>4. registry' = [k \in Sessions |-> IF registry[k] \in L THEN None ELSE registry[k]]
  <2>1. \A k \in Sessions : (IF registry[k] \in L THEN None ELSE registry[k]) = None BY <1>2
  <2>2. registry' = [k \in Sessions |-> None] BY DEF Purge
  <2> QED BY <2>1, <2>2
<1>5. \A d \in Slots : slot'[d] = IF d \in L THEN Dead(slot[d]) ELSE slot[d] BY <1>2 DEF Purge
<1>6. PICK X \in SUBSET Senders : X = SendersOf(L)
  <2>1. \A d \in L : slot[d].sender \in Senders \cup {None} BY <1>1, <1>3 DEF SlotRecords
  <2>2. SendersOf(L) \in SUBSET Senders BY <2>1 DEF SendersOf
  <2> QED BY <2>2
<1>7. Dropped(X) BY <1>2, <1>6 DEF Purge
<1>8. /\ sender' \in [Senders -> SenderRecords] /\ forsaken \subseteq forsaken'
      /\ forsaken' \subseteq Senders
      /\ \A y \in Senders : sender'[y] = sender[y] \/ (y \in X /\ sender'[y] = NewSender)
      /\ \A y \in X : sender'[y] = NewSender \/ y \in forsaken'
  BY <1>7, DroppedIs
<1>9. UNCHANGED <<chain, keyVars, worker>> /\ closed' \in BOOLEAN /\ faults' \in 0 .. MaxFaults
  <2>1. faults \in 0 .. MaxFaults BY <1>0, Tables
  <2>2. faults' \in 0 .. MaxFaults BY <1>0, <2>1, FaultCounts DEF Purge
  <2> QED BY <2>2 DEF Purge
<1>10. TypeOK'
  <2>1. \A d \in Slots : slot'[d] \in SlotRecords BY <1>1, <1>5, DeadIs
  <2>2. slot' \in [Slots -> SlotRecords] BY <2>1 DEF Purge
  <2>3. registry' \in [Sessions -> Slots \cup {None}] BY DEF Purge
  <2> QED BY <1>0, <1>8, <1>9, <2>2, <2>3, Tables DEF TypeOK, SlotRecords, SenderRecords, keyVars
<1>11. \A d \in Slots : /\ slot'[d].session = slot[d].session /\ slot'[d].active = slot[d].active
                        /\ slot'[d].trying = slot[d].trying
  BY <1>1, <1>5, DeadIs
<1>12. \A d \in L : slot'[d].state = "dead" /\ slot'[d].sender = None /\ ~slot'[d].idleTimer
  <2> TAKE d \in L
  <2>1. slot[d] \in SlotRecords /\ slot'[d] = Dead(slot[d]) BY <1>1, <1>3, <1>5
  <2> QED BY <2>1, DeadIs
<1>13. \A d \in Slots \ L : slot'[d] = [slot[d] EXCEPT !.trying = slot'[d].trying]
  <2> TAKE d \in Slots \ L
  <2>1. slot'[d] = slot[d] /\ slot[d] \in SlotRecords BY <1>1, <1>5
  <2> QED BY <2>1 DEF SlotRecords
<1>14. \A y \in X : sender[y].phase = "up" /\ sender[y].slot \in L
  <2>1. \A d \in L : slot[d].sender \in Senders \cup {None} BY <1>1, <1>3 DEF SlotRecords
  <2> QED BY <1>0, <1>3, <1>6, <2>1 DEF HoldInv, SendersOf
<1>15. ChainInv' BY <1>0, <1>9, <1>11 DEF ChainInv
<1>16. Answers /\ \A w \in Workers : worker'[w] = worker[w] BY <1>9, NoAnswers
<1>17. \A d \in Slots : slot'[d].trying \in Senders =>
              /\ sender'[slot'[d].trying].slot = d
              /\ sender'[slot'[d].trying].phase \in {"opening", "asking"}
  <2> SUFFICES ASSUME NEW d \in Slots, slot'[d].trying \in Senders
               PROVE  sender'[slot[d].trying] = sender[slot[d].trying]
    BY <1>0, <1>11 DEF HoldInv
  <2>1. sender[slot[d].trying].phase # "up" BY <1>0, <1>11 DEF HoldInv
  <2> QED BY <1>8, <1>11, <1>14, <2>1
<1>18. \A d \in Slots \ L : slot[d].sender \in Senders =>
              sender'[slot[d].sender] = sender[slot[d].sender]
  BY <1>0, <1>8, <1>14 DEF HoldInv
<1>19. \A d \in L : slot[d].sender \in Senders =>
              sender'[slot[d].sender] = NewSender \/ slot[d].sender \in forsaken'
  BY <1>6, <1>8, Names DEF SendersOf
<1>20. \A y \in Senders : sender'[y].phase \in {"opening", "asking"} =>
              slot'[sender[y].slot].trying = slot[sender[y].slot].trying
  <2> SUFFICES ASSUME NEW y \in Senders, sender'[y].phase \in {"opening", "asking"}
               PROVE  sender[y].slot \in Slots
    BY <1>11
  <2>1. sender'[y] = sender[y] BY <1>8, News
  <2> QED BY <2>1 DEF HeldInv, SenderInv
<1>21. \A y \in Senders : sender[y] # NewSender => slot'[sender[y].slot].trying = slot[sender[y].slot].trying
  BY <1>11 DEF HeldInv, SenderInv
<1>22. Retiring(L)
  BY <1>3, <1>4, <1>8, <1>11, <1>12, <1>13, <1>16, <1>17, <1>18, <1>19, <1>20, <1>21 DEF Retiring
<1> QED BY <1>3, <1>10, <1>15, <1>16, <1>22, Retires

\* The first of the chain leaves it when its attempt is over.
LEMMA ChainPops ==
    ASSUME TypeOK, ChainInv, NEW s \in Slots, slot[s].trying \in Senders, chain' = Tail(chain),
           slot'[s].trying = None, \A d \in Slots \ {s} : slot'[d].trying = slot[d].trying
    PROVE  chain' \in Seq(Slots) /\ ChainInv'
<1>1. chain \in Seq(Slots) /\ chain # <<>> /\ Head(chain) = s BY Tables DEF ChainInv
<1>2. chain' \in Seq(Slots) BY <1>1
<1>3. ASSUME NEW d \in Slots, slot'[d].trying # None
      PROVE  (\E i \in DOMAIN chain' : chain'[i] = d) /\ slot'[d].trying \notin Senders
  <2>1. d # s /\ slot[d].trying # None /\ slot'[d].trying = slot[d].trying BY <1>3
  <2>2. PICK i \in DOMAIN chain : chain[i] = d BY <2>1 DEF ChainInv
  <2>3. i # 1 BY <1>1, <2>1, <2>2
  <2>4. i \in 1 .. Len(chain) BY <1>1
  <2>5. i - 1 \in 1 .. Len(chain) - 1 BY <1>1, <2>3, <2>4
  <2>6. i - 1 \in DOMAIN chain' /\ chain'[i - 1] = chain[i]
    <3>1. Len(chain') = Len(chain) - 1 /\ DOMAIN chain' = 1 .. Len(chain') BY <1>1, <1>2
    <3>2. (i - 1) + 1 = i BY <2>4
    <3>3. chain'[i - 1] = chain[(i - 1) + 1] BY <1>1, <2>5, <3>1
    <3> QED BY <2>5, <3>1, <3>2, <3>3
  <2>7. slot[d].trying \notin Senders BY <1>1, <2>1 DEF ChainInv
  <2> QED BY <2>1, <2>2, <2>6, <2>7
<1> QED BY <1>2, <1>3, Names DEF ChainInv

\* What breaks: the slot of the sender and, if it is a media slot, its siblings.
LEMMA BreakKeeps ==
    ASSUME HeldInv, NEW x \in Senders, Online(x), Break(x), faults' \in 0 .. MaxFaults,
           sender[x].phase \in {"opening", "asking", "up"} \/ sender[x].link = "binding"
    PROVE  HeldInv'
<1>0. TypeOK /\ HoldInv /\ SlotInv /\ SenderInv /\ ChainInv BY DEF HeldInv
<1>1. slot \in [Slots -> SlotRecords] /\ registry \in [Sessions -> Slots \cup {None}]
      /\ sender \in [Senders -> SenderRecords] /\ sender[x] \in SenderRecords
      /\ forsaken \subseteq Senders /\ \A d \in Slots : slot[d] \in SlotRecords
      /\ chain \in Seq(Slots) /\ badKeys \subseteq 1 .. NumSenders + 1
  BY <1>0, Tables
<1>2. sender[x].link \in {"binding", "on"} /\ sender[x].phase # "none"
  BY <1>0, News DEF SenderInv, Online
<1>3. PICK s \in Slots : s = sender[x].slot BY <1>0, <1>2 DEF SenderInv
<1>4. PICK D : D = {s} \cup Siblings(s) OBVIOUS
<1>5. PICK L : L = {d \in D : slot[d].state # "dead"} OBVIOUS
<1>6. L \in SUBSET Slots /\ (\A d \in L : Alive(d)) /\ (s \notin L => slot[s].state = "dead")
  <2>1. \A k \in Media : registry[k] # None => registry[k] \in Slots /\ Alive(registry[k])
    BY Registered, Bounds
  <2>2. slot[s].state # "none" BY <1>0, <1>2, <1>3 DEF SenderInv
  <2>3. \A d \in Siblings(s) : d \in Slots /\ Alive(d) BY <2>1 DEF Siblings
  <2> QED BY <1>4, <1>5, <2>2, <2>3 DEF Alive
<1>7. registry' = [k \in Sessions |-> IF registry[k] \in L THEN None ELSE registry[k]]
  <2>1. \A k \in Sessions : registry[k] \in D <=> registry[k] \in L
    <3> TAKE k \in Sessions
    <3>1. CASE registry[k] = None
      <4>1. None \notin D
        <5>1. None \notin Siblings(s) BY DEF Siblings
        <5> QED BY <1>3, <1>4, <5>1, Names
      <4> QED BY <1>5, <3>1, <4>1
    <3>2. CASE registry[k] # None BY <1>5, <3>2, Registered DEF Alive
    <3> QED BY <3>1, <3>2
  <2>2. registry' = [k \in Sessions |-> IF registry[k] \in D THEN None ELSE registry[k]]
    BY <1>3, <1>4 DEF Break
  <2> QED BY <2>1, <2>2
<1>8. PICK X : X = SendersOf(L) OBVIOUS
<1>9. X \subseteq Senders /\ \A y \in X : sender[y].phase = "up" /\ sender[y].slot \in L
  <2>1. \A d \in L : slot[d].sender \in Senders \cup {None} BY <1>1, <1>6 DEF SlotRecords
  <2>2. X \subseteq Senders BY <1>8, <2>1 DEF SendersOf
  <2> QED BY <1>0, <1>6, <1>8, <2>1, <2>2 DEF HoldInv, SendersOf
<1>10. \A d \in L : slot[d].sender \in Senders => slot[d].sender \in X
  BY <1>8, Names DEF SendersOf
<1>11. PICK binding \in BOOLEAN : binding <=> sender[x].link = "binding" OBVIOUS
<1>12. PICK attempt \in BOOLEAN : attempt <=> sender[x].phase = "asking" OBVIOUS
<1>13. \A y \in Senders \ {x} : sender'[y] = IF y \in X /\ Online(y) THEN NewSender ELSE sender[y]
  BY <1>3, <1>4, <1>5, <1>8 DEF Break
<1>14. sender'[x] = IF binding THEN [sender[x] EXCEPT !.phase = IF attempt THEN "up" ELSE sender[x].phase,
                                                      !.link = "off", !.authenticated = FALSE]
                    ELSE IF x \in X THEN NewSender
                    ELSE [sender[x] EXCEPT !.phase = "broken"]
  BY <1>3, <1>4, <1>5, <1>8, <1>11, <1>12 DEF Break
<1>15. ASSUME binding
       PROVE  /\ Ended(x, sender'[x]) /\ sender'[x] \in SenderRecords
              /\ sender'[x].phase = IF attempt THEN "up" ELSE sender[x].phase
  <2>1. PICK p : p = IF attempt THEN "up" ELSE sender[x].phase OBVIOUS
  <2>2. p \in {"up", "broken"} \/ (p = "opening" /\ sender[x].phase = "opening")
    BY <1>1, <1>2, <1>12, <2>1 DEF SenderRecords
  <2>3. PICK r : r = [sender[x] EXCEPT !.phase = p, !.link = "off", !.authenticated = FALSE] OBVIOUS
  <2>4. r \in SenderRecords /\ r.phase = p /\ r.link = "off" /\ r.slot = sender[x].slot
    BY <1>1, <2>2, <2>3 DEF SenderRecords
  <2>5. sender'[x] = r BY <1>14, <1>15, <2>1, <2>3
  <2> QED BY <1>2, <2>1, <2>2, <2>4, <2>5 DEF Ended
<1>16. ASSUME ~binding, x \notin X
       PROVE  Ended(x, sender'[x]) /\ sender'[x] \in SenderRecords /\ sender'[x].phase = "broken"
  <2>1. PICK r : r = [sender[x] EXCEPT !.phase = "broken"] OBVIOUS
  <2>2. r \in SenderRecords /\ r.phase = "broken" /\ r.link = sender[x].link
        /\ r.slot = sender[x].slot /\ r.key = sender[x].key
    BY <1>1, <2>1 DEF SenderRecords
  <2>3. sender'[x] = r BY <1>14, <1>16, <2>1
  <2> QED BY <1>2, <2>2, <2>3 DEF Ended
<1>17. ~binding /\ x \in X => sender'[x] = NewSender BY <1>14
<1>18. ~binding => sender[x].phase \in {"asking", "up"} BY <1>0, <1>2, <1>11 DEF SenderInv
<1>19. \A y \in Senders : sender'[y] \in SenderRecords
                          /\ (sender'[y] = sender[y] \/ sender'[y] = NewSender \/ Ended(y, sender'[y]))
  BY <1>1, <1>13, <1>15, <1>16, <1>17, News
<1>20. forsaken' = forsaken \cup {y \in X : ~Online(y)}
                            \cup (IF attempt \/ (binding /\ x \in X) THEN {x} ELSE {})
  BY <1>3, <1>4, <1>5, <1>8, <1>11, <1>12 DEF Break
<1>21. forsaken \subseteq forsaken' /\ forsaken' \subseteq Senders BY <1>1, <1>9, <1>20
<1>22. attempt => slot[s].trying = x /\ chain # <<>> /\ Head(chain) = s
  BY <1>0, <1>3, <1>12 DEF SenderInv, ChainInv
<1>23. ASSUME NEW d \in Slots
       PROVE  /\ slot'[d] \in SlotRecords
              /\ slot'[d].session = slot[d].session /\ slot'[d].active = slot[d].active
              /\ slot'[d].trying = IF attempt /\ d = s THEN None ELSE slot[d].trying
              /\ d \in L => slot'[d].state = "dead" /\ slot'[d].sender = None /\ ~slot'[d].idleTimer
              /\ d \notin L => slot'[d] = [slot[d] EXCEPT !.trying = slot'[d].trying]
  <2>1. PICK t : t = IF attempt /\ d = s THEN [slot[d] EXCEPT !.trying = None] ELSE slot[d] OBVIOUS
  <2>2. slot'[d] = IF d \in L THEN Dead(t) ELSE t
    BY <1>3, <1>4, <1>5, <1>12, <2>1 DEF Break
  <2>3. t \in SlotRecords /\ t.session = slot[d].session /\ t.active = slot[d].active
        /\ t.trying = (IF attempt /\ d = s THEN None ELSE slot[d].trying)
        /\ t = [slot[d] EXCEPT !.trying = t.trying]
    <3>1. slot[d] \in SlotRecords BY <1>1
    <3>2. CASE attempt /\ d = s BY <2>1, <3>1, <3>2 DEF SlotRecords
    <3>3. CASE ~(attempt /\ d = s) BY <2>1, <3>1, <3>3 DEF SlotRecords
    <3> QED BY <3>2, <3>3
  <2>4. CASE d \in L BY <2>2, <2>3, <2>4, DeadIs
  <2>5. CASE d \notin L BY <2>2, <2>3, <2>5
  <2> QED BY <2>4, <2>5
<1>24. Answers /\ \A w \in Workers : worker'[w].phase = "served" => worker'[w] = worker[w]
  <2>1. CASE attempt
    <3>1. Answered(s, "rejected", None) BY <1>3, <1>12, <2>1 DEF Break
    <3> QED BY <3>1, AnsweredIs
  <2>2. CASE ~attempt
    <3>1. worker' = worker BY <1>12, <2>2 DEF Break
    <3> QED BY <3>1, NoAnswers
  <2> QED BY <2>1, <2>2
<1>25. chain' \in Seq(Slots) /\ ChainInv'
  <2>1. CASE attempt
    <3>1. chain' = Tail(chain) BY <1>12, <2>1 DEF Break
    <3>2. slot'[s].trying = None /\ \A d \in Slots \ {s} : slot'[d].trying = slot[d].trying
      BY <1>23, <2>1
    <3> QED BY <1>0, <1>22, <2>1, <3>1, <3>2, ChainPops
  <2>2. CASE ~attempt
    <3>1. chain' = chain BY <1>12, <2>2 DEF Break
    <3> QED BY <1>0, <1>1, <1>23, <2>2, <3>1, ZenonT(30) DEF ChainInv
  <2> QED BY <2>1, <2>2
<1>26. TypeOK'
  <2>1. slot' \in [Slots -> SlotRecords] BY <1>23 DEF Break
  <2>2. sender' \in [Senders -> SenderRecords] BY <1>19 DEF Break
  <2>3. registry' \in [Sessions -> Slots \cup {None}] BY <1>1, <1>7
  <2>4. badKeys' \subseteq 1 .. NumSenders + 1
    <3>1. OfMedia(s) => sender[x].key \in 1 .. NumSenders + 1
      BY <1>0, <1>3 DEF SenderInv
    <3>2. badKeys' = IF OfMedia(s) THEN badKeys \cup {sender[x].key} ELSE badKeys
      BY <1>3 DEF Break
    <3> QED BY <1>1, <3>1, <3>2
  <2>5. mediaKey' = 0 /\ mediaBound' = FALSE /\ UNCHANGED <<closed, boundKeys, racedKeys>>
    BY DEF Break, ResetMediaKey
  <2>6. 0 \in 0 .. NumSenders + 1 BY Bounds
  <2>7. worker' \in [Workers -> CallerRecords] BY <1>24 DEF Answers
  <2>8. (boundKeys \cup badKeys \cup racedKeys)' \subseteq 1 .. NumSenders + 1
    BY <1>0, <2>4, <2>5, Tables
  <2> QED BY <1>0, <1>21, <1>25, <2>1, <2>2, <2>3, <2>5, <2>6, <2>7, <2>8
          DEF TypeOK, SlotRecords, SenderRecords, CallerRecords
<1>27. Retiring(L)
  <2>1. \A y \in Senders : sender'[y].phase \in {"opening", "asking"} =>
          slot'[sender[y].slot].trying = slot[sender[y].slot].trying
    <3> SUFFICES ASSUME NEW y \in Senders, sender'[y].phase \in {"opening", "asking"}
                 PROVE  slot'[sender[y].slot].trying = slot[sender[y].slot].trying
      OBVIOUS
    <3>1. sender[y].phase \in {"opening", "asking"} BY <1>19, News DEF Ended
    <3>2. sender[y].slot \in Slots /\ slot[sender[y].slot].trying = y BY <1>0, <3>1 DEF SenderInv
    <3>3. ~(attempt /\ sender[y].slot = s)
      <4> SUFFICES ASSUME attempt, sender[y].slot = s PROVE FALSE OBVIOUS
      <4>1. y = x BY <1>22, <3>2
      <4> QED BY <1>15, <1>16, <1>17, <4>1, News
    <3> QED BY <1>23, <3>2, <3>3
  <2>2. ASSUME NEW d \in Slots, slot'[d].trying \in Senders
        PROVE  /\ sender'[slot'[d].trying].slot = d
               /\ sender'[slot'[d].trying].phase \in {"opening", "asking"}
    <3>1. ~(attempt /\ d = s) /\ slot'[d].trying = slot[d].trying BY <1>23, <2>2, Names
    <3>2. PICK y \in Senders : y = slot[d].trying BY <2>2, <3>1
    <3>3. sender[y].slot = d /\ sender[y].phase \in {"opening", "asking"} BY <1>0, <3>2 DEF HoldInv
    <3>4. y \notin X BY <1>9, <3>3
    <3>5. CASE y # x BY <1>13, <3>1, <3>2, <3>3, <3>4, <3>5
    <3>6. CASE y = x
      <4>1. ~attempt BY <1>3, <3>1, <3>3, <3>6
      <4>2. sender[x].phase = "opening" BY <1>12, <3>3, <3>6, <4>1
      <4>3. binding BY <1>18, <4>2
      <4> QED BY <1>15, <3>1, <3>2, <3>3, <3>6, <4>1, <4>2, <4>3 DEF Ended
    <3> QED BY <3>5, <3>6
  <2>3. ASSUME NEW d \in Slots \ L, slot[d].sender \in Senders
        PROVE  sender'[slot[d].sender] = sender[slot[d].sender]
    <3>1. PICK y \in Senders : y = slot[d].sender BY <2>3
    <3>2. sender[y].slot = d BY <1>0, <3>1 DEF HoldInv
    <3>3. y # x
      <4>1. y = x => d = s /\ slot[s].state = "dead" BY <1>3, <1>6, <3>2
      <4> QED BY <1>0, <3>1, <4>1, Names DEF SlotInv
    <3>4. y \notin X BY <1>9, <3>2
    <3> QED BY <1>13, <3>1, <3>3, <3>4
  <2>4. ASSUME NEW d \in L, slot[d].sender \in Senders
        PROVE  sender'[slot[d].sender] = NewSender \/ slot[d].sender \in forsaken'
    <3>1. PICK y \in X : y = slot[d].sender BY <1>10, <2>4
    <3>2. CASE y = x BY <1>17, <1>20, <3>1, <3>2
    <3>3. CASE y # x BY <1>9, <1>13, <1>20, <3>1, <3>3
    <3> QED BY <3>2, <3>3
  <2>5. ASSUME NEW y \in Senders, sender[y] # NewSender, slot[sender[y].slot].trying = y
        PROVE  \/ sender'[y] = NewSender \/ y \in forsaken' \/ slot'[sender[y].slot].trying = y
    <3>1. sender[y].slot \in Slots BY <1>0, <2>5 DEF SenderInv
    <3>2. CASE attempt /\ sender[y].slot = s BY <1>20, <1>22, <2>5, <3>2
    <3>3. CASE ~(attempt /\ sender[y].slot = s) BY <1>23, <2>5, <3>1, <3>3
    <3> QED BY <3>2, <3>3
  <2>6. \A d \in Slots : /\ slot'[d].session = slot[d].session /\ slot'[d].active = slot[d].active
                         /\ slot'[d].trying \in {slot[d].trying, None}
    BY <1>23
  <2>7. \A d \in L : slot'[d].state = "dead" /\ slot'[d].sender = None /\ ~slot'[d].idleTimer
    BY <1>6, <1>23
  <2>8. \A d \in Slots \ L : slot'[d] = [slot[d] EXCEPT !.trying = slot'[d].trying]
    BY <1>23
  <2> QED BY <1>6, <1>7, <1>19, <1>21, <1>24, <2>1, <2>2, <2>3, <2>4, <2>5, <2>6, <2>7, <2>8
          DEF Retiring
<1> QED BY <1>6, <1>24, <1>25, <1>26, <1>27, Retires

-----------------------------------------------------------------------------
(* Steps of one slot *)

\* One slot changes, and is as alive as it was.
LEMMA OneSlot ==
    ASSUME HeldInv, NEW s \in Slots, NEW t \in SlotRecords, slot' = [slot EXCEPT ![s] = t],
           Answers, UNCHANGED registry, slot[s].state # "none", t.state # "none",
           t.session = slot[s].session, t.active = slot[s].active,
           t.state = "dead" <=> slot[s].state = "dead",
           t.state = "ready" => t.sender # None, t.state = "dead" => t.sender = None,
           t.idleTimer => t.state = "ready" /\ t.active = 0,
           t.trying # None => t.state \in {"connecting", "dead"}
    PROVE  /\ slot' \in [Slots -> SlotRecords] /\ slot'[s] = t
           /\ \A d \in Slots \ {s} : slot'[d] = slot[d]
           /\ RegistryInv' /\ SlotInv' /\ CallerInv' /\ CountInv'
<1>0. RegistryInv /\ SlotInv BY DEF HeldInv
<1>1. slot \in [Slots -> SlotRecords] /\ registry \in [Sessions -> Slots \cup {None}]
  BY Tables DEF HeldInv
<1>2. slot' \in [Slots -> SlotRecords] /\ slot'[s] = t /\ \A d \in Slots \ {s} : slot'[d] = slot[d]
  BY <1>1
<1>3. \A d \in Slots : /\ slot'[d].session = slot[d].session /\ slot'[d].active = slot[d].active
                       /\ slot[d].state # "none" => slot'[d].state # "none"
                       /\ slot'[d].state \in {"none", "dead"} <=> slot[d].state \in {"none", "dead"}
  BY <1>2
<1>4. RegistryInv' BY <1>0, <1>1, <1>3 DEF RegistryInv, Alive
<1>5. SlotInv' BY <1>0, <1>2, <1>3 DEF SlotInv
<1>6. CallerInv' /\ CountInv' BY <1>3, CallersStay
<1> QED BY <1>2, <1>4, <1>5, <1>6

LEMMA IdleKeeps ==
    ASSUME HeldInv, NEW s \in Slots, IdleTick(s)
    PROVE  HeldInv'
<1>0. TypeOK /\ SlotInv /\ SenderInv /\ HoldInv /\ ChainInv /\ CallerInv /\ CountInv BY DEF HeldInv
<1>1. slot \in [Slots -> SlotRecords] /\ slot[s] \in SlotRecords BY <1>0, Tables
<1>2. slot[s].state = "ready" /\ slot[s].active = 0 /\ slot[s].trying = None
  BY <1>0 DEF IdleTick, SlotInv
<1>3. PICK t : t = [slot[s] EXCEPT !.idleTimer = FALSE, !.state = "idle", !.sender = None] OBVIOUS
<1>4. /\ t \in SlotRecords /\ t.session = slot[s].session /\ t.active = slot[s].active
      /\ t.trying = None /\ t.state = "idle" /\ t.sender = None /\ t.idleTimer = FALSE
  BY <1>1, <1>2, <1>3 DEF SlotRecords
<1>5. slot' = [slot EXCEPT ![s] = t] /\ Dropped({slot[s].sender})
      /\ UNCHANGED <<registry, closed, chain, keyVars, worker, faults>>
  BY <1>1, <1>2, <1>3 DEF IdleTick
<1>6. Answers BY <1>5, NoAnswers
<1>7. /\ slot' \in [Slots -> SlotRecords] /\ slot'[s] = t
      /\ \A d \in Slots \ {s} : slot'[d] = slot[d]
      /\ RegistryInv' /\ SlotInv' /\ CallerInv' /\ CountInv'
  BY <1>2, <1>4, <1>5, <1>6, OneSlot
<1>8. PICK x \in Senders : x = slot[s].sender BY <1>0, <1>1, <1>2 DEF SlotInv, SlotRecords
<1>9. sender[x].slot = s /\ sender[x].phase = "up" BY <1>0, <1>8 DEF HoldInv
<1>10. /\ sender' \in [Senders -> SenderRecords] /\ forsaken \subseteq forsaken'
       /\ forsaken' \subseteq Senders
       /\ \A y \in Senders : sender'[y] = sender[y] \/ (y = x /\ sender'[y] = NewSender)
       /\ sender'[x] = NewSender \/ x \in forsaken'
  <2>1. {x} \in SUBSET Senders /\ Dropped({x}) BY <1>5, <1>8
  <2> QED BY <2>1, DroppedIs
<1>11. TypeOK' BY <1>0, <1>5, <1>7, <1>10, Tables DEF TypeOK, SlotRecords, SenderRecords, keyVars
<1>12. \A d \in Slots : slot'[d].trying = slot[d].trying BY <1>2, <1>4, <1>7
<1>13. SenderInv'
  <2>1. \A y \in Senders : sender'[y].phase \in {"opening", "asking"} => sender[y].slot \in Slots
    BY <1>0, <1>10, News DEF SenderInv
  <2>2. slot'[s].session = slot[s].session /\ slot'[s].state # "none"
    BY <1>4, <1>7
  <2>3. \A d \in Slots : /\ slot'[d].session = slot[d].session
                         /\ slot[d].state # "none" => slot'[d].state # "none"
    BY <1>7, <2>2
  <2> QED BY <1>10, <1>12, <2>1, <2>3, SendersStay
<1>14. HoldInv'
  <2>1. ASSUME NEW d \in Slots, slot'[d].trying \in Senders PROVE slot[d].trying # x
    BY <1>0, <1>9, <1>12, <2>1 DEF HoldInv
  <2>2. ASSUME NEW d \in Slots, slot'[d].sender \in Senders
        PROVE  d # s /\ slot'[d].sender = slot[d].sender /\ slot[d].sender # x
    <3>1. d # s BY <1>4, <1>7, <2>2, Names
    <3> QED BY <1>0, <1>7, <1>9, <2>2, <3>1 DEF HoldInv
  <2> QED BY <1>0, <1>10, <1>12, <2>1, <2>2 DEF HoldInv
<1>15. ChainInv' BY <1>0, <1>5, <1>12 DEF ChainInv
<1>16. NoSenderLeaks'
  <2> SUFFICES ASSUME NEW y \in Senders, sender'[y] # NewSender, y \notin forsaken'
               PROVE  \/ slot'[sender'[y].slot].trying = y
                      \/ /\ slot'[sender'[y].slot].sender = y
                         /\ registry'[slot'[sender'[y].slot].session] = sender'[y].slot
    BY DEF NoSenderLeaks
  <2>1. y # x /\ sender'[y] = sender[y] BY <1>10
  <2>2. PICK d \in Slots : d = sender[y].slot BY <1>0, <2>1 DEF SenderInv
  <2>3. slot[d].trying = y \/ (slot[d].sender = y /\ registry[slot[d].session] = d)
    BY <1>10, <2>1, <2>2 DEF HeldInv, NoSenderLeaks
  <2>4. d # s \/ slot[d].trying = y BY <1>8, <2>1, <2>3
  <2> QED BY <1>5, <1>7, <1>12, <2>1, <2>2, <2>3, <2>4
<1>17. UsedSenderStays'
  <2> SUFFICES ASSUME NEW w \in Workers, worker[w].phase \in {"served", "using"}
               PROVE  \/ slot'[worker[w].slot].state = "dead"
                      \/ slot'[worker[w].slot].sender = worker[w].sender
                      \/ worker[w].sender \in forsaken'
    BY <1>5 DEF UsedSenderStays
  <2>1. worker[w].phase = "using" BY NoneServed DEF IdleTick
  <2>2. worker[w].slot \in Slots BY <1>0, <2>1 DEF CallerInv
  <2>3. worker[w].slot # s
    <3>1. Users(s) = {} BY <1>0, <1>2, FS_EmptySet DEF CountInv
    <3> QED BY <2>1, <3>1 DEF Users
  <2> QED BY <1>7, <1>10, <2>2, <2>3 DEF HeldInv, UsedSenderStays
<1> QED BY <1>7, <1>11, <1>13, <1>14, <1>15, <1>16, <1>17 DEF HeldInv

\* The first attempt of the chain makes its sender.
LEMMA GatedKeeps ==
    ASSUME HeldInv, GatedConnect
    PROVE  HeldInv'
<1>0. TypeOK /\ SlotInv /\ SenderInv /\ HoldInv /\ ChainInv /\ CallerInv BY DEF HeldInv
<1>1. slot \in [Slots -> SlotRecords] /\ sender \in [Senders -> SenderRecords] /\ chain \in Seq(Slots)
      /\ forsaken \subseteq Senders
  BY <1>0, Tables
<1>2. PICK s \in Slots : s = Head(chain) BY <1>1 DEF GatedConnect
<1>3. PICK x \in FreeSenders : x = First(FreeSenders) BY Made DEF GatedConnect
<1>4. x \in Senders /\ sender[x] = NewSender /\ \A w \in Workers : worker[w].sender # x
  BY <1>3 DEF FreeSenders
<1>5. PICK t : t = [slot[s] EXCEPT !.trying = x] OBVIOUS
<1>6. PICK r : r = [NewSender EXCEPT !.slot = s, !.phase = "opening"] OBVIOUS
<1>7. /\ slot' = [slot EXCEPT ![s] = t] /\ sender' = [sender EXCEPT ![x] = r]
      /\ forsaken' = forsaken \ {x} /\ slot[s].trying = Queued /\ chain # <<>>
      /\ UNCHANGED <<registry, closed, chain, boundKeys, badKeys, racedKeys, worker>>
  BY <1>1, <1>2, <1>3, <1>5, <1>6 DEF GatedConnect
<1>8. slot[s] \in SlotRecords BY <1>1
<1>9. /\ t \in SlotRecords /\ t.session = slot[s].session /\ t.active = slot[s].active
      /\ t.trying = x /\ t.state = slot[s].state /\ t.sender = slot[s].sender
      /\ t.idleTimer = slot[s].idleTimer
  BY <1>4, <1>5, <1>8 DEF SlotRecords
<1>10. slot[s].state \in {"connecting", "dead"} BY <1>0, <1>7, Names DEF SlotInv
<1>11. Answers BY <1>7, NoAnswers
<1>12. /\ slot' \in [Slots -> SlotRecords] /\ slot'[s] = t
       /\ \A d \in Slots \ {s} : slot'[d] = slot[d]
       /\ RegistryInv' /\ SlotInv' /\ CallerInv' /\ CountInv'
  <2>1. /\ t.state = "ready" => t.sender # None
        /\ t.state = "dead" => t.sender = None
        /\ t.idleTimer => t.state = "ready" /\ t.active = 0
    BY <1>0, <1>9 DEF SlotInv
  <2> QED BY <1>7, <1>9, <1>10, <1>11, <2>1, OneSlot
<1>13. /\ r \in SenderRecords /\ r.slot = s /\ r.phase = "opening" /\ r.link = "off" /\ r.key = 0
  BY <1>6, Bounds DEF NewSender, SenderRecords
<1>14. sender' \in [Senders -> SenderRecords] /\ sender'[x] = r
       /\ \A y \in Senders \ {x} : sender'[y] = sender[y]
  BY <1>1, <1>4, <1>7, <1>13
<1>15. TypeOK'
  <2>1. mediaKey' \in 0 .. NumSenders + 1 /\ mediaBound' \in BOOLEAN /\ faults' \in 0 .. MaxFaults
    <3>1. 0 \in 0 .. NumSenders + 1 BY Bounds
    <3>2. CASE UNCHANGED <<mediaKey, mediaBound, faults>> BY <1>0, <3>2, Tables
    <3>3. CASE Fault /\ ResetMediaKey BY <1>0, <3>1, <3>3, FaultCounts DEF ResetMediaKey
    <3> QED BY <3>2, <3>3 DEF GatedConnect
  <2>2. forsaken' \subseteq Senders BY <1>1, <1>7
  <2> QED BY <1>0, <1>7, <1>12, <1>14, <2>1, <2>2, Tables DEF TypeOK, SlotRecords, SenderRecords
<1>16. \A d \in Slots : /\ slot[d].trying # x /\ slot[d].sender # x
                        /\ slot'[d].session = slot[d].session /\ slot'[d].state = slot[d].state
                        /\ slot'[d].sender = slot[d].sender
                        /\ d # s => slot'[d].trying = slot[d].trying
  BY <1>0, <1>4, <1>9, <1>12, News DEF HoldInv
<1>17. SenderInv'
  <2> SUFFICES ASSUME NEW y \in Senders
               PROVE  /\ sender'[y].phase = "none" => sender'[y] = NewSender
                      /\ sender'[y].phase # "none" =>
                            sender'[y].slot \in Slots /\ slot'[sender'[y].slot].state # "none"
                      /\ sender'[y].phase \in {"opening", "asking"} => slot'[sender'[y].slot].trying = y
                      /\ sender'[y].phase = "opening" => sender'[y].link # "on"
                      /\ sender'[y].link = "keying" => sender'[y].key = 0
                      /\ sender'[y].link \in {"keying", "binding"} => OfMedia(sender[y].slot)'
                      /\ Online(y)' /\ OfMedia(sender[y].slot)' => sender'[y].key \in 1 .. NumSenders + 1
    BY DEF SenderInv
  <2>1. Online(y)' <=> sender'[y].link \in {"binding", "on"} BY DEF Online
  <2>2. CASE y = x BY <1>9, <1>10, <1>12, <1>13, <1>14, <2>1, <2>2
  <2>3. CASE sender[y].phase = "none" /\ y # x BY <1>0, <1>14, <2>1, <2>3, News DEF SenderInv
  <2>4. CASE sender[y].phase # "none" /\ y # x
    <3>1. sender'[y] = sender[y] BY <1>14, <2>4
    <3>2. PICK d \in Slots : d = sender[y].slot BY <1>0, <2>4 DEF SenderInv
    <3>3. OfMedia(sender[y].slot)' <=> OfMedia(d) BY <1>16, <3>1, <3>2 DEF OfMedia
    <3>4. slot[d].trying = y => slot'[d].trying = y BY <1>7, <1>16, Names
    <3> QED BY <1>0, <1>16, <2>1, <2>4, <3>1, <3>2, <3>3, <3>4 DEF SenderInv, Online
  <2> QED BY <2>2, <2>3, <2>4
<1>18. HoldInv'
  <2>1. ASSUME NEW d \in Slots, slot'[d].trying \in Senders
        PROVE  sender'[slot'[d].trying].slot = d /\ sender'[slot'[d].trying].phase \in {"opening", "asking"}
    <3>1. CASE d = s BY <1>9, <1>12, <1>13, <1>14, <3>1
    <3>2. CASE d # s BY <1>0, <1>14, <1>16, <2>1, <3>2 DEF HoldInv
    <3> QED BY <3>1, <3>2
  <2>2. ASSUME NEW d \in Slots, slot'[d].sender \in Senders
        PROVE  sender'[slot'[d].sender].slot = d /\ sender'[slot'[d].sender].phase = "up"
    BY <1>0, <1>14, <1>16, <2>2 DEF HoldInv
  <2> QED BY <2>1, <2>2 DEF HoldInv
<1>19. ChainInv'
  <2>1. ASSUME NEW d \in Slots, slot'[d].trying # None PROVE slot[d].trying # None
    BY <1>7, <1>16, <2>1, Names
  <2>2. ASSUME NEW d \in Slots, slot'[d].trying \in Senders PROVE chain # <<>> /\ Head(chain) = d
    BY <1>0, <1>2, <1>7, <1>16, <2>2 DEF ChainInv
  <2> QED BY <1>0, <1>7, <2>1, <2>2 DEF ChainInv
<1>20. NoSenderLeaks'
  <2> SUFFICES ASSUME NEW y \in Senders, sender'[y] # NewSender, y \notin forsaken'
               PROVE  \/ slot'[sender'[y].slot].trying = y
                      \/ /\ slot'[sender'[y].slot].sender = y
                         /\ registry'[slot'[sender'[y].slot].session] = sender'[y].slot
    BY DEF NoSenderLeaks
  <2>1. CASE y = x BY <1>9, <1>12, <1>13, <1>14, <2>1
  <2>2. CASE y # x
    <3>1. sender'[y] = sender[y] /\ y \notin forsaken BY <1>7, <1>14, <2>2
    <3>2. PICK d \in Slots : d = sender[y].slot BY <1>0, <3>1 DEF SenderInv
    <3>3. slot[d].trying = y \/ (slot[d].sender = y /\ registry[slot[d].session] = d)
      BY <3>1, <3>2 DEF HeldInv, NoSenderLeaks
    <3>4. slot[d].trying = y => slot'[d].trying = y BY <1>7, <1>16, Names
    <3> QED BY <1>7, <1>16, <3>1, <3>2, <3>3, <3>4
  <2> QED BY <2>1, <2>2
<1>21. UsedSenderStays'
  <2>1. \A w \in Workers : worker[w].phase \in {"served", "using"} => worker[w].slot \in Slots
    BY <1>0 DEF CallerInv
  <2> QED BY <1>4, <1>7, <1>16, <2>1 DEF HeldInv, UsedSenderStays
<1> QED BY <1>12, <1>15, <1>17, <1>18, <1>19, <1>20, <1>21 DEF HeldInv

-----------------------------------------------------------------------------
(* The end of an attempt *)

\* What an attempt to connect is.
LEMMA AttemptIs ==
    ASSUME HeldInv, NEW x \in Senders, sender[x].phase \in {"opening", "asking"},
           NEW s, s = sender[x].slot
    PROVE  /\ s \in Slots /\ slot[s] \in SlotRecords /\ slot[s].trying = x
           /\ slot[s].state \in {"connecting", "dead"} /\ slot[s].idleTimer = FALSE
           /\ slot[s].state = "dead" => slot[s].sender = None
           /\ slot[s].state # "dead" => registry[slot[s].session] = s
           /\ sender[x] # NewSender /\ sender[x] \in SenderRecords
<1>0. TypeOK /\ SlotInv /\ SenderInv /\ RegistryInv BY DEF HeldInv
<1>1. s \in Slots /\ slot[s].trying = x BY <1>0 DEF SenderInv
<1>2. slot[s] \in SlotRecords /\ sender[x] \in SenderRecords BY <1>0, <1>1, Tables
<1>3. slot[s].state \in {"connecting", "dead"} BY <1>0, <1>1, Names DEF SlotInv
<1>4. slot[s].idleTimer = FALSE BY <1>0, <1>1, <1>2, <1>3 DEF SlotInv, SlotRecords
<1>5. sender[x] # NewSender BY News
<1> QED BY <1>0, <1>1, <1>2, <1>3, <1>4, <1>5 DEF SlotInv, RegistryInv, Alive

LEMMA AttemptFails ==
    ASSUME HeldInv, NEW x \in Senders, sender[x].phase \in {"opening", "asking"},
           NEW s, s = sender[x].slot,
           slot' = [slot EXCEPT ![s].trying = None,
                                ![s].state = IF slot[s].state = "dead" THEN "dead" ELSE "idle"],
           sender' = [sender EXCEPT ![x] = NewSender], chain' = Tail(chain),
           Answered(s, "rejected", None), UNCHANGED <<registry, closed, keyVars, forsaken>>,
           faults' \in 0 .. MaxFaults
    PROVE  HeldInv'
<1>0. TypeOK /\ SlotInv /\ SenderInv /\ HoldInv /\ ChainInv /\ CallerInv BY DEF HeldInv
<1>1. slot \in [Slots -> SlotRecords] /\ sender \in [Senders -> SenderRecords] BY <1>0, Tables
<1>2. /\ s \in Slots /\ slot[s] \in SlotRecords /\ slot[s].trying = x
      /\ slot[s].state \in {"connecting", "dead"} /\ slot[s].idleTimer = FALSE
      /\ slot[s].state = "dead" => slot[s].sender = None
  BY AttemptIs, ZenonT(30)
<1>3. PICK t : t = [slot[s] EXCEPT !.trying = None,
                                   !.state = IF slot[s].state = "dead" THEN "dead" ELSE "idle"]
  OBVIOUS
<1>4. /\ t \in SlotRecords /\ t.session = slot[s].session /\ t.active = slot[s].active
      /\ t.trying = None /\ t.sender = slot[s].sender /\ t.idleTimer = FALSE
      /\ t.state \in {"dead", "idle"} /\ (t.state = "dead" <=> slot[s].state = "dead")
  BY <1>2, <1>3 DEF SlotRecords
<1>5. slot' = [slot EXCEPT ![s] = t] BY <1>1, <1>2, <1>3
<1>6. /\ Answers
      /\ \A w \in Workers : worker'[w] = worker[w] \/ worker'[w].phase = "rejected"
  BY Names, AnsweredIs
<1>7. /\ slot' \in [Slots -> SlotRecords] /\ slot'[s] = t
      /\ \A d \in Slots \ {s} : slot'[d] = slot[d]
      /\ RegistryInv' /\ SlotInv' /\ CallerInv' /\ CountInv'
  BY <1>2, <1>4, <1>5, <1>6, OneSlot
<1>8. sender' \in [Senders -> SenderRecords] /\ sender'[x] = NewSender
      /\ \A y \in Senders \ {x} : sender'[y] = sender[y]
  BY <1>1, News
<1>9. chain' \in Seq(Slots) /\ ChainInv'
  <2>1. slot[s].trying \in Senders /\ slot'[s].trying = None BY <1>2, <1>4, <1>7
  <2>2. \A d \in Slots \ {s} : slot'[d].trying = slot[d].trying BY <1>7
  <2> QED BY <1>0, <1>2, <2>1, <2>2, ChainPops
<1>10. TypeOK'
  <2>1. worker' \in [Workers -> CallerRecords] BY <1>6 DEF Answers
  <2> QED BY <1>0, <1>7, <1>8, <1>9, <2>1, Tables
          DEF TypeOK, SlotRecords, SenderRecords, CallerRecords, keyVars
<1>11. \A y \in Senders \ {x} : slot[sender[y].slot].trying = y => sender[y].slot # s
  BY <1>2
<1>12. SenderInv'
  <2>1. \A y \in Senders : sender'[y].phase \in {"opening", "asking"} =>
           slot'[sender[y].slot].trying = slot[sender[y].slot].trying
    <3> SUFFICES ASSUME NEW y \in Senders, sender'[y].phase \in {"opening", "asking"}
                 PROVE  slot'[sender[y].slot].trying = slot[sender[y].slot].trying
      OBVIOUS
    <3>1. y # x /\ sender'[y] = sender[y] BY <1>8, News
    <3>2. sender[y].slot \in Slots /\ slot[sender[y].slot].trying = y BY <1>0, <3>1 DEF SenderInv
    <3> QED BY <1>7, <1>11, <3>1, <3>2
  <2>2. \A d \in Slots : /\ slot'[d].session = slot[d].session
                         /\ slot[d].state # "none" => slot'[d].state # "none"
    BY <1>4, <1>7
  <2> QED BY <1>8, <2>1, <2>2, SendersStay
<1>13. HoldInv'
  <2>1. ASSUME NEW d \in Slots, slot'[d].trying \in Senders
        PROVE  sender'[slot'[d].trying].slot = d /\ sender'[slot'[d].trying].phase \in {"opening", "asking"}
    <3>1. d # s BY <1>4, <1>7, <2>1, Names
    <3>2. slot'[d].trying = slot[d].trying BY <1>7, <3>1
    <3>3. slot[d].trying # x BY <1>0, <2>1, <3>1, <3>2 DEF HoldInv
    <3>4. PICK y : y = slot[d].trying OBVIOUS
    <3>5. y \in Senders /\ slot'[d].trying = y /\ y # x BY <2>1, <3>2, <3>3, <3>4
    <3>6. sender[y].slot = d /\ sender[y].phase \in {"opening", "asking"}
      BY <1>0, <3>4, <3>5 DEF HoldInv
    <3>7. sender'[y] = sender[y] BY <1>8, <3>5
    <3> QED BY <3>5, <3>6, <3>7
  <2>2. ASSUME NEW d \in Slots, slot'[d].sender \in Senders
        PROVE  sender'[slot'[d].sender].slot = d /\ sender'[slot'[d].sender].phase = "up"
    <3>1. slot'[d].sender = slot[d].sender BY <1>4, <1>7
    <3>2. PICK y : y = slot[d].sender OBVIOUS
    <3>3. y \in Senders /\ slot'[d].sender = y BY <2>2, <3>1, <3>2
    <3>4. sender[y].slot = d /\ sender[y].phase = "up" BY <1>0, <3>2, <3>3 DEF HoldInv
    <3>5. sender'[y] = sender[y] BY <1>8, <1>0, <3>3, <3>4 DEF HoldInv
    <3> QED BY <3>3, <3>4, <3>5
  <2> QED BY <2>1, <2>2 DEF HoldInv
<1>14. NoSenderLeaks'
  <2> SUFFICES ASSUME NEW y \in Senders, sender'[y] # NewSender, y \notin forsaken
               PROVE  \/ slot'[sender'[y].slot].trying = y
                      \/ /\ slot'[sender'[y].slot].sender = y
                         /\ registry[slot'[sender'[y].slot].session] = sender'[y].slot
    BY DEF NoSenderLeaks
  <2>1. y # x /\ sender'[y] = sender[y] BY <1>8
  <2>2. PICK d \in Slots : d = sender[y].slot BY <1>0, <2>1 DEF SenderInv
  <2>3. slot[d].trying = y \/ (slot[d].sender = y /\ registry[slot[d].session] = d)
    BY <2>1, <2>2 DEF HeldInv, NoSenderLeaks
  <2>4. slot'[d].session = slot[d].session /\ slot'[d].sender = slot[d].sender BY <1>4, <1>7
  <2>5. slot[d].trying = y => slot'[d].trying = y BY <1>2, <1>7, <2>1
  <2> QED BY <2>1, <2>2, <2>3, <2>4, <2>5
<1>15. UsedSenderStays'
  <2> SUFFICES ASSUME NEW w \in Workers, worker[w].phase \in {"served", "using"}, worker'[w] = worker[w]
               PROVE  \/ slot'[worker[w].slot].state = "dead"
                      \/ slot'[worker[w].slot].sender = worker[w].sender
                      \/ worker[w].sender \in forsaken
    BY <1>6 DEF UsedSenderStays
  <2>1. worker[w].slot \in Slots BY <1>0 DEF CallerInv
  <2> QED BY <1>4, <1>7, <2>1, ZenonT(30) DEF HeldInv, UsedSenderStays
<1> QED BY <1>7, <1>9, <1>10, <1>12, <1>13, <1>14, <1>15 DEF HeldInv

\* The slot takes the sender of the attempt, and forgets one it had.
LEMMA AttemptSucceeds ==
    ASSUME HeldInv, NEW x \in Senders, sender[x].phase = "asking",
           NEW s, s = sender[x].slot, slot[s].state # "dead", sender[x].link = "on",
           slot' = [slot EXCEPT ![s] = Armed([slot[s] EXCEPT !.state = "ready", !.sender = x, !.trying = None])],
           sender' = [sender EXCEPT ![x].phase = "up", ![x].authenticated = TRUE],
           forsaken' = forsaken \cup ({slot[s].sender} \ {None}), chain' = Tail(chain),
           Answered(s, "served", x), UNCHANGED <<registry, closed, keyVars, faults>>
    PROVE  HeldInv'
<1>0. TypeOK /\ SlotInv /\ SenderInv /\ HoldInv /\ ChainInv /\ CallerInv BY DEF HeldInv
<1>1. slot \in [Slots -> SlotRecords] /\ sender \in [Senders -> SenderRecords] /\ forsaken \subseteq Senders
  BY <1>0, Tables
<1>2. /\ s \in Slots /\ slot[s] \in SlotRecords /\ slot[s].trying = x
      /\ slot[s].state = "connecting" /\ slot[s].idleTimer = FALSE
      /\ registry[slot[s].session] = s /\ sender[x] \in SenderRecords
  BY AttemptIs
<1>3. PICK q : q = [slot[s] EXCEPT !.state = "ready", !.sender = x, !.trying = None] OBVIOUS
<1>4. /\ q \in SlotRecords /\ q.session = slot[s].session /\ q.active = slot[s].active
      /\ q.trying = None /\ q.sender = x /\ q.idleTimer = FALSE /\ q.state = "ready"
  BY <1>2, <1>3 DEF SlotRecords
<1>5. PICK t : t = Armed(q) OBVIOUS
<1>6. /\ t \in SlotRecords /\ t.session = slot[s].session /\ t.active = slot[s].active
      /\ t.trying = None /\ t.sender = x /\ t.state = "ready"
      /\ (t.idleTimer => t.active = 0)
  BY <1>4, <1>5 DEF SlotRecords, Armed
<1>7. slot' = [slot EXCEPT ![s] = t] BY <1>3, <1>5
<1>8. /\ Answers
      /\ \A w \in Workers : worker'[w] = worker[w] \/
            (worker[w].slot = s /\ worker'[w].phase = "served" /\ worker'[w].sender = x)
  BY Names, AnsweredIs
<1>9. /\ slot' \in [Slots -> SlotRecords] /\ slot'[s] = t
      /\ \A d \in Slots \ {s} : slot'[d] = slot[d]
      /\ RegistryInv' /\ SlotInv' /\ CallerInv' /\ CountInv'
  BY <1>2, <1>6, <1>7, <1>8, Names, OneSlot
<1>10. PICK r : r = [sender[x] EXCEPT !.phase = "up", !.authenticated = TRUE] OBVIOUS
<1>11. /\ r \in SenderRecords /\ r.slot = s /\ r.phase = "up" /\ r.link = sender[x].link
       /\ r.key = sender[x].key
  BY <1>2, <1>10 DEF SenderRecords
<1>12. sender' \in [Senders -> SenderRecords] /\ sender'[x] = r
       /\ \A y \in Senders \ {x} : sender'[y] = sender[y]
  BY <1>1, <1>10, <1>11
<1>13. chain' \in Seq(Slots) /\ ChainInv'
  <2>1. slot[s].trying \in Senders /\ slot'[s].trying = None BY <1>2, <1>6, <1>9
  <2>2. \A d \in Slots \ {s} : slot'[d].trying = slot[d].trying BY <1>9
  <2> QED BY <1>0, <1>2, <2>1, <2>2, ChainPops
<1>14. forsaken \subseteq forsaken' /\ forsaken' \subseteq Senders BY <1>1, <1>2 DEF SlotRecords
<1>15. TypeOK'
  <2>1. worker' \in [Workers -> CallerRecords] BY <1>8 DEF Answers
  <2> QED BY <1>0, <1>9, <1>12, <1>13, <1>14, <2>1, Tables
          DEF TypeOK, SlotRecords, SenderRecords, CallerRecords, keyVars
<1>16. SenderInv'
  <2>1. \A y \in Senders : sender'[y].phase \in {"opening", "asking"} =>
           slot'[sender[y].slot].trying = slot[sender[y].slot].trying
    <3> SUFFICES ASSUME NEW y \in Senders, sender'[y].phase \in {"opening", "asking"}
                 PROVE  slot'[sender[y].slot].trying = slot[sender[y].slot].trying
      OBVIOUS
    <3>1. y # x /\ sender'[y] = sender[y] BY <1>11, <1>12
    <3>2. sender[y].slot \in Slots /\ slot[sender[y].slot].trying = y BY <1>0, <3>1 DEF SenderInv
    <3> QED BY <1>2, <1>9, <3>1, <3>2
  <2>2. \A d \in Slots : /\ slot'[d].session = slot[d].session
                         /\ slot[d].state # "none" => slot'[d].state # "none"
    BY <1>6, <1>9
  <2>3. Ended(x, r) BY <1>11 DEF Ended
  <2> QED BY <1>12, <2>1, <2>2, <2>3, SendersStay
<1>17. HoldInv'
  <2>1. ASSUME NEW d \in Slots, slot'[d].trying \in Senders
        PROVE  sender'[slot'[d].trying].slot = d /\ sender'[slot'[d].trying].phase \in {"opening", "asking"}
    <3>1. d # s BY <1>6, <1>9, <2>1, Names
    <3>2. slot'[d].trying = slot[d].trying BY <1>9, <3>1
    <3>3. slot[d].trying # x BY <1>0, <2>1, <3>1, <3>2 DEF HoldInv
    <3>4. PICK y : y = slot[d].trying OBVIOUS
    <3>5. y \in Senders /\ slot'[d].trying = y /\ y # x BY <2>1, <3>2, <3>3, <3>4
    <3>6. sender[y].slot = d /\ sender[y].phase \in {"opening", "asking"}
      BY <1>0, <3>4, <3>5 DEF HoldInv
    <3>7. sender'[y] = sender[y] BY <1>12, <3>5
    <3> QED BY <3>5, <3>6, <3>7
  <2>2. ASSUME NEW d \in Slots, slot'[d].sender \in Senders
        PROVE  sender'[slot'[d].sender].slot = d /\ sender'[slot'[d].sender].phase = "up"
    <3>1. CASE d = s BY <1>6, <1>9, <1>11, <1>12, <3>1
    <3>2. CASE d # s
      <4>1. slot'[d].sender = slot[d].sender /\ slot[d].sender # x BY <1>0, <1>9, <2>2, <3>2 DEF HoldInv
      <4> QED BY <1>0, <1>12, <2>2, <4>1 DEF HoldInv
    <3> QED BY <3>1, <3>2
  <2> QED BY <2>1, <2>2 DEF HoldInv
<1>18. NoSenderLeaks'
  <2> SUFFICES ASSUME NEW y \in Senders, sender'[y] # NewSender, y \notin forsaken'
               PROVE  \/ slot'[sender'[y].slot].trying = y
                      \/ /\ slot'[sender'[y].slot].sender = y
                         /\ registry[slot'[sender'[y].slot].session] = sender'[y].slot
    BY DEF NoSenderLeaks
  <2>1. CASE y = x
    <3>1. sender'[y].slot = s BY <1>11, <1>12, <2>1
    <3>2. slot'[s].sender = y /\ slot'[s].session = slot[s].session BY <1>6, <1>9, <2>1
    <3> QED BY <1>2, <3>1, <3>2
  <2>2. CASE y # x
    <3>1. sender'[y] = sender[y] /\ y \notin forsaken /\ y # slot[s].sender BY <1>12, <1>14, <2>2, Names
    <3>2. PICK d \in Slots : d = sender[y].slot BY <1>0, <3>1 DEF SenderInv
    <3>3. slot[d].trying = y \/ (slot[d].sender = y /\ registry[slot[d].session] = d)
      BY <3>1, <3>2 DEF HeldInv, NoSenderLeaks
    <3>4. d # s BY <1>2, <2>2, <3>1, <3>3
    <3> QED BY <1>9, <3>1, <3>2, <3>3, <3>4
  <2> QED BY <2>1, <2>2
<1>19. UsedSenderStays'
  <2> SUFFICES ASSUME NEW w \in Workers, worker'[w].phase \in {"served", "using"}
               PROVE  \/ slot'[worker'[w].slot].state = "dead"
                      \/ slot'[worker'[w].slot].sender = worker'[w].sender
                      \/ worker'[w].sender \in forsaken'
    BY DEF UsedSenderStays
  <2>1. CASE worker'[w] = worker[w]
    <3>1. worker[w].slot \in Slots /\ worker[w].sender # None BY <1>0, <2>1 DEF CallerInv
    <3>2. \/ slot[worker[w].slot].state = "dead" \/ slot[worker[w].slot].sender = worker[w].sender
          \/ worker[w].sender \in forsaken
      BY <2>1 DEF HeldInv, UsedSenderStays
    <3>3. CASE worker[w].slot = s BY <1>14, <2>1, <3>1, <3>2, <3>3
    <3>4. CASE worker[w].slot # s BY <1>9, <1>14, <2>1, <3>1, <3>2, <3>4
    <3> QED BY <3>3, <3>4
  <2>2. CASE worker[w].slot = s /\ worker'[w].sender = x /\ worker'[w] # worker[w]
    <3>1. worker'[w].slot = s BY <1>8, <2>2 DEF Answers
    <3> QED BY <1>6, <1>9, <2>2, <3>1
  <2> QED BY <1>8, <2>1, <2>2
<1> QED BY <1>9, <1>13, <1>15, <1>16, <1>17, <1>18, <1>19 DEF HeldInv

LEMMA ConnectedKeeps ==
    ASSUME HeldInv, NEW x \in Senders, Connected(x)
    PROVE  HeldInv'
<1>1. PICK s : s = sender[x].slot OBVIOUS
<1>2. sender[x].phase = "asking" /\ sender[x].link = "on" /\ chain' = Tail(chain)
      /\ UNCHANGED <<registry, closed, keyVars, faults>>
  BY DEF Connected
<1>3. s \in Slots /\ slot[s] \in SlotRecords BY <1>1, <1>2, AttemptIs
<1>4. faults' \in 0 .. MaxFaults BY <1>2, Tables DEF HeldInv
<1>5. slot \in [Slots -> SlotRecords] /\ sender \in [Senders -> SenderRecords] BY Tables DEF HeldInv
<1>6. CASE slot[s].state = "dead"
  <2>1. slot' = [slot EXCEPT ![s].trying = None] /\ Dropped({x}) /\ Answered(s, "rejected", None)
    BY <1>1, <1>6 DEF Connected
  <2>2. slot' = [slot EXCEPT ![s].trying = None,
                             ![s].state = IF slot[s].state = "dead" THEN "dead" ELSE "idle"]
    <3>1. [slot[s] EXCEPT !.trying = None] =
             [slot[s] EXCEPT !.trying = None, !.state = IF slot[s].state = "dead" THEN "dead" ELSE "idle"]
      BY <1>3, <1>6 DEF SlotRecords
    <3> QED BY <1>3, <1>5, <2>1, <3>1
  <2>3. Online(x) BY <1>2 DEF Online
  <2>4. sender' = [sender EXCEPT ![x] = NewSender] /\ forsaken' = forsaken
    BY <1>5, <2>1, <2>3 DEF Dropped
  <2> QED BY <1>1, <1>2, <1>4, <2>1, <2>2, <2>4, AttemptFails
<1>7. CASE slot[s].state # "dead"
  <2>1. /\ slot' = [slot EXCEPT ![s] = Armed([slot[s] EXCEPT !.state = "ready", !.sender = x, !.trying = None])]
        /\ sender' = [sender EXCEPT ![x].phase = "up", ![x].authenticated = TRUE]
        /\ forsaken' = forsaken \cup ({slot[s].sender} \ {None}) /\ Answered(s, "served", x)
    BY <1>1, <1>7 DEF Connected
  <2> QED BY <1>1, <1>2, <1>7, <2>1, AttemptSucceeds
<1> QED BY <1>6, <1>7

LEMMA ExportKeeps ==
    ASSUME HeldInv, NEW x \in Senders, ExportFails(x)
    PROVE  HeldInv'
<1>1. PICK s : s = sender[x].slot OBVIOUS
<1>2. sender[x].phase = "opening" /\ sender[x].link = "off" /\ Fault
      /\ UNCHANGED <<registry, closed, keyVars, forsaken>>
  BY DEF ExportFails
<1>3. s \in Slots /\ slot[s] \in SlotRecords /\ sender[x] \in SenderRecords BY <1>1, <1>2, AttemptIs
<1>4. faults' \in 0 .. MaxFaults BY <1>2, FaultCounts DEF HeldInv
<1>5. slot \in [Slots -> SlotRecords] /\ sender \in [Senders -> SenderRecords] BY Tables DEF HeldInv
<1>6. CASE sender[x].again
  <2>1. AttemptOver(x) /\ sender' = [sender EXCEPT ![x] = NewSender] BY <1>6 DEF ExportFails
  <2>2. slot' = [slot EXCEPT ![s].trying = None,
                             ![s].state = IF slot[s].state = "dead" THEN "dead" ELSE "idle"]
        /\ chain' = Tail(chain) /\ Answered(s, "rejected", None)
    BY <1>1, <1>3, <1>5, <2>1 DEF AttemptOver, SlotRecords
  <2> QED BY <1>1, <1>2, <1>4, <2>1, <2>2, AttemptFails
<1>7. CASE ~sender[x].again
  <2>1. sender' = [sender EXCEPT ![x].again = TRUE] /\ UNCHANGED <<slot, chain, worker>>
    BY <1>7 DEF ExportFails
  <2>2. PICK r : r = [sender[x] EXCEPT !.again = TRUE] OBVIOUS
  <2>3. r \in SenderRecords /\ r.slot = sender[x].slot /\ r.phase = "opening" /\ r.link = "off"
    BY <1>2, <1>3, <2>2 DEF SenderRecords
  <2>4. Follows(x, r) BY <1>2, <2>3 DEF Follows
  <2>5. sender' = [sender EXCEPT ![x] = r] BY <1>5, <2>1, <2>2
  <2>6. KeysTyped BY <1>2, <1>4, Tables DEF KeysTyped, keyVars, HeldInv
  <2> QED BY <1>2, <2>1, <2>4, <2>5, <2>6, SenderMoves
<1> QED BY <1>6, <1>7

-----------------------------------------------------------------------------
(* A caller asks *)

\* The slot a caller is given: the registered one, or one that nobody holds.
LEMMA GivenSlot ==
    ASSUME HeldInv, NEW k \in Sessions, NEW s \in Slots, GetSession(k, s)
    PROVE  /\ registry[k] # None => /\ registry[k] = s /\ Alive(s) /\ slot[s].session = k
           /\ registry[k] = None =>
                 /\ ~Alive(s) /\ slot[s].trying = None
                 /\ \A y \in Senders : sender[y].slot # s
                 /\ \A w \in Workers : worker[w].slot # s
           /\ \A j \in Sessions \ {k} : registry[j] # s
<1>0. SlotInv /\ SenderInv /\ CallerInv /\ RegistryInv BY DEF HeldInv
<1>1. CASE registry[k] # None
  <2>1. registry[k] = s BY <1>1 DEF GetSession
  <2>2. Alive(s) /\ slot[s].session = k BY <1>1, <2>1, Registered
  <2>3. \A j \in Sessions \ {k} : registry[j] = s => slot[s].session = j
    BY <1>0, Names DEF RegistryInv
  <2> QED BY <1>1, <2>1, <2>2, <2>3
<1>2. CASE registry[k] = None
  <2>1. s \in FreeSlots BY <1>2, Made DEF GetSession
  <2>2. ~Alive(s) /\ slot[s].trying = None /\ (\A y \in Senders : sender[y].slot # s)
        /\ \A w \in Workers : worker[w].slot # s
    <3>1. CASE slot[s].state = "none"
      <4>1. slot[s].trying = None BY <1>0, <3>1, News DEF SlotInv
      <4>2. \A y \in Senders : sender[y].slot # s
        <5>1. \A y \in Senders : sender[y].phase = "none" => sender[y].slot = None
          BY <1>0 DEF SenderInv, NewSender
        <5> QED BY <1>0, <3>1, <5>1, Names DEF SenderInv
      <4>3. \A w \in Workers : worker[w].slot # s BY <1>0, <3>1, News, Names DEF CallerInv
      <4> QED BY <3>1, <4>1, <4>2, <4>3 DEF Alive
    <3>2. CASE slot[s].state # "none" BY <2>1, <3>2 DEF FreeSlots, Alive
    <3> QED BY <3>1, <3>2
  <2>3. \A j \in Sessions : registry[j] # s BY <2>2, Registered, Names
  <2> QED BY <1>2, <2>2, <2>3
<1> QED BY <1>1, <1>2

LEMMA AskKeeps ==
    ASSUME HeldInv, NEW w \in Workers, NEW k \in Sessions, NEW s \in Slots, Ask(w, k, s)
    PROVE  HeldInv'
<1>0. TypeOK /\ SlotInv /\ SenderInv /\ HoldInv /\ ChainInv /\ CallerInv /\ RegistryInv /\ CountInv
  BY DEF HeldInv
<1>1. slot \in [Slots -> SlotRecords] /\ worker \in [Workers -> CallerRecords] /\ chain \in Seq(Slots)
      /\ registry \in [Sessions -> Slots \cup {None}] /\ slot[s] \in SlotRecords
  BY <1>0, Tables
<1>2. /\ registry[k] # None => /\ registry[k] = s /\ Alive(s) /\ slot[s].session = k
      /\ registry[k] = None =>
            /\ ~Alive(s) /\ slot[s].trying = None
            /\ \A y \in Senders : sender[y].slot # s
            /\ \A v \in Workers : worker[v].slot # s
      /\ \A j \in Sessions \ {k} : registry[j] # s
  BY GivenSlot DEF Ask
<1>3. PICK t : t = IF registry[k] = None THEN [NewSlot EXCEPT !.session = k, !.state = "idle"]
                   ELSE slot[s]
  OBVIOUS
<1>4. /\ t \in SlotRecords /\ t.session = k /\ t.state \notin {"none", "dead"}
      /\ t.trying = slot[s].trying
      /\ t.active = IF registry[k] = None THEN 0 ELSE slot[s].active
      /\ registry[k] # None => t = slot[s]
      /\ registry[k] = None => t.sender = None /\ t.state = "idle" /\ ~t.idleTimer
  <2>1. CASE registry[k] = None BY <1>2, <1>3, <2>1, Bounds DEF NewSlot, SlotRecords
  <2>2. CASE registry[k] # None BY <1>1, <1>2, <1>3, <2>2 DEF Alive
  <2> QED BY <2>1, <2>2
<1>5. /\ t.state = "ready" => t.sender # None
      /\ t.idleTimer => t.state = "ready" /\ t.active = 0
      /\ t.trying # None => t.state \in {"connecting", "dead"}
  BY <1>0, <1>2, <1>4 DEF SlotInv
<1>6. PICK u : u = IF k \in Media THEN Enter(t) ELSE t OBVIOUS
<1>7. /\ u \in SlotRecords /\ u.session = k /\ u.state = t.state /\ u.trying = t.trying
      /\ u.sender = t.sender /\ u.active = (IF k \in Media THEN t.active + 1 ELSE t.active)
      /\ u.idleTimer => k \notin Media /\ t.idleTimer
  <2>1. CASE k \in Media
    <3>1. PICK n \in Nat : n = t.active + 1 BY <1>4 DEF SlotRecords
    <3>2. u = [t EXCEPT !.active = n, !.idleTimer = FALSE] BY <1>6, <2>1, <3>1 DEF Enter
    <3> QED BY <1>4, <2>1, <3>1, <3>2 DEF SlotRecords
  <2>2. CASE k \notin Media BY <1>4, <1>6, <2>2
  <2> QED BY <2>1, <2>2
<1>8. PICK ready \in BOOLEAN : ready <=> (u.state = "ready" /\ Online(u.sender)) OBVIOUS
<1>9. PICK v : v = IF ready THEN u ELSE TryToConnect(u) OBVIOUS
<1>10. /\ v \in SlotRecords /\ v.session = k /\ v.sender = t.sender /\ v.active = u.active
       /\ v.state \notin {"none", "dead"}
       /\ slot[s].trying # None => v.trying = slot[s].trying
       /\ slot[s].trying = None => v.trying = IF ready THEN None ELSE Queued
       /\ v.state = "ready" => v.sender # None
       /\ v.idleTimer => v.state = "ready" /\ v.active = 0
       /\ v.trying # None => v.state = "connecting"
  <2>1. CASE ready \/ u.trying # None
    <3>1. v = u BY <1>9, <2>1 DEF TryToConnect
    <3>2. ready => u.trying = None BY <1>5, <1>7, <1>8
    <3> QED BY <1>4, <1>5, <1>7, <2>1, <3>1, <3>2
  <2>2. CASE ~ready /\ u.trying = None
    <3>1. v = [u EXCEPT !.state = "connecting", !.idleTimer = FALSE, !.trying = Queued]
      BY <1>9, <2>2 DEF TryToConnect
    <3>2. /\ v \in SlotRecords /\ v.session = u.session /\ v.sender = u.sender /\ v.active = u.active
          /\ v.state = "connecting" /\ v.trying = Queued /\ v.idleTimer = FALSE
      BY <1>7, <3>1 DEF SlotRecords
    <3> QED BY <1>4, <1>7, <2>2, <3>2
  <2> QED BY <2>1, <2>2
<1>11. PICK c : c = [phase |-> IF ready THEN "served" ELSE "waiting", slot |-> s,
                     sender |-> IF ready THEN u.sender ELSE None]
  OBVIOUS
<1>12. /\ registry' = [registry EXCEPT ![k] = s] /\ slot' = [slot EXCEPT ![s] = v]
       /\ chain' = (IF ready \/ u.trying # None THEN chain ELSE Append(chain, s))
       /\ worker' = [worker EXCEPT ![w] = c] /\ worker[w].phase = "off"
       /\ UNCHANGED <<closed, sender, keyVars, forsaken, faults>>
  BY <1>3, <1>6, <1>8, <1>9, <1>11 DEF Ask
<1>13. /\ c \in CallerRecords /\ c.slot = s /\ c.phase \in {"served", "waiting"}
       /\ c.phase = "served" => c.sender = v.sender /\ c.sender # None
  BY <1>5, <1>7, <1>8, <1>10, <1>11 DEF CallerRecords, SlotRecords
<1>14. /\ slot' \in [Slots -> SlotRecords] /\ slot'[s] = v /\ \A d \in Slots \ {s} : slot'[d] = slot[d]
       /\ worker' \in [Workers -> CallerRecords] /\ worker'[w] = c
       /\ \A i \in Workers \ {w} : worker'[i] = worker[i]
       /\ registry' \in [Sessions -> Slots \cup {None}] /\ registry'[k] = s
       /\ \A j \in Sessions \ {k} : registry'[j] = registry[j]
  BY <1>1, <1>10, <1>12, <1>13
<1>15. worker[w].slot = None BY <1>0, <1>12, News DEF CallerInv
<1>16. chain' \in Seq(Slots) /\ ChainInv'
  <2>1. CASE ready \/ u.trying # None
    <3>1. chain' = chain BY <1>12, <2>1
    <3>2. \A d \in Slots : slot'[d].trying # None => slot[d].trying = slot'[d].trying
      BY <1>4, <1>7, <1>10, <1>14, <2>1
    <3> QED BY <1>0, <1>1, <3>1, <3>2, Names DEF ChainInv
  <2>2. CASE ~ready /\ u.trying = None
    <3>1. chain' = Append(chain, s) BY <1>12, <2>2
    <3>2. chain' \in Seq(Slots) /\ Len(chain') = Len(chain) + 1 /\ chain'[Len(chain) + 1] = s
          /\ \A i \in 1 .. Len(chain) : chain'[i] = chain[i]
      BY <1>1, <3>1
    <3>3. DOMAIN chain = 1 .. Len(chain) /\ DOMAIN chain' = 1 .. Len(chain) + 1 /\ Len(chain) \in Nat
      BY <1>1, <3>2
    <3>4. \A i \in DOMAIN chain : i \in DOMAIN chain' /\ chain'[i] = chain[i] BY <3>2, <3>3
    <3>5. Len(chain) + 1 \in DOMAIN chain' /\ chain'[Len(chain) + 1] = s BY <3>2, <3>3
    <3>6. chain # <<>> => chain' # <<>> /\ Head(chain') = Head(chain)
      BY <1>1, <3>1, <3>2, <3>3
    <3>7. v.trying = Queued BY <1>4, <1>7, <1>10, <2>2
    <3>8. \A d \in Slots : slot'[d].trying # None =>
             \E i \in DOMAIN chain' : chain'[i] = d
      BY <1>0, <1>14, <3>4, <3>5 DEF ChainInv
    <3>9. \A d \in Slots : slot'[d].trying \in Senders => chain' # <<>> /\ Head(chain') = d
      BY <1>0, <1>14, <3>6, <3>7, Names DEF ChainInv
    <3> QED BY <3>2, <3>8, <3>9 DEF ChainInv
  <2> QED BY <2>1, <2>2
<1>17. TypeOK' BY <1>0, <1>12, <1>14, <1>16, Tables
               DEF TypeOK, SlotRecords, CallerRecords, keyVars
<1>18. RegistryInv'
  <2>1. ASSUME NEW j \in Sessions, registry'[j] # None
        PROVE  slot'[registry'[j]].session = j /\ slot'[registry'[j]].state \notin {"none", "dead"}
    <3>1. CASE j = k BY <1>10, <1>14, <3>1
    <3>2. CASE j # k
      <4>1. registry[j] # None /\ registry[j] # s /\ registry'[j] = registry[j] BY <1>2, <1>14, <2>1, <3>2
      <4>2. registry[j] \in Slots /\ Alive(registry[j]) /\ slot[registry[j]].session = j
        BY <4>1, Registered
      <4> QED BY <1>14, <4>1, <4>2 DEF Alive
    <3> QED BY <3>1, <3>2
  <2>2. ASSUME NEW d \in Slots, slot'[d].state \notin {"none", "dead"}
        PROVE  registry'[slot'[d].session] = d
    <3>1. CASE d = s BY <1>10, <1>14, <3>1
    <3>2. CASE d # s
      <4>1. slot'[d] = slot[d] /\ Alive(d) BY <1>14, <2>2, <3>2 DEF Alive
      <4>2. slot[d].session \in Sessions /\ registry[slot[d].session] = d
        BY <1>0, <4>1 DEF SlotInv, RegistryInv, Alive
      <4>3. slot[d].session # k BY <1>2, <3>2, <4>2, Names
      <4> QED BY <1>14, <4>1, <4>2, <4>3
    <3> QED BY <3>1, <3>2
  <2> QED BY <2>1, <2>2 DEF RegistryInv, Alive
<1>19. SlotInv' BY <1>0, <1>10, <1>14 DEF SlotInv
<1>20. \A y \in Senders : sender[y].phase # "none" =>
          /\ sender[y].slot \in Slots
          /\ slot'[sender[y].slot].session = slot[sender[y].slot].session
          /\ slot'[sender[y].slot].state # "none"
          /\ slot'[sender[y].slot].sender = slot[sender[y].slot].sender
          /\ slot[sender[y].slot].trying # None =>
                slot'[sender[y].slot].trying = slot[sender[y].slot].trying
  <2> SUFFICES ASSUME NEW y \in Senders, sender[y].phase # "none", NEW d \in Slots, d = sender[y].slot
               PROVE  /\ slot'[d].session = slot[d].session /\ slot'[d].state # "none"
                      /\ slot'[d].sender = slot[d].sender
                      /\ slot[d].trying # None => slot'[d].trying = slot[d].trying
    BY <1>0 DEF SenderInv
  <2>1. CASE d # s BY <1>0, <1>14, <2>1 DEF SenderInv
  <2>2. CASE d = s
    <3>1. registry[k] # None BY <1>2, <2>2
    <3> QED BY <1>2, <1>4, <1>10, <1>14, <2>2, <3>1
  <2> QED BY <2>1, <2>2
<1>21. SenderInv'
  <2>1. \A y \in Senders : sender'[y] = sender[y] BY <1>12
  <2> SUFFICES ASSUME NEW y \in Senders
               PROVE  /\ sender[y].phase = "none" => sender[y] = NewSender
                      /\ sender[y].phase # "none" =>
                            sender[y].slot \in Slots /\ slot'[sender[y].slot].state # "none"
                      /\ sender[y].phase \in {"opening", "asking"} => slot'[sender[y].slot].trying = y
                      /\ sender[y].phase = "opening" => sender[y].link # "on"
                      /\ sender[y].link = "keying" => sender[y].key = 0
                      /\ sender[y].link \in {"keying", "binding"} => OfMedia(sender[y].slot)'
                      /\ Online(y)' /\ OfMedia(sender[y].slot)' => sender[y].key \in 1 .. NumSenders + 1
    BY <1>12 DEF SenderInv
  <2>2. Online(y)' <=> Online(y) BY <1>12 DEF Online
  <2>3. CASE sender[y].phase = "none" BY <1>0, <2>2, <2>3, News DEF SenderInv, Online
  <2>4. CASE sender[y].phase # "none"
    <3>1. OfMedia(sender[y].slot)' <=> OfMedia(sender[y].slot) BY <1>12, <1>20, <2>4 DEF OfMedia
    <3>2. sender[y].phase \in {"opening", "asking"} => slot[sender[y].slot].trying = y BY <1>0 DEF SenderInv
    <3>3. sender[y].phase \in {"opening", "asking"} => slot'[sender[y].slot].trying = y
      BY <1>20, <2>4, <3>2, Names
    <3> QED BY <1>0, <1>20, <2>2, <2>4, <3>1, <3>3 DEF SenderInv
  <2> QED BY <2>3, <2>4
<1>22. HoldInv'
  <2>1. ASSUME NEW d \in Slots, slot'[d].trying \in Senders PROVE slot[d].trying = slot'[d].trying
    BY <1>10, <1>14, <2>1, Names
  <2>2. ASSUME NEW d \in Slots, slot'[d].sender \in Senders PROVE slot[d].sender = slot'[d].sender
    BY <1>4, <1>10, <1>14, <2>2, Names
  <2> QED BY <1>0, <1>12, <2>1, <2>2 DEF HoldInv
<1>23. CallerInv'
  <2> SUFFICES ASSUME NEW i \in Workers
               PROVE  /\ worker'[i].phase = "off" => worker'[i] = NoWorker
                      /\ worker'[i].phase # "off" =>
                            worker'[i].slot \in Slots /\ slot'[worker'[i].slot].state # "none"
                      /\ worker'[i].phase \in {"served", "using"} => worker'[i].sender # None
    BY DEF CallerInv
  <2>1. CASE i = w BY <1>10, <1>13, <1>14, <2>1
  <2>2. CASE i # w BY <1>0, <1>10, <1>14, <2>2 DEF CallerInv
  <2> QED BY <2>1, <2>2
<1>24. CountInv'
  <2>1. ASSUME NEW d \in Slots, d # s PROVE Users(d)' = Users(d)
    <3>1. OfMedia(d)' <=> OfMedia(d) BY <1>14, <2>1 DEF OfMedia
    <3> QED BY <1>13, <1>14, <1>15, <2>1, <3>1, Names DEF Users
  <2>2. OfMedia(s)' <=> k \in Media BY <1>10, <1>14 DEF OfMedia
  <2>3. PICK U : U = IF registry[k] = None THEN {} ELSE Users(s) OBVIOUS
  <2>4. IsFiniteSet(U) /\ t.active = Cardinality(U) /\ w \notin U
    BY <1>0, <1>4, <1>15, <2>3, FS_EmptySet, Names DEF CountInv, Users
  <2>5. Users(s)' = IF k \in Media THEN U \cup {w} ELSE U
    <3>1. CASE registry[k] = None
      <4>1. \A i \in Workers \ {w} : worker'[i].slot # s BY <1>2, <1>14, <3>1
      <4> QED BY <1>13, <1>14, <2>2, <2>3, <3>1, <4>1 DEF Users
    <3>2. CASE registry[k] # None
      <4>1. OfMedia(s) <=> k \in Media BY <1>2, <3>2 DEF OfMedia
      <4> QED BY <1>13, <1>14, <1>15, <2>2, <2>3, <3>2, <4>1, Names DEF Users
    <3> QED BY <3>1, <3>2
  <2>6. IsFiniteSet(Users(s)') /\ v.active = Cardinality(Users(s)')
    <3>1. IsFiniteSet(U \cup {w}) /\ Cardinality(U \cup {w}) = Cardinality(U) + 1
      BY <2>4, FS_AddElement
    <3>2. v.active = IF k \in Media THEN t.active + 1 ELSE t.active BY <1>7, <1>10
    <3> QED BY <2>4, <2>5, <3>1, <3>2
  <2>7. ASSUME NEW d \in Slots PROVE IsFiniteSet(Users(d)') /\ slot'[d].active = Cardinality(Users(d)')
    <3>1. CASE d = s BY <1>14, <2>6, <3>1
    <3>2. CASE d # s BY <1>0, <1>14, <2>1, <3>2 DEF CountInv
    <3> QED BY <3>1, <3>2
  <2> QED BY <2>7 DEF CountInv
<1>25. NoSenderLeaks'
  <2> SUFFICES ASSUME NEW y \in Senders, sender[y] # NewSender, y \notin forsaken
               PROVE  \/ slot'[sender[y].slot].trying = y
                      \/ /\ slot'[sender[y].slot].sender = y
                         /\ registry'[slot'[sender[y].slot].session] = sender[y].slot
    BY <1>12 DEF NoSenderLeaks
  <2>1. sender[y].phase # "none" BY <1>0 DEF SenderInv
  <2>2. PICK d \in Slots : d = sender[y].slot BY <1>20, <2>1
  <2>3. slot[d].trying = y \/ (slot[d].sender = y /\ registry[slot[d].session] = d)
    BY <2>2 DEF HeldInv, NoSenderLeaks
  <2>4. CASE slot[d].trying = y BY <1>20, <2>1, <2>2, <2>4, Names
  <2>5. CASE slot[d].sender = y /\ registry[slot[d].session] = d
    <3>1. slot[d].session \in Sessions BY <1>0, <2>1, <2>2 DEF SenderInv, SlotInv
    <3>2. registry'[slot[d].session] = d BY <1>2, <1>14, <2>5, <3>1, Names
    <3> QED BY <1>20, <2>1, <2>2, <2>5, <3>2
  <2> QED BY <2>3, <2>4, <2>5
<1>26. UsedSenderStays'
  <2> SUFFICES ASSUME NEW i \in Workers, worker'[i].phase \in {"served", "using"}
               PROVE  \/ slot'[worker'[i].slot].state = "dead"
                      \/ slot'[worker'[i].slot].sender = worker'[i].sender
                      \/ worker'[i].sender \in forsaken
    BY <1>12 DEF UsedSenderStays
  <2>1. CASE i = w BY <1>13, <1>14, <2>1
  <2>2. CASE i # w
    <3>1. worker'[i] = worker[i] /\ worker[i].slot \in Slots BY <1>0, <1>14, <2>2 DEF CallerInv
    <3>2. worker[i].slot = s => registry[k] # None BY <1>2
    <3>3. worker[i].slot = s => Alive(s) /\ v.sender = slot[s].sender BY <1>2, <1>4, <1>10, <3>2
    <3> QED BY <1>14, <2>2, <3>1, <3>3 DEF HeldInv, UsedSenderStays, Alive
  <2> QED BY <2>1, <2>2
<1> QED BY <1>16, <1>17, <1>18, <1>19, <1>21, <1>22, <1>23, <1>24, <1>25, <1>26 DEF HeldInv

-----------------------------------------------------------------------------
(* Senders and slots account for each other *)

LEMMA HeldStep == HeldInv /\ [Next]_vars => HeldInv'
<1> SUFFICES ASSUME HeldInv, [Next]_vars PROVE HeldInv' OBVIOUS
<1>0. TypeOK BY DEF HeldInv
<1>1. CASE GatedConnect BY <1>1, GatedKeeps
<1>2. CASE \E closes \in BOOLEAN : Purge(closes) BY <1>2, PurgeKeeps
<1>3. CASE \E s \in Slots : IdleTick(s) BY <1>3, IdleKeeps
<1>4. ASSUME NEW x \in Senders, SenderStep(x) \/ Rekey(x) \/ SenderFails(x) PROVE HeldInv'
  <2>1. CASE Connect(x) \/ MakeKey(x) \/ Bind(x) \/ Rekey(x) \/ BindFails(x) \/ InitFails(x) \/ Disconnect(x)
    BY <2>1, LinkSteps
  <2>2. CASE Connected(x) BY <2>2, ConnectedKeeps
  <2>3. CASE ExportFails(x) BY <2>3, ExportKeeps
  <2>4. CASE Stale(x)
    <3>1. Online(x) /\ Break(x) /\ (sender[x].phase = "asking" \/ sender[x].link = "binding")
          /\ faults' = faults
      BY <2>4 DEF Stale
    <3>2. faults' \in 0 .. MaxFaults BY <1>0, <3>1, Tables
    <3> QED BY <3>1, <3>2, BreakKeeps
  <2>5. CASE SenderBreaks(x)
    <3>1. Online(x) /\ Break(x) /\ sender[x].phase \in {"opening", "asking", "up"} /\ Fault
      BY <2>5 DEF SenderBreaks
    <3>2. faults' \in 0 .. MaxFaults BY <1>0, <3>1, FaultCounts
    <3> QED BY <3>1, <3>2, BreakKeeps
  <2> QED BY <1>4, <2>1, <2>2, <2>3, <2>4, <2>5 DEF SenderStep, SenderFails
<1>5. ASSUME NEW w \in Workers, WorkerStep(w) \/ \E k \in Sessions, s \in Slots : Ask(w, k, s)
      PROVE  HeldInv'
  BY <1>5, CallerSteps, AskKeeps
<1>6. CASE UNCHANGED vars
  <2>1. UNCHANGED <<registry, closed, slot, chain, sender, keyVars, worker, forsaken, faults>>
    BY <1>6 DEF vars
  <2>2. TypeOK' BY <1>0, <2>1 DEF TypeOK, keyVars
  <2>3. RegistryInv' /\ SlotInv' /\ SenderInv' /\ HoldInv' /\ ChainInv' /\ CallerInv'
    BY <2>1 DEF HeldInv, RegistryInv, SlotInv, SenderInv, HoldInv, ChainInv, CallerInv, Alive, OfMedia, Online
  <2>4. CountInv' /\ NoSenderLeaks' /\ UsedSenderStays'
    BY <2>1 DEF HeldInv, CountInv, Users, OfMedia, NoSenderLeaks, UsedSenderStays
  <2> QED BY <2>2, <2>3, <2>4 DEF HeldInv
<1> QED BY <1>1, <1>2, <1>3, <1>4, <1>5, <1>6 DEF Next

LEMMA HeldInvariant == Spec => []HeldInv
<1>1. Init => HeldInv BY InitHeld
<1> QED BY <1>1, HeldStep, PTL DEF Spec

\* SenderSlot.ts, Network.ts: no sender leaks, none is taken from who uses it, and the
\* count of a slot is the number of its users, for any number of sessions, slots,
\* senders, callers and faults.
THEOREM SendersHeld == Spec => []SendersAreHeld
<1>1. HeldInv => SendersAreHeld
  <2> SUFFICES ASSUME HeldInv PROVE SendersAreHeld OBVIOUS
  <2>1. ASSUME NEW s \in Slots
        PROVE  slot[s].active = Cardinality(Users(s)) /\ (slot[s].idleTimer => Users(s) = {})
    <3>1. slot[s].active = Cardinality(Users(s)) /\ IsFiniteSet(Users(s)) BY DEF HeldInv, CountInv
    <3>2. slot[s].idleTimer => slot[s].active = 0 BY DEF HeldInv, SlotInv
    <3> QED BY <3>1, <3>2, FS_EmptySet
  <2>2. SlotsCount BY <2>1 DEF SlotsCount, Users
  <2> QED BY <2>2 DEF HeldInv, SendersAreHeld
<1> QED BY <1>1, HeldInvariant, PTL

-----------------------------------------------------------------------------
(* The temporary key of the media senders *)

\* The keys stay, and so does what a sender has, unless the sender is gone.
LEMMA KeysStay ==
    ASSUME KeyInv, UNCHANGED keyVars,
           \A y \in Senders :
              \/ sender'[y].phase = "none"
              \/ /\ sender[y].phase # "none"
                 /\ sender'[y].slot = sender[y].slot /\ sender'[y].key = sender[y].key
                 /\ slot'[sender[y].slot].session = slot[sender[y].slot].session
                 /\ slot'[sender[y].slot].state # "dead" => slot[sender[y].slot].state # "dead"
    PROVE  KeyInv'
<1>1. BoundInv' BY DEF KeyInv, BoundInv, BoundKeyIsBound, keyVars
<1>2. BadInv'
  <2>1. mediaKey' \notin badKeys' BY DEF KeyInv, BadInv, keyVars
  <2>2. ASSUME NEW y \in Senders, sender'[y].phase # "none", OfMedia(sender[y].slot)',
               slot'[sender'[y].slot].state # "dead"
        PROVE  sender'[y].key \notin badKeys'
    <3>1. OfMedia(sender[y].slot) BY <2>2 DEF OfMedia
    <3> QED BY <2>2, <3>1 DEF KeyInv, BadInv, keyVars
  <2> QED BY <2>1, <2>2 DEF BadInv
<1> QED BY <1>1, <1>2 DEF KeyInv

\* Callers, timers and attempts leave a slot its session.
LEMMA SessionStays ==
    ASSUME NEW t \in SlotRecords
    PROVE  /\ Enter(t).session = t.session /\ Enter(t).state = t.state
           /\ Leave(t).session = t.session /\ Leave(t).state = t.state
<1>1. PICK u : u = [t EXCEPT !.active = t.active - 1] OBVIOUS
<1>2. u.session = t.session /\ u.state = t.state /\ [u EXCEPT !.idleTimer = TRUE].session = t.session
      /\ [u EXCEPT !.idleTimer = TRUE].state = t.state
  BY <1>1 DEF SlotRecords
<1>3. Leave(t) = IF u.state = "ready" /\ u.active = 0 THEN [u EXCEPT !.idleTimer = TRUE] ELSE u
  BY <1>1 DEF Leave, Armed
<1>4. PICK v : v = [t EXCEPT !.active = t.active + 1, !.idleTimer = FALSE] OBVIOUS
<1>5. v.session = t.session /\ v.state = t.state BY <1>4 DEF SlotRecords
<1> QED BY <1>2, <1>3, <1>4, <1>5 DEF Enter

\* A slot that has a sender keeps its session, and does not come back to life.
LEMMA SlotsStay ==
    ASSUME HeldInv, HeldInv',
           \/ \E w \in Workers : WorkerStep(w) \/ \E k \in Sessions, s \in Slots : Ask(w, k, s)
           \/ \E s \in Slots : IdleTick(s)
           \/ \E closes \in BOOLEAN : Purge(closes)
           \/ \E x \in Senders : Connected(x) \/ ExportFails(x) \/ InitFails(x) \/ Disconnect(x),
           NEW y \in Senders, NEW d \in Slots, d = sender[y].slot
    PROVE  slot'[d].session = slot[d].session /\ (slot'[d].state # "dead" => slot[d].state # "dead")
<1>0. TypeOK /\ CallerInv BY DEF HeldInv
<1>1. slot \in [Slots -> SlotRecords] /\ slot[d] \in SlotRecords BY <1>0, Tables
<1>2. ASSUME NEW w \in Workers, WorkerStep(w)
      PROVE  slot'[d].session = slot[d].session /\ slot'[d].state = slot[d].state
  <2>1. PICK s : s = worker[w].slot OBVIOUS
  <2>2. \/ slot' = slot \/ slot' = [slot EXCEPT ![s] = Enter(slot[s])]
        \/ slot' = [slot EXCEPT ![s] = Leave(slot[s])]
    BY <1>2, <2>1 DEF WorkerStep, Serve, Reject, Release
  <2> QED BY <1>1, <2>2, SessionStays
<1>3. ASSUME NEW w \in Workers, NEW k \in Sessions, NEW s \in Slots, Ask(w, k, s)
      PROVE  slot'[d].session = slot[d].session /\ (slot'[d].state # "dead" => slot[d].state # "dead")
  <2>1. \A e \in Slots \ {s} : slot'[e] = slot[e] BY <1>1, <1>3 DEF Ask
  <2>2. ASSUME d = s PROVE slot'[s].session = slot[s].session /\ slot[s].state # "dead"
    <3>0. GetSession(k, s) BY <1>3 DEF Ask
    <3>1. registry[k] = s /\ Alive(s) /\ slot[s].session = k
      <4>1. registry[k] = None => \A z \in Senders : sender[z].slot # s BY <3>0, GivenSlot
      <4>2. registry[k] # None BY <2>2, <4>1
      <4>3. registry[k] # None => registry[k] = s /\ Alive(s) /\ slot[s].session = k
        BY <3>0, GivenSlot
      <4> QED BY <4>2, <4>3
    <3>2. registry'[k] = s BY <1>0, <1>3, Tables DEF Ask
    <3>3. slot'[s].session = k BY <3>2, Names DEF HeldInv, RegistryInv
    <3> QED BY <3>1, <3>3 DEF Alive
  <2> QED BY <2>1, <2>2
<1>4. ASSUME NEW s \in Slots, IdleTick(s)
      PROVE  slot'[d].session = slot[d].session /\ (slot'[d].state # "dead" => slot[d].state # "dead")
  <2>1. slot[s] \in SlotRecords BY <1>1
  <2>2. PICK t : t = slot'[s] OBVIOUS
  <2>3. /\ t = [slot[s] EXCEPT !.idleTimer = FALSE, !.state = "idle", !.sender = None]
           \/ t = [slot[s] EXCEPT !.idleTimer = FALSE]
        /\ \A e \in Slots \ {s} : slot'[e] = slot[e]
    BY <1>1, <1>4, <2>2 DEF IdleTick
  <2>4. slot[s].state = "ready" BY <1>4 DEF IdleTick, HeldInv, SlotInv
  <2>5. t.session = slot[s].session BY <2>1, <2>3 DEF SlotRecords
  <2> QED BY <2>2, <2>3, <2>4, <2>5
<1>5. ASSUME NEW closes \in BOOLEAN, Purge(closes)
      PROVE  slot'[d].session = slot[d].session /\ (slot'[d].state # "dead" => slot[d].state # "dead")
  <2>1. slot'[d] = slot[d] \/ slot'[d] = Dead(slot[d]) BY <1>5 DEF Purge
  <2> QED BY <1>1, <2>1, DeadIs
<1>6. ASSUME NEW x \in Senders, Connected(x)
      PROVE  slot'[d].session = slot[d].session /\ (slot'[d].state # "dead" => slot[d].state # "dead")
  <2>1. PICK s : s = sender[x].slot OBVIOUS
  <2>2. s \in Slots /\ slot[s] \in SlotRecords BY <1>6, <2>1, AttemptIs DEF Connected
  <2>3. CASE slot[s].state = "dead"
    <3>1. slot' = [slot EXCEPT ![s].trying = None] BY <1>6, <2>1, <2>3 DEF Connected
    <3>2. PICK t : t = [slot[s] EXCEPT !.trying = None] OBVIOUS
    <3>3. t.session = slot[s].session /\ t.state = slot[s].state BY <2>2, <3>2 DEF SlotRecords
    <3>4. slot' = [slot EXCEPT ![s] = t] BY <1>1, <2>2, <3>1, <3>2
    <3> QED BY <1>1, <2>2, <3>3, <3>4
  <2>4. CASE slot[s].state # "dead"
    <3>1. PICK q : q = [slot[s] EXCEPT !.state = "ready", !.sender = x, !.trying = None] OBVIOUS
    <3>2. slot' = [slot EXCEPT ![s] = Armed(q)] BY <1>6, <2>1, <2>4, <3>1 DEF Connected
    <3>3. q.session = slot[s].session /\ [q EXCEPT !.idleTimer = TRUE].session = slot[s].session
      BY <2>2, <3>1 DEF SlotRecords
    <3>4. Armed(q).session = slot[s].session BY <3>3 DEF Armed
    <3> QED BY <1>1, <2>2, <2>4, <3>2, <3>4
  <2> QED BY <2>3, <2>4
<1>7. ASSUME NEW x \in Senders, ExportFails(x)
      PROVE  slot'[d].session = slot[d].session /\ (slot'[d].state # "dead" => slot[d].state # "dead")
  <2>1. PICK s : s = sender[x].slot OBVIOUS
  <2>2. s \in Slots /\ slot[s] \in SlotRecords BY <1>7, <2>1, AttemptIs DEF ExportFails
  <2>3. CASE slot' = slot BY <2>3
  <2>4. CASE AttemptOver(x)
    <3>1. PICK t : t = [slot[s] EXCEPT !.trying = None,
                                       !.state = IF slot[s].state = "dead" THEN slot[s].state ELSE "idle"]
      OBVIOUS
    <3>2. slot' = [slot EXCEPT ![s] = t] BY <1>1, <2>1, <2>2, <2>4, <3>1 DEF AttemptOver
    <3>3. t.session = slot[s].session /\ (t.state # "dead" => slot[s].state # "dead")
      BY <2>2, <3>1 DEF SlotRecords
    <3> QED BY <1>1, <2>2, <3>2, <3>3
  <2> QED BY <1>7, <2>3, <2>4 DEF ExportFails
<1>8. CASE \E x \in Senders : InitFails(x) \/ Disconnect(x)
  <2>1. slot' = slot BY <1>8 DEF InitFails, Disconnect
  <2> QED BY <2>1
<1> QED BY <1>2, <1>3, <1>4, <1>5, <1>6, <1>7, <1>8

\* The steps that leave the keys alone.
LEMMA KeysUntouched ==
    ASSUME HeldInv, KeyInv, HeldInv',
           \/ \E w \in Workers : WorkerStep(w) \/ \E k \in Sessions, s \in Slots : Ask(w, k, s)
           \/ \E s \in Slots : IdleTick(s)
           \/ \E closes \in BOOLEAN : Purge(closes)
           \/ \E x \in Senders : Connected(x) \/ ExportFails(x) \/ InitFails(x) \/ Disconnect(x)
    PROVE  KeyInv'
<1>0. TypeOK /\ SlotInv /\ SenderInv /\ CallerInv BY DEF HeldInv
<1>1. slot \in [Slots -> SlotRecords] /\ sender \in [Senders -> SenderRecords]
      /\ (\A d \in Slots : slot[d] \in SlotRecords) /\ (\A y \in Senders : sender[y] \in SenderRecords)
  BY <1>0, Tables
<1>2. \A y \in Senders : sender[y].phase # "none" => sender[y].slot \in Slots BY <1>0 DEF SenderInv
<1>3. ASSUME NEW w \in Workers, WorkerStep(w) \/ \E k \in Sessions, s \in Slots : Ask(w, k, s)
      PROVE  UNCHANGED keyVars /\ UNCHANGED sender
  <2>1. CASE WorkerStep(w) BY <2>1 DEF WorkerStep, Serve, Reject, Release
  <2>2. ASSUME NEW k \in Sessions, NEW s \in Slots, Ask(w, k, s)
        PROVE  UNCHANGED <<closed, sender, keyVars, forsaken, faults>>
    BY <2>2 DEF Ask
  <2> QED BY <1>3, <2>1, <2>2
<1>4. (\E s \in Slots : IdleTick(s)) \/ (\E closes \in BOOLEAN : Purge(closes)) => UNCHANGED keyVars
  BY DEF IdleTick, Purge
<1>5. (\E x \in Senders : Connected(x) \/ ExportFails(x) \/ InitFails(x) \/ Disconnect(x)) => UNCHANGED keyVars
  BY DEF Connected, ExportFails, InitFails, Disconnect
<1>6. UNCHANGED keyVars BY <1>3, <1>4, <1>5
<1>7. \A y \in Senders : \/ sender'[y].phase = "none"
                         \/ /\ sender[y].phase # "none"
                            /\ sender'[y].slot = sender[y].slot /\ sender'[y].key = sender[y].key
  <2>1. CASE UNCHANGED sender BY <2>1
  <2>2. ASSUME NEW X, Dropped(X) PROVE \A y \in Senders : sender'[y] \in {NewSender, sender[y]}
    BY <2>2 DEF Dropped
  <2>3. CASE \E X : Dropped(X) BY <2>2, <2>3, News
  <2>4. ASSUME NEW x \in Senders, NEW r \in SenderRecords, sender' = [sender EXCEPT ![x] = r],
               r = NewSender \/ (sender[x].phase # "none" /\ r.slot = sender[x].slot /\ r.key = sender[x].key)
        PROVE  \A y \in Senders : \/ sender'[y].phase = "none"
                                  \/ /\ sender[y].phase # "none"
                                     /\ sender'[y].slot = sender[y].slot /\ sender'[y].key = sender[y].key
    BY <1>1, <2>4, News
  <2>5. ASSUME NEW x \in Senders, Connected(x) \/ ExportFails(x) \/ InitFails(x) \/ Disconnect(x),
               ~\E X : Dropped(X)
        PROVE  \E r \in SenderRecords : /\ sender' = [sender EXCEPT ![x] = r]
                                        /\ \/ r = NewSender
                                           \/ /\ sender[x].phase # "none" /\ r.slot = sender[x].slot
                                              /\ r.key = sender[x].key
    <3>0. sender[x] \in SenderRecords BY <1>1
    <3>1. CASE Connected(x)
      <4>1. sender' = [sender EXCEPT ![x].phase = "up", ![x].authenticated = TRUE]
            /\ sender[x].phase # "none"
        BY <2>5, <3>1 DEF Connected
      <4>2. PICK r : r = [sender[x] EXCEPT !.phase = "up", !.authenticated = TRUE] OBVIOUS
      <4>3. r \in SenderRecords /\ r.slot = sender[x].slot /\ r.key = sender[x].key
        BY <3>0, <4>2 DEF SenderRecords
      <4> QED BY <1>1, <4>1, <4>2, <4>3
    <3>2. CASE ExportFails(x)
      <4>1. sender[x].phase # "none" /\ (sender' = [sender EXCEPT ![x] = NewSender]
                                         \/ sender' = [sender EXCEPT ![x].again = TRUE])
        BY <3>2 DEF ExportFails
      <4>2. PICK r : r = [sender[x] EXCEPT !.again = TRUE] OBVIOUS
      <4>3. r \in SenderRecords /\ r.slot = sender[x].slot /\ r.key = sender[x].key
        BY <3>0, <4>2 DEF SenderRecords
      <4> QED BY <1>1, <4>1, <4>2, <4>3, News
    <3>3. CASE InitFails(x)
      <4>1. sender' = [sender EXCEPT ![x].phase = "opening", ![x].link = "off", ![x].again = TRUE]
            /\ sender[x].phase # "none"
        BY <3>3 DEF InitFails
      <4>2. PICK r : r = [sender[x] EXCEPT !.phase = "opening", !.link = "off", !.again = TRUE] OBVIOUS
      <4>3. r \in SenderRecords /\ r.slot = sender[x].slot /\ r.key = sender[x].key
        BY <3>0, <4>2 DEF SenderRecords
      <4> QED BY <1>1, <4>1, <4>2, <4>3
    <3>4. CASE Disconnect(x)
      <4>1. sender' = [sender EXCEPT ![x].link = "off"] /\ sender[x].phase # "none"
        BY <3>4 DEF Disconnect
      <4>2. PICK r : r = [sender[x] EXCEPT !.link = "off"] OBVIOUS
      <4>3. r \in SenderRecords /\ r.slot = sender[x].slot /\ r.key = sender[x].key
        BY <3>0, <4>2 DEF SenderRecords
      <4> QED BY <1>1, <4>1, <4>2, <4>3
    <3> QED BY <2>5, <3>1, <3>2, <3>3, <3>4
  <2>6. CASE (\E x \in Senders : Connected(x) \/ ExportFails(x) \/ InitFails(x) \/ Disconnect(x))
             /\ ~\E X : Dropped(X)
    BY <2>4, <2>5, <2>6
  <2>7. (\E w \in Workers : WorkerStep(w) \/ \E k \in Sessions, s \in Slots : Ask(w, k, s)) => UNCHANGED sender
    BY <1>3
  <2>8. (\E s \in Slots : IdleTick(s)) => UNCHANGED sender \/ \E X : Dropped(X) BY DEF IdleTick
  <2>9. (\E closes \in BOOLEAN : Purge(closes)) => \E X : Dropped(X) BY DEF Purge
  <2> QED BY <2>1, <2>3, <2>6, <2>7, <2>8, <2>9
<1>8. ASSUME NEW y \in Senders, sender[y].phase # "none", NEW d \in Slots, d = sender[y].slot
      PROVE  slot'[d].session = slot[d].session /\ (slot'[d].state # "dead" => slot[d].state # "dead")
  BY <1>8, SlotsStay
<1> QED BY <1>2, <1>6, <1>7, <1>8, KeysStay

\* One sender changes, and what it has is not a key that broke.
LEMMA KeyMoves ==
    ASSUME HeldInv, KeyInv, UNCHANGED slot, NEW x \in Senders, sender[x].phase # "none", NEW r,
           sender' = [sender EXCEPT ![x] = r], r.slot = sender[x].slot,
           badKeys' \subseteq badKeys, r.key \notin badKeys' \/ r.key = sender[x].key,
           mediaKey' \notin badKeys', BoundInv'
    PROVE  KeyInv'
<1>1. sender \in [Senders -> SenderRecords] BY Tables DEF HeldInv
<1>2. sender'[x] = r /\ \A y \in Senders \ {x} : sender'[y] = sender[y] BY <1>1
<1>3. \A s : OfMedia(s)' <=> OfMedia(s) BY DEF OfMedia
<1>4. ASSUME NEW y \in Senders, sender'[y].phase # "none", OfMedia(sender'[y].slot),
             slot[sender'[y].slot].state # "dead"
      PROVE  sender'[y].key \notin badKeys'
  <2>1. CASE y = x BY <1>2, <1>4, <2>1 DEF KeyInv, BadInv
  <2>2. CASE y # x BY <1>2, <1>4, <2>2 DEF KeyInv, BadInv
  <2> QED BY <2>1, <2>2
<1>5. BadInv' BY <1>4 DEF BadInv, OfMedia
<1> QED BY <1>5 DEF KeyInv

LEMMA LinkKeys ==
    ASSUME HeldInv, KeyInv, NEW x \in Senders,
           Connect(x) \/ MakeKey(x) \/ Bind(x) \/ Rekey(x) \/ BindFails(x)
    PROVE  KeyInv'
<1>0. TypeOK /\ SenderInv /\ BadInv /\ BoundInv BY DEF HeldInv, KeyInv
<1>1. sender \in [Senders -> SenderRecords] /\ sender[x] \in SenderRecords
      /\ mediaKey \in 0 .. NumSenders + 1 /\ mediaBound \in BOOLEAN
      /\ badKeys \subseteq 1 .. NumSenders + 1
  BY <1>0, Tables
<1>2. 0 \notin badKeys /\ mediaKey \notin badKeys /\ 0 \in Nat /\ mediaKey \in Nat
  <2>1. 0 \notin 1 .. NumSenders + 1 BY Bounds
  <2>2. mediaKey \in Nat BY <1>1, Bounds
  <2> QED BY <1>0, <1>1, <2>1, <2>2 DEF BadInv
<1>3. sender[x].phase # "none"
  <2>1. sender[x].phase = "none" => sender[x].link = "off" BY <1>0, News DEF SenderInv
  <2> QED BY <2>1 DEF Connect, MakeKey, Bind, Rekey, BindFails
<1>4. CASE Connect(x)
  <2>1. CASE ~OfMedia(sender[x].slot)
    <3>1. sender' = [sender EXCEPT ![x] = Linked(x, "on", 0)] /\ UNCHANGED slot /\ UNCHANGED keyVars
      BY <1>4, <2>1 DEF Connect
    <3>2. Linked(x, "on", 0).slot = sender[x].slot /\ Linked(x, "on", 0).key = 0 BY <1>1, <1>2, LinkedIs
    <3>3. BoundInv' BY <1>0, <3>1 DEF BoundInv, BoundKeyIsBound, keyVars
    <3> QED BY <1>2, <1>3, <3>1, <3>2, <3>3, KeyMoves DEF keyVars
  <2>2. CASE OfMedia(sender[x].slot)
    <3>1. PICK key \in {0, mediaKey} :
             /\ mediaKey' = key /\ mediaBound' \in BOOLEAN
             /\ mediaBound' => mediaBound /\ key = mediaKey
             /\ sender' = [sender EXCEPT ![x] =
                   IF key = 0 THEN Linked(x, "keying", 0)
                   ELSE [Linked(x, IF mediaBound THEN "on" ELSE "binding", key)
                            EXCEPT !.authenticated = TRUE]]
             /\ UNCHANGED <<boundKeys, badKeys, racedKeys, slot>>
      BY <1>1, <1>4, <2>2 DEF Connect
    <3>2. PICK l \in {"binding", "on"} : l = IF mediaBound THEN "on" ELSE "binding" OBVIOUS
    <3>3. PICK q : q = Linked(x, l, key) OBVIOUS
    <3>4. q \in SenderRecords /\ q.slot = sender[x].slot /\ q.key = key
      BY <1>1, <1>2, <3>2, <3>3, LinkedIs
    <3>5. PICK r : r = IF key = 0 THEN Linked(x, "keying", 0) ELSE [q EXCEPT !.authenticated = TRUE]
      OBVIOUS
    <3>6. r.slot = sender[x].slot /\ r.key = key
      <4>1. CASE key = 0 BY <1>1, <1>2, <3>5, <4>1, LinkedIs
      <4>2. CASE key # 0 BY <3>4, <3>5, <4>2 DEF SenderRecords
      <4> QED BY <4>1, <4>2
    <3>7. sender' = [sender EXCEPT ![x] = r] BY <3>1, <3>2, <3>3, <3>5
    <3>8. BoundInv' BY <1>0, <3>1 DEF BoundInv, BoundKeyIsBound
    <3>9. key \notin badKeys BY <1>2, <3>1
    <3>10. badKeys' = badKeys /\ mediaKey' = key /\ UNCHANGED slot BY <3>1
    <3>11. r.key \notin badKeys' /\ mediaKey' \notin badKeys' /\ badKeys' \subseteq badKeys
      BY <3>6, <3>9, <3>10
    <3>12. UNCHANGED slot /\ r.slot = sender[x].slot BY <3>6, <3>10
    <3> QED BY <1>3, <3>7, <3>8, <3>11, <3>12, KeyMoves
  <2> QED BY <2>1, <2>2
<1>5. CASE MakeKey(x)
  <2>1. PICK key : key = First(FreeKeys) OBVIOUS
  <2>2. key \in FreeKeys /\ key \in 1 .. NumSenders + 1
    <3>1. sender[x].key = 0 BY <1>0, <1>5 DEF MakeKey, SenderInv
    <3> QED BY <1>0, <2>1, <3>1, KeysLeft, Made
  <2>3. PICK others : others = {mediaKey} \cup {sender[y].key : y \in Senders} OBVIOUS
  <2>4. key \notin others /\ key # 0 /\ key \in Nat
    <3>1. key \notin others BY <2>2, <2>3 DEF FreeKeys
    <3>2. key # 0 /\ key \in Nat BY <2>2, Bounds
    <3> QED BY <3>1, <3>2
  <2>5. PICK l \in {"binding", "on"} : l = IF mediaBound THEN "on" ELSE "binding" OBVIOUS
  <2>6. PICK r : r = Linked(x, l, key) OBVIOUS
  <2>7. r.slot = sender[x].slot /\ r.key = key BY <1>1, <2>4, <2>5, <2>6, LinkedIs
  <2>8. /\ mediaKey' = key /\ badKeys' = badKeys \cap others
        /\ racedKeys' = (racedKeys \cap others) \cup (IF mediaKey # 0 THEN {key} ELSE {})
        /\ sender' = [sender EXCEPT ![x] = r] /\ UNCHANGED <<slot, mediaBound>>
    BY <1>5, <2>1, <2>3, <2>5, <2>6 DEF MakeKey
  <2>9. BoundInv' BY <1>0, <2>4, <2>8 DEF BoundInv, BoundKeyIsBound
  <2> QED BY <1>3, <2>4, <2>7, <2>8, <2>9, KeyMoves
<1>6. CASE Bind(x)
  <2>1. /\ mediaBound' = TRUE /\ boundKeys' = boundKeys \cup {mediaKey}
        /\ sender' = [sender EXCEPT ![x] = Linked(x, "on", mediaKey)]
        /\ UNCHANGED <<slot, mediaKey, badKeys, racedKeys>> /\ sender[x].link = "binding" /\ Current(x)
    BY <1>6 DEF Bind
  <2>2. Linked(x, "on", mediaKey).slot = sender[x].slot /\ Linked(x, "on", mediaKey).key = mediaKey
    BY <1>1, <1>2, LinkedIs
  <2>3. mediaKey # 0
    <3>1. OfMedia(sender[x].slot) /\ Online(x) BY <1>0, <2>1 DEF SenderInv, Online
    <3>2. sender[x].key \in 1 .. NumSenders + 1 BY <1>0, <3>1 DEF SenderInv
    <3> QED BY <2>1, <3>1, <3>2, Bounds DEF Current
  <2>4. BoundInv' BY <2>1, <2>3 DEF BoundInv, BoundKeyIsBound
  <2> QED BY <1>2, <1>3, <2>1, <2>2, <2>4, KeyMoves
<1>7. CASE Rekey(x)
  <2>1. sender' = [sender EXCEPT ![x].key = mediaKey] /\ UNCHANGED slot /\ UNCHANGED keyVars
    BY <1>7 DEF Rekey
  <2>2. PICK r : r = [sender[x] EXCEPT !.key = mediaKey] OBVIOUS
  <2>3. r.slot = sender[x].slot /\ r.key = mediaKey BY <1>1, <2>2 DEF SenderRecords
  <2>4. sender' = [sender EXCEPT ![x] = r] BY <1>1, <2>1, <2>2
  <2>5. BoundInv' BY <1>0, <2>1 DEF BoundInv, BoundKeyIsBound, keyVars
  <2> QED BY <1>2, <1>3, <2>1, <2>3, <2>4, <2>5, KeyMoves DEF keyVars
<1>8. CASE BindFails(x)
  <2>1. sender' = [sender EXCEPT ![x].link = "off"] /\ mediaKey' = 0 /\ mediaBound' = FALSE
        /\ UNCHANGED <<slot, badKeys>>
    BY <1>8 DEF BindFails, ResetMediaKey
  <2>2. PICK r : r = [sender[x] EXCEPT !.link = "off"] OBVIOUS
  <2>3. r.slot = sender[x].slot /\ r.key = sender[x].key BY <1>1, <2>2 DEF SenderRecords
  <2>4. sender' = [sender EXCEPT ![x] = r] BY <1>1, <2>1, <2>2
  <2>5. BoundInv' BY <2>1 DEF BoundInv, BoundKeyIsBound
  <2> QED BY <1>2, <1>3, <2>1, <2>3, <2>4, <2>5, KeyMoves
<1> QED BY <1>4, <1>5, <1>6, <1>7, <1>8

\* A new sender has no key yet.
LEMMA GatedKeys ==
    ASSUME HeldInv, KeyInv, GatedConnect
    PROVE  KeyInv'
<1>0. TypeOK /\ SenderInv /\ BadInv /\ BoundInv BY DEF HeldInv, KeyInv
<1>1. slot \in [Slots -> SlotRecords] /\ sender \in [Senders -> SenderRecords] /\ chain \in Seq(Slots)
      /\ badKeys \subseteq 1 .. NumSenders + 1
  BY <1>0, Tables
<1>2. PICK s \in Slots : s = Head(chain) BY <1>1 DEF GatedConnect
<1>3. PICK x \in Senders : x = First(FreeSenders) BY Made DEF GatedConnect
<1>4. /\ slot' = [slot EXCEPT ![s].trying = x] /\ UNCHANGED <<boundKeys, badKeys, racedKeys>>
      /\ sender' = [sender EXCEPT ![x] = [NewSender EXCEPT !.slot = s, !.phase = "opening"]]
      /\ UNCHANGED <<mediaKey, mediaBound>> \/ ResetMediaKey
  BY <1>2, <1>3 DEF GatedConnect
<1>5. \A d \in Slots : slot'[d].session = slot[d].session /\ slot'[d].state = slot[d].state
  <2>1. PICK t : t = [slot[s] EXCEPT !.trying = x] OBVIOUS
  <2>2. slot[s] \in SlotRecords BY <1>1
  <2>3. t.session = slot[s].session /\ t.state = slot[s].state BY <2>1, <2>2 DEF SlotRecords
  <2>4. slot' = [slot EXCEPT ![s] = t] BY <1>1, <1>4, <2>1
  <2> QED BY <1>1, <2>3, <2>4
<1>6. 0 \notin badKeys
  <2>1. 0 \notin 1 .. NumSenders + 1 BY Bounds
  <2> QED BY <1>1, <2>1
<1>7. sender'[x].key = 0 /\ \A y \in Senders \ {x} : sender'[y] = sender[y]
  <2>1. [NewSender EXCEPT !.slot = s, !.phase = "opening"].key = 0 BY DEF NewSender
  <2> QED BY <1>1, <1>4, <2>1
<1>8. BoundInv' BY <1>0, <1>4 DEF BoundInv, BoundKeyIsBound, ResetMediaKey
<1>9. ASSUME NEW y \in Senders, sender'[y].phase # "none", OfMedia(sender[y].slot)',
             slot'[sender'[y].slot].state # "dead"
      PROVE  sender'[y].key \notin badKeys'
  <2>1. CASE y = x BY <1>4, <1>6, <1>7, <2>1
  <2>2. CASE y # x
    <3>1. sender'[y] = sender[y] BY <1>7, <2>2
    <3>2. PICK d \in Slots : d = sender[y].slot BY <1>0, <1>9, <3>1 DEF SenderInv
    <3>3. OfMedia(d) BY <1>5, <1>9, <3>1, <3>2 DEF OfMedia
    <3>4. sender[y].phase # "none" /\ OfMedia(sender[y].slot) BY <1>9, <3>1, <3>2, <3>3
    <3>5. slot[sender[y].slot].state # "dead" BY <1>5, <1>9, <3>1, <3>2
    <3>6. sender[y].key \notin badKeys BY <1>0, <3>4, <3>5 DEF BadInv
    <3>7. badKeys' = badKeys BY <1>4
    <3> QED BY <3>1, <3>6, <3>7
  <2> QED BY <2>1, <2>2
<1>10. mediaKey' \notin badKeys' BY <1>0, <1>4, <1>6 DEF BadInv, ResetMediaKey
<1> QED BY <1>8, <1>9, <1>10 DEF KeyInv, BadInv

\* No slot that lives has a sender under the key that broke.
LEMMA BreakKeys ==
    ASSUME HeldInv, KeyInv, HeldInv', NEW x \in Senders, Break(x)
    PROVE  KeyInv'
<1>0. TypeOK /\ SenderInv /\ BadInv /\ SlotInv BY DEF HeldInv, KeyInv
<1>1. slot \in [Slots -> SlotRecords] /\ sender \in [Senders -> SenderRecords]
      /\ registry \in [Sessions -> Slots \cup {None}]
      /\ (\A d \in Slots : slot[d] \in SlotRecords) /\ (\A y \in Senders : sender[y] \in SenderRecords)
  BY <1>0, Tables
<1>2. PICK s : s = sender[x].slot OBVIOUS
<1>3. PICK D : D = {s} \cup Siblings(s) OBVIOUS
<1>4. mediaKey' = 0 /\ mediaBound' = FALSE
      /\ badKeys' = IF OfMedia(s) THEN badKeys \cup {sender[x].key} ELSE badKeys
  BY <1>2 DEF Break, ResetMediaKey
<1>5. 0 \notin badKeys'
  <2>1. badKeys' \subseteq 1 .. NumSenders + 1 BY DEF HeldInv, TypeOK
  <2>2. 0 \notin 1 .. NumSenders + 1 BY Bounds
  <2> QED BY <2>1, <2>2
<1>6. ASSUME NEW d \in Slots
      PROVE  /\ slot'[d].session = slot[d].session
             /\ slot'[d].state = IF d \in D THEN "dead" ELSE slot[d].state
  <2>1. PICK over : over = IF sender[x].phase = "asking" /\ d = s THEN [slot[d] EXCEPT !.trying = None]
                           ELSE slot[d]
    OBVIOUS
  <2>2. over \in SlotRecords /\ over.session = slot[d].session /\ over.state = slot[d].state
    BY <1>1, <2>1 DEF SlotRecords
  <2>3. slot'[d] = IF d \in D /\ slot[d].state # "dead" THEN Dead(over) ELSE over
    BY <1>2, <1>3, <2>1 DEF Break
  <2> QED BY <2>2, <2>3, DeadIs
<1>7. ASSUME NEW y \in Senders
      PROVE  sender'[y] = NewSender \/ (sender'[y].slot = sender[y].slot /\ sender'[y].key = sender[y].key
                                          /\ (sender'[y].phase # "none" => sender[y].phase # "none" \/ y = x))
  <2>1. PICK p : p = IF sender[x].phase = "asking" THEN "up" ELSE sender[x].phase OBVIOUS
  <2>2. \/ sender'[y] = NewSender \/ sender'[y] = sender[y]
        \/ y = x /\ sender'[y] = [sender[x] EXCEPT !.phase = "broken"]
        \/ y = x /\ sender'[y] = [sender[x] EXCEPT !.phase = p, !.link = "off", !.authenticated = FALSE]
    BY <2>1 DEF Break
  <2>3. sender[x] \in SenderRecords BY <1>1
  <2> QED BY <2>2, <2>3, ZenonT(30) DEF SenderRecords
<1>8. ASSUME NEW y \in Senders, sender'[y].phase # "none", OfMedia(sender[y].slot)',
             slot'[sender'[y].slot].state # "dead"
      PROVE  sender'[y].key \notin badKeys'
  <2>1. sender'[y].slot = sender[y].slot /\ sender'[y].key = sender[y].key BY <1>7, <1>8, News
  <2>2. sender'[y].slot \in Slots BY <1>8 DEF HeldInv, SenderInv
  <2>3. PICK d \in Slots : d = sender[y].slot BY <2>1, <2>2
  <2>4. OfMedia(d) /\ d \notin D /\ slot[d].state # "dead" BY <1>6, <1>8, <2>1, <2>3 DEF OfMedia
  <2>5. sender[y].phase # "none"
    <3>1. sender[y] # NewSender
      <4>1. sender[y].slot # None BY <2>3, Names
      <4> QED BY <4>1 DEF NewSender
    <3> QED BY <1>0, <3>1 DEF SenderInv
  <2>6. ~OfMedia(s)
    <3> SUFFICES ASSUME OfMedia(s) PROVE FALSE OBVIOUS
    <3>1. Alive(d) BY <1>0, <2>3, <2>4, <2>5 DEF SenderInv, Alive
    <3>2. registry[slot[d].session] = d BY <3>1 DEF HeldInv, RegistryInv
    <3>3. d \in Siblings(s) BY <2>4, <3>2, Names DEF Siblings, OfMedia
    <3> QED BY <1>3, <2>4, <3>3
  <2> QED BY <1>0, <1>4, <2>1, <2>3, <2>4, <2>5, <2>6 DEF BadInv
<1>9. BoundInv' BY <1>4 DEF BoundInv, BoundKeyIsBound
<1> QED BY <1>4, <1>5, <1>8, <1>9 DEF KeyInv, BadInv

LEMMA KeyStep == HeldInv /\ KeyInv /\ HeldInv' /\ [Next]_vars => KeyInv'
<1> SUFFICES ASSUME HeldInv, KeyInv, HeldInv', [Next]_vars PROVE KeyInv' OBVIOUS
<1>1. CASE GatedConnect BY <1>1, GatedKeys
<1>2. CASE (\E closes \in BOOLEAN : Purge(closes)) \/ (\E s \in Slots : IdleTick(s))
  BY <1>2, KeysUntouched
<1>3. ASSUME NEW x \in Senders, SenderStep(x) \/ Rekey(x) \/ SenderFails(x) PROVE KeyInv'
  <2>1. CASE Connect(x) \/ MakeKey(x) \/ Bind(x) \/ Rekey(x) \/ BindFails(x) BY <2>1, LinkKeys
  <2>2. CASE Connected(x) \/ ExportFails(x) \/ InitFails(x) \/ Disconnect(x) BY <2>2, KeysUntouched
  <2>3. CASE Stale(x) \/ SenderBreaks(x)
    <3>1. Break(x) BY <2>3 DEF Stale, SenderBreaks
    <3> QED BY <3>1, BreakKeys
  <2> QED BY <1>3, <2>1, <2>2, <2>3 DEF SenderStep, SenderFails
<1>4. ASSUME NEW w \in Workers, WorkerStep(w) \/ \E k \in Sessions, s \in Slots : Ask(w, k, s)
      PROVE  KeyInv'
  BY <1>4, KeysUntouched
<1>5. CASE UNCHANGED vars
  BY <1>5 DEF vars, keyVars, KeyInv, BadInv, BoundInv, BoundKeyIsBound, OfMedia
<1> QED BY <1>1, <1>2, <1>3, <1>4, <1>5 DEF Next

\* Network.ts:169-181, MTProtoSender.ts:436-450: no slot hands out a media sender under a
\* key the server rejected, and mediaBound is about the key the data center has, unless that
\* key replaced one that another sender made meanwhile.
THEOREM KeySound == Spec => []KeyIsSound
<1>1. Init => HeldInv /\ KeyInv BY InitHeld
<1>2. (HeldInv /\ KeyInv) /\ [Next]_vars => (HeldInv /\ KeyInv)' BY HeldStep, KeyStep
<1>3. HeldInv /\ KeyInv => KeyIsSound
  <2> SUFFICES ASSUME HeldInv, KeyInv PROVE KeyIsSound OBVIOUS
  <2>1. ASSUME NEW k \in Media, registry[k] # None, NEW x, x = slot[registry[k]].sender,
               x # None, Online(x)
        PROVE  sender[x].key \notin badKeys
    <3>1. PICK d \in Slots : d = registry[k] /\ Alive(d) /\ slot[d].session = k
      BY <2>1, Registered, Bounds
    <3>2. slot[d] \in SlotRecords BY Tables DEF HeldInv
    <3>3. x \in Senders BY <2>1, <3>1, <3>2 DEF SlotRecords
    <3>4. sender[x].slot = d /\ sender[x].phase = "up" BY <2>1, <3>1, <3>3 DEF HeldInv, HoldInv
    <3>5. OfMedia(d) /\ slot[d].state # "dead" BY <3>1 DEF OfMedia, Alive
    <3> QED BY <3>3, <3>4, <3>5 DEF KeyInv, BadInv
  <2>2. BadKeyUnused BY <2>1 DEF BadKeyUnused
  <2> QED BY <2>2 DEF KeyIsSound, KeyInv, BoundInv
<1> QED BY <1>1, <1>2, <1>3, PTL DEF Spec
=============================================================================
