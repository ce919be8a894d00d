--------------------------- MODULE TransportProofs ---------------------------
(***************************************************************************)
(* What recv() gives are the frames of this connection, whole and in       *)
(* order, and an attempt of connect() fails for a fault of its own: for    *)
(* any length of a frame, number of frames, attempts and failures, as long *)
(* as no read of the codec was short.                                      *)
(*                                                                         *)
(* A frame is in one place at a time: on its way, in the buffer of the     *)
(* socket, in the reader, in a push that waits, or in the queue.  So the   *)
(* number of the frame that is read next is known from what was received   *)
(* and what the queue holds (NextFrame), the bytes in flight begin at the  *)
(* position of the reader and go on without a gap, and the queue, which    *)
(* gives its newest item first, never holds more than one.                 *)
(***************************************************************************)
EXTENDS Transport, FiniteSetTheorems, SequenceTheorems, TLAPS

ReadsOK == reads \in {"exactly", "at most", "short"}

Pair == Nat \X Nat
Payload == Seq(Pair)
Phases == {"header", "body", "pushing", "ended"}
Loop == [phase : Phases, want : Nat, got : Payload]
Item(T) == [by : Nat, value : T, resumed : BOOLEAN]
Queue(T) == [items : Seq(T), canGet : BOOLEAN, canPush : BOOLEAN, pushes : SUBSET Item(T)]

Caller ==
    [phase : {"off", "asking", "busy", "receiving", "over"}, attempt : Nat, step : Nat]

TransportTypeOK ==
    /\ connected \in BOOLEAN /\ closed \in BOOLEAN /\ readable \in BOOLEAN
    /\ stream \in Seq(Pair) /\ net \in Seq(Pair)
    /\ readers \in Seq(Loop) /\ sendTask \in {"none", "waiting", "ended"}
    /\ recvArray \in Queue(Payload) /\ sendArray \in Queue(Pair)
    /\ client \in Caller
    /\ requests \in Seq(Pair) /\ sent \in Seq(Pair)
    /\ base \in Nat /\ received \in Seq(Payload) /\ failures \in Nat

\* A queue holds one item at most, which whoever wants to push another waits for.
QueueOK(q) ==
    /\ Len(q.items) <= 1
    /\ q.canGet <=> q.items # <<>>
    /\ q.canPush <=> q.items = <<>>
    /\ \A p \in q.pushes : p.resumed <=> q.canPush
    /\ q.items = <<>> => \A p, o \in q.pushes : p = o

Holds(q, value) == q.items # <<>> /\ q.items[1] = value

\* The receive loop that was started last: the only one that may be alive.
Newest == readers[Len(readers)]
Alive == readers # <<>> /\ Newest.phase # "ended"
AlivePushing == Alive /\ Newest.phase = "pushing"

\* The frames that were received or wait to be, and the one the newest loop reads next.
Taken ==
    base + Len(received)
       + (IF recvArray.items = <<>> \/ recvArray.items[1] = Undefined THEN 0 ELSE 1)
NextFrame == IF AlivePushing THEN Taken + 2 ELSE Taken + 1

\* Before a session, a connection that is down has no loop left.
ReadersOK ==
    /\ \A r \in DOMAIN readers : readers[r].phase # "ended" => r = Len(readers)
    /\ connected => Alive
    /\ client.phase \in {"off", "asking"} /\ ~connected => ~Alive
    /\ sendTask = IF readers = <<>> THEN "none" ELSE "waiting"
    /\ ~closed => connected
    /\ Alive /\ Newest.phase = "header" => Newest.want = 1 /\ Newest.got = <<>>
    /\ Alive /\ Newest.phase = "body" =>
          /\ Newest.want > 0 /\ Newest.want + Len(Newest.got) = BodyLength
          /\ \A k \in 1 .. Len(Newest.got) : Newest.got[k] = <<NextFrame, k>>

\* Only the newest loop pushes, a whole frame, and disconnect() the mark of the end.
RecvOK ==
    /\ QueueOK(recvArray)
    /\ recvArray.items # <<>> =>
          \/ recvArray.items[1] = Undefined
          \/ recvArray.items[1] = Frame(base + Len(received) + 1)
    /\ \A p \in recvArray.pushes :
          \/ p.by = 0 /\ p.value = Undefined /\ ~connected
          \/ /\ p.by = Len(readers) /\ AlivePushing
             /\ p.value = Frame(Taken + 1) /\ ~Holds(recvArray, Undefined)
    /\ AlivePushing => \E p \in recvArray.pushes : p.by = Len(readers)
    /\ Holds(recvArray, Undefined) /\ ~closed =>
          client.phase = "asking" /\ Len(sent) = base + Len(received)

\* The bytes in the buffer and then those on the way, and where the newest loop is.
Flight == stream \o net
Position == <<NextFrame, IF Newest.phase = "body" THEN Len(Newest.got) + 1 ELSE 0>>

\* The m bytes of s are what is left, from byte first on, of the frames up to the last one.
Rest(s, m, first, last) ==
    /\ \A i \in 1 .. m : s[i][1] <= last /\ s[i][2] <= BodyLength
    /\ \A i, j \in 1 .. m :
          i <= j /\ s[i][2] + (j - i) <= BodyLength => s[j] = <<s[i][1], s[i][2] + (j - i)>>
    /\ \A i \in 1 .. m :
          i < m /\ s[i][2] = BodyLength => s[i + 1] = <<s[i][1] + 1, 0>>
    /\ m = 0 => first = <<last + 1, 0>>
    /\ m > 0 => s[1] = first /\ s[m] = <<last, BodyLength>>

BytesOK == Rest(Flight, Len(Flight), Position, Len(sent))

Asked == <<client.attempt, client.step>>
NotSending == sendArray.items = <<>> /\ sendArray.pushes = {}

\* The request of the key exchange is in one place too: with the send loop, at the server, or
\* answered by a frame.
AskedOK ==
    \/ /\ ~NotSending /\ requests = <<>> /\ Len(sent) = base + Len(received)
    \/ /\ NotSending /\ requests = <<Asked>> /\ Len(sent) = base + Len(received)
    \/ /\ NotSending /\ requests = <<>> /\ Len(sent) = base + Len(received) + 1
       /\ sent[Len(sent)] = Asked \/ client.attempt <= failures
       /\ ~Holds(recvArray, Undefined)

SendOK ==
    /\ QueueOK(sendArray)
    /\ \A p \in sendArray.pushes : p.value = Asked
    /\ sendArray.items # <<>> => sendArray.items[1] = Asked /\ sendArray.pushes = {}
    /\ client.phase # "asking" \/ closed => NotSending

\* Before a session: what is left in the queue of an attempt that failed is the mark of its end,
\* and one that cannot succeed any more has had its failure.
ExchangeOK ==
    /\ client.phase \in {"off", "asking"} => client.step <= Steps
    /\ client.phase = "asking" /\ ~closed => AskedOK
    /\ client.phase = "asking" /\ closed => client.attempt <= failures
    /\ client.phase = "off" /\ ~closed =>
          requests = <<>> /\ Len(sent) = base + Len(received) /\ recvArray.items = <<>>
    /\ client.phase \in {"off", "asking"} /\ Holds(recvArray, Undefined) => recvArray.pushes = {}
    /\ client.phase \in {"off", "asking"} /\ closed =>
          /\ \A p \in recvArray.pushes : p.by = 0
          /\ recvArray.items # <<>> => Holds(recvArray, Undefined)
          /\ connected => recvArray.items = <<>>
    /\ client.phase \in {"asking", "receiving"} /\ ~connected => ~AlivePushing
    /\ client.attempt <= failures + 1

OpenBytesOK == ~closed => BytesOK

Whole == \A i \in DOMAIN received : received[i] = Frame(base + i)

TransportInv ==
    /\ TransportTypeOK /\ ReadersOK /\ RecvOK /\ SendOK /\ ExchangeOK /\ OpenBytesOK
    /\ Whole

-----------------------------------------------------------------------------
(* Frames and queues *)

LEMMA FrameType ==
    ASSUME NEW f \in Nat
    PROVE  /\ Frame(f) \in Payload /\ Len(Frame(f)) = BodyLength /\ Frame(f) # Undefined
           /\ Frame(f)[1] = <<f, 1>>
BY TransportAssumption DEF Frame, Payload, Pair, Undefined

LEMMA OneItem ==
    ASSUME NEW T, NEW s \in Seq(T), s # <<>>, Len(s) <= 1
    PROVE  Len(s) = 1 /\ s[Len(s)] = s[1] /\ s[1] \in T /\ SubSeq(s, 1, Len(s) - 1) = <<>>
<1>1. Len(s) \in Nat \ {0} BY EmptySeq
<1>2. Len(s) = 1 BY <1>1
<1> QED BY <1>2

\* A push adds one, which may go on at once if the queue is empty.
LEMMA PushAdds ==
    ASSUME NEW T, NEW q \in Queue(T), QueueOK(q), NEW by \in Nat, NEW value \in T,
           q.pushes = {} \/ q.items # <<>>, NEW r, r = Push(q, by, value)
    PROVE  /\ r \in Queue(T) /\ QueueOK(r) /\ r.items = q.items /\ q.pushes \subseteq r.pushes
           /\ \E p \in r.pushes : p.by = by /\ p.value = value
           /\ \A p \in r.pushes : p \in q.pushes \/ (p.by = by /\ p.value = value)
<1> DEFINE new == [by |-> by, value |-> value, resumed |-> q.canPush]
<1>1. /\ q.items \in Seq(T) /\ q.canGet \in BOOLEAN /\ q.canPush \in BOOLEAN
      /\ q.pushes \in SUBSET Item(T)
  BY DEF Queue
<1>2. new \in Item(T) BY <1>1 DEF Item
<1>3. r = [q EXCEPT !.pushes = q.pushes \cup {new}] BY DEF Push
<1>4. new.by = by /\ new.value = value /\ new.resumed = q.canPush OBVIOUS
<1> HIDE DEF new
<1>5. r \in Queue(T) BY <1>1, <1>2, <1>3 DEF Queue
<1>6. /\ r.items = q.items /\ r.canGet = q.canGet /\ r.canPush = q.canPush
      /\ r.pushes = q.pushes \cup {new}
  BY <1>3 DEF Queue
<1>7. \A p \in r.pushes : p.resumed <=> r.canPush BY <1>4, <1>6 DEF QueueOK
<1>8. r.items = <<>> => \A p, o \in r.pushes : p = o BY <1>6
<1>9. QueueOK(r) BY <1>6, <1>7, <1>8 DEF QueueOK
<1> QED BY <1>4, <1>5, <1>6, <1>9

\* A push that goes on was the only one.
LEMMA PushedIsItem ==
    ASSUME NEW T, NEW q \in Queue(T), QueueOK(q), NEW p \in Resumed(q), NEW r, r = Pushed(q, p)
    PROVE  /\ q.items = <<>> /\ q.pushes = {p} /\ p \in Item(T)
           /\ r \in Queue(T) /\ QueueOK(r) /\ r.items = <<p.value>> /\ r.pushes = {}
<1>1. /\ q.items \in Seq(T) /\ q.canGet \in BOOLEAN /\ q.canPush \in BOOLEAN
      /\ q.pushes \in SUBSET Item(T)
  BY DEF Queue
<1>2. p \in q.pushes /\ p.resumed BY DEF Resumed
<1>3. q.canPush /\ q.items = <<>> BY <1>2 DEF QueueOK
<1>4. q.pushes = {p} BY <1>2, <1>3 DEF QueueOK
<1>5. p \in Item(T) /\ p.value \in T BY <1>1, <1>2 DEF Item
<1>6. Append(q.items, p.value) = <<p.value>> /\ q.pushes \ {p} = {} BY <1>3, <1>4
<1>7. r = [q EXCEPT !.items = <<p.value>>, !.canGet = TRUE, !.canPush = FALSE, !.pushes = {}]
  BY <1>6 DEF Pushed
<1>8. r.items = <<p.value>> /\ r.canGet = TRUE /\ r.canPush = FALSE /\ r.pushes = {}
  BY <1>7 DEF Queue
<1>9. r \in Queue(T)
  <2>1. <<p.value>> \in Seq(T) /\ {} \in SUBSET Item(T) BY <1>5
  <2> QED BY <1>7, <2>1 DEF Queue
<1>10. QueueOK(r)
  <2>1. Len(<<p.value>>) = 1 /\ <<p.value>> # <<>> OBVIOUS
  <2> QED BY <2>1, <1>8 DEF QueueOK
<1> QED BY <1>3, <1>4, <1>5, <1>8, <1>9, <1>10

\* pop() empties the queue, and who waits goes on.
LEMMA PopEmpties ==
    ASSUME NEW T, NEW q \in Queue(T), QueueOK(q), q.canGet, \A p, o \in q.pushes : p = o,
           NEW r, r = Pop(q)
    PROVE  /\ q.items # <<>> /\ Popped(q) = q.items[1] /\ q.items[1] \in T
           /\ r \in Queue(T) /\ QueueOK(r) /\ r.items = <<>>
           /\ \A p \in r.pushes : \E o \in q.pushes : o.by = p.by /\ o.value = p.value
           /\ \A o \in q.pushes : \E p \in r.pushes : o.by = p.by /\ o.value = p.value
<1>1. /\ q.items \in Seq(T) /\ q.canGet \in BOOLEAN /\ q.canPush \in BOOLEAN
      /\ q.pushes \in SUBSET Item(T)
  BY DEF Queue
<1>2. q.items # <<>> /\ Len(q.items) <= 1 BY DEF QueueOK
<1>3. Popped(q) = q.items[1] /\ q.items[1] \in T BY <1>1, <1>2, OneItem DEF Popped
<1>4. SubSeq(q.items, 1, Len(q.items) - 1) = <<>> BY <1>1, <1>2, OneItem
<1> DEFINE new == {[p EXCEPT !.resumed = TRUE] : p \in q.pushes}
<1>5. r = [q EXCEPT !.items = <<>>, !.canGet = FALSE, !.canPush = TRUE, !.pushes = new]
  BY <1>4 DEF Pop
<1>6. new \subseteq Item(T) BY <1>1 DEF Item
<1>7. \A p \in new : \E o \in q.pushes : o.by = p.by /\ o.value = p.value /\ p.resumed
  BY <1>1 DEF Item
<1>8. ASSUME NEW o \in q.pushes PROVE \E p \in new : o.by = p.by /\ o.value = p.value
  <2>1. [o EXCEPT !.resumed = TRUE] \in new OBVIOUS
  <2>2. [o EXCEPT !.resumed = TRUE].by = o.by /\ [o EXCEPT !.resumed = TRUE].value = o.value
    BY <1>1 DEF Item
  <2> HIDE DEF new
  <2> QED BY <2>1, <2>2
<1>9. \A p, o \in new : p = o OBVIOUS
<1> HIDE DEF new
<1>11. r.items = <<>> /\ r.canGet = FALSE /\ r.canPush = TRUE /\ r.pushes = new
  BY <1>5 DEF Queue
<1>12. r \in Queue(T)
  <2>1. <<>> \in Seq(T) /\ new \in SUBSET Item(T) BY <1>6
  <2> QED BY <1>5, <2>1 DEF Queue
<1>13. QueueOK(r)
  <2>1. Len(<<>>) = 0 OBVIOUS
  <2>2. \A p \in r.pushes : p.resumed BY <1>7, <1>11
  <2> QED BY <2>1, <2>2, <1>9, <1>11 DEF QueueOK
<1> QED BY <1>2, <1>3, <1>7, <1>8, <1>11, <1>12, <1>13
-----------------------------------------------------------------------------
(* What the invariant gives *)

LEMMA ItemTypes ==
    ASSUME TransportTypeOK
    PROVE  /\ recvArray.items \in Seq(Payload) /\ recvArray.pushes \subseteq Item(Payload)
           /\ recvArray.canGet \in BOOLEAN /\ recvArray.canPush \in BOOLEAN
           /\ sendArray.items \in Seq(Pair) /\ sendArray.pushes \subseteq Item(Pair)
           /\ sendArray.canGet \in BOOLEAN /\ sendArray.canPush \in BOOLEAN
           /\ Len(received) \in Nat /\ Len(sent) \in Nat /\ Len(readers) \in Nat
           /\ Len(stream) \in Nat /\ Len(net) \in Nat /\ DOMAIN readers = 1 .. Len(readers)
           /\ DOMAIN received = 1 .. Len(received)
           /\ Taken \in Nat /\ NextFrame \in Nat /\ NextFrame > base + Len(received)
BY DEF TransportTypeOK, Queue, Taken, NextFrame

LEMMA NewestTypes ==
    ASSUME TransportTypeOK, readers # <<>>
    PROVE  /\ Len(readers) \in 1 .. Len(readers) /\ Newest \in Loop /\ Newest.phase \in Phases
           /\ Newest.want \in Nat /\ Newest.got \in Payload /\ Len(Newest.got) \in Nat
<1>1. readers \in Seq(Loop) BY DEF TransportTypeOK
<1>2. Len(readers) \in Nat \ {0} BY <1>1, EmptySeq
<1>3. Newest \in Loop BY <1>1, <1>2, ElementOfSeq DEF Newest
<1>4. Newest.got \in Payload /\ Newest.want \in Nat /\ Newest.phase \in Phases BY <1>3 DEF Loop
<1>5. Len(Newest.got) \in Nat BY <1>4 DEF Payload
<1> QED BY <1>2, <1>3, <1>4, <1>5

\* A loop that reads is the newest.
LEMMA OnlyNewestReads ==
    ASSUME TransportTypeOK, ReadersOK, NEW r \in DOMAIN readers, Reading(r)
    PROVE  r = Len(readers) /\ readers[r] = Newest /\ Alive /\ ~AlivePushing /\ readers # <<>>
<1>1. readers[r].phase # "ended" /\ readers[r].phase # "pushing" BY DEF Reading
<1>2. r = Len(readers) BY <1>1 DEF ReadersOK
<1>3. readers # <<>> BY ItemTypes
<1> QED BY <1>1, <1>2, <1>3 DEF Newest, Alive, AlivePushing

\* When nothing waits for its turn, nothing is about to be pushed to an empty queue, nor about
\* to be read, and the end of an open connection has been noticed.
LEMMA QuietFacts ==
    ASSUME TransportInv, Quiet
    PROVE  /\ recvArray.items = <<>> => recvArray.pushes = {} /\ ~AlivePushing
           /\ client.phase \in {"asking", "receiving"} => recvArray.items = <<>>
           /\ connected => NotSending
           /\ Alive /\ ~AlivePushing => ~closed /\ ~readable
<1>1. recvArray.items = <<>> => recvArray.pushes = {}
  BY DEF TransportInv, Quiet, RecvOK, QueueOK, Resumed
<1>2. recvArray.items = <<>> => ~AlivePushing BY <1>1 DEF TransportInv, RecvOK
<1>3. client.phase \in {"asking", "receiving"} => recvArray.items = <<>>
  BY DEF TransportInv, Quiet, Receiving, RecvOK, QueueOK
<1>4. connected => sendArray.items = <<>>
  BY DEF TransportInv, Quiet, Sending, SendOK, QueueOK, ReadersOK, Alive
<1>5. sendArray.items = <<>> => sendArray.pushes = {}
  BY DEF TransportInv, Quiet, SendOK, QueueOK, Resumed
<1>6. ASSUME Alive, ~AlivePushing PROVE ~closed /\ ~readable
  <2>1. Len(readers) \in DOMAIN readers /\ Newest.phase \in Phases
    BY <1>6, NewestTypes, ItemTypes DEF TransportInv, Alive
  <2>2. Newest.phase \in {"header", "body"} BY <1>6, <2>1 DEF Alive, AlivePushing, Phases
  <2> QED BY <2>1, <2>2 DEF Quiet, Reading, Newest
<1> QED BY <1>1, <1>2, <1>3, <1>4, <1>5, <1>6 DEF NotSending

\* Nothing is in flight, and no frame read, when all that was sent was received.
LEMMA AllReceivedFacts ==
    ASSUME TransportInv, ~closed, Len(sent) = base + Len(received)
    PROVE  /\ stream = <<>> /\ net = <<>> /\ ~AlivePushing
           /\ recvArray.items # <<>> => recvArray.items[1] = Undefined
<1>1. BytesOK /\ TransportTypeOK BY DEF TransportInv, OpenBytesOK
<1>2. Flight \in Seq(Pair) /\ Len(Flight) = Len(stream) + Len(net) /\ Len(Flight) \in Nat
  BY <1>1, ItemTypes, ConcatProperties DEF Flight, TransportTypeOK
<1>3. Len(Flight) = 0
  <2>1. SUFFICES ASSUME Len(Flight) > 0 PROVE FALSE BY <1>2
  <2>2. Flight[1] = Position /\ Flight[1][1] <= Len(sent)
    BY <1>1, <1>2, <2>1 DEF BytesOK, Rest
  <2>3. Position[1] = NextFrame BY DEF Position
  <2> QED BY <1>1, <2>2, <2>3, ItemTypes
<1>4. stream = <<>> /\ net = <<>>
  <2>1. stream \in Seq(Pair) /\ net \in Seq(Pair) BY <1>1 DEF TransportTypeOK
  <2>2. Len(stream) = 0 /\ Len(net) = 0
    <3>1. Len(stream) \in Nat /\ Len(net) \in Nat BY <1>1, ItemTypes
    <3>2. Len(stream) + Len(net) = 0 BY <1>2, <1>3
    <3>3. \A a, b \in Nat : a + b = 0 => a = 0 /\ b = 0 OBVIOUS
    <3> QED BY <3>1, <3>2, <3>3
  <2> QED BY <2>1, <2>2, EmptySeq
<1>5. NextFrame = Len(sent) + 1 BY <1>1, <1>3 DEF BytesOK, Rest, Position
<1>6. ~AlivePushing /\ Taken = Len(sent) BY <1>1, <1>5, ItemTypes DEF NextFrame, Taken
<1> QED BY <1>1, <1>4, <1>6, ItemTypes DEF Taken

LEMMA ReplaceLast ==
    ASSUME NEW s \in Seq(Loop), s # <<>>, NEW x \in Loop, NEW t, t = [s EXCEPT ![Len(s)] = x]
    PROVE  /\ t \in Seq(Loop) /\ Len(t) = Len(s) /\ DOMAIN t = DOMAIN s /\ t # <<>>
           /\ t[Len(t)] = x /\ \A i \in DOMAIN s : i # Len(s) => t[i] = s[i]
<1>1. Len(s) \in Nat \ {0} /\ Len(<<>>) = 0 BY EmptySeq
<1>2. /\ t \in Seq(Loop) /\ Len(t) = Len(s)
      /\ \A i \in 1 .. Len(s) : t[i] = IF i = Len(s) THEN x ELSE s[i]
  BY <1>1, ExceptSeq
<1>3. DOMAIN s = 1 .. Len(s) /\ DOMAIN t = 1 .. Len(s) BY <1>2, LenProperties
<1> QED BY <1>1, <1>2, <1>3

LEMMA AddLast ==
    ASSUME NEW s \in Seq(Loop), NEW x \in Loop, NEW t, t = Append(s, x)
    PROVE  /\ t \in Seq(Loop) /\ Len(t) = Len(s) + 1 /\ DOMAIN t = 1 .. Len(s) + 1 /\ t # <<>>
           /\ t[Len(t)] = x /\ \A i \in 1 .. Len(s) : t[i] = s[i]
<1>1. Len(s) \in Nat /\ Len(<<>>) = 0 BY LenProperties, EmptySeq
<1>2. /\ t \in Seq(Loop) /\ Len(t) = Len(s) + 1 /\ t[Len(s) + 1] = x
      /\ \A i \in 1 .. Len(s) : t[i] = s[i]
  BY AppendProperties
<1>3. DOMAIN t = 1 .. Len(s) + 1 BY <1>2, LenProperties
<1> QED BY <1>1, <1>2, <1>3

LEMMA HeaderFacts ==
    /\ AtHeader \in Loop /\ AtHeader.phase = "header" /\ AtHeader.want = 1 /\ AtHeader.got = <<>>
    /\ [AtHeader EXCEPT !.phase = "ended"] \in Loop
    /\ [AtHeader EXCEPT !.phase = "ended"].phase = "ended"
<1>1. <<>> \in Payload BY EmptySeq DEF Payload
<1> QED BY <1>1 DEF AtHeader, Loop, Phases

-----------------------------------------------------------------------------
(* What a step leaves alone *)

LEMMA SameReader ==
    ASSUME UNCHANGED readers
    PROVE  /\ Newest' = Newest /\ Alive' = Alive /\ AlivePushing' = AlivePushing
           /\ (Alive <=> Alive') /\ (AlivePushing <=> AlivePushing')
BY DEF Newest, Alive, AlivePushing

LEMMA SameTaken ==
    ASSUME UNCHANGED <<base, received>>, recvArray'.items = recvArray.items
    PROVE  Taken' = Taken
BY DEF Taken

LEMMA SamePosition ==
    ASSUME UNCHANGED <<readers, base, received>>, recvArray'.items = recvArray.items
    PROVE  Position' = Position /\ NextFrame' = NextFrame /\ Taken' = Taken
BY SameReader, SameTaken DEF Position, NextFrame

LEMMA BytesKeep ==
    ASSUME OpenBytesOK, UNCHANGED <<stream, net, sent>>, Position' = Position, ~closed' => ~closed
    PROVE  OpenBytesOK'
BY DEF OpenBytesOK, BytesOK, Flight

LEMMA ReadersKeep ==
    ASSUME ReadersOK, UNCHANGED <<readers, sendTask>>, NextFrame' = NextFrame,
           connected' => connected, ~closed' => ~closed /\ (connected => connected'),
           client'.phase \in {"off", "asking"} /\ ~connected' => ~Alive
    PROVE  ReadersOK'
BY SameReader DEF ReadersOK

LEMMA FramesKeep ==
    ASSUME Whole, UNCHANGED <<base, received>> PROVE Whole'
BY DEF Whole

LEMMA SendKeeps ==
    ASSUME SendOK, UNCHANGED sendArray,
           NotSending \/ (UNCHANGED <<client, closed>>)
    PROVE  SendOK' /\ (NotSending <=> NotSending')
BY DEF SendOK, NotSending, Asked

LEMMA FailsFacts ==
    ASSUME client \in Caller, Fails
    PROVE  /\ client' \in Caller /\ client'.phase \in {"off", "over"}
           /\ client'.attempt <= client.attempt + 1 /\ client'.step = client.step
           /\ client'.attempt \in Nat /\ client.attempt \in Nat
<1>1. /\ Retries \in Nat /\ client.attempt \in Nat /\ client.step \in Nat
      /\ client.attempt + 1 \in Nat
  BY TransportAssumption DEF Caller
<1>2. CASE client.attempt < Retries
  <2>1. client' = [client EXCEPT !.phase = "off", !.attempt = client.attempt + 1]
    BY <1>2 DEF Fails
  <2>2. client' = [phase |-> "off", attempt |-> client.attempt + 1, step |-> client.step]
    BY <2>1 DEF Caller
  <2>3. client' \in Caller BY <1>1, <2>2 DEF Caller
  <2> QED BY <1>1, <2>2, <2>3
<1>3. CASE ~(client.attempt < Retries)
  <2>1. client' = [client EXCEPT !.phase = "over"] BY <1>3 DEF Fails
  <2>2. client' = [phase |-> "over", attempt |-> client.attempt, step |-> client.step]
    BY <2>1 DEF Caller
  <2>3. client' \in Caller BY <1>1, <2>2 DEF Caller
  <2> QED BY <1>1, <2>2, <2>3
<1> QED BY <1>2, <1>3

-----------------------------------------------------------------------------
(* The steps *)

LEMMA InitInv == TransportInit => TransportInv
<1> SUFFICES ASSUME TransportInit PROVE TransportInv OBVIOUS
<1>0. /\ connected = FALSE /\ closed = TRUE
      /\ stream = <<>> /\ readable = FALSE /\ net = <<>>
      /\ readers = <<>> /\ sendTask = "none"
      /\ recvArray = NewQueue /\ sendArray = NewQueue
      /\ client = [phase |-> "off", attempt |-> 1, step |-> 1]
      /\ requests = <<>> /\ sent = <<>> /\ base = 0 /\ received = <<>> /\ failures = 0
  BY DEF TransportInit
<1> USE <1>0
<1>1. TransportTypeOK
  <2>1. NewQueue \in Queue(Payload) /\ NewQueue \in Queue(Pair) BY DEF NewQueue, Queue
  <2>2. client \in Caller BY DEF Caller
  <2>3. <<>> \in Seq(Pair) /\ <<>> \in Seq(Loop) /\ <<>> \in Seq(Payload) BY EmptySeq
  <2> QED BY <2>1, <2>2, <2>3 DEF TransportTypeOK
<1>2. ~Alive /\ ~AlivePushing BY DEF Alive, AlivePushing
<1>3. ReadersOK BY <1>2 DEF ReadersOK
<1>4. QueueOK(NewQueue) BY DEF NewQueue, QueueOK
<1>5. RecvOK BY <1>2, <1>4 DEF RecvOK, NewQueue, Holds
<1>6. SendOK BY <1>4 DEF SendOK, NewQueue, NotSending
<1>7. ExchangeOK BY <1>2, TransportAssumption DEF ExchangeOK, NewQueue, Holds
<1> QED BY <1>1, <1>3, <1>5, <1>6, <1>7 DEF TransportInv, OpenBytesOK, Whole

LEMMA ClosedStep == ASSUME TransportInv, Closed PROVE TransportInv'
<1> USE DEF TransportInv, Closed, connVars
<1>1. TransportTypeOK' BY DEF TransportTypeOK
<1>2. Position' = Position /\ NextFrame' = NextFrame /\ Taken' = Taken BY SamePosition
<1>3. ReadersOK' BY <1>2, ReadersKeep DEF ReadersOK
<1>4. RecvOK' BY <1>2, SameReader DEF RecvOK
<1>5. SendOK' BY SendKeeps
<1>6. ExchangeOK' BY SameReader, SendKeeps DEF ExchangeOK, AskedOK, Asked
<1>7. OpenBytesOK' BY <1>2, BytesKeep
<1> QED BY <1>1, <1>3, <1>4, <1>5, <1>6, <1>7, FramesKeep

LEMMA ConnectFailsStep == ASSUME TransportInv, ConnectFails PROVE TransportInv'
<1> USE DEF TransportInv, ConnectFails, connVars, socketVars
<1>0. /\ client' \in Caller /\ client'.phase \in {"off", "over"}
      /\ client'.attempt <= client.attempt + 1 /\ client'.step = client.step
      /\ failures' = failures + 1 /\ failures \in Nat /\ client.attempt \in Nat
      /\ client'.attempt \in Nat
  <2>1. client \in Caller BY DEF TransportTypeOK
  <2> QED BY <2>1, FailsFacts DEF Failure, TransportTypeOK
<1>1. TransportTypeOK' BY <1>0 DEF TransportTypeOK
<1>2. Position' = Position /\ NextFrame' = NextFrame /\ Taken' = Taken BY SamePosition
<1>3. ReadersOK' BY <1>2, ReadersKeep DEF ReadersOK
<1>4. closed BY DEF ReadersOK
<1>5. RecvOK' BY <1>2, <1>4, SameReader DEF RecvOK
<1>6. SendOK' BY SendKeeps DEF SendOK
<1>7. ExchangeOK'
  <2>1. client'.phase # "asking" /\ client'.phase # "receiving" /\ client'.attempt <= failures' + 1
    <3>1. client.attempt <= failures + 1 BY DEF ExchangeOK
    <3> QED BY <3>1, <1>0
  <2> QED BY <2>1, <1>0, <1>4 DEF ExchangeOK
<1>8. OpenBytesOK' BY <1>2, BytesKeep
<1> QED BY <1>1, <1>3, <1>5, <1>6, <1>7, <1>8, FramesKeep

LEMMA ReceiveStep == ASSUME TransportInv, Receive PROVE TransportInv'
<1> USE DEF TransportInv, Receive, connVars, socketVars
<1>0. /\ client' \in Caller /\ client'.phase \in {"receiving", "over"}
      /\ client'.attempt = client.attempt /\ client'.step = client.step
      /\ client'.phase = "receiving" => connected
  BY DEF TransportTypeOK, Caller
<1>1. TransportTypeOK' BY <1>0 DEF TransportTypeOK
<1>2. Position' = Position /\ NextFrame' = NextFrame /\ Taken' = Taken BY SamePosition
<1>3. ReadersOK' BY <1>0, <1>2, ReadersKeep DEF ReadersOK
<1>4. RecvOK' BY <1>2, SameReader DEF RecvOK
<1>5. SendOK' BY SendKeeps DEF SendOK
<1>6. ExchangeOK' BY <1>0 DEF ExchangeOK
<1>7. OpenBytesOK' BY <1>2, BytesKeep
<1> QED BY <1>1, <1>3, <1>4, <1>5, <1>6, <1>7, FramesKeep
\* The send loop always finds the socket open.
LEMMA SendStep == ASSUME TransportInv, Send PROVE TransportInv'
<1> USE DEF TransportInv
<1>0. /\ sendArray' = Pop(sendArray) /\ sendArray.canGet /\ sendTask = "waiting"
      /\ UNCHANGED <<connected, readers, recvArray, closed, stream, readable, net, sent, base,
                     client, received, failures>>
  BY DEF Send, Sending, socketVars
<1>1. /\ sendArray.items # <<>> /\ Popped(sendArray) = Asked /\ sendArray.pushes = {}
      /\ sendArray' \in Queue(Pair) /\ QueueOK(sendArray') /\ sendArray'.items = <<>>
      /\ sendArray'.pushes = {}
  <2>1. sendArray \in Queue(Pair) /\ QueueOK(sendArray) BY DEF TransportTypeOK, SendOK
  <2>2. sendArray.items # <<>> BY <1>0, <2>1 DEF QueueOK
  <2>3. sendArray.pushes = {} /\ sendArray.items[1] = Asked BY <2>2 DEF SendOK
  <2>4. \A p, o \in sendArray.pushes : p = o BY <2>3
  <2> HIDE DEF TransportInv
  <2> QED BY <1>0, <2>1, <2>2, <2>3, <2>4, PopEmpties
<1>2. ~NotSending /\ NotSending' BY <1>1 DEF NotSending
<1>3. client.phase = "asking" /\ ~closed /\ connected
  BY <1>2 DEF SendOK, ReadersOK
<1>4. requests = <<>> /\ requests' = <<Asked>> /\ sendTask' = sendTask
  BY <1>0, <1>1, <1>2, <1>3 DEF Send, ExchangeOK, AskedOK
<1>5. TransportTypeOK'
  <2>1. Asked \in Pair BY DEF Asked, Pair, TransportTypeOK, Caller
  <2> QED BY <1>0, <1>1, <1>4, <2>1 DEF TransportTypeOK
<1>6. Position' = Position /\ NextFrame' = NextFrame /\ Taken' = Taken BY <1>0, SamePosition
<1>7. ReadersOK' BY <1>0, <1>4, <1>6, ReadersKeep DEF ReadersOK
<1>8. RecvOK' BY <1>0, <1>6, SameReader DEF RecvOK
<1>9. SendOK' BY <1>1, <1>2 DEF SendOK
<1>10. Len(sent) = base + Len(received) BY <1>2, <1>3 DEF ExchangeOK, AskedOK
<1>11. AskedOK' BY <1>0, <1>2, <1>4, <1>10 DEF AskedOK, Asked
<1>12. ExchangeOK' BY <1>0, <1>3, <1>11, SameReader DEF ExchangeOK
<1>13. OpenBytesOK' BY <1>0, <1>6, BytesKeep
<1> QED BY <1>0, <1>5, <1>7, <1>8, <1>9, <1>12, <1>13, FramesKeep

LEMMA SendPushStep ==
    ASSUME TransportInv, NEW p \in Resumed(sendArray), sendArray' = Pushed(sendArray, p),
           UNCHANGED <<readers, recvArray, connected, sendTask, socketVars, client, requests,
                       received, failures>>
    PROVE  TransportInv'
<1> USE DEF TransportInv, socketVars
<1>1. /\ sendArray.items = <<>> /\ sendArray.pushes = {p}
      /\ sendArray' \in Queue(Pair) /\ QueueOK(sendArray') /\ sendArray'.items = <<p.value>>
      /\ sendArray'.pushes = {}
  <2>1. sendArray \in Queue(Pair) /\ QueueOK(sendArray) BY DEF TransportTypeOK, SendOK
  <2> HIDE DEF TransportInv
  <2> QED BY <2>1, PushedIsItem
<1>2. ~NotSending /\ ~NotSending' /\ p.value = Asked BY <1>1 DEF NotSending, SendOK
<1>3. TransportTypeOK' BY <1>1 DEF TransportTypeOK
<1>4. Position' = Position /\ NextFrame' = NextFrame /\ Taken' = Taken BY SamePosition
<1>5. ReadersOK' BY <1>4, ReadersKeep DEF ReadersOK
<1>6. RecvOK' BY <1>4, SameReader DEF RecvOK
<1>7. SendOK'
  <2>1. <<p.value>>[1] = p.value OBVIOUS
  <2> QED BY <1>1, <1>2, <2>1 DEF SendOK, Asked
<1>8. AskedOK' <=> AskedOK BY <1>2 DEF AskedOK, Asked
<1>9. ExchangeOK' BY <1>8, SameReader DEF ExchangeOK
<1>10. OpenBytesOK' BY <1>4, BytesKeep
<1> QED BY <1>3, <1>5, <1>6, <1>7, <1>9, <1>10, FramesKeep

\* disconnect(), and the receive loop that found the socket closed and called it.
LEMMA DisconnectedFacts ==
    ASSUME TransportInv, recvArray' = Disconnected(recvArray), connected' = FALSE,
           connected => recvArray.items # <<>> \/ ~AlivePushing
    PROVE  /\ recvArray' \in Queue(Payload) /\ QueueOK(recvArray')
           /\ recvArray'.items = recvArray.items /\ recvArray.pushes \subseteq recvArray'.pushes
           /\ \A p \in recvArray'.pushes :
                 p \in recvArray.pushes \/ (p.by = 0 /\ p.value = Undefined)
<1>1. recvArray \in Queue(Payload) /\ QueueOK(recvArray)
  BY DEF TransportInv, TransportTypeOK, RecvOK
<1>2. CASE ~connected BY <1>1, <1>2 DEF Disconnected
<1>3. CASE connected
  <2>1. recvArray.pushes = {} \/ recvArray.items # <<>>
    BY <1>3 DEF TransportInv, RecvOK
  <2>2. Undefined \in Payload /\ 0 \in Nat BY EmptySeq DEF Undefined, Payload
  <2>3. recvArray' = Push(recvArray, 0, Undefined) BY <1>3 DEF Disconnected
  <2> QED BY <1>1, <2>1, <2>2, <2>3, PushAdds
<1> QED BY <1>2, <1>3

LEMMA ReadFailsStep ==
    ASSUME TransportInv, NEW r \in DOMAIN readers, ReadFails(r) PROVE TransportInv'
<1> USE DEF TransportInv
<1>0. /\ Reading(r) /\ closed /\ connected' = FALSE /\ recvArray' = Disconnected(recvArray)
      /\ readers' = [readers EXCEPT ![r].phase = "ended"]
      /\ UNCHANGED <<sendTask, sendArray, closed, stream, readable, net, sent, base, client,
                     requests, received, failures>>
  BY DEF ReadFails, socketVars
<1>1. r = Len(readers) /\ Alive /\ ~AlivePushing /\ readers # <<>>
  BY <1>0, OnlyNewestReads
<1>2. /\ recvArray' \in Queue(Payload) /\ QueueOK(recvArray')
      /\ recvArray'.items = recvArray.items /\ recvArray.pushes \subseteq recvArray'.pushes
      /\ \A p \in recvArray'.pushes :
            p \in recvArray.pushes \/ (p.by = 0 /\ p.value = Undefined)
  <2> HIDE DEF TransportInv
  <2> QED BY <1>0, <1>1, DisconnectedFacts
<1>3. \A p \in recvArray'.pushes : p.by = 0 /\ p.value = Undefined
  BY <1>1, <1>2 DEF RecvOK
<1>4. /\ readers' \in Seq(Loop) /\ Len(readers') = Len(readers) /\ DOMAIN readers' = DOMAIN readers
      /\ readers'[r].phase = "ended" /\ \A x \in DOMAIN readers : x # r => readers'[x] = readers[x]
      /\ readers' # <<>>
  <2>1. readers \in Seq(Loop) /\ readers[r] \in Loop BY DEF TransportTypeOK
  <2> DEFINE new == [readers[r] EXCEPT !.phase = "ended"]
  <2>2. new \in Loop /\ new.phase = "ended" BY <2>1 DEF Loop, Phases
  <2>3. readers' = [readers EXCEPT ![Len(readers)] = new] BY <1>0, <1>1
  <2> HIDE DEF TransportInv, new
  <2>4. /\ readers' \in Seq(Loop) /\ Len(readers') = Len(readers)
        /\ DOMAIN readers' = DOMAIN readers /\ readers' # <<>> /\ readers'[Len(readers')] = new
        /\ \A i \in DOMAIN readers : i # Len(readers) => readers'[i] = readers[i]
    BY <1>1, <2>1, <2>2, <2>3, ReplaceLast
  <2> QED BY <1>1, <2>2, <2>4
<1>5. ~Alive' /\ ~AlivePushing' BY <1>1, <1>4 DEF Alive, AlivePushing, Newest
<1>6. TransportTypeOK' BY <1>0, <1>2, <1>4 DEF TransportTypeOK
<1>7. ReadersOK'
  <2>1. \A x \in DOMAIN readers' : readers'[x].phase # "ended" => x = Len(readers')
    BY <1>4 DEF ReadersOK
  <2> QED BY <1>0, <1>1, <1>4, <1>5, <2>1 DEF ReadersOK
<1>8. Taken' = Taken BY <1>0, <1>2, SameTaken
<1>9. RecvOK'
  <2>1. Holds(recvArray, Undefined)' => Holds(recvArray, Undefined) BY <1>2 DEF Holds
  <2> QED BY <1>0, <1>2, <1>3, <1>5, <2>1 DEF RecvOK
<1>10. SendOK' BY <1>0, SendKeeps
<1>11. ExchangeOK'
  <2>1. ASSUME client.phase \in {"off", "asking"} PROVE recvArray.items = <<>>
    BY <1>0, <1>1, <2>1 DEF ExchangeOK, ReadersOK
  <2>2. client.phase \in {"off", "asking"} =>
           ~Holds(recvArray, Undefined)' /\ recvArray'.items = <<>>
    BY <1>2, <2>1 DEF Holds
  <2> QED BY <1>0, <1>3, <1>5, <2>2 DEF ExchangeOK
<1>12. OpenBytesOK' BY <1>0 DEF OpenBytesOK
<1> QED BY <1>0, <1>6, <1>7, <1>9, <1>10, <1>11, <1>12, FramesKeep

LEMMA DisconnectStep == ASSUME TransportInv, Disconnect PROVE TransportInv'
<1> USE DEF TransportInv
<1>0. /\ Quiet /\ connected /\ client.phase \in {"busy", "receiving"}
      /\ connected' = FALSE /\ closed' = TRUE /\ recvArray' = Disconnected(recvArray)
      /\ UNCHANGED <<readers, sendTask, sendArray, stream, readable, net, sent, base, client,
                     requests, received, failures>>
  BY DEF Disconnect
<1>1. recvArray.items # <<>> \/ ~AlivePushing BY <1>0, QuietFacts
<1>2. /\ recvArray' \in Queue(Payload) /\ QueueOK(recvArray')
      /\ recvArray'.items = recvArray.items /\ recvArray.pushes \subseteq recvArray'.pushes
      /\ \A p \in recvArray'.pushes :
            p \in recvArray.pushes \/ (p.by = 0 /\ p.value = Undefined)
  <2> HIDE DEF TransportInv
  <2> QED BY <1>0, <1>1, DisconnectedFacts
<1>3. TransportTypeOK' BY <1>0, <1>2 DEF TransportTypeOK
<1>4. Position' = Position /\ NextFrame' = NextFrame /\ Taken' = Taken
  BY <1>0, <1>2, SamePosition
<1>5. ReadersOK' BY <1>0, <1>4, ReadersKeep
<1>6. RecvOK'
  <2>1. Holds(recvArray, Undefined)' <=> Holds(recvArray, Undefined) BY <1>2 DEF Holds
  <2>2. \A p \in recvArray'.pushes :
          \/ p.by = 0 /\ p.value = Undefined
          \/ /\ p.by = Len(readers) /\ AlivePushing
             /\ p.value = Frame(Taken + 1) /\ ~Holds(recvArray, Undefined)
    BY <1>2 DEF RecvOK
  <2>3. AlivePushing => \E p \in recvArray'.pushes : p.by = Len(readers)
    BY <1>2 DEF RecvOK
  <2> QED BY <1>0, <1>2, <1>4, <2>1, <2>2, <2>3, SameReader DEF RecvOK
<1>7. NotSending BY <1>0, QuietFacts
<1>8. SendOK' BY <1>0, <1>7, SendKeeps
<1>9. ExchangeOK'
  <2>1. client.phase = "receiving" => ~AlivePushing BY <1>0, QuietFacts
  <2> QED BY <1>0, <2>1, SameReader DEF ExchangeOK
<1>10. OpenBytesOK' BY <1>0 DEF OpenBytesOK
<1> QED BY <1>0, <1>3, <1>5, <1>6, <1>8, <1>9, <1>10, FramesKeep
\* A frame goes from the loop that read it to the queue, or the mark of the end does.
LEMMA RecvPushStep ==
    ASSUME TransportInv, NEW p \in Resumed(recvArray), recvArray' = Pushed(recvArray, p),
           readers' = IF p.by = 0 THEN readers
                      ELSE [readers EXCEPT ![p.by] =
                              IF connected THEN AtHeader ELSE [AtHeader EXCEPT !.phase = "ended"]],
           UNCHANGED <<sendArray, connected, sendTask, socketVars, client, requests, received,
                       failures>>
    PROVE  TransportInv'
<1> USE DEF TransportInv, socketVars
<1>1. /\ recvArray.items = <<>> /\ recvArray.pushes = {p} /\ p \in Item(Payload)
      /\ recvArray' \in Queue(Payload) /\ QueueOK(recvArray') /\ recvArray'.items = <<p.value>>
      /\ recvArray'.pushes = {} /\ recvArray'.items # <<>> /\ recvArray'.items[1] = p.value
  <2>1. recvArray \in Queue(Payload) /\ QueueOK(recvArray) BY DEF TransportTypeOK, RecvOK
  <2>2. <<p.value>>[1] = p.value /\ <<p.value>> # <<>> OBVIOUS
  <2> HIDE DEF TransportInv
  <2> QED BY <2>1, <2>2, PushedIsItem
<1>2. Holds(recvArray, Undefined)' <=> p.value = Undefined BY <1>1 DEF Holds
<1>3. SendOK' BY SendKeeps
<1>4. Taken = base + Len(received) /\ Taken \in Nat
  <2>1. base \in Nat /\ Len(received) \in Nat /\ Taken \in Nat BY ItemTypes DEF TransportTypeOK
  <2> QED BY <1>1, <2>1 DEF Taken
<1>5. CASE p.by = 0
  <2>1. p.value = Undefined /\ ~connected /\ closed /\ ~AlivePushing
    <3>1. ~(p.by = Len(readers) /\ Alive)
      BY <1>5, NewestTypes DEF Alive
    <3>2. AlivePushing => Alive BY DEF AlivePushing
    <3> QED BY <1>1, <3>1, <3>2 DEF RecvOK, ReadersOK
  <2>2. readers' = readers BY <1>5
  <2>3. Taken' = Taken BY <1>1, <2>1 DEF Taken
  <2>4. NextFrame' = NextFrame /\ Position' = Position
    BY <2>2, <2>3, SameReader DEF NextFrame, Position
  <2>5. TransportTypeOK' BY <1>1, <2>2 DEF TransportTypeOK
  <2>6. ReadersOK' BY <2>2, <2>4, ReadersKeep DEF ReadersOK
  <2>7. RecvOK' BY <1>1, <2>1, <2>2, SameReader DEF RecvOK
  <2>8. ExchangeOK' BY <1>1, <1>2, <2>1, <2>2, SameReader DEF ExchangeOK
  <2>9. OpenBytesOK' BY <2>4, BytesKeep
  <2> QED BY <1>3, <2>5, <2>6, <2>7, <2>8, <2>9, FramesKeep
<1>6. CASE p.by # 0
  <2>1. p.by = Len(readers) /\ AlivePushing /\ p.value = Frame(Taken + 1)
    BY <1>1, <1>6 DEF RecvOK
  <2>2. Alive /\ Newest.phase = "pushing" /\ readers # <<>> BY <2>1 DEF AlivePushing, Alive
  <2>3. p.value # Undefined
    <3> HIDE DEF TransportInv
    <3> QED BY <1>4, <2>1, FrameType
  <2> DEFINE new == IF connected THEN AtHeader ELSE [AtHeader EXCEPT !.phase = "ended"]
  <2>4. /\ new \in Loop
        /\ connected => new.phase = "header" /\ new.want = 1 /\ new.got = <<>>
        /\ ~connected => new.phase = "ended"
    BY HeaderFacts
  <2>5. readers' = [readers EXCEPT ![Len(readers)] = new] BY <1>6, <2>1
  <2> HIDE DEF new
  <2>6. /\ readers' \in Seq(Loop) /\ Len(readers') = Len(readers) /\ DOMAIN readers' = DOMAIN readers
        /\ Newest' = new /\ readers' # <<>>
        /\ \A x \in DOMAIN readers : x # Len(readers) => readers'[x] = readers[x]
    <3>1. readers \in Seq(Loop) BY DEF TransportTypeOK
    <3> HIDE DEF TransportInv
    <3> QED BY <2>2, <2>4, <2>5, <3>1, ReplaceLast DEF Newest
  <2>7. ~AlivePushing' /\ (Alive' <=> connected)
    BY <2>4, <2>6 DEF Alive, AlivePushing
  <2>8. Taken' = Taken + 1 BY <1>1, <1>4, <2>3 DEF Taken
  <2>9. NextFrame' = NextFrame BY <1>4, <2>1, <2>7, <2>8 DEF NextFrame
  <2>10. connected => Position' = Position
    BY <2>2, <2>4, <2>6, <2>9 DEF Position
  <2>11. TransportTypeOK' BY <1>1, <2>6 DEF TransportTypeOK
  <2>12. ReadersOK'
    <3>1. \A r \in DOMAIN readers' : readers'[r].phase # "ended" => r = Len(readers')
      BY <2>6 DEF ReadersOK
    <3>2. Alive' => Newest'.phase = "header" /\ Newest'.want = 1 /\ Newest'.got = <<>>
      BY <2>4, <2>6, <2>7
    <3> QED BY <2>2, <2>6, <2>7, <3>1, <3>2 DEF ReadersOK
  <2>13. RecvOK' BY <1>1, <1>2, <1>4, <2>1, <2>3, <2>7 DEF RecvOK
  <2>14. ExchangeOK'
    <3>1. ~(client.phase = "off" /\ ~closed) BY <2>1, AllReceivedFacts DEF ExchangeOK
    <3>2. ~(client.phase \in {"off", "asking"} /\ closed) BY <1>1, <1>6 DEF ExchangeOK
    <3>3. AskedOK => AskedOK' BY <1>2, <2>3 DEF AskedOK, Asked, NotSending
    <3> QED BY <1>2, <2>3, <2>7, <3>1, <3>2, <3>3 DEF ExchangeOK
  <2>15. OpenBytesOK'
    <3>1. CASE connected BY <2>10, <3>1, BytesKeep
    <3>2. CASE ~connected BY <3>2 DEF OpenBytesOK, ReadersOK
    <3> QED BY <3>1, <3>2
  <2> QED BY <1>3, <2>11, <2>12, <2>13, <2>14, <2>15, FramesKeep
<1> QED BY <1>5, <1>6

\* The connection is lost: the failure of the attempt that asks.
LEMMA CloseStep == ASSUME TransportInv, Close PROVE TransportInv'
<1> USE DEF TransportInv
<1>0. /\ Quiet /\ ~closed /\ closed' = TRUE
      /\ client.phase # "off" => failures' = failures + 1
      /\ client.phase = "off" => failures' = failures
      /\ net' = <<>> /\ readable' = TRUE
      /\ UNCHANGED <<connected, readers, sendTask, recvArray, sendArray, stream, sent, base, client,
                     requests, received>>
  BY DEF Close, Failure, connVars
<1>1. connected /\ NotSending BY <1>0, QuietFacts DEF ReadersOK
<1>2. TransportTypeOK' BY <1>0, EmptySeq DEF TransportTypeOK
<1>3. Position' = Position /\ NextFrame' = NextFrame /\ Taken' = Taken BY <1>0, SamePosition
<1>4. ReadersOK' BY <1>0, <1>1, <1>3, ReadersKeep
<1>5. RecvOK' BY <1>0, <1>3, SameReader DEF RecvOK
<1>6. SendOK' BY <1>0, <1>1, SendKeeps
<1>7. ExchangeOK'
  <2>1. client.phase \in {"off", "asking"} => recvArray.items = <<>> /\ recvArray.pushes = {}
    BY <1>0, QuietFacts DEF ExchangeOK
  <2>2. client.attempt <= failures + 1 /\ failures \in Nat /\ client.attempt \in Nat
    BY DEF ExchangeOK, TransportTypeOK, Caller
  <2>3. client.attempt <= failures' + 1 /\ (client.phase = "asking" => client.attempt <= failures')
    BY <1>0, <2>2
  <2> QED BY <1>0, <1>1, <2>1, <2>3, SameReader DEF ExchangeOK, Holds
<1>8. OpenBytesOK' BY <1>0 DEF OpenBytesOK
<1> QED BY <1>0, <1>2, <1>4, <1>5, <1>6, <1>7, <1>8, FramesKeep

\* What an attempt finds: an open connection of which all was received, or one without a loop.
LEMMA AttemptFacts ==
    ASSUME TransportInv, Quiet, client.phase = "off"
    PROVE  /\ recvArray.pushes = {} /\ ~AlivePushing
           /\ recvArray.items # <<>> => Holds(recvArray, Undefined)
           /\ connected => ~closed
           /\ ~connected => closed /\ \A r \in DOMAIN readers : readers[r].phase = "ended"
<1> USE DEF TransportInv
<1>1. recvArray.items # <<>> => Holds(recvArray, Undefined) BY DEF ExchangeOK
<1>2. recvArray.pushes = {} BY <1>1, QuietFacts DEF ExchangeOK
<1>3. ~AlivePushing BY <1>2 DEF RecvOK
<1>4. connected => ~closed BY <1>3, QuietFacts DEF ReadersOK
<1>5. ASSUME ~connected, NEW r \in DOMAIN readers PROVE closed /\ readers[r].phase = "ended"
  <2>1. ~Alive /\ closed BY <1>5 DEF ReadersOK
  <2>2. readers # <<>> BY ItemTypes
  <2> QED BY <2>1, <2>2 DEF ReadersOK, Alive, Newest
<1> QED BY <1>1, <1>2, <1>3, <1>4, <1>5 DEF ReadersOK

LEMMA AttemptStep == ASSUME TransportInv, Attempt PROVE TransportInv'
<1> USE DEF TransportInv
<1>0. /\ Quiet /\ client.phase = "off" /\ Goes(client.attempt, 1)
      /\ UNCHANGED <<recvArray, failures>>
      /\ client.attempt \in Nat /\ client.attempt <= failures + 1 /\ Steps \in Nat /\ 1 <= Steps
  BY TransportAssumption DEF Attempt, TransportTypeOK, Caller, ExchangeOK
<1>1. /\ client' = [phase |-> "asking", attempt |-> client.attempt, step |-> 1]
      /\ sendArray' = Push(sendArray, 0, <<client.attempt, 1>>)
  BY <1>0 DEF Goes
<1>2. /\ client' \in Caller /\ client'.phase = "asking" /\ client'.attempt = client.attempt
      /\ client'.step = 1 /\ Asked' = <<client.attempt, 1>>
  BY <1>0, <1>1 DEF Caller, Asked
<1>3. NotSending /\ sendArray \in Queue(Pair) /\ QueueOK(sendArray)
  BY <1>0 DEF SendOK, TransportTypeOK
<1>4. /\ sendArray' \in Queue(Pair) /\ QueueOK(sendArray') /\ sendArray'.items = <<>>
      /\ \E p \in sendArray'.pushes : p.value = Asked'
      /\ \A p \in sendArray'.pushes : p.value = Asked'
  <2>1. <<client.attempt, 1>> \in Pair /\ 0 \in Nat BY <1>0 DEF Pair
  <2> HIDE DEF TransportInv
  <2> QED BY <1>1, <1>2, <1>3, <2>1, PushAdds DEF NotSending
<1>5. ~NotSending' BY <1>4 DEF NotSending
<1>6. SendOK'
  <2>1. ~closed'
    BY <1>0, AttemptFacts DEF Attempt, Opens, Open, socketVars
  <2> QED BY <1>2, <1>4, <2>1 DEF SendOK
<1>7. /\ recvArray.pushes = {} /\ ~AlivePushing
      /\ recvArray.items # <<>> => Holds(recvArray, Undefined)
  BY <1>0, AttemptFacts
<1>8. CASE connected
  <2>1. UNCHANGED <<connected, readers, sendTask, closed, stream, readable, net, sent, base,
                    requests, received>> /\ ~closed
    BY <1>0, <1>8, AttemptFacts DEF Attempt, Opens, socketVars
  <2>2. Position' = Position /\ NextFrame' = NextFrame /\ Taken' = Taken
    BY <1>0, <2>1, SamePosition
  <2>3. TransportTypeOK' BY <1>0, <1>2, <1>4, <2>1 DEF TransportTypeOK
  <2>4. ReadersOK' BY <1>8, <2>1, <2>2, ReadersKeep
  <2>5. requests = <<>> /\ Len(sent) = base + Len(received) /\ recvArray.items = <<>>
    BY <1>0, <2>1 DEF ExchangeOK
  <2>6. RecvOK' BY <1>0, <2>1, <2>2, <2>5, SameReader DEF RecvOK, Holds
  <2>7. AskedOK' BY <1>5, <2>1, <2>5 DEF AskedOK
  <2>8. ExchangeOK'
    BY <1>0, <1>2, <1>8, <2>1, <2>5, <2>7 DEF ExchangeOK, Holds
  <2>9. OpenBytesOK' BY <2>1, <2>2, BytesKeep
  <2> QED BY <1>6, <2>1, <2>3, <2>4, <2>6, <2>8, <2>9, FramesKeep
<1>9. CASE ~connected
  <2>1. /\ connected' = TRUE /\ closed' = FALSE /\ stream' = <<>> /\ readable' = FALSE /\ net' = <<>>
        /\ sendTask' = IF sendTask = "none" THEN "waiting" ELSE sendTask
        /\ readers' = Append(readers, AtHeader) /\ base' = Len(sent) /\ received' = <<>>
        /\ requests' = <<>> /\ sent' = sent
    BY <1>9 DEF Attempt, Opens, Open
  <2>3. /\ readers' \in Seq(Loop) /\ Len(readers') = Len(readers) + 1
        /\ DOMAIN readers' = 1 .. Len(readers) + 1 /\ readers' # <<>> /\ Newest' = AtHeader
        /\ \A r \in 1 .. Len(readers) : readers'[r] = readers[r]
    <3>1. readers \in Seq(Loop) BY DEF TransportTypeOK
    <3> HIDE DEF TransportInv
    <3> QED BY <2>1, <3>1, HeaderFacts, AddLast DEF Newest
  <2>4. Alive' /\ ~AlivePushing' BY <2>3, HeaderFacts DEF Alive, AlivePushing
  <2>5. Len(sent) \in Nat /\ Len(received') = 0 /\ Len(<<>>) = 0 BY <2>1, ItemTypes, EmptySeq
  <2>6. TransportTypeOK'
    <3>1. <<>> \in Seq(Pair) /\ <<>> \in Seq(Payload) BY EmptySeq
    <3> QED BY <1>0, <1>2, <1>4, <2>1, <2>3, <2>5, <3>1 DEF TransportTypeOK
  <2>7. ReadersOK'
    <3>1. \A r \in DOMAIN readers' : readers'[r].phase # "ended" => r = Len(readers')
      BY <1>0, <1>9, <2>3, AttemptFacts, ItemTypes, SMTT(30)
    <3>2. sendTask' = "waiting" BY <2>1 DEF ReadersOK
    <3> QED BY <1>2, <2>1, <2>3, <2>4, <3>1, <3>2, HeaderFacts DEF ReadersOK
  <2>8. Holds(recvArray, Undefined)' <=> Holds(recvArray, Undefined) BY <1>0 DEF Holds
  <2>9. RecvOK'
    <3>1. recvArray.items # <<>> => recvArray.items[1] = Undefined BY <1>7 DEF Holds
    <3> QED BY <1>0, <1>2, <1>7, <2>1, <2>4, <2>5, <3>1, ItemTypes DEF RecvOK
  <2>10. AskedOK' BY <1>5, <2>1, <2>5 DEF AskedOK
  <2>11. ExchangeOK' BY <1>0, <1>2, <1>7, <2>1, <2>10 DEF ExchangeOK
  <2>12. OpenBytesOK'
    <3>1. Flight' = <<>> /\ Len(<<>>) = 0 BY <2>1 DEF Flight
    <3>2. Taken' = Len(sent)
      <4>1. recvArray.items # <<>> => recvArray.items[1] = Undefined BY <1>7 DEF Holds
      <4> QED BY <1>0, <2>1, <2>5, <4>1 DEF Taken
    <3>3. Position' = <<Len(sent) + 1, 0>>
      BY <2>3, <2>4, <3>2, HeaderFacts DEF Position, NextFrame
    <3> QED BY <2>1, <2>5, <3>1, <3>3 DEF OpenBytesOK, BytesOK, Rest
  <2>13. Whole' BY <2>1 DEF Whole
  <2> QED BY <1>6, <2>6, <2>7, <2>9, <2>11, <2>12, <2>13
<1> QED BY <1>8, <1>9

-----------------------------------------------------------------------------
(* The bytes of the connection *)

LEMMA Joined ==
    ASSUME NEW s \in Seq(Pair), NEW t \in Seq(Pair)
    PROVE  /\ s \o t \in Seq(Pair) /\ Len(s \o t) = Len(s) + Len(t)
           /\ Len(s) \in Nat /\ Len(t) \in Nat
           /\ \A i \in 1 .. Len(s) : (s \o t)[i] = s[i]
           /\ \A k \in 1 .. Len(t) : (s \o t)[Len(s) + k] = t[k]
<1>1. /\ s \o t \in Seq(Pair) /\ Len(s \o t) = Len(s) + Len(t)
      /\ \A i \in 1 .. Len(s) + Len(t) : (s \o t)[i] = IF i <= Len(s) THEN s[i] ELSE t[i - Len(s)]
  BY ConcatProperties
<1>2. Len(s) \in Nat /\ Len(t) \in Nat BY LenProperties
<1> DEFINE u == s \o t
<1> HIDE DEF u
<1>3. \A i \in 1 .. Len(s) + Len(t) : u[i] = IF i <= Len(s) THEN s[i] ELSE t[i - Len(s)]
  BY <1>1 DEF u
<1>4. ASSUME NEW i \in 1 .. Len(s) PROVE u[i] = s[i] BY <1>2, <1>3
<1>5. ASSUME NEW k \in 1 .. Len(t) PROVE u[Len(s) + k] = t[k]
  <2>1. /\ Len(s) + k \in 1 .. Len(s) + Len(t) /\ ~(Len(s) + k <= Len(s))
        /\ (Len(s) + k) - Len(s) = k
    BY <1>2
  <2> QED BY <1>3, <2>1
<1> QED BY <1>1, <1>2, <1>4, <1>5 DEF u

LEMMA JoinedTwice ==
    ASSUME NEW s \in Seq(Pair), NEW t \in Seq(Pair), NEW u \in Seq(Pair)
    PROVE  (s \o t) \o u = s \o (t \o u)
BY ConcatAssociative

LEMMA Cut ==
    ASSUME NEW s \in Seq(Pair), NEW n \in 0 .. Len(s)
    PROVE  /\ SubSeq(s, 1, n) \in Seq(Pair) /\ Len(SubSeq(s, 1, n)) = n
           /\ \A i \in 1 .. n : SubSeq(s, 1, n)[i] = s[i]
           /\ SubSeq(s, n + 1, Len(s)) \in Seq(Pair)
           /\ Len(SubSeq(s, n + 1, Len(s))) = Len(s) - n
           /\ \A i \in 1 .. Len(s) - n : SubSeq(s, n + 1, Len(s))[i] = s[n + i]
<1>1. Len(s) \in Nat /\ n \in Nat /\ n <= Len(s) OBVIOUS
<1>2. \A i \in 1 .. Len(s) : s[i] \in Pair BY ElementOfSeq
<1>3. /\ SubSeq(s, 1, n) \in Seq(Pair) /\ Len(SubSeq(s, 1, n)) = n
      /\ \A i \in 1 .. n : SubSeq(s, 1, n)[i] = s[i]
  BY <1>1, <1>2
<1>4. /\ SubSeq(s, n + 1, Len(s)) \in Seq(Pair)
      /\ Len(SubSeq(s, n + 1, Len(s))) = Len(s) - n
  BY <1>1, <1>2
<1>5. ASSUME NEW i \in 1 .. Len(s) - n PROVE SubSeq(s, n + 1, Len(s))[i] = s[n + i]
  BY <1>1, <1>5
<1> QED BY <1>3, <1>4, <1>5

\* The bytes of one more frame.
LEMMA RestGrows ==
    ASSUME NEW s, NEW m \in Nat, NEW first, NEW last \in Nat, Rest(s, m, first, last),
           \A i \in 1 .. m : s[i] \in Pair,
           NEW u, \A i \in 1 .. m : u[i] = s[i],
           \A k \in 1 .. BodyLength + 1 : u[m + k] = <<last + 1, k - 1>>
    PROVE  Rest(u, m + (BodyLength + 1), first, last + 1)
<1> DEFINE N == m + (BodyLength + 1)
<1>1. BodyLength \in Nat /\ BodyLength > 0 /\ N \in Nat /\ N = m + (BodyLength + 1) /\ N > m
  BY TransportAssumption
<1>2. ASSUME NEW i \in m + 1 .. N PROVE u[i] = <<last + 1, i - m - 1>>
  <2>1. i - m \in 1 .. BodyLength + 1 /\ m + (i - m) = i BY <1>1
  <2> QED BY <2>1
<1>3. \A i \in 1 .. m : s[i][1] \in Nat /\ s[i][2] \in Nat BY DEF Pair
<1>4. \A i \in 1 .. N : i \in 1 .. m \/ i \in m + 1 .. N BY <1>1
<1> HIDE DEF N
<1>6. ASSUME NEW i \in 1 .. N PROVE u[i][1] <= last + 1 /\ u[i][2] <= BodyLength
  <2>1. CASE i \in 1 .. m
    <3>1. s[i][1] <= last /\ s[i][2] <= BodyLength /\ s[i][1] \in Nat BY <1>3, <2>1 DEF Rest
    <3> QED BY <2>1, <3>1
  <2>2. CASE i \in m + 1 .. N
    <3>1. u[i][1] = last + 1 /\ u[i][2] = i - m - 1 /\ i \in Int /\ i <= N BY <1>1, <1>2, <2>2
    <3> QED BY <1>1, <3>1
  <2> QED BY <1>4, <2>1, <2>2
<1>7. ASSUME NEW i \in 1 .. N, NEW j \in 1 .. N, i <= j, u[i][2] + (j - i) <= BodyLength
      PROVE  u[j] = <<u[i][1], u[i][2] + (j - i)>>
  <2>1. CASE j \in 1 .. m
    <3>1. i \in 1 .. m BY <1>1, <1>7, <2>1
    <3>2. u[i] = s[i] /\ u[j] = s[j] BY <2>1, <3>1
    <3> QED BY <1>7, <2>1, <3>1, <3>2 DEF Rest
  <2>2. CASE i \in m + 1 .. N /\ j \in m + 1 .. N
    <3>1. u[j] = <<last + 1, j - m - 1>> /\ u[i][1] = last + 1 /\ u[i][2] = i - m - 1
      BY <1>2, <2>2
    <3>2. (i - m - 1) + (j - i) = j - m - 1 BY <1>1
    <3> QED BY <3>1, <3>2
  <2>3. CASE i \in 1 .. m /\ j \in m + 1 .. N
    <3>1. m \in 1 .. m /\ i <= m /\ m > 0 /\ m - i < j - i BY <1>1, <2>3
    <3>2. u[i] = s[i] /\ s[i][2] \in Nat BY <1>3, <2>3
    <3>3. s[i][2] + (m - i) < BodyLength BY <1>1, <1>7, <3>1, <3>2
    <3>4. s[m] = <<s[i][1], s[i][2] + (m - i)>> BY <1>1, <2>3, <3>1, <3>2, <3>3 DEF Rest
    <3>5. s[m] = <<last, BodyLength>> BY <3>1 DEF Rest
    <3> QED BY <3>3, <3>4, <3>5, <1>1
  <2>4. ~(i \in m + 1 .. N /\ j \in 1 .. m) BY <1>1, <1>7
  <2> QED BY <1>4, <2>1, <2>2, <2>3, <2>4
<1>8. ASSUME NEW i \in 1 .. N, i < N, u[i][2] = BodyLength
      PROVE  u[i + 1] = <<u[i][1] + 1, 0>>
  <2>1. CASE i \in 1 .. m /\ i < m
    <3>1. i + 1 \in 1 .. m BY <2>1
    <3>2. u[i] = s[i] /\ u[i + 1] = s[i + 1] BY <2>1, <3>1
    <3> QED BY <1>8, <2>1, <3>2 DEF Rest
  <2>2. CASE i = m
    <3>1. m + 1 \in m + 1 .. N /\ m + 1 - m - 1 = 0 /\ m \in 1 .. m /\ m > 0 BY <1>1, <2>2
    <3>2. u[i] = s[m] /\ u[i + 1] = <<last + 1, 0>> BY <1>2, <2>2, <3>1
    <3>3. s[m] = <<last, BodyLength>> BY <3>1 DEF Rest
    <3> QED BY <3>2, <3>3
  <2>3. CASE i \in m + 1 .. N
    <3>1. u[i][2] = i - m - 1 BY <1>2, <2>3
    <3> QED BY <1>1, <1>8, <2>3, <3>1
  <2>4. (i \in 1 .. m /\ i < m) \/ i = m \/ i \in m + 1 .. N BY <1>1, <1>8
  <2> QED BY <2>1, <2>2, <2>3, <2>4
<1>9. u[1] = first
  <2>1. CASE m = 0
    <3>1. 1 \in m + 1 .. N /\ 1 - m - 1 = 0 BY <1>1, <2>1
    <3>2. u[1] = <<last + 1, 0>> BY <1>2, <3>1
    <3>3. first = <<last + 1, 0>> BY <2>1 DEF Rest
    <3> QED BY <3>2, <3>3
  <2>2. CASE m > 0
    <3>1. 1 \in 1 .. m BY <2>2
    <3> QED BY <2>2, <3>1 DEF Rest
  <2> QED BY <2>1, <2>2
<1>10. u[N] = <<last + 1, BodyLength>> /\ N > 0
  <2>1. N \in m + 1 .. N /\ N - m - 1 = BodyLength /\ N > 0 BY <1>1
  <2> QED BY <1>2, <2>1
<1>11. N # 0 BY <1>1
<1>12. Rest(u, N, first, last + 1) BY <1>6, <1>7, <1>8, <1>9, <1>10, <1>11 DEF Rest
<1> QED BY <1>12 DEF N

\* The first n of the m bytes of s are read, from byte k of frame f on: u is what remains.
Reads(s, m, f, k, n, u) ==
    /\ f \in Nat /\ k \in Nat /\ m \in Nat /\ n \in 1 .. m /\ k + n <= BodyLength + 1
    /\ \A i \in 1 .. m - n : u[i] = s[n + i]

LEMMA RestShrinks ==
    ASSUME NEW s, NEW m \in Nat, NEW f \in Nat, NEW k \in Nat, NEW n \in Nat, NEW u,
           Reads(s, m, f, k, n, u), NEW last \in Nat, Rest(s, m, <<f, k>>, last),
           NEW next, next = IF k + n <= BodyLength THEN <<f, k + n>> ELSE <<f + 1, 0>>
    PROVE  Rest(u, m - n, next, last)
<1>0. /\ n \in 1 .. m /\ k + n <= BodyLength + 1
      /\ \A i \in 1 .. m - n : u[i] = s[n + i]
  BY DEF Reads
<1>1. BodyLength \in Nat /\ BodyLength > 0 /\ n > 0 /\ n <= m /\ m > 0 /\ m - n \in Nat
  BY <1>0, TransportAssumption
<1>3. s[1] = <<f, k>> /\ s[m] = <<last, BodyLength>> BY <1>1 DEF Rest
<1>4. ASSUME NEW i \in 1 .. m, k + (i - 1) <= BodyLength PROVE s[i] = <<f, k + (i - 1)>>
  <2>1. 1 \in 1 .. m /\ 1 <= i /\ s[1][1] = f /\ s[1][2] = k BY <1>1, <1>3
  <2> QED BY <1>4, <2>1 DEF Rest
<1>5. ASSUME NEW i \in 1 .. n PROVE s[i] = <<f, k + (i - 1)>>
  <2>1. i \in 1 .. m /\ k + (i - 1) <= BodyLength BY <1>0, <1>1
  <2> QED BY <1>4, <2>1
<1>6. ASSUME NEW i \in 1 .. m - n PROVE u[i][1] <= last /\ u[i][2] <= BodyLength
  <2>1. n + i \in 1 .. m BY <1>0, <1>1
  <2> QED BY <1>0, <2>1 DEF Rest
<1>7. ASSUME NEW i \in 1 .. m - n, NEW j \in 1 .. m - n, i <= j, u[i][2] + (j - i) <= BodyLength
      PROVE  u[j] = <<u[i][1], u[i][2] + (j - i)>>
  <2>1. /\ n + i \in 1 .. m /\ n + j \in 1 .. m /\ n + i <= n + j /\ (n + j) - (n + i) = j - i
    BY <1>0, <1>1, <1>7
  <2>2. u[i] = s[n + i] /\ u[j] = s[n + j] BY <1>0
  <2> QED BY <1>7, <2>1, <2>2 DEF Rest
<1>8. ASSUME NEW i \in 1 .. m - n, i < m - n, u[i][2] = BodyLength
      PROVE  u[i + 1] = <<u[i][1] + 1, 0>>
  <2>1. /\ n + i \in 1 .. m /\ n + i < m /\ i + 1 \in 1 .. m - n /\ n + (i + 1) = (n + i) + 1
    BY <1>0, <1>1, <1>8
  <2>2. u[i] = s[n + i] /\ u[i + 1] = s[(n + i) + 1] BY <1>0, <2>1
  <2> QED BY <1>8, <2>1, <2>2 DEF Rest
<1>9. ASSUME m - n = 0 PROVE next = <<last + 1, 0>>
  <2>1. n = m /\ n \in 1 .. n BY <1>0, <1>1, <1>9
  <2>2. s[n] = <<f, k + (n - 1)>> /\ s[n] = <<last, BodyLength>> BY <1>3, <1>5, <2>1
  <2>3. f = last /\ k + (n - 1) = BodyLength BY <2>2
  <2> QED BY <1>0, <1>1, <2>3
<1>10. ASSUME m - n > 0 PROVE u[1] = next /\ u[m - n] = <<last, BodyLength>>
  <2>1. 1 \in 1 .. m - n /\ m - n \in 1 .. m - n /\ n + (m - n) = m /\ n + 1 \in 1 .. m
    BY <1>0, <1>1, <1>10
  <2>2. u[1] = s[n + 1] /\ u[m - n] = s[m] BY <1>0, <2>1
  <2>3. CASE k + n <= BodyLength
    <3>1. k + ((n + 1) - 1) = k + n BY <1>0, <1>1
    <3> QED BY <1>3, <1>4, <2>1, <2>2, <2>3, <3>1
  <2>4. CASE ~(k + n <= BodyLength)
    <3>1. k + (n - 1) = BodyLength /\ n \in 1 .. n /\ n \in 1 .. m /\ n < m BY <1>0, <1>1, <1>10, <2>4
    <3>2. s[n] = <<f, BodyLength>> BY <1>5, <3>1
    <3>3. s[n + 1] = <<f + 1, 0>> BY <3>1, <3>2 DEF Rest
    <3> QED BY <1>3, <2>2, <2>4, <3>3
  <2> QED BY <2>3, <2>4
<1>11. Rest(u, m - n, next, last)
  <2>1. m - n = 0 \/ m - n > 0 BY <1>0, <1>1
  <2> QED BY <1>6, <1>7, <1>8, <1>9, <1>10, <2>1 DEF Rest
<1> QED BY <1>11

\* The server sends a frame.
LEMMA AppendFrame ==
    ASSUME TransportTypeOK, BytesOK, UNCHANGED stream, NEW request \in Pair,
           sent' = Append(sent, request), Position' = Position,
           net' = net \o <<<<Len(sent'), 0>>>> \o Frame(Len(sent'))
    PROVE  /\ BytesOK' /\ sent' \in Seq(Pair) /\ net' \in Seq(Pair) /\ Len(sent') = Len(sent) + 1
           /\ sent'[Len(sent')] = request
<1> DEFINE f == Len(sent) + 1
           tail == <<<<f, 0>>>> \o Frame(f)
<1>1. /\ stream \in Seq(Pair) /\ net \in Seq(Pair) /\ sent \in Seq(Pair)
      /\ Len(sent) \in Nat /\ f \in Nat /\ BodyLength \in Nat
  BY ItemTypes, TransportAssumption DEF TransportTypeOK
<1>2. sent' \in Seq(Pair) /\ Len(sent') = f /\ sent'[f] = request BY <1>1, AppendProperties
<1>3. Frame(f) \in Seq(Pair) /\ Len(Frame(f)) = BodyLength
  BY <1>1, FrameType DEF Payload
<1>4. /\ tail \in Seq(Pair) /\ Len(tail) = BodyLength + 1
      /\ \A k \in 1 .. BodyLength + 1 : tail[k] = <<f, k - 1>>
  <2> DEFINE head == <<<<f, 0>>>>
  <2>1. <<f, 0>> \in Pair BY <1>1 DEF Pair
  <2>2. head \in Seq(Pair) /\ Len(head) = 1 /\ head[1] = <<f, 0>> BY <2>1
  <2>3. \A k \in 1 .. BodyLength : Frame(f)[k] = <<f, k>> BY <1>3 DEF Frame
  <2>4. tail = head \o Frame(f) OBVIOUS
  <2> HIDE DEF tail, head, f
  <2>5. /\ tail \in Seq(Pair) /\ Len(tail) = 1 + BodyLength
        /\ tail[1] = <<f, 0>>
        /\ \A k \in 1 .. BodyLength : tail[1 + k] = <<f, k>>
    <3>1. /\ tail \in Seq(Pair) /\ Len(tail) = Len(head) + Len(Frame(f))
          /\ \A i \in 1 .. Len(head) : tail[i] = head[i]
          /\ \A k \in 1 .. Len(Frame(f)) : tail[Len(head) + k] = Frame(f)[k]
      BY <1>3, <2>2, <2>4, Joined
    <3> QED BY <1>1, <1>3, <2>2, <2>3, <3>1
  <2>6. ASSUME NEW k \in 1 .. BodyLength + 1 PROVE tail[k] = <<f, k - 1>>
    <3>1. CASE k = 1 BY <2>5, <3>1
    <3>2. CASE k # 1
      <4>1. k - 1 \in 1 .. BodyLength /\ 1 + (k - 1) = k BY <1>1, <3>2
      <4> QED BY <2>5, <4>1
    <3> QED BY <3>1, <3>2
  <2> QED BY <1>1, <2>5, <2>6
<1>5. net' = net \o tail
  <2>1. <<<<f, 0>>>> \in Seq(Pair) BY <1>1 DEF Pair
  <2> QED BY <1>1, <1>2, <1>3, <2>1, ConcatAssociative, SMTT(30)
<1> HIDE DEF tail
<1>6. Flight \in Seq(Pair) /\ net' \in Seq(Pair) /\ Flight' = Flight \o tail
  <2>1. Flight = stream \o net /\ Flight' = stream \o net' BY DEF Flight
  <2>2. stream \o net \in Seq(Pair) /\ net' \in Seq(Pair)
    BY <1>1, <1>4, <1>5, Joined, ZenonT(30)
  <2>3. (stream \o net) \o tail = stream \o (net \o tail) BY <1>1, <1>4, JoinedTwice, ZenonT(30)
  <2> QED BY <1>5, <2>1, <2>2, <2>3
<1>7. /\ Len(Flight) \in Nat /\ Len(Flight') = Len(Flight) + (BodyLength + 1)
      /\ \A i \in 1 .. Len(Flight) : Flight'[i] = Flight[i] /\ Flight[i] \in Pair
      /\ \A k \in 1 .. BodyLength + 1 : Flight'[Len(Flight) + k] = <<f, k - 1>>
  <2>1. /\ Len(Flight \o tail) = Len(Flight) + Len(tail) /\ Len(Flight) \in Nat
        /\ \A i \in 1 .. Len(Flight) : (Flight \o tail)[i] = Flight[i]
        /\ \A k \in 1 .. Len(tail) : (Flight \o tail)[Len(Flight) + k] = tail[k]
    BY <1>4, <1>6, Joined, ZenonT(30)
  <2>2. \A i \in 1 .. Len(Flight) : Flight[i] \in Pair BY <1>6, ElementOfSeq
  <2>3. \A k \in 1 .. BodyLength + 1 : (Flight \o tail)[Len(Flight) + k] = <<f, k - 1>>
    BY <1>4, <2>1
  <2> QED BY <1>4, <1>6, <2>1, <2>2, <2>3
<1> HIDE DEF f
<1>8. Rest(Flight', Len(Flight) + (BodyLength + 1), Position, Len(sent) + 1)
  <2>1. Rest(Flight, Len(Flight), Position, Len(sent)) BY DEF BytesOK
  <2> QED BY <1>1, <1>7, <2>1, RestGrows DEF f
<1> QED BY <1>2, <1>6, <1>7, <1>8 DEF BytesOK, f

\* The server answers, or refuses: its frame is the one that recv() waits for.
LEMMA ServeStep == ASSUME TransportInv, Serve PROVE TransportInv'
<1> USE DEF TransportInv
<1>0. /\ Quiet /\ requests # <<>> /\ ~closed /\ requests' = Tail(requests)
      /\ \/ sent' = Append(sent, Head(requests)) /\ UNCHANGED failures
         \/ sent' = Append(sent, <<0, 0>>) /\ failures' = failures + 1
      /\ net' = net \o <<<<Len(sent'), 0>>>> \o Frame(Len(sent'))
      /\ UNCHANGED <<connected, readers, sendTask, recvArray, sendArray, closed, stream, readable,
                     base, client, received>>
  BY DEF Serve, Failure, connVars
<1>1. requests \in Seq(Pair) /\ Head(requests) \in Pair /\ <<0, 0>> \in Pair
      /\ Tail(requests) \in Seq(Pair)
  <2>1. requests \in Seq(Pair) BY DEF TransportTypeOK
  <2>2. Head(requests) \in Pair /\ Tail(requests) \in Seq(Pair)
    BY <1>0, <2>1, HeadTailProperties
  <2> QED BY <2>1, <2>2 DEF Pair
<1>2. Position' = Position /\ NextFrame' = NextFrame /\ Taken' = Taken
  BY <1>0, SamePosition
<1>3. PICK request \in Pair :
          /\ sent' = Append(sent, request)
          /\ (request = Head(requests) /\ failures' = failures) \/ failures' = failures + 1
  BY <1>0, <1>1
<1>4. /\ BytesOK' /\ sent' \in Seq(Pair) /\ net' \in Seq(Pair) /\ Len(sent') = Len(sent) + 1
      /\ sent'[Len(sent')] = request
  <2>1. TransportTypeOK /\ BytesOK BY <1>0 DEF OpenBytesOK
  <2> HIDE DEF TransportInv
  <2> QED BY <1>0, <1>2, <1>3, <2>1, AppendFrame
<1>5. failures' \in Nat /\ failures <= failures' /\ failures \in Nat
  BY <1>0, SMTT(30) DEF TransportTypeOK
<1>6. TransportTypeOK' BY <1>0, <1>1, <1>4, <1>5 DEF TransportTypeOK
<1>7. ReadersOK' BY <1>0, <1>2, ReadersKeep DEF ReadersOK
<1>8. client.phase # "off" BY <1>0 DEF ExchangeOK
<1>9. client.phase = "asking" => ~Holds(recvArray, Undefined)
  BY <1>0, QuietFacts DEF Holds
<1>10. RecvOK' BY <1>0, <1>2, <1>9, SameReader DEF RecvOK, Holds
<1>11. SendOK' BY <1>0, SendKeeps
<1>12. ASSUME client.phase = "asking" PROVE AskedOK'
  <2>1. NotSending /\ requests = <<Asked>> /\ Len(sent) = base + Len(received)
    BY <1>0, <1>12 DEF ExchangeOK, AskedOK
  <2>2. requests' = <<>> /\ Head(requests) = Asked BY <1>0, <2>1
  <2>3. client.attempt <= failures + 1 /\ client.attempt \in Nat
    BY DEF ExchangeOK, TransportTypeOK, Caller
  <2>4. request = Asked \/ client.attempt <= failures'
    BY <1>0, <1>3, <1>5, <2>2, <2>3
  <2>5. NotSending' /\ Asked' = Asked BY <1>0, <2>1 DEF NotSending, Asked
  <2>6. ~Holds(recvArray, Undefined)' BY <1>0, <1>9, <1>12 DEF Holds
  <2> QED BY <1>0, <1>4, <2>1, <2>2, <2>4, <2>5, <2>6 DEF AskedOK
<1>13. ExchangeOK'
  <2>1. client.attempt \in Nat BY DEF TransportTypeOK, Caller
  <2> QED BY <1>0, <1>5, <1>8, <1>9, <1>12, <2>1, SameReader DEF ExchangeOK, Holds
<1> QED BY <1>0, <1>4, <1>6, <1>7, <1>10, <1>11, <1>13, FramesKeep DEF OpenBytesOK

LEMMA UpdateStep == ASSUME TransportInv, Update PROVE TransportInv'
<1> USE DEF TransportInv
<1>0. /\ Quiet /\ client.step > Steps /\ ~closed /\ sent' = Append(sent, <<0, 0>>)
      /\ net' = net \o <<<<Len(sent'), 0>>>> \o Frame(Len(sent'))
      /\ UNCHANGED <<connected, readers, sendTask, recvArray, sendArray, closed, stream, readable,
                     base, client, requests, received, failures>>
  BY DEF Update, connVars
<1>1. client.phase \notin {"off", "asking"}
  BY <1>0, TransportAssumption DEF ExchangeOK, TransportTypeOK, Caller
<1>2. Position' = Position /\ NextFrame' = NextFrame /\ Taken' = Taken
  BY <1>0, SamePosition
<1>3. /\ BytesOK' /\ sent' \in Seq(Pair) /\ net' \in Seq(Pair) /\ Len(sent') = Len(sent) + 1
  <2>1. TransportTypeOK /\ BytesOK BY <1>0 DEF OpenBytesOK
  <2>2. <<0, 0>> \in Pair BY DEF Pair
  <2> HIDE DEF TransportInv
  <2> QED BY <1>0, <1>2, <2>1, <2>2, AppendFrame
<1>4. TransportTypeOK' BY <1>0, <1>3 DEF TransportTypeOK
<1>5. ReadersOK' BY <1>0, <1>2, ReadersKeep DEF ReadersOK
<1>6. ~Holds(recvArray, Undefined) BY <1>0, <1>1 DEF RecvOK
<1>7. RecvOK' BY <1>0, <1>2, <1>6, SameReader DEF RecvOK, Holds
<1>8. SendOK' BY <1>0, SendKeeps
<1>9. ExchangeOK' BY <1>0, <1>1, SameReader DEF ExchangeOK
<1> QED BY <1>0, <1>3, <1>4, <1>5, <1>7, <1>8, <1>9, FramesKeep DEF OpenBytesOK

LEMMA CutJoined ==
    ASSUME NEW t \in Seq(Pair), NEW n \in 0 .. Len(t)
    PROVE  SubSeq(t, 1, n) \o SubSeq(t, n + 1, Len(t)) = t
<1> DEFINE a == SubSeq(t, 1, n)
           b == SubSeq(t, n + 1, Len(t))
<1>1. /\ a \in Seq(Pair) /\ Len(a) = n /\ \A i \in 1 .. n : a[i] = t[i]
      /\ b \in Seq(Pair) /\ Len(b) = Len(t) - n /\ \A i \in 1 .. Len(t) - n : b[i] = t[n + i]
  BY Cut
<1>2. Len(t) \in Nat /\ n \in Nat /\ n <= Len(t) /\ n + (Len(t) - n) = Len(t) OBVIOUS
<1> HIDE DEF a, b
<1>3. /\ a \o b \in Seq(Pair) /\ Len(a \o b) = Len(t)
      /\ \A i \in 1 .. n : (a \o b)[i] = t[i]
      /\ \A k \in 1 .. Len(t) - n : (a \o b)[n + k] = t[n + k]
  <2>1. /\ a \o b \in Seq(Pair) /\ Len(a \o b) = Len(a) + Len(b)
        /\ \A i \in 1 .. Len(a) : (a \o b)[i] = a[i]
        /\ \A k \in 1 .. Len(b) : (a \o b)[Len(a) + k] = b[k]
    BY <1>1, Joined
  <2> QED BY <1>1, <1>2, <2>1
<1> DEFINE u == a \o b
<1> HIDE DEF u
<1>4. u \in Seq(Pair) /\ Len(u) = Len(t) BY <1>3 DEF u
<1>5. ASSUME NEW i \in 1 .. Len(t) PROVE u[i] = t[i]
  <2>1. CASE i <= n
    <3>1. i \in 1 .. n BY <1>2, <2>1
    <3> QED BY <1>3, <3>1 DEF u
  <2>2. CASE ~(i <= n)
    <3>1. i - n \in 1 .. Len(t) - n /\ n + (i - n) = i BY <1>2, <2>2
    <3> QED BY <1>3, <3>1 DEF u
  <2> QED BY <2>1, <2>2
<1>6. u = t BY <1>4, <1>5, SeqEqual
<1> QED BY <1>6 DEF u, a, b

LEMMA DataStep == ASSUME TransportInv, NEW n \in 1 .. Len(net), Data(n) PROVE TransportInv'
<1> USE DEF TransportInv
<1>0. /\ Quiet /\ ~closed /\ stream' = stream \o SubSeq(net, 1, n) /\ readable' = TRUE
      /\ net' = SubSeq(net, n + 1, Len(net))
      /\ UNCHANGED <<connected, readers, sendTask, recvArray, sendArray, closed, sent, base, client,
                     requests, received, failures>>
  BY DEF Data, connVars
<1>1. stream' \in Seq(Pair) /\ net' \in Seq(Pair) /\ Flight' = Flight
  <2>1. stream \in Seq(Pair) /\ net \in Seq(Pair) /\ n \in 0 .. Len(net)
    BY ItemTypes DEF TransportTypeOK
  <2> HIDE DEF TransportInv
  <2> DEFINE a == SubSeq(net, 1, n)
             b == SubSeq(net, n + 1, Len(net))
  <2>2. a \in Seq(Pair) /\ b \in Seq(Pair) /\ a \o b = net BY <2>1, Cut, CutJoined
  <2>3. stream' = stream \o a /\ net' = b BY <1>0
  <2> HIDE DEF a, b
  <2>4. stream \o a \in Seq(Pair) BY <2>1, <2>2, Joined
  <2>5. (stream \o a) \o b = stream \o (a \o b) BY <2>1, <2>2, JoinedTwice, ZenonT(30)
  <2> QED BY <2>2, <2>3, <2>4, <2>5 DEF Flight
<1>2. TransportTypeOK' BY <1>0, <1>1 DEF TransportTypeOK
<1>3. Position' = Position /\ NextFrame' = NextFrame /\ Taken' = Taken BY <1>0, SamePosition
<1>4. ReadersOK' BY <1>0, <1>3, ReadersKeep DEF ReadersOK
<1>5. RecvOK' BY <1>0, <1>3, SameReader DEF RecvOK, Holds
<1>6. SendOK' BY <1>0, SendKeeps
<1>7. ExchangeOK' BY <1>0, SameReader DEF ExchangeOK, AskedOK, Asked, NotSending, Holds
<1>8. OpenBytesOK' BY <1>0, <1>1, <1>3 DEF OpenBytesOK, BytesOK
<1> QED BY <1>0, <1>2, <1>4, <1>5, <1>6, <1>7, <1>8, FramesKeep

-----------------------------------------------------------------------------
(* The receive loop reads *)

\* The first n bytes of s are those of frame f from its position k, and the reader is there.
Follow(s, f, k, n) == \A i \in 1 .. n : s[i] = <<f, k + (i - 1)>>
Beginning(f, k, n) == Position = <<f, k>> /\ k <= BodyLength /\ k + n <= BodyLength + 1

\* n bytes are read from the buffer, none of them of a second frame.
LEMMA ReadBytes ==
    ASSUME TransportTypeOK, BytesOK, UNCHANGED <<net, sent>>, NEW n \in Nat, n <= Len(stream),
           stream' = SubSeq(stream, n + 1, Len(stream)), NEW f \in Nat, NEW k \in Nat,
           Beginning(f, k, n),
           NEW chunk, chunk = SubSeq(stream, 1, n)
    PROVE  /\ stream' \in Seq(Pair) /\ chunk \in Seq(Pair) /\ Len(chunk) = n
           /\ Follow(chunk, f, k, n)
           /\ \A next : next = (IF k + n <= BodyLength THEN <<f, k + n>> ELSE <<f + 1, 0>>) =>
                 Rest(Flight', Len(Flight'), next, Len(sent))
<1>1. /\ stream \in Seq(Pair) /\ net \in Seq(Pair) /\ Len(sent) \in Nat /\ Len(stream) \in Nat
      /\ n \in Nat /\ n <= Len(stream) /\ BodyLength \in Nat
  BY ItemTypes, TransportAssumption DEF TransportTypeOK
<1>e. Position = <<f, k>> /\ k <= BodyLength /\ k + n <= BodyLength + 1 BY DEF Beginning
<1> DEFINE new == SubSeq(stream, n + 1, Len(stream))
<1>a. n \in 0 .. Len(stream) BY <1>1
<1>2. /\ chunk \in Seq(Pair) /\ Len(chunk) = n /\ \A i \in 1 .. n : chunk[i] = stream[i]
      /\ new \in Seq(Pair) /\ Len(new) = Len(stream) - n
      /\ \A i \in 1 .. Len(stream) - n : new[i] = stream[n + i]
      /\ chunk \o new = stream
  BY <1>1, <1>a, Cut, CutJoined
<1> HIDE DEF new
<1>3. stream' = new BY DEF new
<1>4. Flight \in Seq(Pair) /\ Flight' \in Seq(Pair) /\ Flight = chunk \o Flight'
  <2>1. Flight = stream \o net /\ Flight' = new \o net BY <1>3 DEF Flight
  <2>2. stream \o net \in Seq(Pair) /\ new \o net \in Seq(Pair) BY <1>1, <1>2, Joined
  <2>3. (chunk \o new) \o net = chunk \o (new \o net) BY <1>1, <1>2, JoinedTwice, ZenonT(30)
  <2> QED BY <1>2, <2>1, <2>2, <2>3
<1>5. /\ Len(Flight) = n + Len(Flight') /\ Len(Flight') \in Nat /\ Len(Flight) \in Nat
      /\ \A i \in 1 .. n : Flight[i] = chunk[i]
      /\ \A i \in 1 .. Len(Flight') : Flight[n + i] = Flight'[i]
  <2>1. /\ Len(chunk \o Flight') = Len(chunk) + Len(Flight') /\ Len(Flight') \in Nat
        /\ \A i \in 1 .. Len(chunk) : (chunk \o Flight')[i] = chunk[i]
        /\ \A i \in 1 .. Len(Flight') : (chunk \o Flight')[Len(chunk) + i] = Flight'[i]
    BY <1>2, <1>4, Joined
  <2>2. Len(Flight) \in Nat BY <1>4
  <2> QED BY <1>2, <1>4, <2>1, <2>2
<1>6. Rest(Flight, Len(Flight), Position, Len(sent)) BY DEF BytesOK
<1>d. PICK next : next = IF k + n <= BodyLength THEN <<f, k + n>> ELSE <<f + 1, 0>>
  OBVIOUS
<1>7. CASE n = 0
  <2>1. Len(Flight') = Len(Flight) /\ Flight' = Flight
    <3>1. Len(Flight') = Len(Flight) BY <1>5, <1>7
    <3>2. ASSUME NEW i \in 1 .. Len(Flight) PROVE Flight[i] = Flight'[i]
      <4>1. n + i = i /\ i \in 1 .. Len(Flight') BY <1>5, <1>7, <3>1
      <4> QED BY <1>5, <4>1
    <3> QED BY <1>4, <3>1, <3>2, SeqEqual
  <2>2. next = Position BY <1>7, <1>d, <1>e
  <2>3. \A i \in 1 .. n : chunk[i] = <<f, k + (i - 1)>> BY <1>7
  <2> QED BY <1>2, <1>3, <1>6, <1>d, <2>1, <2>2, <2>3 DEF Follow
<1>8. CASE n # 0
  <2>1. PICK m \in Nat : m = Len(Flight) BY <1>5
  <2>2. PICK s : s = Flight OBVIOUS
  <2>3. PICK u : u = Flight' OBVIOUS
  <2>4. n \in 1 .. m /\ m - n = Len(Flight') BY <1>1, <1>5, <1>8, <2>1
  <2>5. \A i \in 1 .. m - n : u[i] = s[n + i] BY <1>5, <2>2, <2>3, <2>4
  <2>6. Reads(s, m, f, k, n, u) BY <1>e, <2>4, <2>5 DEF Reads
  <2>7. PICK last \in Nat : last = Len(sent) BY <1>1
  <2>8. Rest(s, m, <<f, k>>, last) BY <1>6, <1>e, <2>1, <2>2, <2>7
  <2>9. Rest(u, m - n, next, last) BY <1>d, <2>6, <2>8, RestShrinks
  <2>10. ASSUME NEW i \in 1 .. n PROVE s[i] = <<f, k + (i - 1)>>
    <3>1. i \in 1 .. m /\ 1 \in 1 .. m /\ 1 <= i /\ k + (i - 1) <= BodyLength BY <1>1, <1>e, <2>4
    <3>2. s[1] = <<f, k>> /\ s[1][1] = f /\ s[1][2] = k BY <2>4, <2>8, <3>1 DEF Rest
    <3> QED BY <2>8, <3>1, <3>2 DEF Rest
  <2> QED BY <1>2, <1>3, <1>5, <1>d, <2>2, <2>3, <2>4, <2>7, <2>9, <2>10 DEF Follow
<1> QED BY <1>7, <1>8

LEMMA NewestReplaced ==
    ASSUME TransportTypeOK, ReadersOK, readers # <<>>, connected,
           UNCHANGED <<connected, closed, sendTask>>, NEW new \in Loop, new.phase # "ended",
           readers' = [readers EXCEPT ![Len(readers)] = new],
           new.phase = "header" => new.want = 1 /\ new.got = <<>>,
           new.phase = "body" =>
              /\ new.want > 0 /\ new.want + Len(new.got) = BodyLength
              /\ \A k \in 1 .. Len(new.got) : new.got[k] = <<NextFrame', k>>
    PROVE  /\ readers' \in Seq(Loop) /\ Len(readers') = Len(readers) /\ Newest' = new
           /\ Alive' /\ (AlivePushing' <=> new.phase = "pushing") /\ ReadersOK'
<1>1. /\ readers' \in Seq(Loop) /\ Len(readers') = Len(readers) /\ DOMAIN readers' = DOMAIN readers
      /\ Newest' = new /\ readers' # <<>>
      /\ \A x \in DOMAIN readers : x # Len(readers) => readers'[x] = readers[x]
  <2>1. readers \in Seq(Loop) BY DEF TransportTypeOK
  <2> QED BY <2>1, ReplaceLast DEF Newest
<1>2. Alive' /\ (AlivePushing' <=> new.phase = "pushing") BY <1>1 DEF Alive, AlivePushing
<1>3. \A x \in DOMAIN readers' : readers'[x].phase # "ended" => x = Len(readers')
  BY <1>1 DEF ReadersOK
<1>4. ReadersOK' BY <1>1, <1>2, <1>3 DEF ReadersOK
<1> QED BY <1>1, <1>2, <1>4

-----------------------------------------------------------------------------
(* The client receives *)

LEMMA ReceivedFacts ==
    ASSUME TransportInv, Receiving, recvArray' = Pop(recvArray)
    PROVE  /\ recvArray.items # <<>> /\ Popped(recvArray) = recvArray.items[1]
           /\ recvArray.items[1] \in Payload
           /\ recvArray' \in Queue(Payload) /\ QueueOK(recvArray') /\ recvArray'.items = <<>>
           /\ \A p \in recvArray'.pushes :
                 \E o \in recvArray.pushes : o.by = p.by /\ o.value = p.value
           /\ \A o \in recvArray.pushes :
                 \E p \in recvArray'.pushes : o.by = p.by /\ o.value = p.value
<1>1. recvArray \in Queue(Payload) /\ QueueOK(recvArray) /\ recvArray.canGet
  BY DEF TransportInv, TransportTypeOK, RecvOK, Receiving
<1>2. recvArray.pushes \subseteq Item(Payload) BY ItemTypes DEF TransportInv
<1>3. \A p, o \in recvArray.pushes : p.by = o.by /\ p.value = o.value /\ p.resumed = o.resumed
  <2>1. \A p \in recvArray.pushes : p.resumed = recvArray.canPush
    BY <1>1, <1>2 DEF QueueOK, Item, Queue
  <2>2. CASE connected
    <3>1. \A p \in recvArray.pushes : p.by = Len(readers) /\ p.value = Frame(Taken + 1)
      BY <2>2 DEF TransportInv, RecvOK
    <3> QED BY <2>1, <3>1
  <2>3. CASE ~connected
    <3>1. ~AlivePushing BY <2>3 DEF TransportInv, ExchangeOK, Receiving
    <3>2. \A p \in recvArray.pushes : p.by = 0 /\ p.value = Undefined
      BY <3>1 DEF TransportInv, RecvOK
    <3> QED BY <2>1, <3>2
  <2> QED BY <2>2, <2>3
<1>4. \A p, o \in recvArray.pushes : p = o BY <1>2, <1>3 DEF Item
<1> QED BY <1>1, <1>4, PopEmpties

\* recv() got the mark of the end: it waits on, or fails.
LEMMA RecvUndefinedStep ==
    ASSUME TransportInv, Receiving, recvArray' = Pop(recvArray), Holds(recvArray, Undefined),
           UNCHANGED <<connected, readers, sendTask, socketVars, requests, failures, sendArray,
                       received>>,
           IF ~RecvIsOver THEN UNCHANGED client
           ELSE IF client.phase = "asking" THEN Fails
           ELSE client' = [client EXCEPT !.phase = "over"]
    PROVE  TransportInv'
<1> USE DEF TransportInv, socketVars
<1>1. /\ recvArray.items # <<>> /\ recvArray.items[1] = Undefined
      /\ recvArray' \in Queue(Payload) /\ QueueOK(recvArray') /\ recvArray'.items = <<>>
      /\ \A p \in recvArray'.pushes :
            \E o \in recvArray.pushes : o.by = p.by /\ o.value = p.value
      /\ \A o \in recvArray.pushes :
            \E p \in recvArray'.pushes : o.by = p.by /\ o.value = p.value
  BY ReceivedFacts DEF Holds
<1>2. client.phase \in {"asking", "receiving"} /\ client \in Caller
  BY DEF Receiving, TransportTypeOK
<1>3. /\ client' \in Caller /\ client'.step = client.step
      /\ connected => client' = client
      /\ ~connected => client'.phase \in {"off", "over"} /\ client'.attempt <= client.attempt + 1
      /\ ~connected /\ client'.phase = "off" => client.phase = "asking"
      /\ ~connected /\ client.phase # "asking" => client'.attempt = client.attempt
  <2>1. CASE connected BY <1>2, <2>1 DEF RecvIsOver
  <2>2. CASE ~connected /\ client.phase = "asking"
    <3>1. Fails BY <2>2 DEF RecvIsOver
    <3> HIDE DEF TransportInv
    <3> QED BY <1>2, <2>2, <3>1, FailsFacts
  <2>3. CASE ~connected /\ client.phase # "asking"
    <3>1. client' = [client EXCEPT !.phase = "over"] BY <2>3 DEF RecvIsOver
    <3>2. client' = [phase |-> "over", attempt |-> client.attempt, step |-> client.step]
      BY <1>2, <3>1 DEF Caller
    <3>3. client.attempt \in Nat /\ client.step \in Nat BY <1>2 DEF Caller
    <3> QED BY <2>3, <3>2, <3>3 DEF Caller
  <2> QED BY <2>1, <2>2, <2>3
<1>4. TransportTypeOK' BY <1>1, <1>3 DEF TransportTypeOK
<1>5. Taken' = Taken BY <1>1 DEF Taken
<1>6. NextFrame' = NextFrame /\ Position' = Position
  BY <1>5, SameReader DEF NextFrame, Position
<1>7. ReadersOK' BY <1>2, <1>3, <1>6, ReadersKeep DEF ReadersOK
<1>8. ~Holds(recvArray, Undefined)' BY <1>1 DEF Holds
<1>9. \A p \in recvArray'.pushes : p.by = 0 /\ p.value = Undefined /\ ~connected
  BY <1>1 DEF RecvOK
<1>10. ~AlivePushing
  <2>1. ASSUME AlivePushing PROVE FALSE
    <3>1. PICK p \in recvArray.pushes : p.by = Len(readers) BY <2>1 DEF RecvOK
    <3>2. p.by = 0 BY <3>1 DEF RecvOK
    <3> QED BY <2>1, <3>1, <3>2, NewestTypes DEF AlivePushing, Alive
  <2> QED BY <2>1
<1>11. RecvOK' BY <1>1, <1>5, <1>8, <1>9, <1>10, SameReader DEF RecvOK
<1>12. client.phase # "asking" \/ ~connected => NotSending BY DEF SendOK, ReadersOK
<1>13. SendOK'
  <2>1. CASE connected BY <1>3, <2>1, SendKeeps
  <2>2. CASE ~connected BY <1>12, <2>2, SendKeeps
  <2> QED BY <2>1, <2>2
<1>14. ExchangeOK'
  <2>1. CASE connected
    <3>1. client' = client BY <1>3, <2>1
    <3>2. client.phase = "asking" => ~closed BY <1>1, <2>1 DEF ExchangeOK
    <3>3. AskedOK => AskedOK' BY <1>8, <3>1, SendKeeps DEF AskedOK, Asked, NotSending
    <3> QED BY <1>1, <1>2, <1>8, <2>1, <3>1, <3>2, <3>3, SameReader DEF ExchangeOK
  <2>2. CASE ~connected
    <3>1. closed BY <2>2 DEF ReadersOK
    <3>2. client.attempt \in Nat /\ failures \in Nat /\ client'.attempt \in Nat
      BY <1>2, <1>3 DEF TransportTypeOK, Caller
    <3>3. client.phase = "asking" => client.attempt <= failures /\ client.step <= Steps
      BY <3>1 DEF ExchangeOK
    <3>4. client'.attempt <= failures + 1
      BY <1>3, <2>2, <3>2, <3>3 DEF ExchangeOK
    <3>5. client'.phase = "off" => client'.step <= Steps BY <1>3, <2>2, <3>3
    <3>6. client'.phase \in {"off", "over"} BY <1>3, <2>2
    <3> QED BY <1>1, <1>8, <1>9, <1>10, <2>2, <3>1, <3>4, <3>5, <3>6, SameReader DEF ExchangeOK
  <2> QED BY <2>1, <2>2
<1>15. OpenBytesOK' BY <1>6, BytesKeep
<1> QED BY <1>4, <1>7, <1>11, <1>13, <1>14, <1>15, FramesKeep

\* A frame is received: the exchange goes on or fails, the session is busy with it.
LEMMA RecvFrameStep ==
    ASSUME TransportInv, Recv, ~Holds(recvArray, Undefined) PROVE TransportInv'
<1> USE DEF TransportInv
<1>0. /\ Receiving /\ recvArray' = Pop(recvArray)
      /\ UNCHANGED <<connected, readers, sendTask, closed, stream, readable, net, sent, base,
                     requests, failures>>
  BY DEF Recv, socketVars
<1>1. /\ recvArray.items # <<>> /\ Popped(recvArray) = recvArray.items[1]
      /\ recvArray' \in Queue(Payload) /\ QueueOK(recvArray') /\ recvArray'.items = <<>>
      /\ \A p \in recvArray'.pushes :
            \E o \in recvArray.pushes : o.by = p.by /\ o.value = p.value
      /\ \A o \in recvArray.pushes :
            \E p \in recvArray'.pushes : o.by = p.by /\ o.value = p.value
  BY <1>0, ReceivedFacts
<1> DEFINE value == recvArray.items[1]
           f == base + Len(received) + 1
<1>2. value # Undefined /\ value = Frame(f) BY <1>1 DEF Holds, RecvOK
<1>3. f \in Nat /\ Len(received) \in Nat /\ base \in Nat /\ received \in Seq(Payload)
      /\ Len(sent) \in Nat
  BY ItemTypes DEF TransportTypeOK
<1>4. value \in Payload /\ value[1] = <<f, 1>> /\ value[1][1] = f
  <2> HIDE DEF TransportInv
  <2> QED BY <1>2, <1>3, FrameType
<1>5. /\ received' = Append(received, value)
      /\ \/ /\ client.phase = "receiving"
            /\ client' = [client EXCEPT !.phase = "busy"] /\ sendArray' = sendArray
         \/ /\ client.phase = "asking"
            /\ IF connected /\ sent[f] = Asked THEN Goes(client.attempt, client.step + 1)
               ELSE Fails /\ sendArray' = sendArray
  <2>1. value = Frame(value[1][1]) /\ sent[value[1][1]] = sent[f] BY <1>2, <1>4
  <2> QED BY <1>1, <1>2, <2>1 DEF Recv, Receiving, Asked
<1> HIDE DEF value, f
<1>6. /\ received' \in Seq(Payload) /\ Len(received') = Len(received) + 1
      /\ DOMAIN received' = 1 .. Len(received) + 1
      /\ received'[Len(received) + 1] = value /\ \A i \in 1 .. Len(received) : received'[i] = received[i]
  <2>1. /\ received' \in Seq(Payload) /\ Len(received') = Len(received) + 1
        /\ received'[Len(received) + 1] = value
        /\ \A i \in 1 .. Len(received) : received'[i] = received[i]
    BY <1>3, <1>4, <1>5, AppendProperties
  <2> QED BY <2>1, LenProperties
<1>7. Whole'
  <2>1. ASSUME NEW i \in DOMAIN received' PROVE received'[i] = Frame(base' + i)
    <3>1. DOMAIN received = 1 .. Len(received) BY ItemTypes
    <3>2. CASE i \in 1 .. Len(received) BY <1>0, <1>6, <3>1, <3>2 DEF Whole
    <3>3. CASE i = Len(received) + 1
      <4>1. base + i = f BY <1>3, <3>3 DEF f
      <4> QED BY <1>0, <1>2, <1>6, <3>3, <4>1
    <3> QED BY <1>3, <1>6, <3>2, <3>3
  <2> QED BY <2>1 DEF Whole
<1>8. Taken' = Taken /\ Taken = f
  <2>1. Taken = f BY <1>1, <1>2, <1>3 DEF Taken, f, value
  <2>2. Taken' = f BY <1>0, <1>1, <1>3, <1>6 DEF Taken, f
  <2> QED BY <2>1, <2>2
<1>9. NextFrame' = NextFrame /\ Position' = Position
  BY <1>0, <1>8, SameReader DEF NextFrame, Position
<1>10. ~Holds(recvArray, Undefined)' BY <1>1 DEF Holds
<1>11. RecvOK'
  <2>1. ASSUME NEW p \in recvArray'.pushes
        PROVE  \/ p.by = 0 /\ p.value = Undefined /\ ~connected
               \/ p.by = Len(readers) /\ AlivePushing /\ p.value = Frame(Taken + 1)
    <3>1. PICK o \in recvArray.pushes : o.by = p.by /\ o.value = p.value BY <1>1
    <3> QED BY <3>1 DEF RecvOK
  <2>2. ASSUME AlivePushing PROVE \E p \in recvArray'.pushes : p.by = Len(readers)
    <3>1. PICK o \in recvArray.pushes : o.by = Len(readers) BY <2>2 DEF RecvOK
    <3> QED BY <1>1, <3>1
  <2> QED BY <1>0, <1>1, <1>8, <1>10, <2>1, <2>2, SameReader DEF RecvOK
<1>12. client \in Caller /\ client.attempt \in Nat /\ client.step \in Nat /\ failures \in Nat
       /\ client.attempt <= failures + 1
  BY DEF TransportTypeOK, Caller, ExchangeOK
<1>13. OpenBytesOK' BY <1>0, <1>9, BytesKeep
<1>14. CASE client.phase = "receiving"
  <2>1. client' = [client EXCEPT !.phase = "busy"] /\ sendArray' = sendArray BY <1>5, <1>14
  <2>2. client' = [phase |-> "busy", attempt |-> client.attempt, step |-> client.step]
    BY <1>12, <2>1 DEF Caller
  <2>3. client' \in Caller /\ client'.phase = "busy" /\ client'.attempt = client.attempt
    BY <1>12, <2>2 DEF Caller
  <2>4. TransportTypeOK' BY <1>0, <1>1, <1>6, <2>1, <2>3 DEF TransportTypeOK
  <2>5. ReadersOK' BY <1>0, <1>9, <2>3, ReadersKeep DEF ReadersOK
  <2>6. NotSending BY <1>14 DEF SendOK
  <2>7. SendOK' BY <2>1, <2>6, SendKeeps
  <2>8. ExchangeOK' BY <1>0, <1>12, <2>3 DEF ExchangeOK
  <2> QED BY <1>7, <1>11, <1>13, <2>4, <2>5, <2>7, <2>8
<1>15. CASE client.phase = "asking"
  <2>1. ~closed /\ connected BY <1>1, <1>15 DEF ExchangeOK, ReadersOK
  <2>2. /\ NotSending /\ requests = <<>> /\ Len(sent) = base + Len(received) + 1
        /\ sent[Len(sent)] = Asked \/ client.attempt <= failures
    <3>1. Len(sent) # base + Len(received)
      <4>1. recvArray.items[1] # Undefined BY <1>2 DEF value
      <4> QED BY <1>1, <2>1, <4>1, AllReceivedFacts
    <3> QED BY <1>15, <2>1, <3>1 DEF ExchangeOK, AskedOK
  <2>3. Len(sent') = base' + Len(received') /\ f = Len(sent) /\ client.step <= Steps
    BY <1>0, <1>3, <1>6, <1>15, <2>2 DEF f, ExchangeOK
  <2>4. CASE sent[f] = Asked /\ client.step + 1 > Steps
    <3>1. /\ client' = [phase |-> "busy", attempt |-> client.attempt, step |-> client.step + 1]
          /\ sendArray' = sendArray
      BY <1>5, <1>15, <2>1, <2>4 DEF Goes
    <3>2. client' \in Caller /\ client'.phase = "busy" /\ client'.attempt = client.attempt
      BY <1>12, <3>1 DEF Caller
    <3>3. TransportTypeOK' BY <1>0, <1>1, <1>6, <3>1, <3>2 DEF TransportTypeOK
    <3>4. ReadersOK' BY <1>0, <1>9, <3>2, ReadersKeep DEF ReadersOK
    <3>5. SendOK' BY <2>2, <3>1, SendKeeps
    <3>6. ExchangeOK' BY <1>0, <1>12, <3>2 DEF ExchangeOK
    <3> QED BY <1>7, <1>11, <1>13, <3>3, <3>4, <3>5, <3>6
  <2>5. CASE sent[f] = Asked /\ ~(client.step + 1 > Steps)
    <3>1. /\ client' = [phase |-> "asking", attempt |-> client.attempt, step |-> client.step + 1]
          /\ sendArray' = Push(sendArray, 0, <<client.attempt, client.step + 1>>)
      BY <1>5, <1>15, <2>1, <2>5 DEF Goes
    <3>2. /\ client' \in Caller /\ client'.phase = "asking" /\ client'.attempt = client.attempt
          /\ client'.step = client.step + 1 /\ Asked' = <<client.attempt, client.step + 1>>
          /\ Asked' \in Pair /\ client'.step <= Steps
      <4>1. Steps \in Nat /\ client.step + 1 \in Nat BY <1>12, TransportAssumption
      <4> QED BY <1>12, <2>5, <3>1, <4>1 DEF Caller, Asked, Pair
    <3>3. sendArray \in Queue(Pair) /\ QueueOK(sendArray) BY DEF SendOK, TransportTypeOK
    <3>4. /\ sendArray' \in Queue(Pair) /\ QueueOK(sendArray') /\ sendArray'.items = <<>>
          /\ \E p \in sendArray'.pushes : p.value = Asked'
          /\ \A p \in sendArray'.pushes : p.value = Asked'
      <4>1. sendArray' = Push(sendArray, 0, Asked') /\ 0 \in Nat BY <3>1, <3>2
      <4> HIDE DEF TransportInv
      <4> QED BY <2>2, <3>2, <3>3, <4>1, PushAdds DEF NotSending
    <3>5. ~NotSending' BY <3>4 DEF NotSending
    <3>6. SendOK' BY <1>0, <2>1, <3>2, <3>4 DEF SendOK
    <3>7. AskedOK' BY <1>0, <2>2, <2>3, <3>5 DEF AskedOK
    <3>8. TransportTypeOK' BY <1>0, <1>1, <1>6, <3>2, <3>4 DEF TransportTypeOK
    <3>9. ReadersOK' BY <1>0, <1>9, <2>1, <3>2, ReadersKeep DEF ReadersOK
    <3>10. ExchangeOK' BY <1>0, <1>10, <1>12, <2>1, <3>2, <3>7 DEF ExchangeOK
    <3> QED BY <1>7, <1>11, <1>13, <3>6, <3>8, <3>9, <3>10
  <2>6. CASE sent[f] # Asked
    <3>1. Fails /\ sendArray' = sendArray BY <1>5, <1>15, <2>6
    <3>2. client.attempt <= failures BY <2>2, <2>3, <2>6
    <3>3. /\ client' \in Caller /\ client'.phase \in {"off", "over"} /\ client'.step = client.step
          /\ client'.attempt <= failures + 1
      <4>1. /\ client' \in Caller /\ client'.phase \in {"off", "over"} /\ client'.step = client.step
            /\ client'.attempt <= client.attempt + 1 /\ client'.attempt \in Nat
        <5> HIDE DEF TransportInv
        <5> QED BY <1>12, <3>1, FailsFacts
      <4> QED BY <1>12, <3>2, <4>1
    <3>4. TransportTypeOK' BY <1>0, <1>1, <1>6, <3>1, <3>3 DEF TransportTypeOK
    <3>5. ReadersOK' BY <1>0, <1>9, <2>1, ReadersKeep DEF ReadersOK
    <3>6. SendOK' BY <2>2, <3>1, SendKeeps
    <3>7. ExchangeOK' BY <1>0, <1>1, <1>10, <2>1, <2>2, <2>3, <3>3 DEF ExchangeOK
    <3> QED BY <1>7, <1>11, <1>13, <3>4, <3>5, <3>6, <3>7
  <2> QED BY <2>4, <2>5, <2>6
<1> QED BY <1>5, <1>14, <1>15

LEMMA RecvStep == ASSUME TransportInv, Recv PROVE TransportInv'
<1>1. CASE Holds(recvArray, Undefined)
  <2>1. Receiving /\ recvArray' = Pop(recvArray) /\ Popped(recvArray) = Undefined
    BY <1>1, ReceivedFacts DEF Recv, Holds
  <2> QED BY <1>1, <2>1, RecvUndefinedStep DEF Recv
<1> QED BY <1>1, RecvFrameStep

\* A read keeps all that is not about the bytes: what is left is where the loop is (Position).
LEMMA ReadKeeps ==
    ASSUME TransportInv, ~closed, ~AlivePushing, ~AlivePushing',
           stream' \in Seq(Pair), readable' \in BOOLEAN, readers' \in Seq(Loop), ReadersOK',
           Len(readers') = Len(readers), Alive', BytesOK',
           UNCHANGED <<recvArray, connected, sendTask, sendArray, closed, net, sent, base, client,
                       requests, received, failures>>
    PROVE  TransportInv'
<1> USE DEF TransportInv
<1>1. TransportTypeOK' BY DEF TransportTypeOK
<1>2. Taken' = Taken BY DEF Taken
<1>3. \A p \in recvArray.pushes : p.by = 0 /\ p.value = Undefined /\ ~connected BY DEF RecvOK
<1>4. RecvOK' BY <1>2, <1>3 DEF RecvOK, Holds
<1>5. SendOK' BY SendKeeps
<1>6. AskedOK => AskedOK' BY DEF AskedOK, Asked, NotSending, Holds
<1>7. connected BY DEF ReadersOK
<1>8. ExchangeOK' BY <1>6, <1>7 DEF ExchangeOK, Holds
<1>9. OpenBytesOK' BY DEF OpenBytesOK
<1> QED BY <1>1, <1>4, <1>5, <1>8, <1>9, FramesKeep

LEMMA ReadStep ==
    ASSUME TransportInv, NEW r \in DOMAIN readers, Read(r), ReadsOK, ~ReadWasShort'
    PROVE  TransportInv'
<1> USE DEF TransportInv
<1>0. /\ Reading(r) /\ ~closed /\ connected
      /\ UNCHANGED <<connected, sendTask, sendArray, closed, net, sent, base, client, requests,
                     received, failures>>
  BY DEF Read, ReadersOK
<1>1. /\ r = Len(readers) /\ readers[r] = Newest /\ Alive /\ ~AlivePushing /\ readers # <<>>
      /\ Newest.phase \in {"header", "body"}
  BY <1>0, OnlyNewestReads DEF Reading
<1>2. /\ Newest \in Loop /\ Newest.want \in Nat /\ Newest.got \in Payload /\ Newest.want > 0
      /\ Len(Newest.got) \in Nat /\ BodyLength \in Nat /\ BodyLength > 0 /\ Len(stream) \in Nat
      /\ Taken \in Nat /\ NextFrame = Taken + 1 /\ NextFrame \in Nat /\ Len(sent) \in Nat
  <2>1. TransportTypeOK OBVIOUS
  <2>2. Newest.want > 0 BY <1>1 DEF ReadersOK
  <2>3. NextFrame = Taken + 1 BY <1>1 DEF NextFrame
  <2>4. /\ Newest \in Loop /\ Newest.want \in Nat /\ Newest.got \in Payload
        /\ Len(Newest.got) \in Nat
    BY <1>1, <2>1, NewestTypes
  <2>5. BodyLength \in Nat /\ BodyLength > 0 BY TransportAssumption
  <2>6. Len(stream) \in Nat /\ Taken \in Nat /\ NextFrame \in Nat /\ Len(sent) \in Nat
    BY <2>1, ItemTypes
  <2> QED BY <2>2, <2>3, <2>4, <2>5, <2>6
<1> DEFINE w == Newest.want
           k == IF Newest.phase = "body" THEN Len(Newest.got) + 1 ELSE 0
           left == Least(w, Len(stream))
           bytes == SubSeq(stream, 1, left)
           got == Newest.got \o bytes
<1>3. /\ k \in Nat /\ Position = <<NextFrame, k>> /\ k <= BodyLength /\ k + w <= BodyLength + 1
      /\ Newest.phase = "header" => w = 1 /\ k = 0 /\ Newest.got = <<>>
      /\ Newest.phase = "body" => w + Len(Newest.got) = BodyLength /\ k = Len(Newest.got) + 1
  BY <1>1, <1>2, SMTT(30) DEF ReadersOK, Position
<1>4. left \in Nat /\ left <= w /\ left <= Len(stream) BY <1>2 DEF Least
<1>5. /\ stream' = SubSeq(stream, left + 1, Len(stream)) /\ readable' \in BOOLEAN
      /\ \/ /\ left # w /\ recvArray' = recvArray
            /\ readers' = [readers EXCEPT ![r].want = w - left, ![r].got = got]
         \/ /\ left = w /\ Newest.phase = "header" /\ recvArray' = recvArray
            /\ \E len \in 1 .. BodyLength :
                  /\ BodyOf(got[1], len)
                  /\ readers' = [readers EXCEPT ![r] = [phase |-> "body", want |-> len, got |-> <<>>]]
         \/ /\ left = w /\ Newest.phase = "body" /\ recvArray' = Push(recvArray, r, got)
            /\ readers' = [readers EXCEPT ![r].phase = "pushing"]
  <2>1. stream' = SubSeq(stream, left + 1, Len(stream)) /\ readable' = (left < Len(stream))
    BY <1>1 DEF Read
  <2>5. readable' \in BOOLEAN BY <2>1
  <2>a. /\ left = Least(readers[r].want, Len(stream)) /\ w = readers[r].want
        /\ got = readers[r].got \o SubSeq(stream, 1, left)
        /\ Newest.phase = readers[r].phase
    BY <1>1
  <2>c. Enough(readers[r].want, left) <=> left = readers[r].want
    <3>1. reads' = IF reads = "at most" /\ left < readers[r].want THEN "short" ELSE reads
      <4> HIDE DEF TransportInv, left, w, got, bytes, k
      <4> QED BY <2>a DEF Read
    <3>2. reads # "short" BY <3>1 DEF ReadWasShort
    <3>3. reads = "exactly" \/ ~(left < readers[r].want)
      BY <3>1, <3>2 DEF ReadWasShort, ReadsOK
    <3>4. left < readers[r].want \/ left = readers[r].want
      <4> HIDE DEF TransportInv, left, got, bytes, k
      <4> QED BY <1>2, <1>4, <2>a DEF w
    <3> QED BY <3>3, <3>4 DEF Enough
  <2>b. IF left # readers[r].want
        THEN /\ readers' = [readers EXCEPT ![r].want = readers[r].want - left, ![r].got = got]
             /\ recvArray' = recvArray
        ELSE IF readers[r].phase = "header"
        THEN /\ \E len \in 1 .. BodyLength :
                   /\ BodyOf(got[1], len)
                   /\ readers' = [readers EXCEPT ![r] = [phase |-> "body", want |-> len, got |-> <<>>]]
             /\ recvArray' = recvArray
        ELSE /\ readers' = [readers EXCEPT ![r].phase = "pushing"]
             /\ recvArray' = Push(recvArray, r, got)
    <3> HIDE DEF TransportInv, left, w, got, bytes, k
    <3> QED BY <2>a, <2>c DEF Read
  <2>2. CASE left # w BY <2>1, <2>2, <2>5, <2>a, <2>b
  <2>3. CASE left = w /\ Newest.phase = "header"
    <3> HIDE DEF TransportInv, left, w, got, bytes, k
    <3> QED BY <2>1, <2>3, <2>5, <2>a, <2>b
  <2>4. CASE left = w /\ Newest.phase = "body" BY <2>1, <2>4, <2>5, <2>a, <2>b
  <2> QED BY <1>1, <2>1, <2>2, <2>3, <2>4, <2>5
<1> HIDE DEF k, left, w, bytes, got
<1>6. PICK n \in Nat, chunk \in {bytes} :
          /\ n = left /\ chunk = bytes
          /\ n <= w /\ n <= Len(stream) /\ k + n <= BodyLength + 1
  <2>1. w \in Nat BY <1>2 DEF w
  <2> QED BY <1>2, <1>3, <1>4, <2>1
<1>7. PICK next :
          next = IF k + n <= BodyLength THEN <<NextFrame, k + n>> ELSE <<NextFrame + 1, 0>>
  OBVIOUS
<1>8. /\ stream' \in Seq(Pair) /\ chunk \in Seq(Pair) /\ Len(chunk) = n
      /\ \A i \in 1 .. n : chunk[i] = <<NextFrame, k + (i - 1)>>
      /\ Rest(Flight', Len(Flight'), next, Len(sent))
  <2>1. TransportTypeOK /\ BytesOK BY <1>0 DEF OpenBytesOK
  <2>2. stream' = SubSeq(stream, n + 1, Len(stream)) /\ chunk = SubSeq(stream, 1, n)
    BY <1>5, <1>6 DEF bytes
  <2>3. PICK f \in Nat, p \in Nat : f = NextFrame /\ p = k BY <1>2, <1>3
  <2>4. Position = <<f, p>> /\ p <= BodyLength /\ p + n <= BodyLength + 1
    BY <1>3, <1>6, <2>3
  <2> HIDE DEF TransportInv
  <2>5. next = IF p + n <= BodyLength THEN <<f, p + n>> ELSE <<f + 1, 0>> BY <1>7, <2>3
  <2>6. UNCHANGED <<net, sent>> /\ n <= Len(stream) BY <1>0, <1>6
  <2>7. Beginning(f, p, n) BY <2>4 DEF Beginning
  <2>8. stream' \in Seq(Pair) /\ chunk \in Seq(Pair) /\ Len(chunk) = n
    BY <2>1, <2>2, <2>6, <2>7, ReadBytes
  <2>9. Follow(chunk, f, p, n) BY <2>1, <2>2, <2>6, <2>7, ReadBytes
  <2>10. Rest(Flight', Len(Flight'), next, Len(sent))
    BY <2>1, <2>2, <2>5, <2>6, <2>7, ReadBytes
  <2> QED BY <2>3, <2>8, <2>9, <2>10 DEF Follow
<1>9. /\ got \in Payload /\ Len(got) = Len(Newest.got) + n
      /\ Newest.phase = "header" /\ n > 0 => got[1] = <<NextFrame, 0>>
      /\ Newest.phase = "header" /\ n = 0 => got = <<>>
      /\ Newest.phase = "body" => \A i \in 1 .. Len(got) : got[i] = <<NextFrame, i>>
  <2>1. Newest.got \in Seq(Pair) /\ got = Newest.got \o chunk BY <1>2, <1>6 DEF got, Payload
  <2>2. PICK old \in Seq(Pair) : old = Newest.got BY <2>1
  <2>3. /\ got \in Seq(Pair) /\ Len(got) = Len(old) + n /\ Len(old) \in Nat
        /\ \A i \in 1 .. Len(old) : got[i] = old[i]
        /\ \A i \in 1 .. n : got[Len(old) + i] = chunk[i]
    <3>1. /\ old \o chunk \in Seq(Pair) /\ Len(old \o chunk) = Len(old) + Len(chunk)
          /\ Len(old) \in Nat
          /\ \A i \in 1 .. Len(old) : (old \o chunk)[i] = old[i]
          /\ \A i \in 1 .. Len(chunk) : (old \o chunk)[Len(old) + i] = chunk[i]
      BY <1>8, Joined
    <3> QED BY <1>8, <2>1, <2>2, <3>1
  <2>4. ASSUME Newest.phase = "header" PROVE Len(old) = 0 /\ k = 0
    BY <1>3, <2>2, <2>4
  <2>5. ASSUME Newest.phase = "header", n > 0 PROVE got[1] = <<NextFrame, 0>>
    <3>1. 1 \in 1 .. n /\ Len(old) + 1 = 1 /\ k + (1 - 1) = 0 BY <2>4, <2>5
    <3>2. got[1] = chunk[1] BY <2>3, <3>1
    <3> QED BY <1>8, <3>1, <3>2
  <2>6. ASSUME Newest.phase = "header", n = 0 PROVE got = <<>>
    <3>1. Len(got) = 0 BY <2>3, <2>4, <2>6
    <3> QED BY <2>3, <3>1, EmptySeq
  <2>7. ASSUME Newest.phase = "body", NEW i \in 1 .. Len(got) PROVE got[i] = <<NextFrame, i>>
    <3>1. CASE i <= Len(old)
      <4>1. i \in 1 .. Len(old) BY <2>3, <3>1
      <4>2. old[i] = <<NextFrame, i>> BY <1>1, <2>2, <2>7, <4>1 DEF ReadersOK
      <4> QED BY <2>3, <4>1, <4>2
    <3>2. CASE ~(i <= Len(old))
      <4>1. i - Len(old) \in 1 .. n /\ Len(old) + (i - Len(old)) = i BY <2>3, <3>2
      <4>2. got[i] = chunk[i - Len(old)] BY <2>3, <4>1
      <4>3. k + ((i - Len(old)) - 1) = i
        <5>1. k = Len(old) + 1 BY <1>3, <2>2, <2>7
        <5> QED BY <2>3, <5>1
      <4> QED BY <1>8, <4>1, <4>2, <4>3
    <3> QED BY <3>1, <3>2
  <2> QED BY <2>2, <2>3, <2>5, <2>6, <2>7 DEF Payload
<1>10. w \in Nat /\ n = left BY <1>2, <1>6 DEF w
<1>11. UNCHANGED <<base, received>> BY <1>0
<1>12. CASE left # w
  <2>1. recvArray' = recvArray BY <1>5, <1>12
  <2> DEFINE new == [Newest EXCEPT !.want = w - left, !.got = got]
  <2>2. w - left \in Nat /\ w - left > 0 /\ n < w BY <1>4, <1>6, <1>10, <1>12
  <2>3. new \in Loop /\ new.phase = Newest.phase /\ new.want = w - left /\ new.got = got
    BY <1>2, <1>9, <2>2 DEF Loop
  <2>4. readers' = [readers EXCEPT ![Len(readers)] = new]
    <3>1. readers' = [readers EXCEPT ![r] = [readers[r] EXCEPT !.want = w - left, !.got = got]]
      BY <1>5, <1>12
    <3> QED BY <1>1, <3>1
  <2> HIDE DEF new
  <2>5. Taken' = Taken BY <1>11, <2>1 DEF Taken
  <2>6. ~AlivePushing' /\ readers' \in Seq(Loop) /\ Newest' = new /\ Len(readers') = Len(readers)
    <3>1. readers \in Seq(Loop) BY DEF TransportTypeOK
    <3>2. /\ readers' \in Seq(Loop) /\ Len(readers') = Len(readers)
          /\ readers'[Len(readers')] = new
      <4> HIDE DEF TransportInv
      <4> QED BY <1>1, <2>3, <2>4, <3>1, ReplaceLast
    <3> QED BY <1>1, <2>3, <3>2 DEF AlivePushing, Newest
  <2>7. NextFrame' = NextFrame BY <1>1, <2>5, <2>6 DEF NextFrame
  <2>8. Newest.phase = "header" => n = 0 /\ w - left = 1 BY <1>3, <1>10, <2>2
  <2>9. Newest.phase = "body" => w - left + Len(got) = BodyLength
    <3>1. Len(got) = Len(Newest.got) + left BY <1>9, <1>10
    <3>2. Newest.phase = "body" => w + Len(Newest.got) = BodyLength BY <1>3
    <3> QED BY <1>2, <1>4, <1>10, <3>1, <3>2
  <2>10. Alive' /\ ReadersOK'
    <3>1. /\ new.phase = "header" => new.want = 1 /\ new.got = <<>>
          /\ new.phase = "body" =>
                /\ new.want > 0 /\ new.want + Len(new.got) = BodyLength
                /\ \A i \in 1 .. Len(new.got) : new.got[i] = <<NextFrame', i>>
      BY <1>9, <2>2, <2>3, <2>7, <2>8, <2>9
    <3>2. new.phase # "ended" BY <1>1, <2>3
    <3>3. TransportTypeOK /\ ReadersOK OBVIOUS
    <3> HIDE DEF TransportInv
    <3> QED BY <1>0, <1>1, <2>3, <2>4, <3>1, <3>2, <3>3, NewestReplaced
  <2>11. Position' = next
    <3>1. CASE Newest.phase = "header"
      <4>1. k + n = 0 /\ k + n <= BodyLength BY <1>2, <1>3, <2>8, <3>1
      <4> QED BY <1>7, <2>3, <2>6, <2>7, <3>1, <4>1 DEF Position
    <3>2. CASE Newest.phase = "body"
      <4>1. k + n = Len(got) + 1 /\ k + n <= BodyLength
        <5>1. k = Len(Newest.got) + 1 /\ Len(got) = Len(Newest.got) + n BY <1>3, <1>9, <3>2
        <5>2. w + Len(Newest.got) = BodyLength BY <1>3, <3>2
        <5> QED BY <1>2, <1>10, <2>2, <5>1, <5>2
      <4> QED BY <1>7, <2>3, <2>6, <2>7, <3>2, <4>1 DEF Position
    <3> QED BY <1>1, <3>1, <3>2
  <2>12. BytesOK' BY <1>0, <1>8, <2>11 DEF BytesOK
  <2> QED BY <1>0, <1>1, <1>5, <1>8, <2>1, <2>6, <2>10, <2>12, ReadKeeps
<1>13. CASE left = w /\ Newest.phase = "header"
  <2>1. PICK len \in 1 .. BodyLength :
            /\ BodyOf(got[1], len)
            /\ readers' = [readers EXCEPT ![r] = [phase |-> "body", want |-> len, got |-> <<>>]]
    BY <1>5, <1>13
  <2>2. recvArray' = recvArray BY <1>5, <1>13
  <2>3. n = 1 /\ k + n = 1 /\ k + n <= BodyLength /\ len = BodyLength
    <3>1. n = 1 /\ k = 0 BY <1>3, <1>10, <1>13
    <3>2. got[1][2] = 0 BY <1>9, <1>13, <3>1
    <3> QED BY <1>2, <2>1, <3>1, <3>2 DEF BodyOf
  <2> DEFINE new == [phase |-> "body", want |-> len, got |-> <<>>]
  <2>4. new \in Loop /\ new.phase = "body" /\ new.want = len /\ new.got = <<>>
    <3>1. <<>> \in Payload /\ len \in Nat BY EmptySeq DEF Payload
    <3> QED BY <3>1 DEF Loop, Phases
  <2>5. readers' = [readers EXCEPT ![Len(readers)] = new] BY <1>1, <2>1
  <2> HIDE DEF new
  <2>6. readers' \in Seq(Loop) /\ Len(readers') = Len(readers) /\ Newest' = new /\ Alive'
        /\ ~AlivePushing' /\ ReadersOK'
    <3>1. /\ new.phase # "ended" /\ new.phase # "header" /\ new.phase # "pushing"
          /\ new.want > 0 /\ new.want + Len(new.got) = BodyLength
          /\ \A i \in 1 .. Len(new.got) : new.got[i] = <<NextFrame', i>>
      <4>1. Len(new.got) = 0 /\ new.want = BodyLength BY <2>3, <2>4
      <4> QED BY <1>2, <2>4, <4>1
    <3>2. TransportTypeOK /\ ReadersOK OBVIOUS
    <3> HIDE DEF TransportInv
    <3> QED BY <1>0, <1>1, <2>4, <2>5, <3>1, <3>2, NewestReplaced
  <2>7. Taken' = Taken BY <1>11, <2>2 DEF Taken
  <2>8. NextFrame' = NextFrame BY <1>1, <2>6, <2>7 DEF NextFrame
  <2>9. Position' = next
    <3>1. Position' = <<NextFrame, 1>> BY <2>4, <2>6, <2>8 DEF Position
    <3> QED BY <1>7, <2>3, <3>1
  <2>10. BytesOK' BY <1>0, <1>8, <2>9 DEF BytesOK
  <2> QED BY <1>0, <1>1, <1>5, <1>8, <2>2, <2>6, <2>10, ReadKeeps
<1>14. CASE left = w /\ Newest.phase = "body"
  <2>1. /\ readers' = [readers EXCEPT ![r].phase = "pushing"]
        /\ recvArray' = Push(recvArray, Len(readers), got)
    BY <1>1, <1>5, <1>14
  <2>2. Len(got) = BodyLength /\ k + n = BodyLength + 1 BY <1>2, <1>3, <1>9, <1>10, <1>14
  <2>3. got = Frame(NextFrame)
    <3>1. /\ Frame(NextFrame) \in Seq(Pair) /\ Len(Frame(NextFrame)) = BodyLength
      <4> HIDE DEF TransportInv
      <4> QED BY <1>2, FrameType DEF Payload
    <3>2. \A i \in 1 .. BodyLength : Frame(NextFrame)[i] = <<NextFrame, i>> BY DEF Frame
    <3>3. \A i \in 1 .. BodyLength : got[i] = Frame(NextFrame)[i] BY <1>9, <1>14, <2>2, <3>2
    <3> QED BY <1>9, <2>2, <3>1, <3>3, SeqEqual DEF Payload
  <2> DEFINE new == [phase |-> "pushing", want |-> Newest.want, got |-> Newest.got]
  <2>4. new \in Loop /\ new.phase = "pushing" BY <1>2 DEF Loop, Phases
  <2>5. readers' = [readers EXCEPT ![Len(readers)] = new]
    <3>1. readers[r] = [phase |-> Newest.phase, want |-> Newest.want, got |-> Newest.got]
      BY <1>1, <1>2 DEF Loop
    <3>2. [readers[r] EXCEPT !.phase = "pushing"] = new BY <3>1
    <3>3. readers' = [readers EXCEPT ![r] = [readers[r] EXCEPT !.phase = "pushing"]] BY <2>1
    <3> QED BY <1>1, <3>2, <3>3
  <2> HIDE DEF new
  <2>6. readers' \in Seq(Loop) /\ Len(readers') = Len(readers) /\ Newest' = new /\ Alive'
        /\ AlivePushing' /\ ReadersOK'
    <3>1. new.phase # "ended" /\ new.phase # "header" /\ new.phase # "body" BY <2>4
    <3>2. TransportTypeOK /\ ReadersOK OBVIOUS
    <3> HIDE DEF TransportInv
    <3> QED BY <1>0, <1>1, <2>4, <2>5, <3>1, <3>2, NewestReplaced
  <2>7. recvArray.pushes = {} BY <1>0, <1>1 DEF RecvOK
  <2>8. ~Holds(recvArray, Undefined)
    <3>1. SUFFICES ASSUME Holds(recvArray, Undefined) PROVE FALSE OBVIOUS
    <3>2. Len(sent) = base + Len(received) BY <1>0, <3>1 DEF RecvOK
    <3>3. stream = <<>> BY <1>0, <3>2, AllReceivedFacts
    <3>4. n = 0 /\ n = w BY <1>6, <1>14, <3>3
    <3> QED BY <1>2, <3>4 DEF w
  <2>9. /\ recvArray' \in Queue(Payload) /\ QueueOK(recvArray')
        /\ recvArray'.items = recvArray.items
        /\ \E p \in recvArray'.pushes : p.by = Len(readers)
        /\ \A p \in recvArray'.pushes : p.by = Len(readers) /\ p.value = got
    <3>1. recvArray \in Queue(Payload) /\ QueueOK(recvArray) /\ Len(readers) \in Nat
      BY ItemTypes DEF TransportTypeOK, RecvOK
    <3> HIDE DEF TransportInv
    <3> QED BY <1>9, <2>1, <2>7, <3>1, PushAdds
  <2>10. Taken' = Taken BY <1>11, <2>9 DEF Taken
  <2>11. NextFrame' = Taken + 2 BY <2>6, <2>10 DEF NextFrame
  <2>12. Position' = next
    <3>1. Position' = <<Taken + 2, 0>> BY <2>4, <2>6, <2>11 DEF Position
    <3>2. next = <<NextFrame + 1, 0>> BY <1>2, <1>7, <2>2
    <3>3. NextFrame + 1 = Taken + 2 BY <1>2
    <3> QED BY <3>1, <3>2, <3>3
  <2>13. BytesOK' BY <1>0, <1>8, <2>12 DEF BytesOK
  <2>14. ~Holds(recvArray, Undefined)' BY <2>8, <2>9 DEF Holds
  <2>15. TransportTypeOK' BY <1>0, <1>5, <1>8, <2>6, <2>9 DEF TransportTypeOK
  <2>16. RecvOK'
    <3>1. recvArray'.items # <<>> =>
            \/ recvArray'.items[1] = Undefined
            \/ recvArray'.items[1] = Frame(base + Len(received) + 1)
      BY <2>9 DEF RecvOK
    <3>2. \A p \in recvArray'.pushes : p.by = Len(readers) /\ p.value = Frame(Taken + 1)
      BY <1>2, <2>3, <2>9
    <3> QED BY <1>0, <2>6, <2>9, <2>10, <2>14, <3>1, <3>2 DEF RecvOK
  <2>17. SendOK' BY <1>0, SendKeeps
  <2>18. ExchangeOK'
    <3>1. AskedOK => AskedOK' BY <1>0, <2>14 DEF AskedOK, Asked, NotSending
    <3> QED BY <1>0, <2>9, <2>14, <3>1 DEF ExchangeOK
  <2> QED BY <1>0, <2>6, <2>13, <2>15, <2>16, <2>17, <2>18, FramesKeep DEF OpenBytesOK
<1> QED BY <1>5, <1>12, <1>13, <1>14

-----------------------------------------------------------------------------
(* The theorems *)

LEMMA StutterInv == ASSUME TransportInv, UNCHANGED transportVars PROVE TransportInv'
<1> USE DEF TransportInv, transportVars, connVars, socketVars
<1>1. TransportTypeOK' BY DEF TransportTypeOK
<1>2. Position' = Position /\ NextFrame' = NextFrame /\ Taken' = Taken BY SamePosition
<1>3. ReadersOK' BY <1>2, ReadersKeep DEF ReadersOK
<1>4. RecvOK' BY <1>2, SameReader DEF RecvOK, Holds
<1>5. SendOK' BY SendKeeps
<1>6. ExchangeOK' BY SameReader, SendKeeps DEF ExchangeOK, AskedOK, Asked, Holds
<1>7. OpenBytesOK' BY <1>2, BytesKeep
<1> QED BY <1>1, <1>3, <1>4, <1>5, <1>6, <1>7, FramesKeep

LEMMA ReadsStep ==
    ASSUME ReadsOK, [TransportNext]_transportVars
    PROVE  ReadsOK' /\ (ReadWasShort => ReadWasShort')
<1>1. CASE \E r \in DOMAIN readers : Read(r) BY <1>1 DEF ReadsOK, ReadWasShort, Read
<1>2. CASE UNCHANGED reads BY <1>2 DEF ReadsOK, ReadWasShort
<1>3. (\E r \in DOMAIN readers : Read(r)) \/ UNCHANGED reads
  BY DEF TransportNext, Internal, Send, PushGoesOn, Recv, ReadFails, Attempt, ConnectFails, Receive,
         Disconnect, Serve, Update, Close, Closed, Deliver, Data, transportVars
<1> QED BY <1>1, <1>2, <1>3

LEMMA NextInv ==
    ASSUME TransportInv, ReadsOK, [TransportNext]_transportVars, ~ReadWasShort'
    PROVE  TransportInv'
<1>1. CASE Send BY <1>1, SendStep
<1>2. CASE PushGoesOn
  <2>1. CASE \E p \in Resumed(sendArray) :
                sendArray' = Pushed(sendArray, p) /\ UNCHANGED <<readers, recvArray>>
    BY <1>2, <2>1, SendPushStep DEF PushGoesOn
  <2>2. CASE \E p \in Resumed(recvArray) :
                /\ recvArray' = Pushed(recvArray, p)
                /\ readers' = IF p.by = 0 THEN readers
                              ELSE [readers EXCEPT ![p.by] =
                                      IF connected THEN AtHeader
                                      ELSE [AtHeader EXCEPT !.phase = "ended"]]
                /\ UNCHANGED sendArray
    BY <1>2, <2>2, RecvPushStep DEF PushGoesOn
  <2> QED BY <1>2, <2>1, <2>2 DEF PushGoesOn, Pushes
<1>3. CASE Recv BY <1>3, RecvStep
<1>4. CASE \E r \in DOMAIN readers : ReadFails(r) \/ Read(r)
  BY <1>4, ReadFailsStep, ReadStep
<1>5. CASE Attempt BY <1>5, AttemptStep
<1>6. CASE ConnectFails BY <1>6, ConnectFailsStep
<1>7. CASE Receive BY <1>7, ReceiveStep
<1>8. CASE Disconnect BY <1>8, DisconnectStep
<1>9. CASE Serve BY <1>9, ServeStep
<1>10. CASE Update BY <1>10, UpdateStep
<1>11. CASE Close BY <1>11, CloseStep
<1>12. CASE Closed BY <1>12, ClosedStep
<1>13. CASE Deliver BY <1>13, DataStep DEF Deliver
<1>14. CASE UNCHANGED transportVars BY <1>14, StutterInv
<1> QED
  BY <1>1, <1>2, <1>3, <1>4, <1>5, <1>6, <1>7, <1>8, <1>9, <1>10, <1>11, <1>12, <1>13, <1>14
  DEF TransportNext, Internal

\* As long as no read was short.
ExactInv == ReadsOK /\ (ReadWasShort \/ TransportInv)

LEMMA Invariance == TransportSpec => []ExactInv
<1>1. TransportInit => ExactInv
  <2>1. TransportInit => ReadsOK BY DEF TransportInit, ReadsOK
  <2> QED BY <2>1, InitInv DEF ExactInv
<1>2. ExactInv /\ [TransportNext]_transportVars => ExactInv'
  <2> SUFFICES ASSUME ExactInv, [TransportNext]_transportVars PROVE ExactInv' OBVIOUS
  <2>1. ReadsOK' /\ (ReadWasShort => ReadWasShort') BY ReadsStep DEF ExactInv
  <2>2. ASSUME ~ReadWasShort' PROVE TransportInv' BY <2>1, <2>2, NextInv DEF ExactInv
  <2> QED BY <2>1, <2>2 DEF ExactInv
<1> QED BY <1>1, <1>2, PTL DEF TransportSpec

-----------------------------------------------------------------------------
(* The types, also after a read that was short *)

\* There is something to pop.
Filled(q) == q.canGet => q.items # <<>>

TypesInv == ReadsOK /\ TransportTypeOK /\ Filled(recvArray) /\ Filled(sendArray)

LEMMA QueueTypes ==
    ASSUME NEW T, NEW q \in Queue(T), Filled(q)
    PROVE  /\ \A by \in Nat, value \in T : Push(q, by, value) \in Queue(T) /\ Filled(Push(q, by, value))
           /\ \A p \in Resumed(q) : Pushed(q, p) \in Queue(T) /\ Filled(Pushed(q, p))
           /\ Pop(q) \in Queue(T) /\ Filled(Pop(q))
           /\ q.canGet => Popped(q) \in T
<1>1. /\ q.items \in Seq(T) /\ q.canGet \in BOOLEAN /\ q.canPush \in BOOLEAN
      /\ q.pushes \in SUBSET Item(T)
  BY DEF Queue
<1>2. PICK is \in Seq(T) : is = q.items BY <1>1
<1>3. ASSUME NEW by \in Nat, NEW value \in T
      PROVE  Push(q, by, value) \in Queue(T) /\ Filled(Push(q, by, value))
  <2>1. PICK new \in Item(T) : new = [by |-> by, value |-> value, resumed |-> q.canPush]
    BY <1>1 DEF Item
  <2>2. PICK r : r = Push(q, by, value) OBVIOUS
  <2>3. r = [q EXCEPT !.pushes = q.pushes \cup {new}] BY <2>1, <2>2 DEF Push
  <2>4. r \in Queue(T) /\ r.items = q.items /\ r.canGet = q.canGet BY <1>1, <2>3 DEF Queue
  <2> QED BY <2>2, <2>4 DEF Filled
<1>4. ASSUME NEW p \in Resumed(q) PROVE Pushed(q, p) \in Queue(T) /\ Filled(Pushed(q, p))
  <2>1. p \in Item(T) BY <1>1 DEF Resumed
  <2>2. p.value \in T BY <2>1 DEF Item
  <2>3. PICK more \in Seq(T) : more = Append(is, p.value)
    <3>1. Append(is, p.value) \in Seq(T) BY <2>2, AppendProperties
    <3> QED BY <3>1
  <2>4. more # <<>>
    <3>1. Len(more) = Len(is) + 1 /\ Len(is) \in Nat BY <2>2, <2>3
    <3> QED BY <3>1
  <2>5. PICK r : r = Pushed(q, p) OBVIOUS
  <2>6. r = [q EXCEPT !.items = more, !.canGet = TRUE, !.canPush = FALSE, !.pushes = q.pushes \ {p}]
    BY <1>2, <2>3, <2>5 DEF Pushed
  <2>7. r \in Queue(T) /\ r.items = more BY <1>1, <2>6 DEF Queue
  <2> QED BY <2>4, <2>5, <2>7 DEF Filled
<1>5. Pop(q) \in Queue(T) /\ Filled(Pop(q))
  <2>1. PICK less \in Seq(T) : less = SubSeq(is, 1, Len(is) - 1)
    <3>1. PICK n \in Int : n = Len(is) - 1 OBVIOUS
    <3>2. SubSeq(is, 1, n) \in Seq(T)
      <4>1. \A i \in 1 .. n : is[i] \in T BY <3>1
      <4> QED BY <4>1, SubSeqProperties
    <3> QED BY <3>1, <3>2
  <2>2. PICK ps \in SUBSET Item(T) : ps = {[p EXCEPT !.resumed = TRUE] : p \in q.pushes}
    BY <1>1 DEF Item
  <2>3. PICK r : r = Pop(q) OBVIOUS
  <2>4. r = [q EXCEPT !.items = less, !.canGet = FALSE, !.canPush = TRUE, !.pushes = ps]
    BY <1>2, <2>1, <2>2, <2>3 DEF Pop
  <2>5. r \in Queue(T) /\ r.canGet = FALSE BY <1>1, <2>4 DEF Queue
  <2> QED BY <2>3, <2>5 DEF Filled
<1>6. ASSUME q.canGet PROVE Popped(q) \in T
  <2>1. is # <<>> BY <1>2, <1>6 DEF Filled
  <2>2. Len(is) \in 1 .. Len(is) BY <2>1
  <2> QED BY <1>2, <2>2 DEF Popped
<1> QED BY <1>3, <1>4, <1>5, <1>6

LEMMA TypesBegin == TransportInit => TypesInv
<1> SUFFICES ASSUME TransportInit PROVE TypesInv OBVIOUS
<1>1. TransportTypeOK BY InitInv DEF TransportInv
<1>2. Filled(NewQueue) BY DEF Filled, NewQueue
<1> QED BY <1>1, <1>2 DEF TypesInv, TransportInit, ReadsOK

\* Where the client is.
LEMMA ClientTypes ==
    ASSUME TypesInv
    PROVE  /\ client.attempt \in Nat /\ client.step \in Nat /\ client \in Caller
           /\ Fails => client' \in Caller
           /\ \A p \in {"off", "asking", "busy", "receiving", "over"} :
                 [client EXCEPT !.phase = p] \in Caller
           /\ \A k \in Nat : Goes(client.attempt, k) =>
                 client' \in Caller /\ sendArray' \in Queue(Pair) /\ Filled(sendArray')
<1>1. client \in Caller /\ sendArray \in Queue(Pair) /\ Filled(sendArray)
  BY DEF TypesInv, TransportTypeOK
<1>2. client.attempt \in Nat /\ client.step \in Nat BY <1>1 DEF Caller
<1>3. Fails => client' \in Caller BY <1>1, FailsFacts
<1>4. \A p \in {"off", "asking", "busy", "receiving", "over"} : [client EXCEPT !.phase = p] \in Caller
  BY <1>1 DEF Caller
<1>5. ASSUME NEW k \in Nat, Goes(client.attempt, k)
      PROVE  client' \in Caller /\ sendArray' \in Queue(Pair) /\ Filled(sendArray')
  <2>1. CASE k > Steps
    <3>1. client' = [phase |-> "busy", attempt |-> client.attempt, step |-> k] /\ sendArray' = sendArray
      BY <1>5, <2>1 DEF Goes
    <3> QED BY <1>1, <1>2, <3>1 DEF Caller
  <2>2. CASE ~(k > Steps)
    <3>1. /\ client' = [phase |-> "asking", attempt |-> client.attempt, step |-> k]
          /\ sendArray' = Push(sendArray, 0, <<client.attempt, k>>)
      BY <1>5, <2>2 DEF Goes
    <3>2. <<client.attempt, k>> \in Pair /\ 0 \in Nat BY <1>2 DEF Pair
    <3>3. client' \in Caller BY <1>2, <3>1 DEF Caller
    <3>4. Push(sendArray, 0, <<client.attempt, k>>) \in Queue(Pair)
          /\ Filled(Push(sendArray, 0, <<client.attempt, k>>))
      BY <1>1, <3>2, QueueTypes
    <3> QED BY <3>1, <3>3, <3>4
  <2> QED BY <2>1, <2>2
<1> QED BY <1>1, <1>2, <1>3, <1>4, <1>5

\* What disconnect() does to the queue.
LEMMA DisconnectedTypes ==
    ASSUME TypesInv
    PROVE  Disconnected(recvArray) \in Queue(Payload) /\ Filled(Disconnected(recvArray))
<1>1. recvArray \in Queue(Payload) /\ Filled(recvArray) BY DEF TypesInv, TransportTypeOK
<1>2. Undefined \in Payload /\ 0 \in Nat BY EmptySeq DEF Undefined, Payload
<1>3. Push(recvArray, 0, Undefined) \in Queue(Payload) /\ Filled(Push(recvArray, 0, Undefined))
  BY <1>1, <1>2, QueueTypes
<1> QED BY <1>1, <1>3 DEF Disconnected

LEMMA LoopTypes ==
    ASSUME TypesInv
    PROVE  /\ \A r \in DOMAIN readers : /\ readers[r] \in Loop /\ readers[r].want \in Nat
                                        /\ readers[r].got \in Payload
           /\ \A r, x : x \in Loop => [readers EXCEPT ![r] = x] \in Seq(Loop)
           /\ \A x \in Loop : Append(readers, x) \in Seq(Loop)
<1>1. PICK rs \in Seq(Loop) : rs = readers BY DEF TypesInv, TransportTypeOK
<1>2. \A r \in DOMAIN rs : rs[r] \in Loop /\ rs[r].want \in Nat /\ rs[r].got \in Payload
  <2>1. \A r \in DOMAIN rs : rs[r] \in Loop OBVIOUS
  <2> QED BY <2>1 DEF Loop
<1>3. ASSUME NEW r, NEW x \in Loop PROVE [rs EXCEPT ![r] = x] \in Seq(Loop)
  <2>1. PICK t : t = [rs EXCEPT ![r] = x] OBVIOUS
  <2>2. PICK n \in Nat : n = Len(rs) /\ DOMAIN rs = 1 .. n OBVIOUS
  <2>3. DOMAIN t = 1 .. n /\ t = [i \in 1 .. n |-> t[i]] BY <2>1, <2>2
  <2>4. \A i \in 1 .. n : rs[i] \in Loop BY <2>2
  <2>5. \A i \in 1 .. n : t[i] \in Loop BY <2>1, <2>2, <2>4
  <2>6. t \in [1 .. n -> Loop] BY <2>3, <2>5
  <2> QED BY <2>1, <2>6
<1>4. \A x \in Loop : Append(rs, x) \in Seq(Loop) OBVIOUS
<1> QED BY <1>1, <1>2, <1>3, <1>4

\* The bytes of a frame that is sent.
LEMMA SentTypes ==
    ASSUME TypesInv, NEW x \in Pair, sent' = Append(sent, x),
           net' = net \o <<<<Len(sent'), 0>>>> \o Frame(Len(sent'))
    PROVE  sent' \in Seq(Pair) /\ net' \in Seq(Pair)
<1>1. sent \in Seq(Pair) /\ net \in Seq(Pair) BY DEF TypesInv, TransportTypeOK
<1>2. sent' \in Seq(Pair) BY <1>1
<1>3. PICK n \in Nat : n = Len(sent') BY <1>2
<1>4. PICK f \in Seq(Pair) : f = Frame(n) BY FrameType DEF Payload
<1>5. PICK h \in Seq(Pair) : h = <<<<n, 0>>>>
  <2>1. PICK c \in Pair : c = <<n, 0>> BY DEF Pair
  <2>2. <<c>> \in Seq(Pair) OBVIOUS
  <2> QED BY <2>1, <2>2
<1>6. net' = (net \o h) \o f BY <1>3, <1>4, <1>5
<1>7. PICK early \in Seq(Pair) : early = net \o h
  <2>1. net \o h \in Seq(Pair) BY <1>1, ConcatProperties
  <2> QED BY <2>1
<1>8. early \o f \in Seq(Pair) BY ConcatProperties
<1> QED BY <1>2, <1>6, <1>7, <1>8

LEMMA TypesOfSteps ==
    ASSUME TypesInv, TransportNext
    PROVE  TransportTypeOK' /\ Filled(recvArray') /\ Filled(sendArray')
<1> DEFINE Goal == TransportTypeOK' /\ Filled(recvArray') /\ Filled(sendArray')
<1>0. TransportTypeOK /\ Filled(recvArray) /\ Filled(sendArray) BY DEF TypesInv
<1>1. ASSUME Send PROVE Goal
  <2>1. sendArray.canGet /\ sendArray \in Queue(Pair) BY <1>0, <1>1 DEF Send, Sending, TransportTypeOK
  <2>2. Pop(sendArray) \in Queue(Pair) /\ Filled(Pop(sendArray)) /\ Popped(sendArray) \in Pair
    BY <1>0, <2>1, QueueTypes
  <2>3. requests' \in Seq(Pair)
    <3>1. requests \in Seq(Pair) BY <1>0 DEF TransportTypeOK
    <3>2. Append(requests, Popped(sendArray)) \in Seq(Pair) BY <2>2, <3>1, AppendProperties
    <3> QED BY <1>1, <3>1, <3>2 DEF Send
  <2> QED BY <1>0, <1>1, <2>2, <2>3 DEF Send, socketVars, TransportTypeOK
<1>2. ASSUME PushGoesOn PROVE Goal
  <2>1. CASE \E p \in Resumed(sendArray) :
                sendArray' = Pushed(sendArray, p) /\ UNCHANGED <<readers, recvArray>>
    <3>1. sendArray' \in Queue(Pair) /\ Filled(sendArray')
      BY <1>0, <2>1, QueueTypes DEF TransportTypeOK
    <3> QED BY <1>0, <1>2, <2>1, <3>1 DEF PushGoesOn, socketVars, TransportTypeOK
  <2>2. ASSUME NEW p \in Resumed(recvArray), recvArray' = Pushed(recvArray, p),
               readers' = IF p.by = 0 THEN readers
                          ELSE [readers EXCEPT ![p.by] =
                                  IF connected THEN AtHeader
                                  ELSE [AtHeader EXCEPT !.phase = "ended"]],
               UNCHANGED sendArray
        PROVE  Goal
    <3>1. recvArray' \in Queue(Payload) /\ Filled(recvArray')
      BY <1>0, <2>2, QueueTypes DEF TransportTypeOK
    <3>2. PICK x \in Loop : x = IF connected THEN AtHeader ELSE [AtHeader EXCEPT !.phase = "ended"]
      <4>1. <<>> \in Payload BY EmptySeq DEF Payload
      <4>2. AtHeader \in Loop /\ [AtHeader EXCEPT !.phase = "ended"] \in Loop
        BY <4>1 DEF AtHeader, Loop, Phases
      <4> QED BY <4>2
    <3>3. readers' \in Seq(Loop)
      <4>1. readers \in Seq(Loop) BY <1>0 DEF TransportTypeOK
      <4>2. \A r : [readers EXCEPT ![r] = x] \in Seq(Loop) BY LoopTypes
      <4> QED BY <2>2, <3>2, <4>1, <4>2
    <3> QED BY <1>0, <1>2, <2>2, <3>1, <3>3 DEF PushGoesOn, socketVars, TransportTypeOK
  <2> QED BY <1>2, <2>1, <2>2 DEF PushGoesOn, Pushes
<1>3. ASSUME Recv PROVE Goal
  <2>1. recvArray.canGet /\ recvArray \in Queue(Payload)
    BY <1>0, <1>3 DEF Recv, Receiving, TransportTypeOK
  <2>2. Pop(recvArray) \in Queue(Payload) /\ Filled(Pop(recvArray)) /\ Popped(recvArray) \in Payload
    BY <1>0, <2>1, QueueTypes
  <2>3. recvArray' = Pop(recvArray)
        /\ UNCHANGED <<connected, readers, sendTask, socketVars, reads, requests, failures>>
    BY <1>3 DEF Recv
  <2>4. received' \in Seq(Payload)
    <3>1. received \in Seq(Payload) BY <1>0 DEF TransportTypeOK
    <3>2. received' = received \/ received' = Append(received, Popped(recvArray)) BY <1>3 DEF Recv
    <3> QED BY <2>2, <3>1, <3>2
  <2>5. \/ UNCHANGED <<client, sendArray>>
        \/ Fails /\ UNCHANGED sendArray
        \/ \E p \in {"busy", "over"} : client' = [client EXCEPT !.phase = p] /\ UNCHANGED sendArray
        \/ Goes(client.attempt, client.step + 1)
    BY <1>3 DEF Recv
  <2>6. client' \in Caller /\ sendArray' \in Queue(Pair) /\ Filled(sendArray')
    <3>1. client \in Caller /\ sendArray \in Queue(Pair) BY <1>0 DEF TransportTypeOK
    <3>2. client.step + 1 \in Nat BY ClientTypes
    <3> QED BY <1>0, <2>5, <3>1, <3>2, ClientTypes
  <2> QED BY <1>0, <2>2, <2>3, <2>4, <2>6 DEF socketVars, TransportTypeOK
<1>4. ASSUME NEW r \in DOMAIN readers, ReadFails(r) PROVE Goal
  <2>1. recvArray' \in Queue(Payload) /\ Filled(recvArray') BY <1>4, DisconnectedTypes DEF ReadFails
  <2>2. readers' \in Seq(Loop)
    <3>1. readers[r] \in Loop BY LoopTypes
    <3>2. [readers[r] EXCEPT !.phase = "ended"] \in Loop BY <3>1 DEF Loop, Phases
    <3>3. readers' = [readers EXCEPT ![r] = [readers[r] EXCEPT !.phase = "ended"]]
      BY <1>4 DEF ReadFails
    <3> QED BY <3>2, <3>3, LoopTypes
  <2>3. connected' = FALSE
        /\ UNCHANGED <<sendTask, sendArray, socketVars, reads, client, requests, received, failures>>
    BY <1>4 DEF ReadFails
  <2> QED BY <1>0, <2>1, <2>2, <2>3 DEF socketVars, TransportTypeOK
<1>5. ASSUME NEW r \in DOMAIN readers, Read(r) PROVE Goal
  <2>1. PICK bytes \in Seq(Pair) : bytes = stream BY <1>0 DEF TransportTypeOK
  <2>2. readers[r] \in Loop /\ readers[r].want \in Nat /\ readers[r].got \in Payload BY LoopTypes
  <2>3. PICK w \in Nat : w = readers[r].want BY <2>2
  <2>4. PICK m \in Nat : m = Len(bytes) BY <2>1
  <2>5. PICK n \in Nat : n = Least(w, m) /\ n <= w /\ n <= m BY <2>3, <2>4 DEF Least
  <2>6. PICK got \in Payload : got = readers[r].got \o SubSeq(bytes, 1, n)
    <3>1. PICK old \in Seq(Pair) : old = readers[r].got BY <2>2 DEF Payload
    <3>2. SubSeq(bytes, 1, n) \in Seq(Pair)
      <4>1. \A i \in 1 .. n : bytes[i] \in Pair BY <2>4, <2>5, ElementOfSeq
      <4> QED BY <2>5, <4>1, SubSeqProperties
    <3>3. old \o SubSeq(bytes, 1, n) \in Seq(Pair) BY <3>2, ConcatProperties
    <3> QED BY <3>1, <3>3 DEF Payload
  <2>7. stream' \in Seq(Pair) /\ readable' \in BOOLEAN
    <3>1. stream' = SubSeq(bytes, n + 1, m) /\ readable' = (n < m)
      BY <1>5, <2>1, <2>3, <2>4, <2>5 DEF Read
    <3>2. \A i \in n + 1 .. m : bytes[i] \in Pair BY <2>4, <2>5, ElementOfSeq
    <3>3. SubSeq(bytes, n + 1, m) \in Seq(Pair) BY <2>4, <2>5, <3>2, SubSeqProperties
    <3> QED BY <3>1, <3>3
  <2>8. PICK left \in Nat : left = w - n BY <2>5
  <2>9. \/ /\ readers' = [readers EXCEPT ![r].want = left, ![r].got = got]
           /\ UNCHANGED recvArray
        \/ /\ \E len \in 1 .. BodyLength :
                 readers' = [readers EXCEPT ![r] = [phase |-> "body", want |-> len, got |-> <<>>]]
           /\ UNCHANGED recvArray
        \/ /\ readers' = [readers EXCEPT ![r].phase = "pushing"]
           /\ recvArray' = Push(recvArray, r, got)
    BY <1>5, <2>1, <2>3, <2>4, <2>5, <2>6, <2>8 DEF Read
  <2>10. readers' \in Seq(Loop)
    <3>1. \E x \in Loop : readers' = [readers EXCEPT ![r] = x]
      <4>1. CASE readers' = [readers EXCEPT ![r].want = left, ![r].got = got]
        <5>1. [readers[r] EXCEPT !.want = left, !.got = got] \in Loop BY <2>2 DEF Loop
        <5>2. readers' = [readers EXCEPT ![r] = [readers[r] EXCEPT !.want = left, !.got = got]]
          BY <4>1
        <5> QED BY <5>1, <5>2
      <4>2. CASE \E len \in 1 .. BodyLength :
                   readers' = [readers EXCEPT ![r] = [phase |-> "body", want |-> len, got |-> <<>>]]
        <5>1. \A len \in 1 .. BodyLength : [phase |-> "body", want |-> len, got |-> <<>>] \in Loop
          <6>1. <<>> \in Payload BY EmptySeq DEF Payload
          <6> QED BY <6>1, TransportAssumption DEF Loop, Phases
        <5> QED BY <4>2, <5>1
      <4>3. CASE readers' = [readers EXCEPT ![r].phase = "pushing"]
        <5>1. [readers[r] EXCEPT !.phase = "pushing"] \in Loop BY <2>2 DEF Loop, Phases
        <5>2. readers' = [readers EXCEPT ![r] = [readers[r] EXCEPT !.phase = "pushing"]] BY <4>3
        <5> QED BY <5>1, <5>2
      <4> QED BY <2>9, <4>1, <4>2, <4>3
    <3> QED BY <3>1, LoopTypes
  <2>11. recvArray' \in Queue(Payload) /\ Filled(recvArray')
    <3>1. r \in Nat BY <1>0, <1>5, ItemTypes
    <3>2. recvArray \in Queue(Payload) BY <1>0 DEF TransportTypeOK
    <3>3. Push(recvArray, r, got) \in Queue(Payload) /\ Filled(Push(recvArray, r, got))
      BY <1>0, <3>1, <3>2, QueueTypes
    <3> QED BY <1>0, <2>9, <3>2, <3>3
  <2>12. UNCHANGED <<connected, sendTask, sendArray, closed, net, sent, base, client, requests,
                     received, failures>>
    BY <1>5 DEF Read
  <2> QED BY <1>0, <2>7, <2>10, <2>11, <2>12 DEF TransportTypeOK
<1>6. ASSUME Attempt PROVE Goal
  <2>1. client' \in Caller /\ sendArray' \in Queue(Pair) /\ Filled(sendArray')
    BY <1>6, ClientTypes DEF Attempt
  <2>2. UNCHANGED <<recvArray, reads, failures>> BY <1>6 DEF Attempt
  <2>3. CASE Open
    <3>1. readers' \in Seq(Loop)
      <4>1. <<>> \in Payload BY EmptySeq DEF Payload
      <4>2. AtHeader \in Loop BY <4>1 DEF AtHeader, Loop, Phases
      <4> QED BY <2>3, <4>2, LoopTypes DEF Open
    <3>2. Len(sent) \in Nat /\ <<>> \in Seq(Pair) /\ <<>> \in Seq(Payload)
      BY <1>0, EmptySeq, ItemTypes
    <3> QED BY <1>0, <2>1, <2>2, <2>3, <3>1, <3>2 DEF Open, TransportTypeOK
  <2>4. CASE UNCHANGED <<connected, readers, sendTask, socketVars, requests, received>>
    BY <1>0, <2>1, <2>2, <2>4 DEF socketVars, TransportTypeOK
  <2> QED BY <1>6, <2>3, <2>4 DEF Attempt
<1>7. ASSUME ConnectFails PROVE Goal
  <2>1. client' \in Caller BY <1>7, ClientTypes DEF ConnectFails
  <2>2. failures' \in Nat BY <1>0, <1>7 DEF ConnectFails, Failure, TransportTypeOK
  <2> QED BY <1>0, <1>7, <2>1, <2>2 DEF ConnectFails, connVars, socketVars, TransportTypeOK
<1>8. ASSUME Receive PROVE Goal
  <2>1. client' \in Caller BY <1>8, ClientTypes DEF Receive
  <2> QED BY <1>0, <1>8, <2>1 DEF Receive, connVars, socketVars, TransportTypeOK
<1>9. ASSUME Disconnect PROVE Goal
  <2>1. recvArray' \in Queue(Payload) /\ Filled(recvArray') BY <1>9, DisconnectedTypes DEF Disconnect
  <2> QED BY <1>0, <1>9, <2>1 DEF Disconnect, TransportTypeOK
<1>10. ASSUME Serve PROVE Goal
  <2>1. requests \in Seq(Pair) /\ failures \in Nat BY <1>0 DEF TransportTypeOK
  <2>2. requests' \in Seq(Pair) /\ Head(requests) \in Pair BY <1>10, <2>1 DEF Serve
  <2>3. <<0, 0>> \in Pair BY DEF Pair
  <2>4. \E x \in Pair : sent' = Append(sent, x) BY <1>10, <2>2, <2>3 DEF Serve
  <2>5. sent' \in Seq(Pair) /\ net' \in Seq(Pair) BY <1>10, <2>4, SentTypes DEF Serve
  <2>6. failures' \in Nat BY <1>10, <2>1 DEF Serve, Failure
  <2> QED BY <1>0, <1>10, <2>2, <2>5, <2>6 DEF Serve, connVars, TransportTypeOK
<1>11. ASSUME Update PROVE Goal
  <2>1. <<0, 0>> \in Pair BY DEF Pair
  <2>2. sent' \in Seq(Pair) /\ net' \in Seq(Pair) BY <1>11, <2>1, SentTypes DEF Update
  <2> QED BY <1>0, <1>11, <2>2 DEF Update, connVars, TransportTypeOK
<1>12. ASSUME Close PROVE Goal
  <2>1. failures' \in Nat BY <1>0, <1>12 DEF Close, Failure, TransportTypeOK
  <2>2. net' \in Seq(Pair) BY <1>12, EmptySeq DEF Close
  <2> QED BY <1>0, <1>12, <2>1, <2>2 DEF Close, connVars, TransportTypeOK
<1>13. ASSUME Closed PROVE Goal
  BY <1>0, <1>13 DEF Closed, connVars, TransportTypeOK
<1>14. ASSUME NEW n \in 1 .. Len(net), Data(n) PROVE Goal
  <2>1. PICK bytes \in Seq(Pair) : bytes = net BY <1>0 DEF TransportTypeOK
  <2>2. PICK m \in Nat : m = Len(bytes) BY <2>1
  <2>3. SubSeq(bytes, 1, n) \in Seq(Pair) /\ SubSeq(bytes, n + 1, m) \in Seq(Pair)
    <3>1. n \in 1 .. m BY <1>14, <2>1, <2>2
    <3>2. \A i \in 1 .. m : bytes[i] \in Pair BY <2>2, ElementOfSeq
    <3> QED BY <2>2, <3>1, <3>2, SubSeqProperties
  <2>4. stream \in Seq(Pair) BY <1>0 DEF TransportTypeOK
  <2>5. stream' \in Seq(Pair) /\ net' \in Seq(Pair) BY <1>14, <2>1, <2>2, <2>3, <2>4 DEF Data
  <2> QED BY <1>0, <1>14, <2>5 DEF Data, connVars, TransportTypeOK
<1> QED
  BY <1>1, <1>2, <1>3, <1>4, <1>5, <1>6, <1>7, <1>8, <1>9, <1>10, <1>11, <1>12, <1>13, <1>14
  DEF TransportNext, Internal, Deliver

\* The variables of the connection, its queues and its loops have their types, whatever the network
\* and the user do, also after a read that was short, and a queue from which pop() takes is not
\* empty (PromisedNetSockets.ts, AsyncQueue.ts:31-39, Connection.ts).
THEOREM TransportTyped == TransportSpec => []TypesInv
<1>1. TypesInv /\ [TransportNext]_transportVars => TypesInv'
  <2> SUFFICES ASSUME TypesInv, [TransportNext]_transportVars PROVE TypesInv' OBVIOUS
  <2>1. ReadsOK' BY ReadsStep DEF TypesInv
  <2>2. CASE TransportNext BY <2>1, <2>2, TypesOfSteps DEF TypesInv
  <2>3. CASE UNCHANGED transportVars
    BY <2>1, <2>3 DEF TypesInv, TransportTypeOK, Filled, transportVars, connVars, socketVars
  <2> QED BY <2>2, <2>3
<1> QED BY <1>1, TypesBegin, PTL DEF TransportSpec

\* recv() gives the frames of a TCP connection whole, in order and none twice, although their bytes
\* come in any pieces, the queue between gives its newest item first, and loops of earlier
\* connections still push to it, as long as no read() of a codec on a plain socket gave fewer bytes
\* than it was asked for (PromisedNetSockets.ts:46-74, AsyncQueue.ts:16-39).
THEOREM FramesAreWhole == TransportSpec => []FramesWhole
<1>1. ExactInv => FramesWhole BY DEF ExactInv, TransportInv, FramesWhole, Whole
<1> QED BY <1>1, Invariance, PTL

\* An attempt of connect() fails for a fault of its own, and what an earlier one left in the
\* Connection (an undefined in the queue, a loop that ends late) fails none; an open connection has
\* one receive loop that lives and its send loop (MTProtoSender.ts:275-320); as long as no read
\* was short.
THEOREM RetriesAreClean == TransportSpec => []RetryIsClean
<1>1. ASSUME ExactInv PROVE RetryIsClean
  <2> SUFFICES ASSUME TransportInv PROVE RetryIsClean BY <1>1 DEF ExactInv, RetryIsClean
  <2>1. client.attempt <= failures + 1 BY DEF TransportInv, ExchangeOK
  <2>2. ASSUME connected, ~closed PROVE sendTask = "waiting"
    BY <2>2 DEF TransportInv, ReadersOK, Alive
  <2>3. ASSUME connected
        PROVE  Cardinality({r \in DOMAIN readers : readers[r].phase # "ended"}) = 1
    <3>1. Alive /\ readers # <<>> BY <2>3 DEF TransportInv, ReadersOK, Alive
    <3>2. Len(readers) \in DOMAIN readers /\ readers[Len(readers)].phase # "ended"
      BY <3>1, NewestTypes, ItemTypes DEF TransportInv, Alive, Newest
    <3>3. \A r \in DOMAIN readers : readers[r].phase # "ended" => r = Len(readers)
      BY DEF TransportInv, ReadersOK
    <3>4. {r \in DOMAIN readers : readers[r].phase # "ended"} = {Len(readers)}
      BY <3>2, <3>3
    <3> QED BY <3>4, FS_Singleton
  <2> QED BY <2>1, <2>2, <2>3 DEF RetryIsClean, LoopsServe
<1> QED BY <1>1, Invariance, PTL
=============================================================================
