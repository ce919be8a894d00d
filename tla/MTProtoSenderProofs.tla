------------------------ MODULE MTProtoSenderProofs ------------------------
(***************************************************************************)
(* Proofs about MTProtoSender for every set of requests and ids, every     *)
(* number of retries, faults and packet sizes: its types, that it tracks   *)
(* what it sent and replaces a rejected key, and then what it holds, that  *)
(* is its loops, its one copy of a request, and the answer a request waits *)
(* for, which rest on the types, the ids and the saved requests.           *)
(***************************************************************************)
EXTENDS MTProtoSender, FiniteSetTheorems, TLAPS

-----------------------------------------------------------------------------
(* Facts about the operators *)

\* The ids of pending states are a finite set of known ids.
LEMMA OutstandingType ==
    ASSUME ReqTypeOK
    PROVE  /\ Outstanding \subseteq MsgIds
           /\ IsFiniteSet(Outstanding)
           /\ \A m \in Outstanding : pendingState[m] \in States
           /\ PendingStates \subseteq States
<1>1. Outstanding \subseteq MsgIds BY DEF Outstanding
<1>2. IsFiniteSet(Outstanding) BY <1>1, SenderAssumption, FS_Subset DEF SenderAssumption
<1>3. \A m \in Outstanding : pendingState[m] \in States BY DEF Outstanding, ReqTypeOK
<1>4. PendingStates \subseteq States BY <1>3 DEF PendingStates
<1> QED BY <1>1, <1>2, <1>3, <1>4

\* SetToSeq lists the elements of a finite set, all of them and no other.
LEMMA SetToSeqLists ==
    ASSUME NEW S, IsFiniteSet(S)
    PROVE  /\ SetToSeq(S) \in Seq(S)
           /\ DOMAIN SetToSeq(S) = 1..Cardinality(S)
           /\ ToSet(SetToSeq(S)) = S
<1> DEFINE n == Cardinality(S)
           f == SetToSeq(S)
<1>1. n \in Nat /\ ExistsBijection(1..n, S) BY FS_CardinalityType
<1>2. \E g \in [1..n -> S] : IsInjective(g)
  <2>1. PICK g \in Bijection(1..n, S) : TRUE BY <1>1 DEF ExistsBijection
  <2> QED BY <2>1 DEF Bijection, Injection
<1>3. f \in [1..n -> S] /\ IsInjective(f) BY <1>2 DEF SetToSeq
<1>4. f \in Injection(1..n, S) BY <1>3 DEF Injection
<1>5. IsFiniteSet(1..n) /\ Cardinality(1..n) = n BY <1>1, FS_Interval
<1>6. f \in Surjection(1..n, S) BY <1>4, <1>5, FS_Injection
<1>7. ToSet(f) = S BY <1>3, <1>6 DEF ToSet, Surjection
<1>8. f \in Seq(S) BY <1>1, <1>3
<1> QED BY <1>3, <1>7, <1>8

\* An id taken from the pool refers to nothing.
LEMMA NewMsgIdIsFresh ==
    ASSUME FreshIds # {}
    PROVE  NewMsgId \in FreshIds
BY DEF NewMsgId

-----------------------------------------------------------------------------
(* Type correctness *)

\* The queue stays a queue of states and acknowledgements when one is appended.
LEMMA AppendType ==
    ASSUME LoopTypeOK, NEW x \in States \cup {Ack}
    PROVE  Append(sendQueue, x) \in Seq(States \cup {Ack})
BY DEF LoopTypeOK

\* Settling states keeps every promise one of its four values.
LEMMA SettleType ==
    ASSUME ReqTypeOK, NEW S
    PROVE  Settle(S) \in [States -> {"unborn", "open", "failed", "settled"}]
BY DEF Settle, ReqTypeOK

\* Deleting ids leaves a map from ids to states.
LEMMA WithoutType ==
    ASSUME ReqTypeOK, NEW S
    PROVE  Without(S) \in [MsgIds -> States \cup {None}]
BY DEF Without, ReqTypeOK

\* The id that NewMsgId takes belongs to the pool.
LEMMA FreshType ==
    ASSUME FreshIds # {}
    PROVE  NewMsgId \in MsgIds
BY NewMsgIdIsFresh DEF FreshIds

\* What an id pops from pending is states under known ids, finitely many.
LEMMA PoppedType ==
    ASSUME ReqTypeOK, NEW m
    PROVE  /\ PopIds(m) \subseteq Outstanding
           /\ Popped(m) \subseteq States
<1>1. PopIds(m) \subseteq Outstanding BY DEF PopIds
<1> QED BY <1>1, OutstandingType DEF Popped

\* Listed lists the states pending under the ids, all of them and no other.
LEMMA ListedType ==
    ASSUME ReqTypeOK, NEW ids \in SUBSET Outstanding
    PROVE  /\ Listed(ids) \in Seq(States) /\ Listed(ids) \in Seq(States \cup {Ack})
           /\ ToSet(Listed(ids)) = {pendingState[m] : m \in ids}
<1> DEFINE s == SetToSeq(ids)
           l == [i \in DOMAIN s |-> pendingState[s[i]]]
<1>1. s \in Seq(ids) /\ ToSet(s) = ids
  <2>1. IsFiniteSet(ids) BY OutstandingType, FS_Subset
  <2> QED BY <2>1, SetToSeqLists
<1>2. l \in Seq(States) BY <1>1, OutstandingType
<1>3. l \in Seq(States \cup {Ack}) BY <1>2
<1>4. ToSet(l) = {pendingState[m] : m \in ids}
  <2>1. DOMAIN l = DOMAIN s /\ \A i \in DOMAIN s : l[i] = pendingState[s[i]] OBVIOUS
  <2> HIDE DEF l, s
  <2>2. \A i \in DOMAIN s : s[i] \in ids BY <1>1 DEF ToSet
  <2>3. \A m \in ids : \E i \in DOMAIN s : s[i] = m BY <1>1 DEF ToSet
  <2> QED BY <2>1, <2>2, <2>3 DEF ToSet
<1>5. Listed(ids) = l BY DEF Listed
<1> HIDE DEF l, s
<1> QED BY <1>2, <1>3, <1>4, <1>5

\* Whatever the server may say is a message of the type invariant.
LEMMA MessagesType ==
    ASSUME ReqTypeOK, LinkTypeOK
    PROVE  Messages \subseteq Message
<1>1. Refusable \subseteq MsgIds
  BY OutstandingType DEF Refusable, ReqTypeOK, LinkTypeOK
<1> QED BY <1>1 DEF Messages, Answers, Message, LinkTypeOK

\* What is sent again at the end of _reconnect(): the queue it leaves consists
\* of states and acknowledgements and starts with pending states.
LEMMA ResendType ==
    ASSUME ReqTypeOK, NEW q \in Seq(States \cup {Ack}), ResendPending(q)
    PROVE  sendQueue' \in Seq(States \cup {Ack})
<1> DEFINE asked    == {m \in Outstanding : acknowledged[pendingState[m]]}
           toResend == Listed(Outstanding \ asked)
<1>2. toResend \in Seq(States) BY ListedType
<1>3. toResend \o q \in Seq(States \cup {Ack}) BY <1>2
<1>4. \A s \in Svc : Append(toResend \o q, s) \in Seq(States \cup {Ack}) BY <1>3 DEF States
<1> QED BY <1>3, <1>4 DEF ResendPending

\* reconnect() keeps the types of the link's variables.
LEMMA ReconnectType ==
    ASSUME LinkTypeOK, Reconnect \/ NoReconnect
    PROVE  /\ task' \in {"initial", "failed", "again", "idle", "sleeping", "closing", "connecting"}
           /\ currentRetries' \in Nat
           /\ wire' \subseteq MsgIds /\ got' \subseteq MsgIds
<1>1. CASE NoReconnect BY <1>1 DEF NoReconnect, LinkTypeOK
<1>2. CASE Reconnect
  <2>1. Retried \in Nat BY DEF Retried, LinkTypeOK
  <2>2. DropConnection => wire' \subseteq MsgIds /\ got' \subseteq MsgIds
    BY DEF DropConnection, LinkTypeOK
  <2> QED BY <1>2, <2>1, <2>2 DEF Reconnect, Disconnect, LinkTypeOK
<1> QED BY <1>1, <1>2

\* reconnect() keeps the flags Boolean.
LEMMA ReconnectFlags ==
    ASSUME FlagTypeOK, Reconnect \/ NoReconnect
    PROVE  /\ isReconnecting' \in BOOLEAN /\ userDisconnected' \in BOOLEAN
           /\ userConnected' \in BOOLEAN /\ aborted' \in BOOLEAN /\ connected' \in BOOLEAN
BY Zenon DEF Reconnect, NoReconnect, Disconnect, DropConnection, FlagTypeOK

\* The constructor's values satisfy the type invariant.
THEOREM TypeInit == Init => TypeOK
<1>1. Init => ReqTypeOK BY SenderAssumption DEF Init, ReqTypeOK, States
<1>2. Init => LoopTypeOK BY DEF Init, LoopTypeOK
<1>3. Init => LinkTypeOK BY DEF Init, LinkTypeOK
<1>4. FreshKey \in BOOLEAN BY SenderAssumption DEF SenderAssumption
<1>5. Init => FlagTypeOK BY <1>4 DEF Init, FlagTypeOK
<1> QED BY <1>1, <1>2, <1>3, <1>5 DEF TypeOK

\* No step breaks the types of promises, ids and the pending map.
LEMMA ReqTypeStep ==
    ASSUME TypeOK, Next
    PROVE  ReqTypeOK'
<1> USE DEF TypeOK
<1>1. ASSUME NEW r \in Req, Invoke(r) PROVE ReqTypeOK'
  <2>1. r \in States BY DEF States
  <2> QED BY <1>1, <2>1 DEF Invoke, ReqTypeOK
<1>2. ASSUME NEW r \in Req, Retry(r) PROVE ReqTypeOK'
  <2>1. r \in States BY DEF States
  <2> QED BY <1>2, <2>1 DEF Retry, ReqTypeOK
<1>3. CASE \/ SendLoopWoken \/ SendLoopGet \/ RecvPacket \/ HandleOther \/ HandlerDone
           \/ Break \/ PingFails \/ UserDisconnect \/ UserConnect \/ StartReconnect \/ FirstConnect
  <2>1. UNCHANGED <<reqVars, pendingState>>
    BY <1>3 DEF SendLoopWoken, SendLoopGet, RecvPacket, HandleOther, processRest, HandlerDone,
                Break, PingFails, UserDisconnect, UserConnect, StartReconnect, FirstConnect, reqVars
  <2> QED BY <2>1 DEF ReqTypeOK, reqVars
<1>4. CASE PackOne BY <1>4, FreshType DEF PackOne, ReqTypeOK, LoopTypeOK
<1>5. CASE PackDone BY <1>5, FreshType DEF PackDone, ReqTypeOK
<1>6. CASE Transmit
  <2>1. pendingState' \in [MsgIds -> States \cup {None}]
    BY <1>6 DEF Transmit, Register, ReqTypeOK, States
  <2>2. registered' \in [States -> BOOLEAN] BY <1>6 DEF Transmit, Register, ReqTypeOK
  <2> QED BY <1>6, <2>1, <2>2 DEF Transmit, ReqTypeOK
<1>7. CASE RecvFails BY <1>7, SettleType DEF RecvFails, ReqTypeOK
<1>8. CASE HandleResult
  BY <1>8, SettleType, WithoutType DEF HandleResult, processRest, ReqTypeOK
<1>9. CASE HandleError
  <2>1. promise' \in [States -> {"unborn", "open", "failed", "settled"}]
    BY <1>9, SettleType DEF HandleError, ReqTypeOK, States
  <2> QED BY <1>9, <2>1, WithoutType DEF HandleError, processRest, ReqTypeOK
<1>10. CASE HandleAck BY <1>10 DEF HandleAck, processRest, ReqTypeOK
<1>11. CASE HandleResend BY <1>11, WithoutType DEF HandleResend, processRest, ReqTypeOK
<1>12. CASE HandleRefused
  BY <1>12, SettleType, WithoutType DEF HandleRefused, processRest, ReqTypeOK
<1>13. CASE HandleStateForgotten
  BY <1>13 DEF HandleStateForgotten, processRest, ReqTypeOK, States
<1>14. CASE RecvBroken
  <2>1. FloodAll \in [States -> {"unborn", "open", "failed", "settled"}]
    BY DEF FloodAll, ReqTypeOK
  <2> QED BY <1>14, <2>1, SettleType, WithoutType DEF RecvBroken, ReqTypeOK
<1>15. CASE BrokenHandlerDone BY <1>15, WithoutType DEF BrokenHandlerDone, reqVars, ReqTypeOK
<1>16. CASE RecvBadAuthKey
  BY <1>16, SettleType, WithoutType DEF RecvBadAuthKey, ReqTypeOK
<1>17. CASE Closed
  <2>1. \A kept \in [MsgIds -> States \cup {None}] :
          Readded(kept) \in [MsgIds -> States \cup {None}]
    BY DEF Readded, PackerStates
  <2> QED BY <1>17, <2>1, WithoutType DEF Closed, reqVars, ReqTypeOK
<1>18. ASSUME NEW q, ResendPending(q), UNCHANGED <<tries, msgId, containerId, acknowledged, registered>>
       PROVE  ReqTypeOK'
  BY <1>18, WithoutType DEF ResendPending, ReqTypeOK, States
<1>19. CASE Reconnected BY <1>19, <1>18 DEF Reconnected
<1>20. CASE ConnectFails BY <1>20, <1>18 DEF ConnectFails, ReqTypeOK
<1> QED BY <1>1, <1>2, <1>3, <1>4, <1>5, <1>6, <1>7, <1>8, <1>9, <1>10, <1>11, <1>12, <1>13,
           <1>14, <1>15, <1>16, <1>17, <1>19, <1>20
        DEF Next, SendLoopStep, RecvLoopStep, ProcessStep, ConnectStep, Environment

\* No step breaks the types of the queue, the batch, the packet and the loops.
LEMMA LoopTypeStep ==
    ASSUME TypeOK, Next
    PROVE  LoopTypeOK'
<1> USE DEF TypeOK
<1>1. ASSUME NEW r \in Req, Invoke(r) \/ Retry(r) PROVE LoopTypeOK'
  <2>1. sendQueue' = Append(sendQueue, r) /\ UNCHANGED <<sendLoop, batch, written, recvVars>>
    BY <1>1 DEF Invoke, Retry, Enqueue
  <2>2. sendQueue' \in Seq(States \cup {Ack}) BY <2>1, AppendType DEF States
  <2> QED BY <2>1, <2>2 DEF LoopTypeOK, recvVars
<1>2. CASE Break \/ PingFails \/ UserDisconnect \/ UserConnect \/ StartReconnect
  <2>1. UNCHANGED <<sendQueue, sendLoop, batch, written, recvLoop, inbox>>
    BY <1>2 DEF Break, PingFails, UserDisconnect, UserConnect, StartReconnect, sendVars, recvVars
  <2> QED BY <2>1 DEF LoopTypeOK
<1>3. CASE SendLoopWoken BY <1>3 DEF SendLoopWoken, LoopTypeOK, recvVars
<1>4. CASE SendLoopGet BY <1>4 DEF SendLoopGet, AppendAcks, LoopTypeOK, recvVars
<1>5. CASE PackOne BY <1>5, FreshType DEF PackOne, LoopTypeOK, recvVars
<1>6. CASE PackDone
  <2>1. CASE isReconnecting BY <1>6, <2>1 DEF PackDone, LoopTypeOK, recvVars
  <2>2. CASE ~isReconnecting BY <1>6, <2>2 DEF PackDone, LoopTypeOK, recvVars
  <2> QED BY <2>1, <2>2
<1>7. CASE Transmit
  <2>1. sendQueue' = sendQueue \/ sendQueue' = Append(sendQueue, Ack)
    BY <1>7 DEF Transmit, SendLoopTop, AppendAcks
  <2>2. sendQueue' \in Seq(States \cup {Ack}) BY <2>1, AppendType DEF LoopTypeOK
  <2>3. sendLoop' \in {"off", "wait"} BY <1>7 DEF Transmit, SendLoopTop
  <2>4. batch' = <<>> /\ written' = {} /\ UNCHANGED <<recvLoop, inbox>> BY <1>7 DEF Transmit
  <2> QED BY <2>2, <2>3, <2>4 DEF LoopTypeOK
<1>8. CASE RecvFails \/ RecvBroken \/ BrokenHandlerDone \/ RecvBadAuthKey
  <2>1. recvLoop' \in {"off", "dead", "failing"} /\ UNCHANGED <<sendVars, inbox>>
    BY <1>8 DEF RecvFails, RecvBroken, BrokenHandlerDone, RecvBadAuthKey
  <2> QED BY <2>1 DEF LoopTypeOK, sendVars
<1>9. ASSUME Processed \/ ThrewUnknown
      PROVE  inbox' \in Seq(Message) /\ recvLoop' \in {"recv", "off", "handler", recvLoop}
  <2>1. \/ inbox' = <<>> /\ recvLoop' \in {"recv", "off", "handler"}
        \/ Len(inbox) > 1 /\ inbox' = Tail(inbox) /\ recvLoop' = recvLoop
    BY <1>9 DEF Processed, Threw, ThrewUnknown, RecvLoopTop
  <2>2. CASE inbox' = <<>> BY <2>1, <2>2
  <2>3. CASE Len(inbox) > 1 /\ inbox' = Tail(inbox) BY <2>1, <2>3 DEF LoopTypeOK
  <2> QED BY <2>1, <2>2, <2>3
<1>10. ASSUME Processed \/ ThrewUnknown, sendQueue' \in Seq(States \cup {Ack}),
              UNCHANGED processRest
       PROVE  LoopTypeOK'
  BY <1>9, <1>10 DEF LoopTypeOK, processRest
<1>11. CASE HandleResult \/ HandleAck \/ HandleRefused \/ HandleOther
  <2>1. /\ Processed \/ ThrewUnknown
        /\ UNCHANGED sendQueue /\ UNCHANGED processRest
    BY <1>11 DEF HandleResult, HandleAck, HandleRefused, HandleOther
  <2> QED BY <2>1, <1>10 DEF LoopTypeOK
<1>12. CASE HandleError
  <2>1. sendQueue' = sendQueue \/ sendQueue' = Append(sendQueue, Ack)
    BY <1>12 DEF HandleError, Enqueue
  <2>2. sendQueue' \in Seq(States \cup {Ack}) BY <2>1, AppendType DEF LoopTypeOK
  <2>3. Threw \/ ThrewUnknown BY <1>12 DEF HandleError
  <2>4. inbox' = <<>> /\ recvLoop' \in {"recv", "off", "handler"}
    BY <2>3 DEF Threw, ThrewUnknown, RecvLoopTop
  <2>5. UNCHANGED <<sendLoop, batch, written>> BY <1>12 DEF HandleError, processRest
  <2> QED BY <2>2, <2>4, <2>5 DEF LoopTypeOK
<1>13. CASE HandleResend
  <2>1. PICK m : sendQueue' = sendQueue \o Listed(PopIds(m)) BY <1>13 DEF HandleResend
  <2>2. Listed(PopIds(m)) \in Seq(States) BY PoppedType, ListedType
  <2>3. sendQueue' \in Seq(States \cup {Ack}) BY <2>1, <2>2 DEF LoopTypeOK
  <2> QED BY <1>13, <2>3, <1>10 DEF HandleResend
<1>14. CASE HandleStateForgotten
  <2>1. PICK s \in Svc : sendQueue' = Append(sendQueue, s)
    BY <1>14 DEF HandleStateForgotten, Enqueue
  <2>2. sendQueue' \in Seq(States \cup {Ack}) BY <2>1, AppendType DEF States
  <2> QED BY <1>14, <2>2, <1>10 DEF HandleStateForgotten
<1>15. CASE HandlerDone BY <1>15 DEF HandlerDone, RecvLoopTop, LoopTypeOK, sendVars
<1>16. CASE RecvPacket
  <2>1. PICK n \in 1..MaxPacket : inbox' \in [1..n -> Messages] BY <1>16 DEF RecvPacket
  <2>2. Messages \subseteq Message BY MessagesType
  <2>3. inbox' \in Seq(Message) BY <2>1, <2>2
  <2> QED BY <1>16, <2>3 DEF RecvPacket, LoopTypeOK, sendVars
<1>17. CASE Closed BY <1>17 DEF Closed, LoopTypeOK, recvVars
<1>18. ASSUME NEW q \in Seq(States \cup {Ack}), ResendPending(q)
       PROVE  sendQueue' \in Seq(States \cup {Ack})
  BY <1>18, ResendType
<1>19. CASE FirstConnect
  <2>1. sendQueue' = sendQueue \/ sendQueue' = Append(sendQueue, Ack)
    BY <1>19 DEF FirstConnect, AppendAcks
  <2>2. sendQueue' \in Seq(States \cup {Ack}) BY <2>1, AppendType DEF LoopTypeOK
  <2> QED BY <1>19, <2>2 DEF FirstConnect, Connected, LoopTypeOK
<1>20. CASE Reconnected
  <2>1. PICK q \in {sendQueue, Append(sendQueue, Ack)} : ResendPending(q) BY <1>20 DEF Reconnected
  <2>2. q \in Seq(States \cup {Ack}) BY <2>1, AppendType DEF LoopTypeOK
  <2>3. sendQueue' \in Seq(States \cup {Ack}) BY <2>1, <2>2, <1>18
  <2> QED BY <1>20, <2>3 DEF Reconnected, Connected, LoopTypeOK
<1>21. CASE ConnectFails
  <2>1. sendQueue' = sendQueue \/ ResendPending(sendQueue) BY <1>21 DEF ConnectFails
  <2>2. sendQueue' \in Seq(States \cup {Ack}) BY <2>1, <1>18 DEF LoopTypeOK
  <2> QED BY <1>21, <2>2 DEF ConnectFails, LoopTypeOK, recvVars
<1> QED BY <1>1, <1>2, <1>3, <1>4, <1>5, <1>6, <1>7, <1>8, <1>11, <1>12, <1>13, <1>14, <1>15,
           <1>16, <1>17, <1>19, <1>20, <1>21
        DEF Next, SendLoopStep, RecvLoopStep, ProcessStep, ConnectStep, Environment

\* No step breaks the types of the connecting task, the counters and the wire.
LEMMA LinkTypeStep ==
    ASSUME TypeOK, Next
    PROVE  LinkTypeOK'
<1> USE DEF TypeOK
<1>1. ASSUME NEW r \in Req, Invoke(r) \/ Retry(r) PROVE LinkTypeOK'
  BY <1>1 DEF Invoke, Retry, connVars, netVars, LinkTypeOK
<1>2. CASE SendLoopWoken \/ SendLoopGet \/ PackDone
  BY <1>2 DEF SendLoopWoken, SendLoopGet, PackDone, connVars, netVars, LinkTypeOK
<1>3. CASE PackOne BY <1>3 DEF PackOne, connVars, LinkTypeOK
<1>4. CASE Transmit
  <2>1. CASE connected BY <1>4, <2>1 DEF Transmit, LinkTypeOK, LoopTypeOK
  <2>2. CASE ~connected BY <1>4, <2>2, ReconnectType DEF Transmit, LinkTypeOK
  <2> QED BY <2>1, <2>2
<1>5. CASE RecvFails
  <2>1. \/ NoReconnect \/ Reconnect
        \/ UNCHANGED <<isReconnecting, currentRetries, task, wire, got>>
    BY <1>5 DEF RecvFails
  <2>2. UNCHANGED <<attempts, faults>> BY <1>5 DEF RecvFails
  <2> QED BY <2>1, <2>2, ReconnectType DEF LinkTypeOK
<1>6. CASE RecvBroken \/ BrokenHandlerDone \/ PingFails
  <2>1. (NoReconnect \/ Reconnect) /\ UNCHANGED attempts
    BY <1>6 DEF RecvBroken, BrokenHandlerDone, PingFails
  <2>2. faults' \in {faults, faults + 1} BY <1>6 DEF RecvBroken, BrokenHandlerDone, PingFails, Fault
  <2> QED BY <2>1, <2>2, ReconnectType DEF LinkTypeOK
<1>7. ASSUME Processed \/ ThrewUnknown \/ Threw PROVE currentRetries' \in Nat
  BY <1>7 DEF Processed, Threw, ThrewUnknown, RecvLoopTop, LinkTypeOK
<1>8. ASSUME ProcessStep PROVE LinkTypeOK'
  <2>1. Processed \/ ThrewUnknown \/ Threw
    BY <1>8 DEF ProcessStep, HandleResult, HandleError, HandleAck, HandleResend, HandleRefused,
                HandleStateForgotten, HandleOther
  <2>2. UNCHANGED <<task, attempts, faults>>
    BY <1>8 DEF ProcessStep, HandleResult, HandleError, HandleAck, HandleResend, HandleRefused,
                HandleStateForgotten, HandleOther, processRest
  <2>3. wire' \subseteq MsgIds
    BY <1>8 DEF ProcessStep, HandleResult, HandleError, HandleAck, HandleResend, HandleRefused,
                HandleStateForgotten, HandleOther, Answered, LinkTypeOK
  <2>4. got' \subseteq MsgIds
    <3>1. CASE HandleAck
      <4>1. Head(inbox).id \in MsgIds
        <5>1. inbox # <<>> BY <3>1 DEF HandleAck, Processed, LoopTypeOK
        <5>2. Head(inbox) \in Message BY <5>1 DEF LoopTypeOK
        <5> QED BY <3>1, <5>2 DEF HandleAck, Processing, Message
      <4> QED BY <3>1, <4>1 DEF HandleAck, LinkTypeOK
    <3> QED BY <1>8, <3>1 DEF ProcessStep, HandleResult, HandleError, HandleResend, HandleRefused,
                              HandleStateForgotten, HandleOther, Answered, LinkTypeOK
  <2> QED BY <1>7, <2>1, <2>2, <2>3, <2>4 DEF LinkTypeOK
<1>9. CASE HandlerDone BY <1>9 DEF HandlerDone, RecvLoopTop, netVars, LinkTypeOK
<1>10. CASE RecvPacket
  <2>1. faults' \in {faults, faults + 1} BY <1>10 DEF RecvPacket
  <2> QED BY <1>10, <2>1 DEF RecvPacket, connVars, LinkTypeOK
<1>11. CASE RecvBadAuthKey BY <1>11 DEF RecvBadAuthKey, Fault, LinkTypeOK
<1>12. CASE Break BY <1>12 DEF Break, Fault, DropConnection, connVars, LinkTypeOK
<1>13. CASE UserDisconnect \/ StartReconnect
  BY <1>13 DEF UserDisconnect, StartReconnect, Disconnect, DropConnection, LinkTypeOK
<1>14. CASE Closed \/ UserConnect
  BY <1>14 DEF Closed, UserConnect, netVars, LinkTypeOK
<1>15. CASE FirstConnect \/ Reconnected
  BY <1>15 DEF FirstConnect, Reconnected, Connected, ConnectEnds, LinkTypeOK
<1>16. CASE ConnectFails
  <2>1. attempts' \in {0, attempts + 1} /\ task' \in {task, "failed", "idle"}
    BY <1>16 DEF ConnectFails, ConnectEnds
  <2> QED BY <1>16, <2>1 DEF ConnectFails, Fault, LinkTypeOK
<1> QED BY <1>1, <1>2, <1>3, <1>4, <1>5, <1>6, <1>8, <1>9, <1>10, <1>11, <1>12, <1>13, <1>14,
           <1>15, <1>16
        DEF Next, SendLoopStep, RecvLoopStep, ConnectStep, Environment

\* No step makes a flag anything but Boolean.
LEMMA FlagTypeStep ==
    ASSUME TypeOK, Next
    PROVE  FlagTypeOK'
<1> USE DEF TypeOK
<1>1. ASSUME NEW r \in Req, Invoke(r) \/ Retry(r) PROVE FlagTypeOK'
  <2>1. wakeLast' = FALSE /\ UNCHANGED <<pendingAck, recvVars, connVars, keyVars, netVars>>
    BY <1>1 DEF Invoke, Retry, Enqueue
  <2> QED BY <2>1 DEF recvVars, connVars, keyVars, netVars, FlagTypeOK
<1>2. CASE SendLoopWoken BY <1>2, Zenon DEF SendLoopWoken, recvVars, connVars, keyVars, netVars, FlagTypeOK
<1>3. CASE SendLoopGet
  BY <1>3, Zenon DEF SendLoopGet, AppendAcks, recvVars, connVars, keyVars, netVars, FlagTypeOK
<1>4. CASE PackOne BY <1>4, Zenon DEF PackOne, recvVars, connVars, keyVars, FlagTypeOK
<1>5. CASE PackDone BY <1>5, Zenon DEF PackDone, recvVars, connVars, keyVars, netVars, FlagTypeOK
<1>6. CASE Transmit
  <2>1. CASE connected
    BY <1>6, <2>1, Zenon DEF Transmit, SendLoopTop, AppendAcks, keyVars, FlagTypeOK
  <2>2. CASE ~connected
    <3>1. Reconnect \/ NoReconnect BY <1>6, <2>2, Zenon DEF Transmit
    <3>2. UNCHANGED <<wakeLast, pendingAck, gone, keyVars>> BY <1>6, <2>2, Zenon DEF Transmit
    <3> QED BY <3>1, <3>2, ReconnectFlags, Zenon DEF keyVars, FlagTypeOK
  <2> QED BY <2>1, <2>2
<1>7. CASE RecvFails \/ RecvBroken \/ BrokenHandlerDone \/ PingFails
  <2>1. \/ Reconnect \/ NoReconnect
        \/ userDisconnected' = TRUE /\ UNCHANGED <<isReconnecting, userConnected, aborted, connected>>
    BY <1>7, Zenon DEF RecvFails, RecvBroken, BrokenHandlerDone, PingFails
  <2>2. UNCHANGED <<wakeLast, pendingAck, gone, keyVars>>
    BY <1>7, Zenon DEF RecvFails, RecvBroken, BrokenHandlerDone, PingFails, sendVars
  <2> QED BY <2>1, <2>2, ReconnectFlags, Zenon DEF keyVars, FlagTypeOK
<1>8. CASE ProcessStep
  <2>1. pendingAck' = TRUE
    BY <1>8, Zenon DEF ProcessStep, HandleResult, HandleError, HandleAck, HandleResend, HandleRefused,
                       HandleStateForgotten, HandleOther, Processing
  <2>2. wakeLast' \in BOOLEAN
    BY <1>8, Zenon DEF ProcessStep, HandleResult, HandleError, HandleAck, HandleResend, HandleRefused,
                       HandleStateForgotten, HandleOther, Enqueue, FlagTypeOK
  <2>3. UNCHANGED processRest
    BY <1>8, Zenon DEF ProcessStep, HandleResult, HandleError, HandleAck, HandleResend, HandleRefused,
                       HandleStateForgotten, HandleOther
  <2> QED BY <2>1, <2>2, <2>3, Zenon DEF processRest, keyVars, FlagTypeOK
<1>9. CASE HandlerDone
  BY <1>9, Zenon DEF HandlerDone, sendVars, keyVars, netVars, FlagTypeOK
<1>10. CASE RecvPacket BY <1>10, Zenon DEF RecvPacket, sendVars, connVars, keyVars, FlagTypeOK
<1>11. CASE RecvBadAuthKey BY <1>11, Zenon DEF RecvBadAuthKey, sendVars, FlagTypeOK
<1>12. CASE Break
  BY <1>12, Zenon DEF Break, DropConnection, sendVars, recvVars, connVars, keyVars, FlagTypeOK
<1>13. CASE UserDisconnect \/ UserConnect
  <2>1. CASE UserDisconnect
    BY <2>1, Zenon DEF UserDisconnect, Disconnect, DropConnection, sendVars, keyVars, FlagTypeOK
  <2>2. CASE UserConnect
    BY <2>2, Zenon DEF UserConnect, sendVars, recvVars, keyVars, netVars, FlagTypeOK
  <2> QED BY <1>13, <2>1, <2>2
<1>14. CASE StartReconnect
  BY <1>14, Zenon DEF StartReconnect, Disconnect, DropConnection, sendVars, keyVars, FlagTypeOK
<1>15. CASE Closed BY <1>15, Zenon DEF Closed, KeptKey, recvVars, netVars, FlagTypeOK
<1>16. ASSUME Connected PROVE /\ connected' \in BOOLEAN /\ hasKey' \in BOOLEAN /\ authenticated' \in BOOLEAN
                              /\ keyBroken' \in BOOLEAN /\ userConnected' \in BOOLEAN
                              /\ isReconnecting' \in BOOLEAN /\ aborted' \in BOOLEAN
  BY <1>16, Zenon DEF Connected, ConnectEnds, FlagTypeOK
<1>17. ASSUME NEW q, ResendPending(q) PROVE wakeLast' \in BOOLEAN
  BY <1>17, Zenon DEF ResendPending
<1>18. CASE FirstConnect
  <2>1. wakeLast' \in BOOLEAN /\ pendingAck' \in BOOLEAN
    BY <1>18, Zenon DEF FirstConnect, AppendAcks, FlagTypeOK
  <2> QED BY <1>16, <1>18, <2>1, Zenon DEF FirstConnect, FlagTypeOK
<1>19. CASE Reconnected
  <2>1. wakeLast' \in BOOLEAN BY <1>17, <1>19, Zenon DEF Reconnected
  <2>2. pendingAck' \in BOOLEAN BY <1>19, Zenon DEF Reconnected
  <2> QED BY <1>16, <1>19, <2>1, <2>2, Zenon DEF Reconnected, FlagTypeOK
<1>20. CASE ConnectFails
  <2>1. wakeLast' \in BOOLEAN BY <1>17, <1>20, Zenon DEF ConnectFails, FlagTypeOK
  <2>2. isReconnecting' \in BOOLEAN BY <1>20, Zenon DEF ConnectFails, ConnectEnds, FlagTypeOK
  <2> QED BY <1>20, <2>1, <2>2, Zenon DEF ConnectFails, recvVars, keyVars, FlagTypeOK
<1> QED BY <1>1, <1>2, <1>3, <1>4, <1>5, <1>6, <1>7, <1>8, <1>9, <1>10, <1>11, <1>12, <1>13, <1>14,
           <1>15, <1>18, <1>19, <1>20
        DEF Next, SendLoopStep, RecvLoopStep, ConnectStep, Environment

\* Every variable keeps its type: in particular the pending map holds states
\* under ids and nothing under undefined, whatever is sent, refused and resent.
THEOREM TypeCorrect == Spec => []TypeOK
<1>1. TypeOK /\ [Next]_vars => TypeOK'
  <2>1. CASE UNCHANGED vars
    BY <2>1 DEF vars, reqVars, sendVars, recvVars, connVars, keyVars, netVars,
                TypeOK, ReqTypeOK, LoopTypeOK, LinkTypeOK, FlagTypeOK
  <2>2. TypeOK /\ Next => TypeOK'
    BY ReqTypeStep, LoopTypeStep, LinkTypeStep, FlagTypeStep DEF TypeOK
  <2> QED BY <2>1, <2>2
<1> QED BY TypeInit, <1>1, PTL DEF Spec
-----------------------------------------------------------------------------
(* A sent request is never lost *)

\* A message id belongs to one state, and pending remembers that state for it.
IdsInv ==
    /\ \A x \in States : registered[x] => msgId[x] # None
    /\ \A x \in States : x \in ToSet(batch) => msgId[x] # None
    /\ \A x, y \in States : msgId[x] = msgId[y] /\ msgId[x] # None => x = y
    /\ \A x \in States : msgId[x] \in Outstanding => pendingState[msgId[x]] = x

\* A sender that reconnects by itself is on its way to a new connection, and
\* while it has none nothing is received.
LinkInv ==
    /\ isReconnecting => task \in {"sleeping", "closing", "connecting"}
    /\ task \in {"closing", "connecting"} => ~connected /\ ~userConnected /\ recvLoop # "process"
    /\ connected => userConnected
    /\ recvLoop \notin {"handler", "failing"}

\* _reconnect() has saved what was sent and not settled before it connects.
SavedInv ==
    task = "connecting" =>
        \A r \in Req : promise[r] = "open" /\ registered[r] => r \in PendingStates

TrackInv == TypeOK /\ IdsInv /\ LinkInv /\ SavedInv /\ SentIsTracked

\* At the start no state has an id, so nothing can be lost.
LEMMA TrackInit == Init => IdsInv /\ LinkInv /\ SavedInv /\ SentIsTracked
<1> SUFFICES ASSUME Init PROVE IdsInv /\ LinkInv /\ SavedInv /\ SentIsTracked OBVIOUS
<1>1. \A x \in States : ~registered[x] /\ msgId[x] = None BY DEF Init
<1>2. ToSet(batch) = {} BY DEF Init, ToSet
<1>3. None \notin Outstanding BY SenderAssumption DEF Outstanding, SenderAssumption
<1>4. IdsInv BY <1>1, <1>2, <1>3 DEF IdsInv
<1>5. LinkInv BY DEF Init, LinkInv
<1>6. SavedInv /\ SentIsTracked BY <1>1 DEF SavedInv, SentIsTracked, States
<1> QED BY <1>4, <1>5, <1>6

\* With autoReconnect, reconnect() hands over to the task or does nothing at all.
LEMMA ReconnectLink ==
    ASSUME TypeOK, LinkInv, AutoReconnect, Reconnect \/ NoReconnect, recvLoop' = recvLoop \/ recvLoop' = "off"
    PROVE  LinkInv'
<1>1. CASE UNCHANGED <<isReconnecting, task, userConnected, connected>>
  BY <1>1 DEF LinkInv
<1>2. CASE LoopCondition /\ AutoReconnect /\ isReconnecting' = TRUE /\ task' = "sleeping"
           /\ UNCHANGED <<userConnected, connected>>
  BY <1>2 DEF LinkInv
<1> QED BY <1>1, <1>2, Zenon DEF Reconnect, NoReconnect

\* No step leaves a sender reconnecting without a task that does it, or connected
\* and receiving while the task closes and connects.
LEMMA LinkStep ==
    ASSUME TypeOK, LinkInv, AutoReconnect, ~ErrorHandler, Next
    PROVE  LinkInv'
<1>1. ASSUME NEW r \in Req, Invoke(r) \/ Retry(r) PROVE LinkInv'
  BY <1>1 DEF Invoke, Retry, recvVars, connVars, netVars, LinkInv
<1>2. CASE SendLoopWoken \/ SendLoopGet \/ PackOne \/ PackDone
  BY <1>2 DEF SendLoopWoken, SendLoopGet, PackOne, PackDone, recvVars, connVars, netVars, LinkInv
<1>3. CASE Transmit
  <2>1. UNCHANGED recvLoop BY <1>3 DEF Transmit
  <2>2. CASE connected BY <1>3, <2>1, <2>2 DEF Transmit, LinkInv
  <2>3. CASE ~connected BY <1>3, <2>1, <2>3, ReconnectLink DEF Transmit
  <2> QED BY <2>2, <2>3
<1>4. CASE RecvFails
  <2>1. CASE UNCHANGED <<isReconnecting, task, userConnected, connected>>
    BY <1>4, <2>1 DEF RecvFails, LinkInv
  <2>2. CASE ~UNCHANGED <<isReconnecting, task, userConnected, connected>>
    <3>1. recvLoop' = "off" /\ (Reconnect \/ NoReconnect) BY <1>4, <2>2, Zenon DEF RecvFails, NoReconnect
    <3> QED BY <3>1, ReconnectLink
  <2> QED BY <2>1, <2>2
<1>5. CASE RecvBroken \/ BrokenHandlerDone \/ PingFails
  <2>1. Reconnect /\ (recvLoop' = recvLoop \/ recvLoop' = "off")
    BY <1>5 DEF RecvBroken, BrokenHandlerDone, PingFails
  <2> QED BY <2>1, ReconnectLink
<1>6. CASE ProcessStep
  <2>1. recvLoop = "process" /\ UNCHANGED <<isReconnecting, task, userConnected, connected>>
    BY <1>6 DEF ProcessStep, HandleResult, HandleError, HandleAck, HandleResend, HandleRefused,
                HandleStateForgotten, HandleOther, Processing, processRest
  <2>2. Processed \/ Threw \/ ThrewUnknown
    BY <1>6 DEF ProcessStep, HandleResult, HandleError, HandleAck, HandleResend, HandleRefused,
                HandleStateForgotten, HandleOther
  <2>3. recvLoop' \in {recvLoop, "recv", "off"}
    BY <2>2 DEF Processed, Threw, ThrewUnknown, RecvLoopTop
  <2> QED BY <2>1, <2>3 DEF LinkInv
<1>7. CASE HandlerDone BY <1>7 DEF HandlerDone, LinkInv
<1>8. CASE RecvPacket BY <1>8 DEF RecvPacket, connVars, LinkInv
<1>9. CASE RecvBadAuthKey BY <1>9 DEF RecvBadAuthKey, LinkInv
<1>10. CASE Break BY <1>10 DEF Break, DropConnection, recvVars, connVars, LinkInv
<1>11. CASE UserDisconnect \/ UserConnect
  BY <1>11 DEF UserDisconnect, UserConnect, Disconnect, DropConnection, recvVars, netVars, LinkInv
<1>12. CASE StartReconnect
  BY <1>12 DEF StartReconnect, Disconnect, DropConnection, Quiet, LinkInv
<1>13. CASE Closed BY <1>13 DEF Closed, recvVars, netVars, LinkInv
<1>14. CASE FirstConnect \/ Reconnected
  <2>1. /\ isReconnecting' = FALSE /\ task' = "idle" /\ connected' = TRUE /\ userConnected' = TRUE
        /\ recvLoop' \in {recvLoop, "recv"}
    BY <1>14 DEF FirstConnect, Reconnected, Connected, ConnectEnds
  <2> QED BY <2>1 DEF LinkInv
<1>15. CASE ConnectFails
  <2>1. /\ UNCHANGED <<recvLoop, userConnected, connected>>
        /\ \/ UNCHANGED <<task, isReconnecting>>
           \/ /\ task \in {"initial", "again"} /\ task' \in {"failed", "idle"}
              /\ UNCHANGED isReconnecting
           \/ task' = "idle" /\ isReconnecting' = FALSE
    BY <1>15 DEF ConnectFails, ConnectEnds, recvVars
  <2> QED BY <2>1 DEF LinkInv
<1> QED BY <1>1, <1>2, <1>3, <1>4, <1>5, <1>6, <1>7, <1>8, <1>9, <1>10, <1>11, <1>12, <1>13,
           <1>14, <1>15
        DEF Next, SendLoopStep, RecvLoopStep, ConnectStep, Environment
\* Ids stay with their states when pending only loses entries.
LEMMA IdsKept ==
    ASSUME TypeOK, IdsInv, UNCHANGED msgId, batch' = batch \/ batch' = <<>>,
           \A x \in States : registered'[x] => registered[x],
           pendingState' = pendingState \/ \E S : pendingState' = Without(S)
    PROVE  IdsInv'
<1>1. \A m \in Outstanding' : m \in Outstanding /\ pendingState'[m] = pendingState[m]
  BY DEF Outstanding, Without
<1>2. \A x : x \in ToSet(batch)' => x \in ToSet(batch) BY DEF ToSet
<1> QED BY <1>1, <1>2 DEF IdsInv

\* The elements of a sequence after append, concatenation, head and tail.
LEMMA SequenceElements ==
    ASSUME NEW S, NEW s \in Seq(S)
    PROVE  /\ \A x \in S : ToSet(Append(s, x)) = ToSet(s) \cup {x}
           /\ \A t \in Seq(S) : ToSet(s \o t) = ToSet(s) \cup ToSet(t)
           /\ s # <<>> => ToSet(s) = ToSet(Tail(s)) \cup {Head(s)}
<1>1. ASSUME NEW x \in S PROVE ToSet(Append(s, x)) = ToSet(s) \cup {x}
  <2>1. ToSet(Append(s, x)) \subseteq ToSet(s) \cup {x} BY DEF ToSet
  <2>2. \A i \in DOMAIN s : i \in DOMAIN Append(s, x) /\ Append(s, x)[i] = s[i] OBVIOUS
  <2>3. Len(s) + 1 \in DOMAIN Append(s, x) /\ Append(s, x)[Len(s) + 1] = x OBVIOUS
  <2> QED BY <2>1, <2>2, <2>3 DEF ToSet
<1>2. ASSUME NEW t \in Seq(S) PROVE ToSet(s \o t) = ToSet(s) \cup ToSet(t)
  <2>1. ToSet(s \o t) \subseteq ToSet(s) \cup ToSet(t) BY DEF ToSet
  <2>2. ToSet(s) \subseteq ToSet(s \o t) BY DEF ToSet
  <2>3. ASSUME NEW j \in DOMAIN t PROVE t[j] \in ToSet(s \o t)
    <3>1. Len(s) + j \in DOMAIN (s \o t) /\ (s \o t)[Len(s) + j] = t[j] OBVIOUS
    <3> QED BY <3>1 DEF ToSet
  <2> QED BY <2>1, <2>2, <2>3 DEF ToSet
<1>3. ASSUME s # <<>> PROVE ToSet(s) = ToSet(Tail(s)) \cup {Head(s)}
  <2>1. ToSet(Tail(s)) \subseteq ToSet(s) BY <1>3 DEF ToSet
  <2>2. Head(s) \in ToSet(s) BY <1>3 DEF ToSet
  <2>3. ASSUME NEW i \in DOMAIN s, i # 1 PROVE s[i] \in ToSet(Tail(s))
    <3>1. i - 1 \in DOMAIN Tail(s) /\ Tail(s)[i - 1] = s[i] BY <2>3
    <3> QED BY <3>1 DEF ToSet
  <2> QED BY <1>3, <2>1, <2>2, <2>3 DEF ToSet
<1> QED BY <1>1, <1>2, <1>3

\* The batch is remembered and nothing remembered is overwritten.
LEMMA RegisterKeeps ==
    ASSUME TypeOK, IdsInv, Register
    PROVE  /\ \A x \in ToSet(batch) \cap Req : msgId[x] \in MsgIds /\ pendingState'[msgId[x]] = x
           /\ \A m \in Outstanding : pendingState'[m] = pendingState[m]
           /\ \A m \in Outstanding' : \/ m \in Outstanding
                                      \/ \E x \in ToSet(batch) \cap Req : msgId[x] = m
<1> DEFINE sent == ToSet(batch) \cap Req
<1>1. sent \subseteq States BY DEF States
<1>2. \A x \in sent : msgId[x] \in MsgIds BY <1>1 DEF IdsInv, TypeOK, ReqTypeOK
<1>3. \A x, y \in sent : msgId[x] = msgId[y] => x = y
  BY <1>1, <1>2, SenderAssumption DEF IdsInv, SenderAssumption
<1>4. ASSUME NEW x \in sent PROVE pendingState'[msgId[x]] = x
  <2>1. (CHOOSE y \in sent : msgId[y] = msgId[x]) = x BY <1>3
  <2> QED BY <1>2, <2>1 DEF Register
<1>5. ASSUME NEW m \in Outstanding PROVE pendingState'[m] = pendingState[m]
  <2>1. CASE \E x \in sent : msgId[x] = m
    BY <1>1, <1>4, <2>1 DEF IdsInv
  <2>2. CASE ~\E x \in sent : msgId[x] = m
    BY <2>2 DEF Register, Outstanding
  <2> QED BY <2>1, <2>2
<1>6. ASSUME NEW m \in Outstanding' PROVE m \in Outstanding \/ \E x \in sent : msgId[x] = m
  BY DEF Register, Outstanding
<1> QED BY <1>2, <1>4, <1>5, <1>6

\* Every open state with an id is back in pending under that id.
LEMMA ReaddedKeeps ==
    ASSUME TypeOK, IdsInv, NEW kept, kept = pendingState \/ kept = Without(MsgIds),
           pendingState' = Readded(kept)
    PROVE  /\ \A x \in PackerStates : msgId[x] # None =>
                 msgId[x] \in MsgIds /\ pendingState'[msgId[x]] = x
           /\ \A x \in States : msgId[x] \in Outstanding' => pendingState'[msgId[x]] = x
<1>1. PackerStates \subseteq States BY DEF PackerStates
<1>2. \A x \in States : msgId[x] # None => msgId[x] \in MsgIds BY DEF TypeOK, ReqTypeOK
<1>3. ASSUME NEW x \in PackerStates, msgId[x] # None PROVE pendingState'[msgId[x]] = x
  <2>1. (CHOOSE y \in PackerStates : msgId[y] = msgId[x]) = x BY <1>1, <1>3 DEF IdsInv
  <2> QED BY <1>1, <1>2, <1>3, <2>1 DEF Readded
<1>4. ASSUME NEW x \in States, msgId[x] \in Outstanding', x \notin PackerStates
      PROVE  pendingState'[msgId[x]] = x
  <2>1. msgId[x] \in MsgIds /\ msgId[x] # None
    BY <1>4, SenderAssumption DEF Outstanding, SenderAssumption
  <2>2. ~\E y \in PackerStates : msgId[y] = msgId[x] BY <1>1, <1>4, <2>1 DEF IdsInv
  <2>3. pendingState'[msgId[x]] = kept[msgId[x]] BY <2>1, <2>2 DEF Readded
  <2>4. kept[msgId[x]] # None BY <1>4, <2>3 DEF Outstanding
  <2>5. kept = pendingState /\ msgId[x] \in Outstanding BY <2>1, <2>4 DEF Without, Outstanding
  <2> QED BY <2>3, <2>5 DEF IdsInv
<1>5. \A x \in States : msgId[x] \in Outstanding' => msgId[x] # None
  BY SenderAssumption DEF Outstanding, SenderAssumption
<1> QED BY <1>1, <1>2, <1>3, <1>4, <1>5

\* Pending states are known under their own id, and no two states share one.
LEMMA IdsStep ==
    ASSUME TypeOK, IdsInv, Next
    PROVE  IdsInv'
<1>1. ASSUME NEW r \in Req, Invoke(r) \/ Retry(r) PROVE IdsInv'
  <2>1. /\ UNCHANGED <<msgId, batch, pendingState>>
        /\ registered' = [registered EXCEPT ![r] = FALSE]
    BY <1>1 DEF Invoke, Retry
  <2>2. \A x \in States : registered'[x] => registered[x] BY <2>1 DEF TypeOK, ReqTypeOK
  <2> QED BY <2>1, <2>2, IdsKept
<1>2. CASE \/ SendLoopWoken \/ SendLoopGet \/ RecvFails \/ HandleAck \/ HandleStateForgotten
           \/ HandleOther \/ HandlerDone \/ RecvPacket \/ Break \/ PingFails \/ UserDisconnect
           \/ UserConnect \/ StartReconnect \/ FirstConnect
  <2>1. UNCHANGED <<msgId, batch, registered, pendingState>>
    BY <1>2 DEF SendLoopWoken, SendLoopGet, RecvFails, HandleAck, HandleStateForgotten, HandleOther,
                HandlerDone, RecvPacket, Break, PingFails, UserDisconnect, UserConnect, StartReconnect,
                FirstConnect, reqVars, sendVars, processRest
  <2> QED BY <2>1, IdsKept
<1>3. CASE PackOne
  <2> DEFINE h == Head(sendQueue)
  <2>1. /\ h \in States \cup {Ack}
        /\ batch' = Append(batch, h) /\ UNCHANGED <<registered, pendingState>>
    BY <1>3 DEF PackOne, TypeOK, LoopTypeOK
  <2>2. ToSet(batch)' = ToSet(batch) \cup {h}
    BY <2>1, SequenceElements DEF TypeOK, LoopTypeOK
  <2>3. Outstanding' = Outstanding BY <2>1 DEF Outstanding
  <2>4. CASE h = Ack
    <3>1. UNCHANGED msgId BY <1>3, <2>4 DEF PackOne
    <3>2. Ack \notin States BY SenderAssumption DEF SenderAssumption
    <3> QED BY <2>1, <2>2, <2>3, <2>4, <3>1, <3>2 DEF IdsInv
  <2>5. CASE h # Ack
    <3>1. FreshIds # {} /\ msgId' = [msgId EXCEPT ![h] = NewMsgId] BY <1>3, <2>5 DEF PackOne
    <3>2. NewMsgId \notin Outstanding /\ NewMsgId # None /\ \A x \in States : msgId[x] # NewMsgId
      BY <3>1, NewMsgIdIsFresh, SenderAssumption DEF FreshIds, SenderAssumption
    <3>3. msgId'[h] = NewMsgId /\ \A x \in States : x # h => msgId'[x] = msgId[x]
      BY <2>1, <2>5, <3>1 DEF TypeOK, ReqTypeOK
    <3> QED BY <2>1, <2>2, <2>3, <3>2, <3>3 DEF IdsInv
  <2> QED BY <2>4, <2>5
<1>4. CASE PackDone
  <2>1. UNCHANGED <<msgId, registered, pendingState>> /\ (batch' = batch \/ batch' = <<>>)
    BY <1>4 DEF PackDone
  <2> QED BY <2>1, IdsKept
<1>5. CASE Transmit
  <2>1. UNCHANGED msgId /\ batch' = <<>> /\ Register BY <1>5 DEF Transmit
  <2>2. \A x \in States : registered'[x] => registered[x] \/ x \in ToSet(batch)
    BY <2>1 DEF Register
  <2>3. ToSet(batch)' = {} BY <2>1 DEF ToSet
  <2>4. ASSUME NEW x \in States, msgId[x] \in Outstanding' PROVE pendingState'[msgId[x]] = x
    <3>1. CASE msgId[x] \in Outstanding BY <2>1, <3>1, RegisterKeeps DEF IdsInv
    <3>2. CASE \E y \in ToSet(batch) \cap Req : msgId[y] = msgId[x]
      <4>1. PICK y \in ToSet(batch) \cap Req : msgId[y] = msgId[x] BY <3>2
      <4>2. y \in States /\ msgId[y] # None BY <4>1 DEF IdsInv, States
      <4>3. y = x BY <4>1, <4>2 DEF IdsInv
      <4> QED BY <2>1, <4>1, <4>3, RegisterKeeps
    <3> QED BY <2>1, <2>4, <3>1, <3>2, RegisterKeeps
  <2> QED BY <2>1, <2>2, <2>3, <2>4 DEF IdsInv
<1>6. CASE \/ HandleResult \/ HandleError \/ HandleResend \/ HandleRefused \/ RecvBroken
           \/ BrokenHandlerDone \/ RecvBadAuthKey
  <2>1. UNCHANGED <<msgId, batch, registered>>
    BY <1>6 DEF HandleResult, HandleError, HandleResend, HandleRefused, RecvBroken,
                BrokenHandlerDone, RecvBadAuthKey, reqVars, sendVars, processRest
  <2>2. pendingState' = pendingState \/ \E S : pendingState' = Without(S)
    BY <1>6 DEF HandleResult, HandleError, HandleResend, HandleRefused, RecvBroken,
                BrokenHandlerDone, RecvBadAuthKey
  <2> QED BY <2>1, <2>2, IdsKept
<1>7. CASE Closed
  <2>1. UNCHANGED <<msgId, batch, registered>> BY <1>7 DEF Closed, reqVars
  <2>2. \A x \in States : msgId[x] \in Outstanding' => pendingState'[msgId[x]] = x
    BY <1>7, ReaddedKeeps DEF Closed
  <2> QED BY <2>1, <2>2 DEF IdsInv
<1>8. CASE Reconnected \/ ConnectFails
  <2>1. UNCHANGED <<msgId, batch, registered>> BY <1>8 DEF Reconnected, ConnectFails
  <2>2. pendingState' = pendingState \/ \E S : pendingState' = Without(S)
    BY <1>8 DEF Reconnected, ConnectFails, ResendPending
  <2> QED BY <2>1, <2>2, IdsKept
<1> QED BY <1>1, <1>2, <1>3, <1>4, <1>5, <1>6, <1>7, <1>8
        DEF Next, SendLoopStep, RecvLoopStep, ProcessStep, ConnectStep, Environment
\* A step keeps every sent request if none of them leaves the queue, the batch
\* and pending at once, except into a reconnection that will save it.
LEMMA TrackKept ==
    ASSUME SavedInv, SentIsTracked,
           \A r \in Req : promise'[r] = "open" /\ registered'[r] =>
              /\ promise[r] = "open" /\ registered[r]
              /\ Queued(r) => \/ Queued(r)' \/ r \in PendingStates'
                              \/ task' \in {"sleeping", "closing"}
              /\ r \in PendingStates =>
                    \/ r \in PendingStates'
                    \/ task' # "connecting" /\ (Queued(r)' \/ task' \in {"sleeping", "closing"}),
           task \in {"sleeping", "closing"} => task' \in {"sleeping", "closing"},
           task' = "connecting" => task = "connecting"
    PROVE  SavedInv' /\ SentIsTracked'
BY DEF SavedInv, SentIsTracked

\* The end of _reconnect() moves pending states to the queue or leaves them.
LEMMA ResendKeepsPending ==
    ASSUME TypeOK, NEW q \in Seq(States \cup {Ack}), ResendPending(q)
    PROVE  /\ \A x \in PendingStates : x \in ToSet(sendQueue') \/ x \in PendingStates'
           /\ \A r \in Req : promise'[r] = promise[r]
<1> DEFINE asked    == {m \in Outstanding : acknowledged[pendingState[m]]}
           toResend == Listed(Outstanding \ asked)
<1>1. \A r \in Req : promise'[r] = promise[r]
  <2>1. \/ UNCHANGED promise
        \/ \E s \in Svc : promise' = [promise EXCEPT ![s] = "open"]
    BY DEF ResendPending
  <2> QED BY <2>1, SenderAssumption DEF TypeOK, ReqTypeOK, States, SenderAssumption
<1>2. CASE asked # {}
  <2>1. UNCHANGED pendingState BY <1>2 DEF ResendPending
  <2>2. PendingStates' = PendingStates BY <2>1 DEF PendingStates, Outstanding
  <2> QED BY <1>1, <2>2
<1>3. CASE asked = {}
  <2>1. sendQueue' = toResend \o q BY <1>3 DEF ResendPending
  <2>3. toResend \in Seq(States) /\ ToSet(toResend) = PendingStates
    BY <1>3, ListedType DEF TypeOK, PendingStates
  <2> HIDE DEF toResend
  <2>4. toResend \in Seq(States \cup {Ack}) BY <2>3
  <2>5. ToSet(toResend \o q) = ToSet(toResend) \cup ToSet(q) BY <2>4, SequenceElements
  <2> QED BY <1>1, <2>1, <2>3, <2>5
<1> QED BY <1>2, <1>3
\* A state leaves pending with the ids that are deleted, and with no others.
LEMMA StaysPending ==
    ASSUME NEW S, pendingState' = Without(S), NEW x \in States, x \in PendingStates,
           \A k \in S \cap Outstanding : pendingState[k] # x
    PROVE  x \in PendingStates'
<1>1. PICK m \in Outstanding : pendingState[m] = x BY DEF PendingStates
<1>2. m \in MsgIds /\ m \notin S BY <1>1 DEF Outstanding
<1>3. pendingState'[m] = x BY <1>1, <1>2 DEF Without
<1> QED BY <1>1, <1>2, <1>3 DEF PendingStates, Outstanding

\* Settling closes the promises of a set and opens none.
LEMMA SettleCloses ==
    ASSUME TypeOK, NEW S, promise' = Settle(S)
    PROVE  \A x \in States : promise'[x] = "open" => promise[x] = "open" /\ x \notin S
BY DEF Settle

\* No step loses a request that was sent: where it leaves one place it is in
\* another.
LEMMA TrackStep ==
    ASSUME TrackInv, AutoReconnect, ~ErrorHandler, Next
    PROVE  SavedInv' /\ SentIsTracked'
<1> USE DEF TrackInv
<1> DEFINE Goal == SavedInv' /\ SentIsTracked'
<1>0. Req \subseteq States BY DEF States
<1>1. ASSUME NEW r \in Req, Invoke(r) \/ Retry(r) PROVE Goal
  <2>1. sendQueue' = Append(sendQueue, r) /\ UNCHANGED <<batch, pendingState, task>>
    BY <1>1 DEF Invoke, Retry, Enqueue, connVars
  <2>2. ToSet(sendQueue') = ToSet(sendQueue) \cup {r}
    BY <1>0, <2>1, SequenceElements DEF TypeOK, LoopTypeOK
  <2>3. PendingStates' = PendingStates BY <2>1 DEF PendingStates, Outstanding
  <2>4. \A x \in Req : promise'[x] = "open" /\ registered'[x] => promise[x] = "open" /\ registered[x]
    BY <1>0, <1>1 DEF Invoke, Retry, TypeOK, ReqTypeOK
  <2>5. \A x : Queued(x) => Queued(x)' BY <2>1, <2>2 DEF Queued
  <2> QED BY <2>1, <2>3, <2>4, <2>5, TrackKept
<1>2. ASSUME UNCHANGED <<registered, pendingState>>,
             \A r \in Req : promise'[r] = "open" => promise[r] = "open",
             \A r \in Req : Queued(r) => Queued(r)',
             task \in {"sleeping", "closing"} => task' \in {"sleeping", "closing"},
             task' = "connecting" => task = "connecting"
      PROVE  Goal
  <2>1. PendingStates' = PendingStates BY <1>2 DEF PendingStates, Outstanding
  <2> QED BY <1>2, <2>1, TrackKept
<1>3. ASSUME Reconnect \/ NoReconnect
      PROVE  /\ task \in {"sleeping", "closing"} => task' \in {"sleeping", "closing"}
             /\ task' = "connecting" => task = "connecting"
  BY <1>3 DEF Reconnect, NoReconnect
<1>4. ASSUME sendQueue' = Append(sendQueue, Ack) \/ UNCHANGED sendQueue, UNCHANGED batch
      PROVE  \A r \in Req : Queued(r) => Queued(r)'
  <2>1. ToSet(Append(sendQueue, Ack)) = ToSet(sendQueue) \cup {Ack}
    BY SequenceElements DEF TypeOK, LoopTypeOK
  <2> QED BY <1>4, <2>1 DEF Queued
<1>5. CASE \/ SendLoopWoken \/ SendLoopGet \/ HandleAck \/ HandleOther \/ HandlerDone \/ RecvPacket
           \/ Break \/ PingFails \/ UserDisconnect \/ UserConnect \/ StartReconnect \/ FirstConnect
  <2>1. UNCHANGED <<promise, registered, pendingState, batch>>
    BY <1>5 DEF SendLoopWoken, SendLoopGet, HandleAck, HandleOther, HandlerDone, RecvPacket,
                Break, PingFails, UserDisconnect, UserConnect, StartReconnect, FirstConnect,
                reqVars, sendVars, processRest
  <2>2. sendQueue' = Append(sendQueue, Ack) \/ UNCHANGED sendQueue
    BY <1>5 DEF SendLoopWoken, SendLoopGet, AppendAcks, HandleAck, HandleOther, HandlerDone,
                RecvPacket, Break, PingFails, UserDisconnect, UserConnect, StartReconnect, FirstConnect,
                sendVars
  <2>3. /\ task \in {"sleeping", "closing"} => task' \in {"sleeping", "closing"}
        /\ task' = "connecting" => task = "connecting"
    BY <1>3, <1>5 DEF SendLoopWoken, SendLoopGet, HandleAck, HandleOther, HandlerDone, RecvPacket,
                Break, PingFails, UserDisconnect, UserConnect, StartReconnect, FirstConnect, Connected,
                ConnectEnds, connVars, processRest
  <2> QED BY <1>2, <1>4, <2>1, <2>2, <2>3
<1>6. CASE PackOne
  <2>1. /\ sendQueue # <<>> /\ Head(sendQueue) \in States \cup {Ack}
        /\ sendQueue' = Tail(sendQueue) /\ batch' = Append(batch, Head(sendQueue))
        /\ UNCHANGED <<promise, registered, pendingState, task>>
    BY <1>6 DEF PackOne, TypeOK, LoopTypeOK, connVars
  <2>2. /\ ToSet(sendQueue) = ToSet(sendQueue') \cup {Head(sendQueue)}
        /\ ToSet(batch') = ToSet(batch) \cup {Head(sendQueue)}
    BY <2>1, SequenceElements DEF TypeOK, LoopTypeOK
  <2>3. \A r \in Req : Queued(r) => Queued(r)' BY <2>2 DEF Queued
  <2> QED BY <1>2, <2>1, <2>3
<1>7. CASE PackDone
  <2>1. UNCHANGED <<promise, registered, pendingState, sendQueue, task>>
    BY <1>7 DEF PackDone, connVars
  <2>2. CASE UNCHANGED batch BY <1>2, <1>4, <2>1, <2>2
  <2>3. CASE isReconnecting
    <3>1. task' = task /\ task \in {"sleeping", "closing", "connecting"} BY <2>1, <2>3 DEF LinkInv
    <3>2. PendingStates' = PendingStates BY <2>1 DEF PendingStates, Outstanding
    <3> QED BY <2>1, <3>1, <3>2 DEF SavedInv, SentIsTracked
  <2> QED BY <1>7, <2>2, <2>3 DEF PackDone
<1>8. CASE Transmit
  <2>1. UNCHANGED promise /\ Register /\ batch' = <<>>
    BY <1>8 DEF Transmit
  <2>2. \A r \in Req : registered'[r] => registered[r] \/ r \in ToSet(batch)
    BY <1>0, <2>1 DEF Register
  <2>3. \A r \in Req : r \in ToSet(batch) \/ r \in PendingStates => r \in PendingStates'
    <3>1. ASSUME NEW r \in Req, r \in ToSet(batch) PROVE r \in PendingStates'
      <4>1. msgId[r] \in MsgIds /\ pendingState'[msgId[r]] = r BY <2>1, <3>1, RegisterKeeps
      <4> QED BY <1>0, <4>1, SenderAssumption DEF PendingStates, Outstanding, SenderAssumption
    <3>2. ASSUME NEW r \in Req, r \in PendingStates PROVE r \in PendingStates'
      <4>1. PICK m \in Outstanding : pendingState[m] = r BY <3>2 DEF PendingStates
      <4>2. pendingState'[m] = r BY <2>1, <4>1, RegisterKeeps
      <4> QED BY <1>0, <4>1, <4>2, SenderAssumption DEF PendingStates, Outstanding, SenderAssumption
    <3> QED BY <3>1, <3>2
  <2>4. sendQueue' = Append(sendQueue, Ack) \/ UNCHANGED sendQueue
    BY <1>8 DEF Transmit, SendLoopTop, AppendAcks
  <2>5. ToSet(sendQueue) \subseteq ToSet(sendQueue')
    <3>1. ToSet(Append(sendQueue, Ack)) = ToSet(sendQueue) \cup {Ack}
      BY SequenceElements DEF TypeOK, LoopTypeOK
    <3> QED BY <2>4, <3>1
  <2>6. /\ task \in {"sleeping", "closing"} => task' \in {"sleeping", "closing"}
        /\ task' = "connecting" => task = "connecting"
    BY <1>3, <1>8 DEF Transmit
  <2>7. SavedInv' BY <2>1, <2>2, <2>3, <2>6 DEF SavedInv
  <2>8. SentIsTracked' BY <2>1, <2>2, <2>3, <2>5, <2>6 DEF SentIsTracked, Queued
  <2> QED BY <2>7, <2>8
<1>9. CASE RecvFails
  <2>1. UNCHANGED <<registered, pendingState, sendQueue, batch>> BY <1>9 DEF RecvFails, sendVars
  <2>2. promise' = promise \/ promise' = Settle(PendingStates) BY <1>9 DEF RecvFails
  <2>3. \A r \in Req : promise'[r] = "open" => promise[r] = "open" BY <1>0, <2>2, SettleCloses
  <2>4. Reconnect \/ NoReconnect \/ UNCHANGED task BY <1>9 DEF RecvFails
  <2> QED BY <1>2, <1>3, <1>4, <2>1, <2>3, <2>4
<1>10. ASSUME UNCHANGED <<registered, batch, task>>, task # "connecting",
              NEW S, pendingState' = Without(S),
              sendQueue' = sendQueue \/ sendQueue' = Append(sendQueue, Ack),
              \A r \in Req : promise'[r] = "open" => promise[r] = "open",
              \A r \in Req : promise'[r] = "open" => \A k \in S \cap Outstanding : pendingState[k] # r
       PROVE  Goal
  <2>1. ASSUME NEW r \in Req, promise'[r] = "open", r \in PendingStates PROVE r \in PendingStates'
    <3>1. r \in States /\ pendingState' = Without(S) BY <1>0, <1>10
    <3>2. \A k \in S \cap Outstanding : pendingState[k] # r BY <1>10, <2>1
    <3> QED BY <2>1, <3>1, <3>2, StaysPending
  <2> QED BY <1>4, <1>10, <2>1, TrackKept
<1>11. ASSUME ProcessStep PROVE UNCHANGED <<registered, batch, task>> /\ task # "connecting"
  <2>1. UNCHANGED <<registered, batch, task>> /\ recvLoop = "process"
    BY <1>11 DEF ProcessStep, HandleResult, HandleError, HandleAck, HandleResend, HandleRefused,
                 HandleStateForgotten, HandleOther, processRest, Processing
  <2> QED BY <2>1 DEF LinkInv
<1>12. CASE HandleResult
  <2>1. PICK m : promise' = Settle({pendingState[m]}) /\ pendingState' = Without({m})
    BY <1>12 DEF HandleResult
  <2>2. \A r \in Req : promise'[r] = "open" => promise[r] = "open" /\ r # pendingState[m]
    BY <1>0, <2>1, SettleCloses
  <2>3. UNCHANGED sendQueue BY <1>12 DEF HandleResult
  <2> QED BY <1>10, <1>11, <1>12, <2>1, <2>2, <2>3 DEF ProcessStep
<1>13. CASE HandleError
  <2> DEFINE m == Head(inbox).id
  <2>1. /\ pendingState' = Without({m})
        /\ sendQueue' = sendQueue \/ sendQueue' = Append(sendQueue, Ack)
    BY <1>13 DEF HandleError, Enqueue
  <2>2. \A r \in Req : promise'[r] = "open" => promise[r] = "open" /\ (m \in Outstanding => r # pendingState[m])
    <3>1. CASE pendingState[m] = None
      <4>1. UNCHANGED promise BY <1>13, <3>1 DEF HandleError
      <4> QED BY <3>1, <4>1 DEF Outstanding
    <3>2. CASE promise' = Settle({pendingState[m]}) BY <1>0, <3>2, SettleCloses
    <3>3. CASE /\ pendingState[m] \in Req
               /\ promise' = [promise EXCEPT ![pendingState[m]] = IF @ = "open" THEN "failed" ELSE @]
      BY <1>0, <3>3 DEF TypeOK, ReqTypeOK
    <3> QED BY <1>13, <3>1, <3>2, <3>3 DEF HandleError
  <2> QED BY <1>10, <1>11, <1>13, <2>1, <2>2 DEF ProcessStep
<1>14. CASE HandleResend
  <2>1. PICK m : /\ sendQueue' = sendQueue \o Listed(PopIds(m))
                 /\ pendingState' = Without(PopIds(m)) /\ UNCHANGED promise
    BY <1>14 DEF HandleResend
  <2>2. ToSet(Listed(PopIds(m))) = Popped(m)
    BY PoppedType, ListedType DEF TypeOK, Popped
  <2>3. Listed(PopIds(m)) \in Seq(States \cup {Ack}) BY PoppedType, ListedType DEF TypeOK
  <2>4. ToSet(sendQueue') = ToSet(sendQueue) \cup Popped(m)
    BY <2>1, <2>2, <2>3, SequenceElements DEF TypeOK, LoopTypeOK
  <2>5. UNCHANGED <<registered, batch, task>> /\ task # "connecting"
    BY <1>11, <1>14 DEF ProcessStep
  <2>6. ASSUME NEW r \in Req, r \in PendingStates PROVE r \in PendingStates' \/ Queued(r)'
    <3>1. CASE r \in Popped(m) BY <2>4, <3>1 DEF Queued
    <3>2. CASE r \notin Popped(m)
      <4>1. r \in States /\ pendingState' = Without(PopIds(m)) BY <1>0, <2>1
      <4>2. \A k \in PopIds(m) \cap Outstanding : pendingState[k] # r BY <3>2 DEF Popped
      <4> QED BY <2>6, <4>1, <4>2, StaysPending
    <3> QED BY <3>1, <3>2
  <2>7. \A r \in Req : Queued(r) => Queued(r)' BY <2>4, <2>5 DEF Queued
  <2> QED BY <2>1, <2>5, <2>6, <2>7, TrackKept
<1>15. CASE HandleRefused
  <2>1. PICK m : /\ promise' = Settle(Popped(m)) /\ pendingState' = Without(PopIds(m))
                 /\ UNCHANGED sendQueue
    BY <1>15 DEF HandleRefused
  <2>2. \A r \in Req : promise'[r] = "open" => promise[r] = "open" /\ r \notin Popped(m)
    BY <1>0, <2>1, SettleCloses
  <2> QED BY <1>10, <1>11, <1>15, <2>1, <2>2 DEF ProcessStep, Popped
<1>16. CASE HandleStateForgotten
  <2>1. PICK s \in Svc : /\ promise' = [promise EXCEPT ![s] = "open"]
                         /\ sendQueue' = Append(sendQueue, s) /\ UNCHANGED pendingState
    BY <1>16 DEF HandleStateForgotten, Enqueue
  <2>2. ToSet(sendQueue') = ToSet(sendQueue) \cup {s}
    BY <2>1, SequenceElements DEF TypeOK, LoopTypeOK, States
  <2>3. \A r \in Req : promise'[r] = promise[r]
    BY <1>0, <2>1, SenderAssumption DEF TypeOK, ReqTypeOK, SenderAssumption
  <2> QED BY <1>2, <1>11, <1>16, <2>1, <2>2, <2>3 DEF ProcessStep, Queued
<1>17. CASE RecvBroken
  <2>1. Reconnect /\ connected /\ UNCHANGED <<registered, sendQueue, batch>>
    BY <1>17 DEF RecvBroken, sendVars
  <2>2. userConnected /\ task \notin {"closing", "connecting"} BY <2>1 DEF LinkInv
  <2>3. CASE isReconnecting
    <3>1. task = "sleeping" /\ task' = task BY <2>1, <2>2, <2>3 DEF Reconnect, LoopCondition, LinkInv
    <3> QED BY <3>1 DEF SavedInv, SentIsTracked
  <2>4. CASE ~isReconnecting
    <3>1. task' = "sleeping" BY <2>1, <2>2, <2>4 DEF Reconnect, LoopCondition
    <3> QED BY <3>1 DEF SavedInv, SentIsTracked
  <2> QED BY <2>3, <2>4
<1>18. CASE BrokenHandlerDone BY <1>18 DEF BrokenHandlerDone, LinkInv
<1>19. CASE RecvBadAuthKey
  <2>1. /\ promise' = Settle(PendingStates) /\ UNCHANGED <<registered, sendQueue, batch, task>>
        /\ connected
    BY <1>19 DEF RecvBadAuthKey, sendVars
  <2>2. \A r \in Req : promise'[r] = "open" => promise[r] = "open" /\ r \notin PendingStates
    BY <1>0, <2>1, SettleCloses
  <2>3. task # "connecting" BY <2>1 DEF LinkInv
  <2> QED BY <2>1, <2>2, <2>3, TrackKept DEF Queued
<1>20. CASE Closed
  <2>1. UNCHANGED <<promise, registered>> /\ task' = "connecting" BY <1>20 DEF Closed, reqVars
  <2>2. ASSUME NEW r \in Req, promise[r] = "open", registered[r] PROVE r \in PendingStates'
    <3>1. r \in PackerStates /\ msgId[r] # None BY <1>0, <2>2 DEF PackerStates, IdsInv
    <3>2. msgId[r] \in MsgIds /\ pendingState'[msgId[r]] = r
      BY <1>20, <3>1, ReaddedKeeps DEF Closed
    <3> QED BY <1>0, <3>2, SenderAssumption DEF PendingStates, Outstanding, SenderAssumption
  <2> QED BY <2>1, <2>2 DEF SavedInv, SentIsTracked
<1>21. ASSUME task = "connecting", task' # "connecting", UNCHANGED <<registered, batch>>,
              NEW q \in Seq(States \cup {Ack}), ResendPending(q)
       PROVE  Goal
  <2>1. ASSUME NEW r \in Req, promise'[r] = "open", registered'[r]
        PROVE  Queued(r)' \/ r \in PendingStates'
    <3>1. r \in PendingStates BY <1>21, <2>1, ResendKeepsPending DEF SavedInv
    <3> QED BY <1>21, <3>1, ResendKeepsPending DEF Queued
  <2> QED BY <1>21, <2>1 DEF SavedInv, SentIsTracked
<1>22. CASE Reconnected
  <2>1. PICK q \in {sendQueue, Append(sendQueue, Ack)} : ResendPending(q) BY <1>22 DEF Reconnected
  <2>2. q \in Seq(States \cup {Ack}) BY <2>1, AppendType DEF TypeOK, LoopTypeOK
  <2>3. task = "connecting" /\ task' # "connecting" /\ UNCHANGED <<registered, batch>>
    BY <1>22 DEF Reconnected, Connected, ConnectEnds
  <2> QED BY <1>21, <2>1, <2>2, <2>3
<1>23. CASE ConnectFails
  <2>1. UNCHANGED <<registered, batch>> BY <1>23 DEF ConnectFails
  <2>2. CASE ResendPending(sendQueue) /\ task = "connecting" /\ task' = "idle"
    BY <1>21, <2>1, <2>2 DEF TypeOK, LoopTypeOK
  <2>3. CASE /\ UNCHANGED <<promise, sendQueue, pendingState>>
             /\ UNCHANGED task \/ (task \in {"initial", "again"} /\ task' \in {"failed", "idle"})
    BY <1>2, <1>4, <2>1, <2>3
  <2> QED BY <1>23, <2>2, <2>3 DEF ConnectFails, ConnectEnds
<1> QED BY <1>1, <1>5, <1>6, <1>7, <1>8, <1>9, <1>12, <1>13, <1>14, <1>15, <1>16, <1>17, <1>18,
           <1>19, <1>20, <1>22, <1>23
        DEF Next, SendLoopStep, RecvLoopStep, ProcessStep, ConnectStep, Environment

\* With automatic reconnection and no error handler that delays the receive
\* loop, what was sent and not settled stays in the sender's hands, and is saved
\* before the next connection is up.
LEMMA TrackInvariant ==
    ASSUME AutoReconnect, ~ErrorHandler
    PROVE  Spec => []TrackInv
<1>1. Init => TrackInv BY TypeInit, TrackInit DEF TrackInv
<1>2. TrackInv /\ [Next]_vars => TrackInv'
  <2>1. CASE UNCHANGED vars
    <3>1. TrackInv /\ UNCHANGED vars => TrackInv'
      BY DEF vars, reqVars, sendVars, recvVars, connVars, keyVars, netVars, TrackInv, TypeOK,
             ReqTypeOK, LoopTypeOK, LinkTypeOK, FlagTypeOK, IdsInv, LinkInv, SavedInv,
             SentIsTracked, Queued, PendingStates, Outstanding
    <3> QED BY <2>1, <3>1
  <2>2. TrackInv /\ Next => TrackInv'
    BY ReqTypeStep, LoopTypeStep, LinkTypeStep, FlagTypeStep, IdsStep, LinkStep, TrackStep
    DEF TrackInv, TypeOK
  <2> QED BY <2>1, <2>2
<1> QED BY <1>1, <1>2, PTL DEF Spec

\* Then no request that was sent is ever forgotten before it settles: it is in
\* the queue, in the hands of the send loop, pending, or about to be saved.
THEOREM SentTracked ==
    ASSUME AutoReconnect, ~ErrorHandler
    PROVE  Spec => []SentIsTracked
<1>1. TrackInv => SentIsTracked BY DEF TrackInv
<1> QED BY <1>1, TrackInvariant, PTL

-----------------------------------------------------------------------------
(* A rejected key is replaced *)

\* Before a connection is up nothing is received, so that the key it is made
\* with is not rejected meanwhile; a reconnection keeps a key only if it is marked good.
KeyInv ==
    /\ task = "connecting" /\ keyBroken => ~hasKey \/ authenticated
    /\ task \in {"initial", "again", "closing", "connecting"} => ~connected /\ ~userConnected
    /\ connected => userConnected

\* No step but the end of a connection marks a key as good, and a reconnection
\* that is about to connect has no rejected key that is not marked already.
LEMMA KeyStep ==
    ASSUME TypeOK, KeyInv, Next
    PROVE  /\ KeyInv'
           /\ keyBroken' /\ authenticated' /\ ~authenticated => task \in {"initial", "again"}
<1> USE DEF KeyInv
<1> DEFINE Offline == {"initial", "again", "closing", "connecting"}
           Untrusted == keyBroken' /\ authenticated' /\ ~authenticated => task \in {"initial", "again"}
<1>1. ASSUME UNCHANGED keyVars,
             task' = "connecting" => task = "connecting",
             UNCHANGED <<connected, userConnected>>,
             task' \in Offline => task \in Offline \/ ~userConnected
      PROVE  KeyInv' /\ Untrusted
  BY <1>1 DEF keyVars
<1>2. ASSUME Reconnect \/ NoReconnect, UNCHANGED keyVars PROVE KeyInv' /\ Untrusted
  <2>1. CASE UNCHANGED <<task, connected, userConnected>> BY <1>1, <1>2, <2>1
  <2>2. CASE task' = "sleeping" /\ UNCHANGED <<connected, userConnected>> BY <1>1, <1>2, <2>2
  <2>3. CASE Disconnect /\ UNCHANGED task
    BY <1>2, <2>3 DEF Disconnect, DropConnection, keyVars
  <2> QED BY <1>2, <2>1, <2>2, <2>3 DEF Reconnect, NoReconnect
<1>3. ASSUME NEW r \in Req, Invoke(r) \/ Retry(r) PROVE KeyInv' /\ Untrusted
  BY <1>1, <1>3 DEF Invoke, Retry, connVars, netVars
<1>4. CASE SendLoopWoken \/ SendLoopGet \/ PackOne \/ PackDone \/ ProcessStep \/ HandlerDone \/ RecvPacket
  <2>1. UNCHANGED <<keyVars, task, connected, userConnected>>
    BY <1>4 DEF SendLoopWoken, SendLoopGet, PackOne, PackDone, ProcessStep, HandleResult, HandleError,
                HandleAck, HandleResend, HandleRefused, HandleStateForgotten, HandleOther,
                HandlerDone, RecvPacket, processRest, connVars, netVars
  <2> QED BY <1>1, <2>1
<1>5. CASE Transmit
  <2>1. UNCHANGED keyVars BY <1>5 DEF Transmit
  <2>2. Reconnect \/ NoReconnect \/ UNCHANGED <<task, connected, userConnected>>
    BY <1>5 DEF Transmit
  <2> QED BY <1>1, <1>2, <2>1, <2>2
<1>6. CASE RecvFails \/ RecvBroken \/ BrokenHandlerDone \/ PingFails
  <2>1. UNCHANGED keyVars BY <1>6 DEF RecvFails, RecvBroken, BrokenHandlerDone, PingFails
  <2>2. Reconnect \/ NoReconnect \/ UNCHANGED <<task, connected, userConnected>>
    BY <1>6 DEF RecvFails, RecvBroken, BrokenHandlerDone, PingFails
  <2> QED BY <1>1, <1>2, <2>1, <2>2
<1>7. CASE RecvBadAuthKey BY <1>7 DEF RecvBadAuthKey
<1>8. CASE Break BY <1>8 DEF Break, DropConnection, connVars, keyVars
<1>9. CASE UserDisconnect \/ StartReconnect
  <2>1. /\ UNCHANGED keyVars /\ connected' = FALSE /\ userConnected' = FALSE
        /\ UNCHANGED task \/ task' = "closing"
    BY <1>9 DEF UserDisconnect, StartReconnect, Disconnect, DropConnection
  <2> QED BY <2>1 DEF keyVars
<1>10. CASE Closed
  <2>1. hasKey' = KeptKey /\ UNCHANGED <<authenticated, keyBroken, connected, userConnected>>
    BY <1>10 DEF Closed, netVars
  <2>2. task = "closing" /\ task' = "connecting" BY <1>10 DEF Closed
  <2>3. KeptKey => authenticated BY DEF KeptKey
  <2> QED BY <2>1, <2>2, <2>3
<1>11. CASE FirstConnect \/ Reconnected
  <2>1. task \in {"initial", "again", "connecting"} /\ task' = "idle" /\ userConnected' = TRUE
    BY <1>11 DEF FirstConnect, Reconnected, Connected, ConnectEnds
  <2>2. (authenticated' = (authenticated \/ hasKey)) /\ (keyBroken' = (keyBroken /\ hasKey))
    BY <1>11, Zenon DEF FirstConnect, Reconnected, Connected
  <2> QED BY <2>1, <2>2
<1>12. CASE ConnectFails
  <2>1. UNCHANGED <<keyVars, connected, userConnected>> BY <1>12 DEF ConnectFails
  <2>2. UNCHANGED task \/ task' \in {"failed", "idle"} BY <1>12 DEF ConnectFails, ConnectEnds
  <2> QED BY <1>1, <2>1, <2>2
<1>13. CASE UserConnect
  <2>1. UNCHANGED <<keyVars, connected, userConnected>> BY <1>13 DEF UserConnect, netVars
  <2>2. UNCHANGED task \/ (task' \in {"initial", "again"} /\ ~userConnected) BY <1>13 DEF UserConnect
  <2> QED BY <1>1, <2>1, <2>2
<1> QED BY <1>3, <1>4, <1>5, <1>6, <1>7, <1>8, <1>9, <1>10, <1>11, <1>12, <1>13
        DEF Next, SendLoopStep, RecvLoopStep, ConnectStep, Environment

\* Whatever the options, faults and calls of the application, no reconnection
\* connects with a key that is rejected and not marked as good.
LEMMA KeyInvariant == Spec => []KeyInv
<1>1. Init => KeyInv BY DEF Init, KeyInv
<1>2. TypeOK /\ KeyInv /\ [Next]_vars => KeyInv'
  <2>1. CASE UNCHANGED vars BY <2>1 DEF vars, keyVars, connVars, netVars, KeyInv
  <2>2. TypeOK /\ KeyInv /\ Next => KeyInv' BY KeyStep
  <2> QED BY <2>1, <2>2
<1> QED BY TypeCorrect, <1>1, <1>2, PTL DEF Spec

\* Then no reconnection makes the sender trust a key the server rejected: only
\* connect() by the application takes the key that the sender still holds.
THEOREM KeyReplaced == Spec => RejectedKeyReplaced
<1> DEFINE Untrusted == keyBroken' /\ authenticated' /\ ~authenticated => task \in {"initial", "again"}
<1>1. TypeOK /\ KeyInv /\ [Next]_vars => [Untrusted]_vars BY KeyStep
<1> QED BY TypeCorrect, KeyInvariant, <1>1, PTL DEF Spec, RejectedKeyReplaced

-----------------------------------------------------------------------------
(* A sender that disconnect() took down stays down *)

\* Only a connection under way sets _userConnected, and only reconnect(), which
\* tests it first, or connect() of the application starts one: so nothing that
\* arrives late revives the sender.
THEOREM DownForGood == Spec => StaysDown
<1> DEFINE Down == gone /\ ~userConnected /\ task \in {"idle", "failed"}
           Stay == ~userConnected' /\ task' = task
<1>1. ASSUME Down, Next PROVE Stay \/ UserConnect
  <2>1. ASSUME Reconnect \/ NoReconnect PROVE Stay
    BY <1>1, <2>1 DEF Reconnect, NoReconnect, LoopCondition
  <2>2. ASSUME UNCHANGED connVars PROVE Stay BY <1>1, <2>2 DEF connVars
  <2>3. ASSUME NEW r \in Req, Invoke(r) \/ Retry(r) PROVE Stay
    BY <2>2, <2>3 DEF Invoke, Retry
  <2>4. CASE SendLoopWoken \/ SendLoopGet \/ PackOne \/ PackDone \/ RecvPacket \/ Break
    BY <2>2, <2>4 DEF SendLoopWoken, SendLoopGet, PackOne, PackDone, RecvPacket, Break
  <2>5. CASE Transmit
    <3>1. Reconnect \/ NoReconnect \/ UNCHANGED <<task, userConnected>> BY <2>5 DEF Transmit
    <3> QED BY <1>1, <2>1, <3>1
  <2>6. CASE RecvFails
    <3>1. Reconnect \/ NoReconnect \/ UNCHANGED <<task, userConnected>> BY <2>6 DEF RecvFails
    <3> QED BY <1>1, <2>1, <3>1
  <2>7. CASE ProcessStep
    <3>1. UNCHANGED <<task, userConnected>>
      BY <2>7 DEF ProcessStep, HandleResult, HandleError, HandleAck, HandleResend, HandleRefused,
                  HandleStateForgotten, HandleOther, processRest
    <3> QED BY <1>1, <3>1
  <2>8. CASE HandlerDone BY <1>1, <2>8 DEF HandlerDone
  <2>9. CASE RecvBroken \/ BrokenHandlerDone \/ PingFails
    BY <2>1, <2>9 DEF RecvBroken, BrokenHandlerDone, PingFails
  <2>10. CASE RecvBadAuthKey BY <1>1, <2>10 DEF RecvBadAuthKey
  <2>11. CASE UserDisconnect BY <1>1, <2>11 DEF UserDisconnect
  <2>12. CASE StartReconnect \/ Closed \/ FirstConnect \/ Reconnected \/ ConnectFails
    BY <1>1, <2>12 DEF StartReconnect, Closed, FirstConnect, Reconnected, ConnectFails
  <2> QED BY <1>1, <2>3, <2>4, <2>5, <2>6, <2>7, <2>8, <2>9, <2>10, <2>11, <2>12
          DEF Next, SendLoopStep, RecvLoopStep, ConnectStep, Environment
<1>2. [Next]_vars => [Down => Stay \/ UserConnect]_vars BY <1>1
<1> QED BY <1>2, PTL DEF Spec, StaysDown

-----------------------------------------------------------------------------
(* An application that calls connect() once *)

\* Only a call of connect() makes the connecting task one of the application.
LEMMA CallStep ==
    ASSUME Next, task' \in {"initial", "again"}
    PROVE  UNCHANGED task \/ UserConnect
<1>1. \A r \in Req : Invoke(r) \/ Retry(r) => UNCHANGED task BY DEF Invoke, Retry, connVars
<1>2. SendLoopStep => UNCHANGED task
  BY DEF SendLoopStep, SendLoopWoken, SendLoopGet, PackOne, PackDone, Transmit, NoReconnect, Reconnect, connVars
<1>3. RecvLoopStep => UNCHANGED task
  BY DEF RecvLoopStep, RecvFails, ProcessStep, HandleResult, HandleError, HandleAck, HandleResend,
         HandleRefused, HandleStateForgotten, HandleOther, processRest, HandlerDone,
         BrokenHandlerDone, NoReconnect, Reconnect
<1>4. ~ConnectStep
  BY DEF ConnectStep, StartReconnect, Closed, FirstConnect, Reconnected, Connected, ConnectEnds
<1>5. Environment => UNCHANGED task
  BY DEF Environment, RecvPacket, RecvBroken, RecvBadAuthKey, Break, PingFails, ConnectFails,
         ConnectEnds, NoReconnect, Reconnect, connVars
<1>6. UserDisconnect => UNCHANGED task BY DEF UserDisconnect
<1> QED BY <1>1, <1>2, <1>3, <1>4, <1>5, <1>6 DEF Next

\* An application that does not call connect() again has made the first call only.
LEMMA CalledOnce ==
    ASSUME ~MayConnect
    PROVE  Spec => [](task # "again")
<1>1. Init => task # "again" BY DEF Init
<1>2. task # "again" /\ [Next]_vars => (task # "again")'
  BY CallStep DEF UserConnect, vars, connVars
<1> QED BY <1>1, <1>2, PTL DEF Spec

-----------------------------------------------------------------------------
(* Both loops run *)

\* An abort signal that is set belongs to a connection that is down, and a new
\* one is made before the transport comes up: no receive loop is left over.
LoopInv ==
    /\ LoopsRun
    /\ aborted => ~userConnected
    /\ recvLoop \notin {"handler", "failing", "dead"}
    /\ task \in {"initial", "closing", "connecting"} => ~connected /\ ~userConnected

\* reconnect() ends the condition of the loops or finds it ended, so that a loop
\* that calls it may exit.
LEMMA ReconnectLoops ==
    ASSUME TypeOK, LoopInv, recvLoop' \in {recvLoop, "off"}, sendLoop' \in {sendLoop, "off"},
           \/ Reconnect
           \/ /\ NoReconnect
              /\ \/ UNCHANGED <<sendLoop, recvLoop>>
                 \/ userDisconnected \/ ~LoopCondition
    PROVE  LoopInv'
<1>1. CASE ~LoopCondition /\ NoReconnect
  BY <1>1 DEF NoReconnect, LoopCondition, LoopInv, LoopsRun
<1>2. CASE LoopCondition /\ NoReconnect
  BY <1>2 DEF NoReconnect, Reconnect, LoopCondition, LoopInv, LoopsRun
<1>3. CASE Reconnect /\ LoopCondition /\ AutoReconnect
  <2>1. /\ isReconnecting' = TRUE /\ task' = "sleeping"
        /\ UNCHANGED <<userDisconnected, userConnected, aborted, connected>>
    BY <1>3, Zenon DEF Reconnect
  <2> QED BY <2>1 DEF LoopCondition, LoopInv, LoopsRun
<1>4. CASE Reconnect /\ LoopCondition /\ ~AutoReconnect
  BY <1>4 DEF Reconnect, Disconnect, DropConnection, LoopCondition, LoopInv, LoopsRun
<1> QED BY <1>1, <1>2, <1>3, <1>4, Zenon DEF Reconnect, NoReconnect

\* No step stops a loop that has work to do.
LEMMA LoopStep ==
    ASSUME TypeOK, LoopInv, task # "again", ~ErrorHandler, ~MayConnect, ReconnectRetries = Infinity, Next
    PROVE  LoopInv'
<1>1. ASSUME UNCHANGED <<sendLoop, recvLoop, aborted, task, connected, userConnected, isReconnecting,
                         userDisconnected>>
      PROVE  LoopInv'
  BY <1>1 DEF LoopInv, LoopsRun, LoopCondition
<1>2. ASSUME NEW r \in Req, Invoke(r) \/ Retry(r) PROVE LoopInv'
  BY <1>1, <1>2 DEF Invoke, Retry, recvVars, connVars, netVars
<1>3. CASE SendLoopWoken \/ SendLoopGet \/ PackOne \/ PackDone
  <2>1. UNCHANGED <<recvLoop, aborted, task, connected, userConnected, isReconnecting, userDisconnected>>
    BY <1>3 DEF SendLoopWoken, SendLoopGet, PackOne, PackDone, recvVars, connVars, netVars
  <2>2. sendLoop' # "off" \/ ~LoopCondition
    BY <1>3 DEF SendLoopWoken, SendLoopGet, PackOne, PackDone, LoopCondition
  <2> QED BY <2>1, <2>2 DEF LoopInv, LoopsRun, LoopCondition
<1>4. CASE Transmit
  <2>1. UNCHANGED recvLoop BY <1>4 DEF Transmit
  <2>2. CASE connected
    <3>1. UNCHANGED <<aborted, task, connected, userConnected, isReconnecting, userDisconnected>>
      BY <1>4, <2>2 DEF Transmit
    <3>2. sendLoop' # "off" \/ ~LoopCondition BY <1>4, <2>2 DEF Transmit, SendLoopTop
    <3> QED BY <2>1, <3>1, <3>2 DEF LoopInv, LoopsRun, LoopCondition
  <2>3. CASE ~connected
    <3>1. sendLoop' = "off" /\ IF userDisconnected THEN NoReconnect ELSE Reconnect
      BY <1>4, <2>3 DEF Transmit
    <3> QED BY <2>1, <3>1, ReconnectLoops
  <2> QED BY <2>2, <2>3
<1>5. CASE RecvFails
  <2>1. UNCHANGED sendLoop /\ ~GaveUp BY <1>5, SenderAssumption DEF RecvFails, sendVars, GaveUp
  <2>2. CASE aborted /\ recvLoop' = "off" /\ NoReconnect
    <3>1. ~LoopCondition BY <2>2 DEF LoopInv, LoopCondition
    <3> QED BY <2>1, <2>2, <3>1, ReconnectLoops
  <2>3. CASE recvLoop' = "off" /\ IF userDisconnected THEN NoReconnect ELSE Reconnect
    BY <2>1, <2>3, ReconnectLoops
  <2> QED BY <1>5, <2>1, <2>2, <2>3 DEF RecvFails
<1>6. CASE RecvBroken \/ PingFails
  <2>1. Reconnect /\ recvLoop' \in {recvLoop, "off"} /\ UNCHANGED sendLoop
    BY <1>6 DEF RecvBroken, PingFails, sendVars
  <2> QED BY <2>1, ReconnectLoops
<1>7. CASE ProcessStep
  <2>1. UNCHANGED processRest /\ (Processed \/ Threw \/ ThrewUnknown)
    BY <1>7 DEF ProcessStep, HandleResult, HandleError, HandleAck, HandleResend, HandleRefused,
                HandleStateForgotten, HandleOther
  <2>2. recvLoop' = recvLoop \/ recvLoop' = "recv" \/ (recvLoop' = "off" /\ (~LoopCondition \/ aborted))
    BY <2>1 DEF Processed, Threw, ThrewUnknown, RecvLoopTop
  <2> QED BY <2>1, <2>2 DEF processRest, LoopInv, LoopsRun, LoopCondition
<1>8. CASE HandlerDone \/ BrokenHandlerDone BY <1>8 DEF HandlerDone, BrokenHandlerDone, LoopInv
<1>9. CASE RecvPacket
  BY <1>9 DEF RecvPacket, sendVars, connVars, LoopInv, LoopsRun, LoopCondition
<1>10. CASE RecvBadAuthKey BY <1>10 DEF RecvBadAuthKey, LoopInv, LoopsRun
<1>11. CASE Break
  BY <1>11 DEF Break, DropConnection, sendVars, recvVars, connVars, LoopInv, LoopsRun, LoopCondition
<1>12. CASE UserDisconnect \/ StartReconnect
  BY <1>12 DEF UserDisconnect, StartReconnect, Disconnect, DropConnection, sendVars,
               LoopInv, LoopsRun, LoopCondition
<1>13. CASE Closed
  BY <1>13 DEF Closed, recvVars, netVars, LoopInv, LoopsRun, LoopCondition
<1>14. CASE FirstConnect \/ Reconnected
  <2>1. Connected /\ task \in {"initial", "connecting"} BY <1>14 DEF FirstConnect, Reconnected
  <2>2. recvLoop = "off" BY <2>1 DEF Connected, Quiet, LoopInv, TypeOK, LoopTypeOK
  <2>3. recvLoop' = "recv" /\ sendLoop' # "off" /\ ~aborted' /\ task' = "idle"
    BY <2>1, <2>2 DEF Connected, ConnectEnds
  <2> QED BY <2>3 DEF LoopInv, LoopsRun
<1>15. CASE ConnectFails
  <2>1. task \in {"initial", "connecting"} /\ task' \in {task, "failed", "idle"}
    BY <1>15 DEF ConnectFails, ConnectEnds
  <2>2. UNCHANGED <<sendLoop, recvLoop, aborted, connected, userConnected, userDisconnected>>
    BY <1>15 DEF ConnectFails, recvVars
  <2> QED BY <2>1, <2>2 DEF LoopInv, LoopsRun, LoopCondition
<1> QED BY <1>2, <1>3, <1>4, <1>5, <1>6, <1>7, <1>8, <1>9, <1>10, <1>11, <1>12, <1>13, <1>14, <1>15
        DEF Next, SendLoopStep, RecvLoopStep, ConnectStep, Environment, UserConnect

\* Whatever order of failures, exits and restarts, a sender that is up and that
\* may reconnect without limit has both its loops running, as long as the
\* application does not call connect() again.
THEOREM BothLoopsRun ==
    ASSUME ~ErrorHandler, ~MayConnect, ReconnectRetries = Infinity
    PROVE  Spec => []LoopsRun
<1>1. Init => LoopInv BY DEF Init, LoopInv, LoopsRun, LoopCondition
<1>2. TypeOK /\ task # "again" /\ LoopInv /\ [Next]_vars => LoopInv'
  <2>1. CASE UNCHANGED vars
    BY <2>1 DEF vars, sendVars, recvVars, connVars, netVars, LoopInv, LoopsRun, LoopCondition
  <2>2. TypeOK /\ task # "again" /\ LoopInv /\ Next => LoopInv' BY LoopStep
  <2> QED BY <2>1, <2>2
<1>3. LoopInv => LoopsRun BY DEF LoopInv
<1> QED BY TypeCorrect, CalledOnce, <1>1, <1>2, <1>3, PTL DEF Spec

-----------------------------------------------------------------------------
(* One copy of a request *)

\* No state occurs twice in a sequence; acknowledgements may.
Once(s) == \A i, j \in DOMAIN s : s[i] = s[j] /\ s[i] # Ack => i = j

\* What append, tail and concatenation do to a sequence without repetitions.
LEMMA OnceKept ==
    ASSUME NEW S, NEW s \in Seq(S), Once(s)
    PROVE  /\ \A x \in S : x = Ack \/ x \notin ToSet(s) => Once(Append(s, x))
           /\ s # <<>> => Once(Tail(s)) /\ (Head(s) = Ack \/ Head(s) \notin ToSet(Tail(s)))
           /\ \A t \in Seq(S) :
                Once(t) /\ (\A x \in ToSet(t) : x = Ack \/ x \notin ToSet(s)) => Once(s \o t)
<1>1. ASSUME NEW x \in S, x = Ack \/ x \notin ToSet(s) PROVE Once(Append(s, x))
  <2>1. /\ DOMAIN Append(s, x) = 1 .. Len(s) + 1 /\ DOMAIN s = 1 .. Len(s)
        /\ \A i \in 1 .. Len(s) : Append(s, x)[i] = s[i]
        /\ Append(s, x)[Len(s) + 1] = x
    OBVIOUS
  <2>2. \A i \in 1 .. Len(s) : s[i] \in ToSet(s) BY DEF ToSet
  <2> QED BY <1>1, <2>1, <2>2 DEF Once
<1>2. ASSUME s # <<>> PROVE Once(Tail(s)) /\ (Head(s) = Ack \/ Head(s) \notin ToSet(Tail(s)))
  <2>1. /\ DOMAIN Tail(s) = 1 .. Len(s) - 1 /\ DOMAIN s = 1 .. Len(s)
        /\ \A i \in 1 .. Len(s) - 1 : Tail(s)[i] = s[i + 1]
        /\ Head(s) = s[1] /\ 1 \in DOMAIN s
    BY <1>2
  <2>2. Once(Tail(s)) BY <2>1 DEF Once
  <2>3. ASSUME Head(s) # Ack, Head(s) \in ToSet(Tail(s)) PROVE FALSE
    <3>1. PICK i \in 1 .. Len(s) - 1 : s[i + 1] = s[1] BY <2>1, <2>3 DEF ToSet
    <3>2. i + 1 \in DOMAIN s /\ i + 1 # 1 BY <2>1
    <3> QED BY <2>1, <2>3, <3>1, <3>2 DEF Once
  <2> QED BY <2>2, <2>3
<1>3. ASSUME NEW t \in Seq(S), Once(t), \A x \in ToSet(t) : x = Ack \/ x \notin ToSet(s)
      PROVE  Once(s \o t)
  <2>1. /\ DOMAIN (s \o t) = 1 .. Len(s) + Len(t)
        /\ DOMAIN s = 1 .. Len(s) /\ DOMAIN t = 1 .. Len(t)
        /\ \A i \in 1 .. Len(s) : (s \o t)[i] = s[i]
        /\ \A i \in 1 .. Len(s) + Len(t) : i > Len(s) => (s \o t)[i] = t[i - Len(s)]
        /\ Len(s) \in Nat /\ Len(t) \in Nat
    OBVIOUS
  <2>2. \A i \in 1 .. Len(s) : s[i] \in ToSet(s) BY <2>1 DEF ToSet
  <2>3. \A i \in 1 .. Len(t) : t[i] \in ToSet(t) BY <2>1 DEF ToSet
  <2> SUFFICES ASSUME NEW i \in 1 .. Len(s) + Len(t), NEW j \in 1 .. Len(s) + Len(t),
                      (s \o t)[i] = (s \o t)[j], (s \o t)[i] # Ack
               PROVE  i = j
    BY <2>1 DEF Once
  <2>4. CASE i <= Len(s) /\ j <= Len(s) BY <2>1, <2>4 DEF Once
  <2>5. CASE i > Len(s) /\ j > Len(s)
    <3>1. i - Len(s) \in DOMAIN t /\ j - Len(s) \in DOMAIN t BY <2>1, <2>5
    <3>2. t[i - Len(s)] = t[j - Len(s)] /\ t[i - Len(s)] # Ack BY <2>1, <2>5
    <3>3. i - Len(s) = j - Len(s) BY <1>3, <3>1, <3>2 DEF Once
    <3> QED BY <2>1, <3>3
  <2>6. CASE i <= Len(s) /\ j > Len(s)
    <3>1. s[i] = t[j - Len(s)] /\ s[i] # Ack BY <2>1, <2>6
    <3>2. j - Len(s) \in 1 .. Len(t) BY <2>1, <2>6
    <3> QED BY <1>3, <2>2, <2>3, <2>6, <3>1, <3>2
  <2>7. CASE i > Len(s) /\ j <= Len(s)
    <3>1. s[j] = t[i - Len(s)] /\ s[j] # Ack BY <2>1, <2>7
    <3>2. i - Len(s) \in 1 .. Len(t) BY <2>1, <2>7
    <3> QED BY <1>3, <2>2, <2>3, <2>7, <3>1, <3>2
  <2> QED BY <2>1, <2>4, <2>5, <2>6, <2>7
<1> QED BY <1>1, <1>2, <1>3

\* A state that is pending is pending under its own id only; what is queued is
\* neither in the batch nor pending; a state that is new, or waits for its next
\* attempt, is nowhere.
CopyInv ==
    /\ Once(sendQueue) /\ Once(batch)
    /\ \A x \in States : ~(x \in ToSet(sendQueue) /\ x \in ToSet(batch))
    /\ \A x \in PendingStates : ~Queued(x)
    /\ \A m \in Outstanding : msgId[pendingState[m]] = m
    /\ \A x \in States : promise[x] \in {"unborn", "failed"} => ~Queued(x) /\ x \notin PendingStates
    /\ sendLoop \notin {"packing", "packed"} => batch = <<>>

\* Without msgs_ack nothing is acknowledged, and no msgs_ack is in a packet.
NoAcks ==
    /\ \A x \in States : ~acknowledged[x]
    /\ \A i \in DOMAIN inbox : inbox[i].kind # "ack"

\* A server that sends no msgs_ack leaves every state unacknowledged.
LEMMA NoAcksStep ==
    ASSUME TypeOK, NoAcks, ~ServerAcks, Next
    PROVE  NoAcks'
<1>1. ASSUME UNCHANGED <<acknowledged, inbox>> PROVE NoAcks' BY <1>1 DEF NoAcks
<1>2. ASSUME NEW r \in Req, Invoke(r) \/ Retry(r) PROVE NoAcks'
  BY <1>1, <1>2 DEF Invoke, Retry, recvVars
<1>3. CASE \/ SendLoopStep \/ RecvFails \/ BrokenHandlerDone \/ ConnectStep \/ RecvBroken \/ RecvBadAuthKey
           \/ Break \/ PingFails \/ ConnectFails \/ UserDisconnect \/ UserConnect
  <2>1. UNCHANGED <<acknowledged, inbox>>
    BY <1>3 DEF SendLoopStep, SendLoopWoken, SendLoopGet, PackOne, PackDone, Transmit, RecvFails,
                BrokenHandlerDone, ConnectStep, StartReconnect, Closed, FirstConnect, Reconnected,
                RecvBroken, RecvBadAuthKey, Break, PingFails, ConnectFails, UserDisconnect, UserConnect,
                reqVars, recvVars
  <2> QED BY <1>1, <2>1
<1>4. CASE HandlerDone BY <1>4 DEF HandlerDone, RecvLoopTop, reqVars, NoAcks
<1>5. CASE RecvPacket
  <2>1. PICK n \in 1..MaxPacket : inbox' \in [1..n -> Messages] BY <1>5 DEF RecvPacket
  <2>2. \A e \in Messages : e.kind # "ack" BY DEF Messages, Answers
  <2>3. UNCHANGED acknowledged BY <1>5 DEF RecvPacket, reqVars
  <2> QED BY <2>1, <2>2, <2>3 DEF NoAcks
<1>6. CASE ProcessStep
  <2>1. CASE HandleAck
    <3>1. inbox # <<>> /\ Head(inbox).kind = "ack"
      BY <2>1 DEF HandleAck, Processed, Processing, TypeOK, LoopTypeOK
    <3> QED BY <3>1 DEF NoAcks, TypeOK, LoopTypeOK
  <2>2. CASE ~HandleAck
    <3>1. UNCHANGED acknowledged
      BY <1>6, <2>2 DEF ProcessStep, HandleResult, HandleError, HandleResend, HandleRefused,
                        HandleStateForgotten, HandleOther
    <3>2. Processed \/ Threw \/ ThrewUnknown
      BY <1>6 DEF ProcessStep, HandleResult, HandleError, HandleAck, HandleResend, HandleRefused,
                  HandleStateForgotten, HandleOther
    <3>3. inbox' = <<>> \/ (Len(inbox) > 1 /\ inbox' = Tail(inbox))
      BY <3>2 DEF Processed, Threw, ThrewUnknown, RecvLoopTop
    <3>4. CASE Len(inbox) > 1 /\ inbox' = Tail(inbox)
      <4>1. \A i \in DOMAIN inbox' : i + 1 \in DOMAIN inbox /\ inbox'[i] = inbox[i + 1]
        BY <3>4 DEF TypeOK, LoopTypeOK
      <4> QED BY <3>1, <4>1 DEF NoAcks
    <3> QED BY <3>1, <3>3, <3>4 DEF NoAcks
  <2> QED BY <2>1, <2>2
<1> QED BY <1>2, <1>3, <1>4, <1>5, <1>6 DEF Next, RecvLoopStep, Environment

\* The receive loop processes a packet only while messages of it are left.
InboxInv == recvLoop = "process" => inbox # <<>>

\* The last message of a packet ends its processing.
LEMMA InboxStep ==
    ASSUME TypeOK, InboxInv, Next
    PROVE  InboxInv'
<1>1. CASE RecvPacket
  <2>1. PICK n \in 1..MaxPacket : inbox' \in [1..n -> Messages] BY <1>1 DEF RecvPacket
  <2>2. 1 \in DOMAIN inbox' BY <2>1, SenderAssumption DEF SenderAssumption
  <2> QED BY <2>2 DEF InboxInv
<1>2. CASE ProcessStep
  <2>1. Processed \/ Threw \/ ThrewUnknown
    BY <1>2 DEF ProcessStep, HandleResult, HandleError, HandleAck, HandleResend, HandleRefused,
                HandleStateForgotten, HandleOther
  <2>2. \/ recvLoop' \in {"recv", "off", "handler"}
        \/ Len(inbox) > 1 /\ inbox' = Tail(inbox)
    BY <2>1 DEF Processed, Threw, ThrewUnknown, RecvLoopTop
  <2>3. CASE Len(inbox) > 1 /\ inbox' = Tail(inbox)
    <3>1. 1 \in DOMAIN inbox' BY <2>3 DEF TypeOK, LoopTypeOK
    <3> QED BY <3>1 DEF InboxInv
  <2> QED BY <2>2, <2>3 DEF InboxInv
<1>3. ASSUME NEW r \in Req, Invoke(r) \/ Retry(r) PROVE InboxInv'
  BY <1>3 DEF Invoke, Retry, recvVars, InboxInv
<1>4. CASE SendLoopStep
  BY <1>4 DEF SendLoopStep, SendLoopWoken, SendLoopGet, PackOne, PackDone, Transmit, recvVars, InboxInv
<1>5. CASE RecvFails \/ HandlerDone \/ BrokenHandlerDone
  BY <1>5 DEF RecvFails, HandlerDone, BrokenHandlerDone, RecvLoopTop, InboxInv
<1>6. CASE ConnectStep
  BY <1>6 DEF ConnectStep, StartReconnect, Closed, FirstConnect, Reconnected, Connected, recvVars, InboxInv
<1>7. CASE \/ RecvBroken \/ RecvBadAuthKey \/ Break \/ PingFails \/ ConnectFails
           \/ UserDisconnect \/ UserConnect
  BY <1>7 DEF RecvBroken, RecvBadAuthKey, Break, PingFails, ConnectFails, UserDisconnect, UserConnect,
              recvVars, InboxInv
<1> QED BY <1>1, <1>2, <1>3, <1>4, <1>5, <1>6, <1>7 DEF Next, RecvLoopStep, Environment

\* A step that only forgets entries of pending, and reopens for another attempt
\* nothing it still remembers, leaves one copy of each state.
LEMMA CopyKept ==
    ASSUME TypeOK, CopyInv, UNCHANGED <<msgId, batch>>,
           sendQueue' = sendQueue \/ sendQueue' = Append(sendQueue, Ack),
           pendingState' = pendingState \/ \E S : pendingState' = Without(S),
           sendLoop' \in {sendLoop, "packing", "packed"} \/ sendLoop \notin {"packing", "packed"},
           \A x \in States : promise'[x] \in {"unborn", "failed"} =>
              \/ promise[x] \in {"unborn", "failed"}
              \/ x \in PendingStates /\ x \notin PendingStates'
    PROVE  CopyInv'
<1>1. \A m \in Outstanding' : m \in Outstanding /\ pendingState'[m] = pendingState[m]
  BY DEF Outstanding, Without
<1>2. PendingStates' \subseteq PendingStates BY <1>1 DEF PendingStates
<1>3. Once(sendQueue') /\ \A x \in States : x \in ToSet(sendQueue') <=> x \in ToSet(sendQueue)
  <2>1. CASE sendQueue' = sendQueue BY <2>1 DEF CopyInv
  <2>2. CASE sendQueue' = Append(sendQueue, Ack)
    <3>1. Once(Append(sendQueue, Ack)) BY OnceKept DEF CopyInv, TypeOK, LoopTypeOK
    <3>2. ToSet(Append(sendQueue, Ack)) = ToSet(sendQueue) \cup {Ack}
      BY SequenceElements DEF TypeOK, LoopTypeOK
    <3> QED BY <2>2, <3>1, <3>2, SenderAssumption DEF SenderAssumption
  <2> QED BY <2>1, <2>2
<1>4. PendingStates \subseteq States BY OutstandingType DEF TypeOK
<1>5. \A x \in States : Queued(x)' <=> Queued(x) BY <1>3 DEF Queued
<1>6. \A x \in PendingStates' : ~Queued(x)' BY <1>2, <1>4, <1>5 DEF CopyInv
<1>7. \A x \in States : promise'[x] \in {"unborn", "failed"} => ~Queued(x)' /\ x \notin PendingStates'
  BY <1>2, <1>5 DEF CopyInv
<1>8. sendLoop' \notin {"packing", "packed"} => batch' = <<>> BY DEF CopyInv
<1>9. Once(batch') /\ \A x \in States : ~(x \in ToSet(sendQueue') /\ x \in ToSet(batch'))
  BY <1>3 DEF CopyInv
<1>10. \A m \in Outstanding' : msgId'[pendingState'[m]] = m BY <1>1 DEF CopyInv
<1> QED BY <1>3, <1>6, <1>7, <1>8, <1>9, <1>10 DEF CopyInv

\* The states listed under ids of pending are distinct.
LEMMA ListedOnce ==
    ASSUME TypeOK, CopyInv, NEW ids \in SUBSET Outstanding
    PROVE  Once(Listed(ids))
<1> DEFINE s == SetToSeq(ids)
<1>1. IsFiniteSet(ids) BY OutstandingType, FS_Subset DEF TypeOK
<1>2. s \in Seq(ids) BY <1>1, SetToSeqLists
<1>3. \A i, j \in DOMAIN s : s[i] = s[j] => i = j
  <2>1. Cardinality(ids) \in Nat /\ ExistsBijection(1..Cardinality(ids), ids)
    BY <1>1, FS_CardinalityType
  <2>2. \E g \in [1..Cardinality(ids) -> ids] : IsInjective(g)
    <3>1. PICK g \in Bijection(1..Cardinality(ids), ids) : TRUE BY <2>1 DEF ExistsBijection
    <3> QED BY <3>1 DEF Bijection, Injection
  <2>3. IsInjective(s) BY <2>2 DEF SetToSeq
  <2> QED BY <2>3 DEF IsInjective
<1>4. \A i \in DOMAIN s : s[i] \in Outstanding BY <1>2
<1>5. Listed(ids) = [i \in DOMAIN s |-> pendingState[s[i]]] BY DEF Listed
<1> HIDE DEF s
<1>6. ASSUME NEW i \in DOMAIN s, NEW j \in DOMAIN s, pendingState[s[i]] = pendingState[s[j]] PROVE i = j
  <2>1. s[i] = s[j] BY <1>4, <1>6 DEF CopyInv
  <2> QED BY <1>3, <2>1
<1> QED BY <1>5, <1>6 DEF Once

\* States that leave pending, and only those, may be appended to the queue.
LEMMA CopyMoved ==
    ASSUME TypeOK, CopyInv, NEW ids \in SUBSET Outstanding,
           \/ sendQueue' = sendQueue \o Listed(ids) /\ pendingState' = Without(ids)
           \/ \E q \in {sendQueue, Append(sendQueue, Ack)} :
                 sendQueue' = Listed(Outstanding) \o q /\ pendingState' = Without(MsgIds),
           UNCHANGED <<promise, msgId, batch>>,
           sendLoop' \in {sendLoop, "packing", "packed"} \/ sendLoop \notin {"packing", "packed"}
    PROVE  CopyInv'
<1>1. PICK out \in {ids, Outstanding}, q \in {sendQueue, Append(sendQueue, Ack)} :
          /\ sendQueue' = q \o Listed(out) \/ sendQueue' = Listed(out) \o q
          /\ pendingState' = Without(out)
  <2>1. Without(MsgIds) = Without(Outstanding) BY DEF Without, Outstanding
  <2> QED BY <2>1
<1>2. out \subseteq Outstanding OBVIOUS
<1> DEFINE l == Listed(out)
           moved == {pendingState[m] : m \in out}
<1>3. l \in Seq(States \cup {Ack}) /\ ToSet(l) = moved /\ Once(l)
  BY <1>2, ListedType, ListedOnce DEF TypeOK
<1>4. moved \subseteq PendingStates /\ PendingStates \subseteq States
  BY <1>2, OutstandingType DEF PendingStates, TypeOK
<1>5. /\ q \in Seq(States \cup {Ack}) /\ Once(q)
      /\ ToSet(q) \subseteq ToSet(sendQueue) \cup {Ack}
  <2>1. sendQueue \in Seq(States \cup {Ack}) /\ Once(sendQueue) BY DEF TypeOK, LoopTypeOK, CopyInv
  <2>2. /\ Append(sendQueue, Ack) \in Seq(States \cup {Ack}) /\ Once(Append(sendQueue, Ack))
        /\ ToSet(Append(sendQueue, Ack)) = ToSet(sendQueue) \cup {Ack}
    BY <2>1, OnceKept, SequenceElements
  <2> QED BY <2>1, <2>2
<1> HIDE DEF l, moved
<1>6. /\ ToSet(sendQueue') = ToSet(q) \cup moved
      /\ Once(sendQueue')
  <2>1. \A x \in moved : x = Ack \/ x \notin ToSet(q)
    BY <1>4, <1>5 DEF CopyInv, Queued
  <2>2. ToSet(q \o l) = ToSet(q) \cup ToSet(l) /\ ToSet(l \o q) = ToSet(l) \cup ToSet(q)
    BY <1>3, <1>5, SequenceElements
  <2>3. Once(q \o l) BY <1>3, <1>5, <2>1, OnceKept
  <2>4. Once(l \o q) BY <1>3, <1>5, <2>1, OnceKept
  <2>5. sendQueue' = q \o l \/ sendQueue' = l \o q BY <1>1 DEF l
  <2> QED BY <1>3, <2>2, <2>3, <2>4, <2>5
<1>7. \A m \in Outstanding' : m \in Outstanding \ out /\ pendingState'[m] = pendingState[m]
  BY <1>1 DEF Outstanding, Without
<1>8. PendingStates' \subseteq PendingStates \ moved
  <2>1. ASSUME NEW m \in Outstanding', pendingState[m] \in moved PROVE FALSE
    <3>1. PICK k \in out : pendingState[k] = pendingState[m] BY <2>1 DEF moved
    <3>2. k = m BY <1>2, <1>7, <3>1 DEF CopyInv
    <3> QED BY <1>7, <3>1, <3>2
  <2> QED BY <1>7, <2>1 DEF PendingStates
<1>9. Ack \notin States BY SenderAssumption DEF SenderAssumption
<1>10. \A x \in States : x \in ToSet(sendQueue') <=> x \in ToSet(sendQueue) \/ x \in moved
  <2>1. ToSet(sendQueue) \subseteq ToSet(q)
    <3>1. ToSet(Append(sendQueue, Ack)) = ToSet(sendQueue) \cup {Ack}
      BY SequenceElements DEF TypeOK, LoopTypeOK
    <3> QED BY <3>1
  <2> QED BY <1>5, <1>6, <1>9, <2>1
<1>11. \A x \in States : ~(x \in ToSet(sendQueue') /\ x \in ToSet(batch'))
  BY <1>4, <1>10 DEF CopyInv, Queued
<1>12. \A x \in PendingStates' : ~Queued(x)'
  BY <1>4, <1>8, <1>10 DEF CopyInv, Queued
<1>13. \A x \in States : promise'[x] \in {"unborn", "failed"} => ~Queued(x)' /\ x \notin PendingStates'
  BY <1>4, <1>8, <1>10 DEF CopyInv, Queued
<1>14. \A m \in Outstanding' : msgId'[pendingState'[m]] = m BY <1>7 DEF CopyInv
<1> QED BY <1>6, <1>11, <1>12, <1>13, <1>14 DEF CopyInv

\* A state that was nowhere is appended to the queue.
LEMMA CopyAppended ==
    ASSUME TypeOK, CopyInv, NEW x \in States, promise[x] \in {"unborn", "failed"},
           promise' = [promise EXCEPT ![x] = "open"], sendQueue' = Append(sendQueue, x),
           UNCHANGED <<msgId, batch, pendingState>>, sendLoop' = sendLoop
    PROVE  CopyInv'
<1>1. ~Queued(x) /\ x \notin PendingStates BY DEF CopyInv
<1>2. ToSet(sendQueue') = ToSet(sendQueue) \cup {x} BY SequenceElements DEF TypeOK, LoopTypeOK
<1>3. Once(sendQueue') BY <1>1, OnceKept DEF CopyInv, Queued, TypeOK, LoopTypeOK
<1>4. PendingStates' = PendingStates /\ Outstanding' = Outstanding
  BY DEF PendingStates, Outstanding
<1>5. \A y \in States : y # x => promise'[y] = promise[y] /\ (Queued(y)' <=> Queued(y))
  BY <1>2 DEF Queued, TypeOK, ReqTypeOK
<1>6. promise'[x] = "open" BY DEF TypeOK, ReqTypeOK
<1>7. PendingStates \subseteq States BY OutstandingType DEF TypeOK
<1>8. \A y \in PendingStates' : ~Queued(y)' BY <1>1, <1>4, <1>5, <1>7 DEF CopyInv
<1>9. \A y \in States : promise'[y] \in {"unborn", "failed"} => ~Queued(y)' /\ y \notin PendingStates'
  BY <1>4, <1>5, <1>6 DEF CopyInv
<1>10. \A y \in States : ~(y \in ToSet(sendQueue') /\ y \in ToSet(batch'))
  BY <1>1, <1>2 DEF CopyInv, Queued
<1> QED BY <1>3, <1>4, <1>8, <1>9, <1>10 DEF CopyInv

\* The end of _reconnect() moves pending states to the queue.
LEMMA CopyResent ==
    ASSUME TypeOK, CopyInv, NoAcks, NEW q \in {sendQueue, Append(sendQueue, Ack)},
           ResendPending(q), UNCHANGED <<msgId, batch>>,
           sendLoop' \in {sendLoop, "packing", "packed"} \/ sendLoop \notin {"packing", "packed"}
    PROVE  CopyInv'
<1> DEFINE asked == {m \in Outstanding : acknowledged[pendingState[m]]}
<1>1. asked = {} BY OutstandingType DEF NoAcks, TypeOK
<1>2. Outstanding \ asked = Outstanding BY <1>1
<1>3. /\ sendQueue' = Listed(Outstanding) \o q /\ pendingState' = Without(MsgIds)
      /\ UNCHANGED promise
  BY <1>1, <1>2 DEF ResendPending
<1>4. Outstanding \in SUBSET Outstanding OBVIOUS
<1> QED BY <1>3, <1>4, CopyMoved

\* The batch becomes pending, each request under the id it was written with.
LEMMA CopySent ==
    ASSUME TypeOK, IdsInv, CopyInv, Transmit
    PROVE  CopyInv'
<1> DEFINE sent == ToSet(batch) \cap Req
<1>1. Register /\ batch' = <<>> /\ UNCHANGED <<promise, msgId>> BY DEF Transmit
<1>2. sendQueue' = sendQueue \/ sendQueue' = Append(sendQueue, Ack)
  BY DEF Transmit, SendLoopTop, AppendAcks
<1>3. Once(sendQueue') /\ \A x \in States : x \in ToSet(sendQueue') <=> x \in ToSet(sendQueue)
  <2>1. Once(Append(sendQueue, Ack)) BY OnceKept DEF CopyInv, TypeOK, LoopTypeOK
  <2>2. ToSet(Append(sendQueue, Ack)) = ToSet(sendQueue) \cup {Ack}
    BY SequenceElements DEF TypeOK, LoopTypeOK
  <2> QED BY <1>2, <2>1, <2>2, SenderAssumption DEF SenderAssumption, CopyInv
<1>4. ToSet(batch') = {} /\ Once(batch') BY <1>1 DEF ToSet, Once
<1>5. ASSUME NEW m \in Outstanding'
      PROVE  /\ msgId[pendingState'[m]] = m
             /\ pendingState'[m] \in PendingStates \cup sent
  <2>1. CASE m \in Outstanding
    BY <1>1, <2>1, RegisterKeeps DEF CopyInv, PendingStates
  <2>2. CASE m \notin Outstanding
    <3>1. PICK x \in sent : msgId[x] = m BY <1>1, <2>2, RegisterKeeps
    <3> QED BY <1>1, <3>1, RegisterKeeps
  <2> QED BY <2>1, <2>2
<1>6. PendingStates' \subseteq PendingStates \cup sent BY <1>5 DEF PendingStates
<1>7. PendingStates \subseteq States /\ sent \subseteq States BY OutstandingType DEF TypeOK, States
<1>8. \A x \in States : Queued(x)' <=> x \in ToSet(sendQueue) BY <1>3, <1>4 DEF Queued
<1>9. \A x \in PendingStates' : ~Queued(x)' BY <1>6, <1>7, <1>8 DEF CopyInv, Queued
<1>10. \A x \in States : promise'[x] \in {"unborn", "failed"} => ~Queued(x)' /\ x \notin PendingStates'
  BY <1>1, <1>6, <1>8 DEF CopyInv, Queued
<1> HIDE DEF sent
<1>11. \A m \in Outstanding' : msgId'[pendingState'[m]] = m BY <1>1, <1>5
<1> QED BY <1>1, <1>3, <1>4, <1>9, <1>10, <1>11 DEF CopyInv

\* No step queues, holds or remembers a state that is already in one of these places.
LEMMA CopyStep ==
    ASSUME TypeOK, IdsInv, InboxInv, NoAcks, CopyInv, ~ErrorHandler, Next
    PROVE  CopyInv'
<1>0. Req \subseteq States /\ Svc \subseteq States BY DEF States
<1>1. ASSUME NEW r \in Req, Invoke(r) \/ Retry(r) PROVE CopyInv'
  <2>1. /\ promise[r] \in {"unborn", "failed"} /\ promise' = [promise EXCEPT ![r] = "open"]
        /\ sendQueue' = Append(sendQueue, r) /\ UNCHANGED <<msgId, batch, pendingState, sendLoop>>
    BY <1>1 DEF Invoke, Retry, Enqueue
  <2> QED BY <1>0, <2>1, CopyAppended
<1>2. CASE \/ SendLoopWoken \/ SendLoopGet \/ HandlerDone \/ RecvPacket \/ Break \/ PingFails
           \/ UserDisconnect \/ UserConnect \/ StartReconnect \/ FirstConnect \/ HandleAck \/ HandleOther
           \/ BrokenHandlerDone
  <2>1. UNCHANGED <<promise, msgId, batch>>
    BY <1>2 DEF SendLoopWoken, SendLoopGet, HandlerDone, RecvPacket, Break, PingFails,
                UserDisconnect, UserConnect, StartReconnect, FirstConnect, HandleAck, HandleOther,
                BrokenHandlerDone, reqVars, sendVars, processRest
  <2>2. sendQueue' = sendQueue \/ sendQueue' = Append(sendQueue, Ack)
    BY <1>2 DEF SendLoopWoken, SendLoopGet, AppendAcks, HandlerDone, RecvPacket, Break, PingFails,
                UserDisconnect, UserConnect, StartReconnect, FirstConnect, HandleAck, HandleOther,
                BrokenHandlerDone, sendVars
  <2>3. sendLoop' \in {sendLoop, "packing", "packed"} \/ sendLoop \notin {"packing", "packed"}
    BY <1>2 DEF SendLoopWoken, SendLoopGet, HandlerDone, RecvPacket, Break, PingFails,
                UserDisconnect, UserConnect, StartReconnect, FirstConnect, Connected, HandleAck, HandleOther,
                BrokenHandlerDone, sendVars, processRest
  <2>4. pendingState' = pendingState \/ \E S : pendingState' = Without(S)
    BY <1>2 DEF SendLoopWoken, SendLoopGet, HandlerDone, RecvPacket, Break, PingFails,
                UserDisconnect, UserConnect, StartReconnect, FirstConnect, HandleAck, HandleOther, BrokenHandlerDone
  <2> QED BY <2>1, <2>2, <2>3, <2>4, CopyKept
<1>3. CASE PackOne
  <2> DEFINE h == Head(sendQueue)
  <2>1. /\ sendQueue # <<>> /\ h \in States \cup {Ack} /\ sendQueue \in Seq(States \cup {Ack})
        /\ batch \in Seq(States \cup {Ack})
        /\ sendQueue' = Tail(sendQueue) /\ batch' = Append(batch, h)
        /\ UNCHANGED <<promise, pendingState, sendLoop>> /\ sendLoop = "packing"
    BY <1>3 DEF PackOne, TypeOK, LoopTypeOK
  <2>2. /\ ToSet(sendQueue) = ToSet(sendQueue') \cup {h}
        /\ ToSet(batch') = ToSet(batch) \cup {h}
    BY <2>1, SequenceElements
  <2>3. Once(sendQueue') /\ (h = Ack \/ h \notin ToSet(sendQueue')) BY <2>1, OnceKept DEF CopyInv
  <2>4. Once(batch')
    <3>1. h = Ack \/ h \notin ToSet(batch) BY <2>1, <2>2 DEF CopyInv
    <3> QED BY <2>1, <3>1, OnceKept DEF CopyInv
  <2>5. Outstanding' = Outstanding /\ PendingStates' = PendingStates
    BY <2>1 DEF Outstanding, PendingStates
  <2>6. \A x \in States : Queued(x)' <=> Queued(x) BY <2>2 DEF Queued
  <2>7. PendingStates \subseteq States BY OutstandingType DEF TypeOK
  <2>8. \A x \in States : x # h => msgId'[x] = msgId[x]
    BY <1>3 DEF PackOne, TypeOK, ReqTypeOK
  <2>9. h \notin PendingStates BY <2>2, <2>7 DEF CopyInv, Queued
  <2>10. \A m \in Outstanding' : msgId'[pendingState'[m]] = m
    BY <2>1, <2>5, <2>7, <2>8, <2>9 DEF CopyInv, PendingStates
  <2> HIDE DEF h
  <2>11. \A x \in States : ~(x \in ToSet(sendQueue') /\ x \in ToSet(batch'))
    BY <2>2, <2>3, SenderAssumption DEF CopyInv, SenderAssumption
  <2>12. \A x \in PendingStates' : ~Queued(x)' BY <2>5, <2>6, <2>7 DEF CopyInv
  <2>13. \A x \in States : promise'[x] \in {"unborn", "failed"} => ~Queued(x)' /\ x \notin PendingStates'
    BY <2>1, <2>5, <2>6 DEF CopyInv
  <2> QED BY <2>1, <2>3, <2>4, <2>10, <2>11, <2>12, <2>13 DEF CopyInv
<1>4. CASE PackDone
  <2>1. UNCHANGED <<promise, msgId, pendingState, sendQueue>> BY <1>4 DEF PackDone
  <2>2. CASE batch' = batch /\ sendLoop' = "packed"
    BY <2>1, <2>2, CopyKept
  <2>3. CASE batch' = <<>>
    <3>1. ToSet(batch') = {} /\ Once(batch') BY <2>3 DEF ToSet, Once
    <3>2. Outstanding' = Outstanding /\ PendingStates' = PendingStates
      BY <2>1 DEF Outstanding, PendingStates
    <3>3. \A x : Queued(x)' => Queued(x) BY <2>1, <3>1 DEF Queued
    <3>4. \A x \in PendingStates' : ~Queued(x)' BY <3>2, <3>3 DEF CopyInv
    <3>5. \A x \in States : promise'[x] \in {"unborn", "failed"} => ~Queued(x)' /\ x \notin PendingStates'
      BY <2>1, <3>2, <3>3 DEF CopyInv
    <3> QED BY <2>1, <2>3, <3>1, <3>2, <3>4, <3>5 DEF CopyInv
  <2> QED BY <1>4, <2>2, <2>3 DEF PackDone
<1>5. CASE Transmit BY <1>5, CopySent
<1>6. ASSUME NEW S, promise' = Settle(S) PROVE \A x \in States : promise'[x] \in {"unborn", "failed"} => promise'[x] = promise[x]
  BY <1>6 DEF Settle
<1>7. CASE RecvFails \/ HandleResult \/ HandleRefused
  <2>1. promise' = promise \/ \E S : promise' = Settle(S)
    BY <1>7 DEF RecvFails, HandleResult, HandleRefused
  <2>2. UNCHANGED <<msgId, batch, sendQueue, sendLoop>>
    BY <1>7 DEF RecvFails, HandleResult, HandleRefused, processRest, sendVars
  <2>3. pendingState' = pendingState \/ \E S : pendingState' = Without(S)
    BY <1>7 DEF RecvFails, HandleResult, HandleRefused
  <2>4. \A x \in States : promise'[x] \in {"unborn", "failed"} => promise[x] \in {"unborn", "failed"}
    BY <1>6, <2>1
  <2> QED BY <2>2, <2>3, <2>4, CopyKept
<1>8. CASE HandleError
  <2> DEFINE m == Head(inbox).id
  <2>1. /\ pendingState' = Without({m}) /\ UNCHANGED <<msgId, batch, sendLoop>>
        /\ sendQueue' = sendQueue \/ sendQueue' = Append(sendQueue, Ack)
    BY <1>8 DEF HandleError, Enqueue, processRest
  <2>2. ASSUME NEW x \in States, promise'[x] \in {"unborn", "failed"}, promise[x] \notin {"unborn", "failed"}
        PROVE  x \in PendingStates /\ x \notin PendingStates'
    <3>1. ~(promise' = promise) /\ ~(\E S : promise' = Settle(S)) BY <1>6, <2>2
    <3>2. /\ pendingState[m] \in Req
          /\ promise' = [promise EXCEPT ![pendingState[m]] = IF @ = "open" THEN "failed" ELSE @]
      BY <1>8, <3>1 DEF HandleError
    <3>3. x = pendingState[m] BY <1>0, <2>2, <3>2 DEF TypeOK, ReqTypeOK
    <3>4. m \in Outstanding
      <4>1. inbox # <<>> BY <1>8 DEF HandleError, Processing, InboxInv
      <4>2. m \in MsgIds
        <5>1. Head(inbox) \in Message BY <4>1 DEF TypeOK, LoopTypeOK
        <5> QED BY <1>8, <5>1 DEF HandleError, Processing, Message
      <4>3. pendingState[m] # None BY <1>0, <3>2, SenderAssumption DEF SenderAssumption
      <4> QED BY <4>2, <4>3 DEF Outstanding
    <3>5. x \in PendingStates BY <3>3, <3>4 DEF PendingStates
    <3>6. ASSUME NEW k \in Outstanding', pendingState'[k] = x PROVE FALSE
      <4>1. k # m /\ k \in Outstanding /\ pendingState[k] = x
        BY <2>1, <3>6 DEF Outstanding, Without
      <4>2. k = m BY <3>3, <3>4, <4>1 DEF CopyInv
      <4> QED BY <4>1, <4>2
    <3> QED BY <3>5, <3>6 DEF PendingStates
  <2> QED BY <2>1, <2>2, CopyKept
<1>9. CASE HandleResend
  <2>1. PICK m : /\ sendQueue' = sendQueue \o Listed(PopIds(m)) /\ pendingState' = Without(PopIds(m))
                 /\ UNCHANGED <<promise, msgId, batch, sendLoop>>
    BY <1>9 DEF HandleResend, processRest
  <2>2. PopIds(m) \in SUBSET Outstanding BY PoppedType DEF TypeOK
  <2> QED BY <2>1, <2>2, CopyMoved
<1>10. CASE HandleStateForgotten
  <2>1. PICK s \in Svc : /\ promise[s] = "unborn" /\ promise' = [promise EXCEPT ![s] = "open"]
                         /\ sendQueue' = Append(sendQueue, s)
                         /\ UNCHANGED <<msgId, batch, pendingState, sendLoop>>
    BY <1>10 DEF HandleStateForgotten, Enqueue, processRest
  <2> QED BY <1>0, <2>1, CopyAppended
<1>11. CASE RecvBroken \/ RecvBadAuthKey
  <2>1. pendingState' = Without(MsgIds) \/ recvLoop' = "failing"
    BY <1>11 DEF RecvBroken, RecvBadAuthKey
  <2>2. pendingState' = Without(MsgIds) /\ UNCHANGED <<msgId, batch, sendQueue, sendLoop>>
    BY <1>11 DEF RecvBroken, RecvBadAuthKey, sendVars
  <2>3. PendingStates' = {} BY <2>2 DEF PendingStates, Outstanding, Without
  <2>4. promise' = promise \/ (\E S : promise' = Settle(S)) \/ promise' = FloodAll
    BY <1>11 DEF RecvBroken, RecvBadAuthKey
  <2>5. ASSUME NEW x \in States, promise'[x] \in {"unborn", "failed"}, promise[x] \notin {"unborn", "failed"}
        PROVE  x \in PendingStates
    <3>1. promise' = FloodAll BY <1>6, <2>4, <2>5
    <3> QED BY <2>5, <3>1 DEF FloodAll
  <2> QED BY <2>2, <2>3, <2>5, CopyKept
<1>12. CASE Closed
  <2>1. /\ sendQueue' = <<>> /\ batch = <<>> /\ UNCHANGED <<batch, promise, msgId>>
        /\ pendingState' = Readded(IF authenticated THEN pendingState ELSE Without(MsgIds))
    BY <1>12 DEF Closed, Quiet, CopyInv, reqVars
  <2>2. Once(<<>>) /\ ToSet(sendQueue') = {} /\ ToSet(batch') = {} BY <2>1 DEF Once, ToSet
  <2>3. ASSUME NEW m \in Outstanding'
        PROVE  /\ msgId[pendingState'[m]] = m
               /\ pendingState'[m] \in PackerStates \cup PendingStates
    <3>1. CASE \E x \in PackerStates : msgId[x] = m
      BY <2>1, <3>1 DEF Readded, Outstanding
    <3>2. CASE ~\E x \in PackerStates : msgId[x] = m
      <4>1. m \in Outstanding /\ pendingState'[m] = pendingState[m]
        BY <2>1, <3>2 DEF Readded, Outstanding, Without
      <4> QED BY <4>1 DEF CopyInv, PendingStates
    <3> QED BY <3>1, <3>2
  <2>4. PendingStates' \subseteq PackerStates \cup PendingStates BY <2>3 DEF PendingStates
  <2>5. \A x \in States : promise[x] \in {"unborn", "failed"} => x \notin PendingStates'
    BY <2>4 DEF CopyInv, PackerStates
  <2>6. \A x : ~Queued(x)' BY <2>2 DEF Queued
  <2> QED BY <2>1, <2>2, <2>3, <2>5, <2>6 DEF CopyInv
<1>13. CASE Reconnected
  <2>1. PICK q \in {sendQueue, Append(sendQueue, Ack)} : ResendPending(q) BY <1>13 DEF Reconnected
  <2>2. UNCHANGED <<msgId, batch>> BY <1>13 DEF Reconnected
  <2>3. sendLoop \notin {"packing", "packed"} BY <1>13 DEF Reconnected, Connected, Quiet
  <2> QED BY <2>1, <2>2, <2>3, CopyResent
<1>14. CASE ConnectFails
  <2>1. UNCHANGED <<msgId, batch, sendLoop>> BY <1>14 DEF ConnectFails
  <2>2. ResendPending(sendQueue) \/ UNCHANGED <<promise, sendQueue, pendingState>>
    BY <1>14 DEF ConnectFails
  <2> QED BY <2>1, <2>2, CopyResent, CopyKept
<1> QED BY <1>1, <1>2, <1>3, <1>4, <1>5, <1>7, <1>8, <1>9, <1>10, <1>11, <1>12, <1>13, <1>14
        DEF Next, SendLoopStep, RecvLoopStep, ProcessStep, ConnectStep, Environment

\* Sets of at most one element have cardinality at most one.
LEMMA AtMostOne ==
    ASSUME NEW S, \A a, b \in S : a = b
    PROVE  Cardinality(S) = IF S = {} THEN 0 ELSE 1
<1>1. CASE S = {}
  <2>1. S \in SUBSET {} BY <1>1
  <2>2. IsFiniteSet(S) BY <2>1, FS_EmptySet, FS_Subset
  <2>3. IsFiniteSet(S) => (Cardinality(S) = 0 <=> S = {}) BY FS_EmptySet, Zenon
  <2> QED BY <1>1, <2>2, <2>3
<1>2. CASE S # {}
  <2>1. PICK a \in S : TRUE BY <1>2
  <2>2. S = {a} BY <2>1
  <2> QED BY <1>2, <2>2, FS_Singleton
<1> QED BY <1>1, <1>2

\* The three counts of Copies exclude each other.
LEMMA CopiesCounted ==
    ASSUME TypeOK, CopyInv, NEW x \in States
    PROVE  Copies(x) <= 1
<1> DEFINE Q == {i \in DOMAIN sendQueue : sendQueue[i] = x}
           B == {i \in DOMAIN batch : batch[i] = x}
           P == {m \in MsgIds : pendingState[m] = x}
<1>1. x # Ack /\ x # None BY SenderAssumption DEF SenderAssumption
<1>2. \A i, j \in Q : i = j BY <1>1 DEF CopyInv, Once
<1>3. \A i, j \in B : i = j BY <1>1 DEF CopyInv, Once
<1>4. \A i, j \in P : i = j BY <1>1 DEF CopyInv, Outstanding
<1>5. Q # {} => x \in ToSet(sendQueue) BY DEF ToSet
<1>6. B # {} => x \in ToSet(batch) BY DEF ToSet
<1>7. P # {} => x \in PendingStates BY <1>1 DEF PendingStates, Outstanding
<1>8. /\ Q = {} \/ B = {}
      /\ P # {} => Q = {} /\ B = {}
  BY <1>5, <1>6, <1>7 DEF CopyInv, Queued
<1>9. Copies(x) = Cardinality(Q) + Cardinality(B) + Cardinality(P) BY DEF Copies
<1> HIDE DEF Q, B, P
<1>10. /\ Cardinality(Q) = IF Q = {} THEN 0 ELSE 1
       /\ Cardinality(B) = IF B = {} THEN 0 ELSE 1
       /\ Cardinality(P) = IF P = {} THEN 0 ELSE 1
  BY <1>2, <1>3, <1>4, AtMostOne
<1> QED BY <1>8, <1>9, <1>10

HoldInv == TypeOK /\ IdsInv /\ InboxInv /\ NoAcks /\ CopyInv

\* At the start nothing is queued, held, pending or received.
LEMMA HoldInit == Init => HoldInv
<1> SUFFICES ASSUME Init PROVE HoldInv OBVIOUS
<1>1. TypeOK /\ IdsInv BY TypeInit, TrackInit
<1>2. InboxInv /\ NoAcks BY DEF Init, InboxInv, NoAcks
<1>3. ToSet(sendQueue) = {} /\ ToSet(batch) = {} /\ Once(sendQueue) /\ Once(batch)
  BY DEF Init, ToSet, Once
<1>4. Outstanding = {} BY DEF Init, Outstanding
<1>5. PendingStates = {} BY <1>4 DEF PendingStates
<1>6. CopyInv BY <1>3, <1>4, <1>5 DEF Init, CopyInv, Queued
<1> QED BY <1>1, <1>2, <1>6 DEF HoldInv

\* Every step keeps the strengthened invariant.
LEMMA HoldStep ==
    ASSUME ~ErrorHandler, ~ServerAcks, HoldInv, [Next]_vars
    PROVE  HoldInv'
<1>1. CASE UNCHANGED vars
  BY <1>1 DEF vars, reqVars, sendVars, recvVars, connVars, keyVars, netVars, HoldInv, TypeOK,
         ReqTypeOK, LoopTypeOK, LinkTypeOK, FlagTypeOK, IdsInv, InboxInv, NoAcks, CopyInv,
         Queued, PendingStates, Outstanding
<1>2. CASE Next
  <2>1. TypeOK'
    BY <1>2, ReqTypeStep, LoopTypeStep, LinkTypeStep, FlagTypeStep DEF HoldInv, TypeOK
  <2> QED BY <1>2, <2>1, IdsStep, InboxStep, NoAcksStep, CopyStep DEF HoldInv
<1> QED BY <1>1, <1>2

\* A server that sends no msgs_ack never finds a request twice in the sender's
\* hands: a resend, a retry or a reconnection replaces what it sends again.
THEOREM OneCopy ==
    ASSUME ~ErrorHandler, ~ServerAcks
    PROVE  Spec => []SingleCopy
<1>1. Init => HoldInv BY HoldInit
<1>2. HoldInv /\ [Next]_vars => HoldInv' BY HoldStep
<1>3. HoldInv => SingleCopy BY CopiesCounted DEF HoldInv, SingleCopy
<1> QED BY <1>1, <1>2, <1>3, PTL DEF Spec

-----------------------------------------------------------------------------
(* What is pending is open *)

\* Whatever the sender holds waits for an answer.
OpenInv == \A x \in States : Queued(x) \/ x \in PendingStates => promise[x] = "open"

\* Nothing enters the sender's hands but open states, and nothing there is settled
\* without leaving.
LEMMA OpenKept ==
    ASSUME TypeOK, OpenInv,
           \A x \in States : Queued(x)' \/ x \in PendingStates' =>
              \/ promise'[x] = "open"
              \/ promise'[x] = promise[x] /\ (Queued(x) \/ x \in PendingStates)
    PROVE  OpenInv'
BY DEF OpenInv

\* No step settles a state and keeps it.
LEMMA OpenStep ==
    ASSUME HoldInv, OpenInv, ~ErrorHandler, ReconnectRetries = Infinity, Next
    PROVE  OpenInv'
<1> USE DEF HoldInv
<1>0. Req \subseteq States /\ Svc \subseteq States /\ PendingStates \subseteq States
  BY OutstandingType DEF States, TypeOK
<1>1. ASSUME UNCHANGED <<batch, pendingState>>,
             \/ UNCHANGED <<promise, sendQueue>>
             \/ UNCHANGED promise /\ sendQueue' = Append(sendQueue, Ack)
             \/ \E s \in States : /\ promise' = [promise EXCEPT ![s] = "open"]
                                  /\ sendQueue' = Append(sendQueue, s)
      PROVE  OpenInv'
  <2>1. PendingStates' = PendingStates BY <1>1 DEF PendingStates, Outstanding
  <2>2. \A y \in States \cup {Ack} : ToSet(Append(sendQueue, y)) = ToSet(sendQueue) \cup {y}
    BY SequenceElements DEF TypeOK, LoopTypeOK
  <2>3. Ack \notin States BY SenderAssumption DEF SenderAssumption
  <2>4. CASE UNCHANGED <<promise, sendQueue>> BY <1>1, <2>1, <2>4 DEF OpenInv, Queued
  <2>5. CASE UNCHANGED promise /\ sendQueue' = Append(sendQueue, Ack)
    BY <1>1, <2>1, <2>2, <2>3, <2>5 DEF OpenInv, Queued
  <2>6. ASSUME NEW s \in States, promise' = [promise EXCEPT ![s] = "open"], sendQueue' = Append(sendQueue, s)
        PROVE  OpenInv'
    BY <1>1, <2>1, <2>2, <2>6 DEF OpenInv, Queued, TypeOK, ReqTypeOK
  <2> QED BY <1>1, <2>4, <2>5, <2>6
<1>2. ASSUME NEW r \in Req, Invoke(r) \/ Retry(r) PROVE OpenInv'
  <2>1. /\ promise' = [promise EXCEPT ![r] = "open"] /\ sendQueue' = Append(sendQueue, r)
        /\ UNCHANGED <<batch, pendingState>>
    BY <1>2 DEF Invoke, Retry, Enqueue
  <2> QED BY <1>0, <1>1, <2>1
<1>3. CASE \/ SendLoopWoken \/ SendLoopGet \/ HandlerDone \/ RecvPacket \/ Break \/ PingFails
           \/ UserDisconnect \/ UserConnect \/ StartReconnect \/ FirstConnect \/ HandleAck \/ HandleOther
  <2>1. UNCHANGED <<promise, batch, pendingState>>
    BY <1>3 DEF SendLoopWoken, SendLoopGet, HandlerDone, RecvPacket, Break, PingFails,
                UserDisconnect, UserConnect, StartReconnect, FirstConnect, HandleAck, HandleOther,
                reqVars, sendVars, processRest
  <2>2. sendQueue' = sendQueue \/ sendQueue' = Append(sendQueue, Ack)
    BY <1>3 DEF SendLoopWoken, SendLoopGet, AppendAcks, HandlerDone, RecvPacket, Break, PingFails,
                UserDisconnect, UserConnect, StartReconnect, FirstConnect, HandleAck, HandleOther, sendVars
  <2> QED BY <1>1, <2>1, <2>2
<1>4. CASE PackOne
  <2>1. /\ sendQueue # <<>> /\ Head(sendQueue) \in States \cup {Ack}
        /\ sendQueue' = Tail(sendQueue) /\ batch' = Append(batch, Head(sendQueue))
        /\ UNCHANGED <<promise, pendingState>>
    BY <1>4 DEF PackOne, TypeOK, LoopTypeOK
  <2>2. /\ ToSet(sendQueue) = ToSet(sendQueue') \cup {Head(sendQueue)}
        /\ ToSet(batch') = ToSet(batch) \cup {Head(sendQueue)}
    BY <2>1, SequenceElements DEF TypeOK, LoopTypeOK
  <2>3. PendingStates' = PendingStates BY <2>1 DEF PendingStates, Outstanding
  <2> QED BY <2>1, <2>2, <2>3 DEF OpenInv, Queued
<1>5. CASE PackDone
  <2>1. UNCHANGED <<promise, pendingState, sendQueue>> /\ (batch' = batch \/ batch' = <<>>)
    BY <1>5 DEF PackDone
  <2>2. ToSet(batch') \subseteq ToSet(batch) BY <2>1 DEF ToSet
  <2>3. PendingStates' = PendingStates BY <2>1 DEF PendingStates, Outstanding
  <2> QED BY <2>1, <2>2, <2>3 DEF OpenInv, Queued
<1>6. CASE Transmit
  <2>1. Register /\ batch' = <<>> /\ UNCHANGED promise BY <1>6 DEF Transmit
  <2>2. sendQueue' = sendQueue \/ sendQueue' = Append(sendQueue, Ack)
    BY <1>6 DEF Transmit, SendLoopTop, AppendAcks
  <2>3. ToSet(Append(sendQueue, Ack)) = ToSet(sendQueue) \cup {Ack}
    BY SequenceElements DEF TypeOK, LoopTypeOK
  <2>4. Ack \notin States BY SenderAssumption DEF SenderAssumption
  <2>5. \A x \in States : Queued(x)' => Queued(x)
    <3>1. ToSet(batch') = {} BY <2>1 DEF ToSet
    <3> QED BY <2>2, <2>3, <2>4, <3>1 DEF Queued
  <2>6. ASSUME NEW x \in States, x \in PendingStates' PROVE Queued(x) \/ x \in PendingStates
    <3>1. PICK m \in Outstanding' : pendingState'[m] = x BY <2>6 DEF PendingStates
    <3>2. CASE m \in Outstanding
      BY <2>1, <3>1, <3>2, RegisterKeeps DEF PendingStates
    <3>3. CASE \E y \in ToSet(batch) \cap Req : msgId[y] = m
      BY <2>1, <3>1, <3>3, RegisterKeeps DEF Queued
    <3> QED BY <2>1, <3>1, <3>2, <3>3, RegisterKeeps
  <2> QED BY <2>1, <2>5, <2>6 DEF OpenInv
<1>7. ASSUME NEW S, pendingState' = Without(S)
      PROVE  /\ PendingStates' \subseteq PendingStates
             /\ \A k \in S \cap Outstanding : pendingState[k] \notin PendingStates'
  <2>1. \A m \in Outstanding' : m \in Outstanding \ S /\ pendingState'[m] = pendingState[m]
    BY <1>7 DEF Outstanding, Without
  <2>2. ASSUME NEW k \in S \cap Outstanding, pendingState[k] \in PendingStates' PROVE FALSE
    <3>1. PICK m \in Outstanding' : pendingState'[m] = pendingState[k] BY <2>2 DEF PendingStates
    <3>2. m = k BY <2>1, <3>1 DEF CopyInv
    <3> QED BY <2>1, <3>1, <3>2
  <2> QED BY <2>1, <2>2 DEF PendingStates
<1>8. ASSUME NEW S, pendingState' = Without(S), UNCHANGED batch,
             sendQueue' = sendQueue \/ sendQueue' = Append(sendQueue, Ack),
             \A x \in States : promise'[x] # promise[x] =>
                \E k \in S \cap Outstanding : pendingState[k] = x
      PROVE  OpenInv'
  <2>1. ToSet(Append(sendQueue, Ack)) = ToSet(sendQueue) \cup {Ack} /\ Ack \notin States
    BY SequenceElements, SenderAssumption DEF TypeOK, LoopTypeOK, SenderAssumption
  <2>2. \A x \in States : Queued(x)' => Queued(x) BY <1>8, <2>1 DEF Queued
  <2>3. ASSUME NEW x \in States, Queued(x)' \/ x \in PendingStates'
        PROVE  promise'[x] = promise[x]
    <3>1. Queued(x) => x \notin PendingStates BY DEF CopyInv
    <3>2. CASE Queued(x)' BY <1>8, <2>2, <3>1, <3>2 DEF PendingStates
    <3>3. CASE x \in PendingStates' BY <1>7, <1>8, <3>3
    <3> QED BY <2>3, <3>2, <3>3
  <2>4. PendingStates' \subseteq PendingStates BY <1>7, <1>8
  <2> QED BY <2>2, <2>3, <2>4 DEF OpenInv
<1>9. ASSUME NEW S, promise' = Settle(S)
      PROVE  \A x \in States : promise'[x] # promise[x] => x \in S
  BY <1>9 DEF Settle, TypeOK, ReqTypeOK
<1>10. CASE RecvFails
  <2>1. UNCHANGED <<promise, batch, sendQueue, pendingState>>
    BY <1>10 DEF RecvFails, GaveUp, sendVars
  <2> QED BY <1>1, <2>1
<1>11. ASSUME ProcessStep PROVE Head(inbox) \in Message
  <2>1. recvLoop = "process"
    BY <1>11 DEF ProcessStep, HandleResult, HandleError, HandleAck, HandleResend, HandleRefused,
                 HandleStateForgotten, HandleOther, Processing
  <2> QED BY <2>1 DEF InboxInv, TypeOK, LoopTypeOK
<1>12. ASSUME NEW m \in MsgIds, pendingState[m] \in States PROVE m \in Outstanding
  BY <1>12, SenderAssumption DEF Outstanding, SenderAssumption
<1>13. CASE HandleResult
  <2> DEFINE m == Head(inbox).id
  <2>1. /\ promise' = Settle({pendingState[m]}) /\ pendingState' = Without({m})
        /\ UNCHANGED <<batch, sendQueue>>
    BY <1>13 DEF HandleResult, processRest
  <2>2. m \in MsgIds BY <1>11, <1>13 DEF ProcessStep, HandleResult, Processing, Message
  <2>3. \A x \in States : promise'[x] # promise[x] => m \in Outstanding /\ pendingState[m] = x
    BY <1>9, <1>12, <2>1, <2>2
  <2> QED BY <1>8, <2>1, <2>3
<1>14. CASE HandleError
  <2> DEFINE m == Head(inbox).id
  <2>1. /\ pendingState' = Without({m}) /\ UNCHANGED batch
        /\ sendQueue' = sendQueue \/ sendQueue' = Append(sendQueue, Ack)
    BY <1>14 DEF HandleError, Enqueue, processRest
  <2>2. m \in MsgIds BY <1>11, <1>14 DEF ProcessStep, HandleError, Processing, Message
  <2>3. \A x \in States : promise'[x] # promise[x] => x = pendingState[m]
    <3>1. CASE UNCHANGED promise BY <3>1
    <3>2. CASE promise' = Settle({pendingState[m]}) BY <1>9, <3>2
    <3>3. CASE promise' = [promise EXCEPT ![pendingState[m]] = IF @ = "open" THEN "failed" ELSE @]
      BY <3>3 DEF TypeOK, ReqTypeOK
    <3> QED BY <1>14, <3>1, <3>2, <3>3 DEF HandleError
  <2>4. \A x \in States : promise'[x] # promise[x] => m \in Outstanding /\ pendingState[m] = x
    BY <1>12, <2>2, <2>3
  <2> QED BY <1>8, <2>1, <2>4
<1>15. CASE HandleRefused
  <2>1. PICK m : /\ promise' = Settle(Popped(m)) /\ pendingState' = Without(PopIds(m))
                 /\ UNCHANGED <<batch, sendQueue>>
    BY <1>15 DEF HandleRefused, processRest
  <2>2. \A x \in States : promise'[x] # promise[x] =>
          \E k \in PopIds(m) \cap Outstanding : pendingState[k] = x
    BY <1>9, <2>1, PoppedType DEF Popped, TypeOK
  <2> QED BY <1>8, <2>1, <2>2
<1>16. CASE RecvBroken \/ RecvBadAuthKey
  <2>1. /\ pendingState' = Without(MsgIds) /\ UNCHANGED <<batch, sendQueue>>
        /\ \/ UNCHANGED promise \/ promise' = Settle(PendingStates) \/ promise' = FloodAll
    BY <1>16 DEF RecvBroken, RecvBadAuthKey, sendVars
  <2>2. \A x \in States : promise'[x] # promise[x] => x \in PendingStates
    <3>1. CASE UNCHANGED promise BY <3>1
    <3>2. CASE promise' = Settle(PendingStates) BY <1>9, <3>2
    <3>3. CASE promise' = FloodAll BY <3>3 DEF FloodAll, TypeOK, ReqTypeOK
    <3> QED BY <2>1, <3>1, <3>2, <3>3
  <2>3. \A x \in States : promise'[x] # promise[x] =>
          \E k \in MsgIds \cap Outstanding : pendingState[k] = x
    BY <2>2 DEF PendingStates, Outstanding
  <2> QED BY <1>8, <2>1, <2>3
<1>17. CASE BrokenHandlerDone
  <2>1. /\ pendingState' = Without(MsgIds) /\ UNCHANGED <<promise, batch, sendQueue>>
    BY <1>17 DEF BrokenHandlerDone, reqVars, sendVars
  <2> QED BY <1>8, <2>1
<1>18. ASSUME NEW ids \in SUBSET Outstanding, NEW q \in {sendQueue, Append(sendQueue, Ack)},
              sendQueue' = q \o Listed(ids) \/ sendQueue' = Listed(ids) \o q,
              NEW S, pendingState' = Without(S), UNCHANGED <<promise, batch>>
       PROVE  OpenInv'
  <2>1. Listed(ids) \in Seq(States \cup {Ack}) /\ ToSet(Listed(ids)) = {pendingState[m] : m \in ids}
    BY ListedType DEF TypeOK
  <2>2. q \in Seq(States \cup {Ack}) /\ ToSet(q) \subseteq ToSet(sendQueue) \cup {Ack}
    <3>1. ToSet(Append(sendQueue, Ack)) = ToSet(sendQueue) \cup {Ack}
      BY SequenceElements DEF TypeOK, LoopTypeOK
    <3>2. /\ Append(sendQueue, Ack) \in Seq(States \cup {Ack})
          /\ sendQueue \in Seq(States \cup {Ack})
      BY DEF TypeOK, LoopTypeOK
    <3>3. CASE q = sendQueue BY <3>2, <3>3
    <3>4. CASE q = Append(sendQueue, Ack) BY <3>1, <3>2, <3>4
    <3> QED BY <3>3, <3>4
  <2>3. ToSet(sendQueue') = ToSet(q) \cup ToSet(Listed(ids))
    <3>1. \A s, t \in Seq(States \cup {Ack}) : ToSet(s \o t) = ToSet(s) \cup ToSet(t)
      BY SequenceElements
    <3>2. /\ ToSet(q \o Listed(ids)) = ToSet(q) \cup ToSet(Listed(ids))
          /\ ToSet(Listed(ids) \o q) = ToSet(Listed(ids)) \cup ToSet(q)
      BY <2>1, <2>2, <3>1
    <3>3. CASE sendQueue' = q \o Listed(ids) BY <3>2, <3>3
    <3>4. CASE sendQueue' = Listed(ids) \o q BY <3>2, <3>4
    <3> QED BY <1>18, <3>3, <3>4
  <2>4. ToSet(sendQueue') \subseteq ToSet(sendQueue) \cup {Ack} \cup PendingStates
    BY <2>1, <2>2, <2>3 DEF PendingStates
  <2>5. PendingStates' \subseteq PendingStates BY <1>7, <1>18
  <2>6. Ack \notin States BY SenderAssumption DEF SenderAssumption
  <2> QED BY <1>18, <2>4, <2>5, <2>6 DEF OpenInv, Queued
<1>19. CASE HandleResend
  <2>1. PICK m : /\ sendQueue' = sendQueue \o Listed(PopIds(m)) /\ pendingState' = Without(PopIds(m))
                 /\ UNCHANGED <<promise, batch>>
    BY <1>19 DEF HandleResend, processRest
  <2>2. PopIds(m) \in SUBSET Outstanding BY PoppedType DEF TypeOK
  <2> QED BY <1>18, <2>1, <2>2
<1>20. CASE HandleStateForgotten
  <2>1. \E s \in Svc : /\ promise' = [promise EXCEPT ![s] = "open"]
                       /\ sendQueue' = Append(sendQueue, s)
    BY <1>20 DEF HandleStateForgotten, Enqueue
  <2>2. UNCHANGED <<batch, pendingState>> BY <1>20 DEF HandleStateForgotten, processRest
  <2> QED BY <1>0, <1>1, <2>1, <2>2
<1>21. CASE Closed
  <2>1. /\ sendQueue' = <<>> /\ UNCHANGED <<batch, promise>>
        /\ pendingState' = Readded(IF authenticated THEN pendingState ELSE Without(MsgIds))
    BY <1>21 DEF Closed, reqVars
  <2>2. \A x : Queued(x)' => Queued(x) BY <2>1 DEF Queued, ToSet
  <2>3. ASSUME NEW m \in Outstanding' PROVE pendingState'[m] \in PackerStates \cup PendingStates
    <3>1. CASE \E x \in PackerStates : msgId[x] = m
      BY <2>1, <3>1 DEF Readded, Outstanding
    <3>2. CASE ~\E x \in PackerStates : msgId[x] = m
      <4>1. m \in Outstanding /\ pendingState'[m] = pendingState[m]
        BY <2>1, <3>2 DEF Readded, Outstanding, Without
      <4> QED BY <4>1 DEF PendingStates
    <3> QED BY <3>1, <3>2
  <2>4. \A x \in PendingStates' : x \in PackerStates \/ x \in PendingStates BY <2>3 DEF PendingStates
  <2> QED BY <2>1, <2>2, <2>4 DEF OpenInv, PackerStates
<1>22. ASSUME NEW q \in {sendQueue, Append(sendQueue, Ack)}, ResendPending(q), UNCHANGED batch
       PROVE  OpenInv'
  <2> DEFINE asked == {m \in Outstanding : acknowledged[pendingState[m]]}
  <2>1. asked = {} BY OutstandingType DEF NoAcks, TypeOK
  <2>2. Outstanding \ asked = Outstanding BY <2>1
  <2>3. /\ sendQueue' = Listed(Outstanding) \o q /\ pendingState' = Without(MsgIds)
        /\ UNCHANGED promise
    BY <1>22, <2>1, <2>2 DEF ResendPending
  <2> QED BY <1>18, <1>22, <2>3
<1>23. CASE Reconnected
  <2>1. PICK q \in {sendQueue, Append(sendQueue, Ack)} : ResendPending(q) BY <1>23 DEF Reconnected
  <2>2. UNCHANGED batch BY <1>23 DEF Reconnected
  <2> QED BY <1>22, <2>1, <2>2
<1>24. CASE ConnectFails
  <2>1. UNCHANGED batch BY <1>24 DEF ConnectFails
  <2>2. ResendPending(sendQueue) \/ UNCHANGED <<promise, sendQueue, pendingState>>
    BY <1>24 DEF ConnectFails
  <2> QED BY <1>1, <1>22, <2>1, <2>2
<1> QED BY <1>2, <1>3, <1>4, <1>5, <1>6, <1>10, <1>13, <1>14, <1>15, <1>16, <1>17, <1>19, <1>20,
           <1>21, <1>23, <1>24
        DEF Next, SendLoopStep, RecvLoopStep, ProcessStep, ConnectStep, Environment

\* With a sender that never gives up, whatever is queued, held or pending still
\* waits for its answer: a reconnection sends nothing that was settled.
THEOREM PendingOpen ==
    ASSUME ~ErrorHandler, ~ServerAcks, ReconnectRetries = Infinity
    PROVE  Spec => []PendingIsOpen
<1>1. Init => HoldInv /\ OpenInv
  <2>1. Init => \A x \in States : ~Queued(x) /\ x \notin PendingStates
    <3> SUFFICES ASSUME Init PROVE \A x \in States : ~Queued(x) /\ x \notin PendingStates OBVIOUS
    <3>1. ToSet(sendQueue) = {} /\ ToSet(batch) = {} BY DEF Init, ToSet
    <3>2. Outstanding = {} BY DEF Init, Outstanding
    <3> QED BY <3>1, <3>2 DEF Queued, PendingStates
  <2> QED BY <2>1, HoldInit DEF OpenInv
<1>2. HoldInv /\ OpenInv /\ [Next]_vars => HoldInv' /\ OpenInv'
  <2>1. CASE UNCHANGED vars
    <3>1. OpenInv /\ UNCHANGED vars => OpenInv'
      BY DEF vars, reqVars, sendVars, OpenInv, Queued, PendingStates, Outstanding
    <3> QED BY <2>1, <3>1, HoldStep
  <2>2. HoldInv /\ OpenInv /\ Next => OpenInv' BY OpenStep
  <2> QED BY <2>1, <2>2, HoldStep
<1>3. HoldInv /\ OpenInv => PendingIsOpen
  BY OutstandingType DEF HoldInv, TypeOK, OpenInv, PendingIsOpen, PendingStates
<1> QED BY <1>1, <1>2, <1>3, PTL DEF Spec

-----------------------------------------------------------------------------
(* A sent request can be answered *)

\* What the send loop holds it has written under the ids it will register, and
\* nothing is registered before the first connection is up.
AnswerInv ==
    /\ SentIsAnswerable
    /\ \A x \in States : x \in ToSet(batch) => msgId[x] \in written
    /\ \A x \in States : registered[x] \/ x \in ToSet(batch) => task # "initial"
    /\ sendLoop # "off" => task # "initial"

\* A step keeps every answer possible if it opens no connection and an id leaves
\* the wire only with the request that is pending under it.
LEMMA AnswerKept ==
    ASSUME TypeOK, SentIsAnswerable,
           \A r \in Req : promise'[r] = "open" /\ registered'[r] => promise[r] = "open" /\ registered[r],
           LoopCondition' /\ connected' => LoopCondition /\ connected,
           \A r \in Req : promise'[r] = "open" /\ registered'[r] /\ LoopCondition' /\ connected' =>
              /\ Queued(r) => Queued(r)'
              /\ \A m \in wire \cup got : pendingState[m] = r =>
                    Queued(r)' \/ (m \in wire' \cup got' /\ pendingState'[m] = r)
    PROVE  SentIsAnswerable'
<1> SUFFICES ASSUME NEW r \in Req, promise'[r] = "open", registered'[r], LoopCondition', connected'
             PROVE  Queued(r)' \/ \E m \in wire' \cup got' : pendingState'[m] = r
  BY DEF SentIsAnswerable
<1>1. Queued(r) \/ \E m \in wire \cup got : pendingState[m] = r BY DEF SentIsAnswerable
<1> QED BY <1>1

\* No step takes away the answer of a sent request without settling the request
\* or sending it again.
LEMMA AnswerStep ==
    ASSUME HoldInv, KeyInv, SavedInv, AnswerInv, task # "again", ~MayConnect, Next
    PROVE  AnswerInv'
<1> USE DEF HoldInv
<1> DEFINE BatchWritten == \A x \in States : x \in ToSet(batch) => msgId[x] \in written
           Later == /\ \A x \in States : registered[x] \/ x \in ToSet(batch) => task # "initial"
                    /\ sendLoop # "off" => task # "initial"
<1>0. Req \subseteq States /\ wire \cup got \subseteq MsgIds BY DEF States, TypeOK, LinkTypeOK
<1>1. AnswerInv' <=> SentIsAnswerable' /\ BatchWritten' /\ Later' BY DEF AnswerInv
<1>2. SentIsAnswerable /\ BatchWritten /\ Later BY DEF AnswerInv
<1>3. ASSUME UNCHANGED <<msgId, batch, written>> PROVE BatchWritten' BY <1>2, <1>3
<1>4. ASSUME \A x \in States : registered'[x] => registered[x], task' = "initial" => task = "initial",
             ToSet(batch') \subseteq ToSet(batch), sendLoop' = "off" \/ sendLoop # "off"
      PROVE  Later'
  BY <1>2, <1>4
<1>5. Next /\ task' = "initial" => task = "initial" BY CallStep DEF UserConnect
<1>6. ASSUME sendQueue' = Append(sendQueue, Ack) \/ UNCHANGED sendQueue, UNCHANGED batch
      PROVE  \A r \in Req : Queued(r) => Queued(r)'
  <2>1. ToSet(Append(sendQueue, Ack)) = ToSet(sendQueue) \cup {Ack}
    BY SequenceElements DEF TypeOK, LoopTypeOK
  <2> QED BY <1>6, <2>1 DEF Queued
<1>7. ASSUME NEW r \in Req, Invoke(r) \/ Retry(r) PROVE AnswerInv'
  <2>1. /\ registered' = [registered EXCEPT ![r] = FALSE] /\ sendQueue' = Append(sendQueue, r)
        /\ promise' = [promise EXCEPT ![r] = "open"]
        /\ UNCHANGED <<msgId, batch, written, sendLoop, pendingState, connVars, connected, wire, got>>
    BY <1>7 DEF Invoke, Retry, Enqueue, netVars
  <2>2. \A x \in Req : registered'[x] => registered[x] /\ promise'[x] = promise[x]
    BY <1>0, <2>1 DEF TypeOK, ReqTypeOK
  <2>3. \A x \in States : registered'[x] => registered[x] BY <2>1 DEF TypeOK, ReqTypeOK
  <2>4. ToSet(sendQueue') = ToSet(sendQueue) \cup {r}
    <3>1. r \in States \cup {Ack} /\ sendQueue \in Seq(States \cup {Ack})
      BY <1>0 DEF TypeOK, LoopTypeOK
    <3>2. ToSet(Append(sendQueue, r)) = ToSet(sendQueue) \cup {r} BY <3>1, SequenceElements
    <3> QED BY <2>1, <3>2
  <2>5. \A x : Queued(x) => Queued(x)' BY <2>1, <2>4 DEF Queued
  <2>6. SentIsAnswerable'
    BY <1>2, <2>1, <2>2, <2>5, AnswerKept DEF LoopCondition, connVars
  <2>7. UNCHANGED task BY <2>1 DEF connVars
  <2> QED BY <1>1, <1>3, <1>4, <2>1, <2>3, <2>6, <2>7
<1>8. ASSUME Reconnect PROVE ~LoopCondition'
  BY <1>8 DEF Reconnect, LoopCondition
<1>9. ASSUME ~(LoopCondition' /\ connected'), BatchWritten', Later' PROVE AnswerInv'
  BY <1>1, <1>9 DEF SentIsAnswerable
<1>10. ASSUME UNCHANGED <<msgId, batch, written, pendingState, LoopCondition, connected, wire, got>>,
              \A x \in States : registered'[x] => registered[x],
              \A r \in Req : promise'[r] = "open" => promise[r] = "open",
              sendQueue' = Append(sendQueue, Ack) \/ UNCHANGED sendQueue, Later'
       PROVE  AnswerInv'
  <2>1. SentIsAnswerable' BY <1>0, <1>2, <1>6, <1>10, AnswerKept
  <2> QED BY <1>1, <1>3, <1>10, <2>1
<1>11. CASE SendLoopWoken \/ SendLoopGet
  <2>1. UNCHANGED <<msgId, batch, written, pendingState, connected, wire, got, registered, promise,
                    task, userConnected, isReconnecting>>
    BY <1>11 DEF SendLoopWoken, SendLoopGet, reqVars, connVars, netVars
  <2>2. sendQueue' = Append(sendQueue, Ack) \/ UNCHANGED sendQueue
    BY <1>11 DEF SendLoopWoken, SendLoopGet, AppendAcks
  <2>3. sendLoop # "off" BY <1>11 DEF SendLoopWoken, SendLoopGet
  <2> QED BY <1>4, <1>10, <2>1, <2>2, <2>3 DEF LoopCondition
<1>12. CASE PackOne
  <2> DEFINE h == Head(sendQueue)
  <2>1. /\ sendQueue # <<>> /\ h \in States \cup {Ack} /\ sendLoop = "packing"
        /\ sendQueue' = Tail(sendQueue) /\ batch' = Append(batch, h)
        /\ UNCHANGED <<promise, registered, sendLoop, pendingState, connVars, connected, wire>>
    BY <1>12 DEF PackOne, TypeOK, LoopTypeOK
  <2>2. /\ ToSet(sendQueue) = ToSet(sendQueue') \cup {h}
        /\ ToSet(batch') = ToSet(batch) \cup {h}
    BY <2>1, SequenceElements DEF TypeOK, LoopTypeOK
  <2>3. \A x : Queued(x) => Queued(x)' BY <2>2 DEF Queued
  <2>4. \A m \in Outstanding \cap got : m \in got'
    BY <1>12, NewMsgIdIsFresh DEF PackOne, FreshIds
  <2>5. \A m \in MsgIds, r \in Req : pendingState[m] = r => m \in Outstanding
    BY <1>0, SenderAssumption DEF SenderAssumption, Outstanding
  <2>6. SentIsAnswerable'
    BY <1>0, <1>2, <2>1, <2>3, <2>4, <2>5, AnswerKept DEF LoopCondition, connVars
  <2>7. BatchWritten'
    <3>1. CASE h = Ack
      <4>1. UNCHANGED <<msgId, written>> BY <1>12, <3>1 DEF PackOne
      <4> QED BY <1>2, <2>2, <3>1, <4>1, SenderAssumption DEF SenderAssumption
    <3>2. CASE h # Ack
      <4>1. h \in States /\ msgId' = [msgId EXCEPT ![h] = NewMsgId] /\ written' = written \cup {NewMsgId}
        BY <1>12, <2>1, <3>2 DEF PackOne
      <4> QED BY <1>2, <2>2, <4>1 DEF TypeOK, ReqTypeOK
    <3> QED BY <3>1, <3>2
  <2>8. Later' BY <1>2, <2>1 DEF connVars
  <2> QED BY <1>1, <2>6, <2>7, <2>8
<1>13. CASE PackDone
  <2>1. UNCHANGED <<promise, registered, msgId, sendQueue, pendingState, connVars, connected, wire, got>>
    BY <1>13 DEF PackDone, netVars
  <2>2. CASE UNCHANGED <<batch, written>> /\ sendLoop' = "packed"
    <3>1. sendLoop # "off" BY <1>13 DEF PackDone
    <3> QED BY <1>4, <1>10, <2>1, <2>2, <3>1 DEF LoopCondition, connVars
  <2>3. CASE isReconnecting /\ batch' = <<>> /\ sendLoop' = "off"
    <3>1. ToSet(batch') = {} BY <2>3 DEF ToSet
    <3>2. ~LoopCondition' BY <2>1, <2>3 DEF LoopCondition, connVars
    <3>3. Later' BY <1>4, <2>1, <2>3, <3>1 DEF connVars
    <3> QED BY <1>9, <3>1, <3>2, <3>3
  <2> QED BY <1>13, <2>2, <2>3 DEF PackDone
<1>14. CASE Transmit
  <2>1. Register /\ batch' = <<>> /\ UNCHANGED <<promise, msgId>> BY <1>14 DEF Transmit
  <2>2. ToSet(batch') = {} BY <2>1 DEF ToSet
  <2>3. BatchWritten' BY <2>2
  <2>4. Later'
    <3>1. task # "initial" BY <1>2, <1>14 DEF Transmit
    <3>2. task' # "initial" BY <1>5, <1>14, <3>1
    <3> QED BY <3>2
  <2>5. CASE connected
    <3>1. /\ wire' = wire \cup written
          /\ UNCHANGED <<isReconnecting, userConnected, connected, got>>
      BY <1>14, <2>5 DEF Transmit
    <3>6. connected' BY <2>5, <3>1
    <3>2. sendQueue' = sendQueue \/ sendQueue' = Append(sendQueue, Ack)
      BY <1>14, <2>5 DEF Transmit, SendLoopTop, AppendAcks
    <3>3. ToSet(sendQueue) \subseteq ToSet(sendQueue')
      <4>1. ToSet(Append(sendQueue, Ack)) = ToSet(sendQueue) \cup {Ack}
        BY SequenceElements DEF TypeOK, LoopTypeOK
      <4> QED BY <3>2, <4>1
    <3>4. ASSUME NEW r \in Req, promise'[r] = "open", registered'[r], LoopCondition', connected'
          PROVE  Queued(r)' \/ \E m \in wire' \cup got' : pendingState'[m] = r
      <4>1. CASE r \in ToSet(batch)
        <5>1. pendingState'[msgId[r]] = r BY <2>1, <4>1, RegisterKeeps
        <5>2. msgId[r] \in written BY <1>0, <1>2, <4>1
        <5> QED BY <3>1, <5>1, <5>2
      <4>2. CASE r \notin ToSet(batch)
        <5>1. registered[r] /\ promise[r] = "open" BY <1>0, <2>1, <3>4, <4>2 DEF Register
        <5>2. LoopCondition BY <3>1, <3>4 DEF LoopCondition
        <5>3. Queued(r) \/ \E m \in wire \cup got : pendingState[m] = r
          BY <1>2, <2>5, <5>1, <5>2 DEF SentIsAnswerable
        <5>4. Queued(r) => Queued(r)' BY <3>3, <4>2 DEF Queued
        <5>5. ASSUME NEW m \in wire \cup got, pendingState[m] = r
              PROVE  m \in wire' \cup got' /\ pendingState'[m] = r
          <6>1. m \in Outstanding
            BY <1>0, <5>5, SenderAssumption DEF SenderAssumption, Outstanding
          <6> QED BY <2>1, <3>1, <5>5, <6>1, RegisterKeeps
        <5> QED BY <5>3, <5>4, <5>5
      <4> QED BY <4>1, <4>2
    <3>5. SentIsAnswerable' BY <3>4 DEF SentIsAnswerable
    <3> QED BY <1>1, <2>3, <2>4, <3>5
  <2>6. CASE ~connected
    <3>1. ~connected'
      BY <1>14, <2>6 DEF Transmit, NoReconnect, Reconnect, Disconnect, DropConnection
    <3> QED BY <1>9, <2>3, <2>4, <3>1
  <2> QED BY <2>5, <2>6
<1>15. CASE RecvFails \/ RecvBroken \/ BrokenHandlerDone \/ PingFails
  <2>1. UNCHANGED <<msgId, batch, written, registered, sendLoop>>
    BY <1>15 DEF RecvFails, RecvBroken, BrokenHandlerDone, PingFails, reqVars, sendVars
  <2>2. BatchWritten' /\ Later' BY <1>3, <1>4, <1>5, <1>15, <2>1 DEF Next, RecvLoopStep, Environment
  <2>3. CASE Reconnect BY <1>8, <1>9, <2>2, <2>3
  <2>4. CASE RecvFails
    <3>1. ~connected' BY <2>4 DEF RecvFails, NoReconnect, Reconnect, Disconnect, DropConnection
    <3> QED BY <1>9, <2>2, <3>1
  <2>5. CASE RecvBroken /\ NoReconnect /\ UNCHANGED pendingState
    <3>1. \A r \in Req : promise'[r] = "open" => promise[r] = "open"
      BY <1>0, <2>5 DEF RecvBroken, Settle, FloodAll
    <3>2. UNCHANGED <<sendQueue, userConnected, isReconnecting, connected, wire, got>>
      BY <2>5 DEF RecvBroken, NoReconnect, sendVars
    <3> QED BY <1>10, <2>1, <2>2, <2>5, <3>1, <3>2 DEF LoopCondition
  <2> QED BY <1>15, <2>3, <2>4, <2>5 DEF RecvBroken, BrokenHandlerDone, PingFails
<1>16. ASSUME ProcessStep PROVE UNCHANGED <<msgId, batch, written, registered, sendLoop, userConnected,
                                           isReconnecting, connected, task>>
  BY <1>16 DEF ProcessStep, HandleResult, HandleError, HandleAck, HandleResend, HandleRefused,
               HandleStateForgotten, HandleOther, processRest
<1>17. ASSUME ProcessStep PROVE BatchWritten' /\ Later'
  BY <1>3, <1>4, <1>16, <1>17
<1>18. ASSUME ProcessStep, NEW S, pendingState' = Without(S), UNCHANGED got \/ got' = got \ S,
              \A m \in Outstanding \cap wire : m \in wire' \/ m \in S,
              \A r \in Req : promise'[r] = "open" => promise[r] = "open",
              \A r \in Req : Queued(r) => Queued(r)',
              \A r \in Req, k \in S \cap Outstanding :
                 pendingState[k] = r /\ promise'[r] = "open" => Queued(r)'
       PROVE  AnswerInv'
  <2>1. ASSUME NEW r \in Req, promise'[r] = "open", NEW m \in wire \cup got, pendingState[m] = r
        PROVE  Queued(r)' \/ (m \in wire' \cup got' /\ pendingState'[m] = r)
    <3>1. m \in Outstanding BY <1>0, <2>1, SenderAssumption DEF SenderAssumption, Outstanding
    <3>2. CASE m \in S BY <1>18, <2>1, <3>1, <3>2
    <3>3. CASE m \notin S
      <4>1. pendingState'[m] = r BY <1>0, <1>18, <2>1, <3>3 DEF Without
      <4> QED BY <1>18, <2>1, <3>1, <3>3, <4>1
    <3> QED BY <3>2, <3>3
  <2>2. SentIsAnswerable'
    BY <1>2, <1>16, <1>18, <2>1, AnswerKept DEF LoopCondition
  <2> QED BY <1>1, <1>17, <1>18, <2>2
<1>19. ASSUME NEW S, promise' = Settle(S)
       PROVE  \A r \in Req : promise'[r] = "open" => promise[r] = "open" /\ r \notin S
  BY <1>0, <1>19 DEF Settle
<1>20. CASE HandleResult
  <2> DEFINE m == Head(inbox).id
  <2>1. /\ promise' = Settle({pendingState[m]}) /\ pendingState' = Without({m})
        /\ got' = got \ {m} /\ wire' = wire \ {m} /\ UNCHANGED sendQueue
    BY <1>20 DEF HandleResult, Answered
  <2>2. ProcessStep BY <1>20 DEF ProcessStep
  <2>3. \A r \in Req : promise'[r] = "open" => promise[r] = "open" /\ r # pendingState[m]
    BY <1>19, <2>1
  <2>4. \A r \in Req : Queued(r) => Queued(r)' BY <1>6, <1>16, <2>1, <2>2
  <2> QED BY <1>18, <2>1, <2>2, <2>3, <2>4
<1>21. CASE HandleError
  <2> DEFINE m == Head(inbox).id
  <2>1. /\ pendingState' = Without({m}) /\ got' = got \ {m} /\ wire' = wire \ {m}
        /\ sendQueue' = sendQueue \/ sendQueue' = Append(sendQueue, Ack)
    BY <1>21 DEF HandleError, Answered, Enqueue
  <2>2. ProcessStep BY <1>21 DEF ProcessStep
  <2>3. \A r \in Req : promise'[r] = "open" => promise[r] = "open" /\ (m \in Outstanding => r # pendingState[m])
    <3>1. CASE pendingState[m] = None
      <4>1. UNCHANGED promise BY <1>0, <1>21, <3>1, SenderAssumption DEF HandleError, SenderAssumption
      <4> QED BY <3>1, <4>1 DEF Outstanding
    <3>2. CASE promise' = Settle({pendingState[m]}) BY <1>19, <3>2
    <3>3. CASE /\ pendingState[m] \in Req
               /\ promise' = [promise EXCEPT ![pendingState[m]] = IF @ = "open" THEN "failed" ELSE @]
      BY <1>0, <3>3 DEF TypeOK, ReqTypeOK
    <3> QED BY <1>21, <3>1, <3>2, <3>3 DEF HandleError
  <2>4. \A r \in Req : Queued(r) => Queued(r)' BY <1>6, <1>16, <2>1, <2>2
  <2> QED BY <1>18, <2>1, <2>2, <2>3, <2>4
<1>22. CASE HandleResend
  <2>1. PICK m : /\ m = Head(inbox).id
                 /\ sendQueue' = sendQueue \o Listed(PopIds(m)) /\ pendingState' = Without(PopIds(m))
                 /\ wire' = wire \ (PopIds(m) \cup {m}) /\ UNCHANGED <<promise, got>>
    BY <1>22 DEF HandleResend
  <2>2. ProcessStep BY <1>22 DEF ProcessStep
  <2>3. PopIds(m) \in SUBSET Outstanding BY PoppedType DEF TypeOK
  <2>4. Listed(PopIds(m)) \in Seq(States \cup {Ack}) /\ ToSet(Listed(PopIds(m))) = {pendingState[k] : k \in PopIds(m)}
    BY <2>3, ListedType DEF TypeOK
  <2>5. ToSet(sendQueue') = ToSet(sendQueue) \cup {pendingState[k] : k \in PopIds(m)}
    <3>1. sendQueue \in Seq(States \cup {Ack}) BY DEF TypeOK, LoopTypeOK
    <3>2. ToSet(sendQueue \o Listed(PopIds(m))) = ToSet(sendQueue) \cup ToSet(Listed(PopIds(m)))
      BY <2>4, <3>1, SequenceElements
    <3> QED BY <2>1, <2>4, <3>2
  <2>6. UNCHANGED batch BY <1>16, <2>2
  <2>7. \A r \in Req : Queued(r) => Queued(r)' BY <2>5, <2>6 DEF Queued
  <2>8. \A r \in Req, k \in PopIds(m) : pendingState[k] = r => Queued(r)' BY <2>5 DEF Queued
  <2>9. \A k \in Outstanding \cap wire : k \in wire' \/ k \in PopIds(m)
    BY <1>0, <2>1 DEF PopIds
  <2> QED BY <1>18, <2>1, <2>2, <2>7, <2>8, <2>9
<1>23. CASE HandleRefused
  <2>1. PICK m : /\ promise' = Settle(Popped(m)) /\ pendingState' = Without(PopIds(m))
                 /\ wire' = wire \ (PopIds(m) \cup {m}) /\ UNCHANGED <<sendQueue, got>>
    BY <1>23 DEF HandleRefused
  <2>2. ProcessStep BY <1>23 DEF ProcessStep
  <2>3. \A r \in Req : promise'[r] = "open" => promise[r] = "open" /\ r \notin Popped(m)
    BY <1>19, <2>1
  <2>4. \A k \in Outstanding \cap wire : k \in wire' \/ k \in PopIds(m)
    BY <1>0, <2>1 DEF PopIds
  <2>5. \A r \in Req : Queued(r) => Queued(r)' BY <1>6, <1>16, <2>1, <2>2
  <2> QED BY <1>18, <2>1, <2>2, <2>3, <2>4, <2>5 DEF Popped
<1>24. CASE HandleAck
  <2>1. /\ wire' \cup got' = wire \cup got \cup {Head(inbox).id} /\ UNCHANGED <<promise, sendQueue, pendingState>>
    BY <1>24 DEF HandleAck
  <2>2. ProcessStep BY <1>24 DEF ProcessStep
  <2>3. \A r \in Req : Queued(r) => Queued(r)' BY <1>6, <1>16, <2>1, <2>2
  <2>4. SentIsAnswerable'
    BY <1>2, <1>16, <2>1, <2>2, <2>3, AnswerKept DEF LoopCondition
  <2> QED BY <1>1, <1>17, <2>2, <2>4
<1>25. CASE HandleStateForgotten
  <2>1. PICK s \in Svc : /\ promise' = [promise EXCEPT ![s] = "open"] /\ sendQueue' = Append(sendQueue, s)
                         /\ UNCHANGED <<pendingState, wire, got>>
    BY <1>25 DEF HandleStateForgotten, Enqueue
  <2>2. ProcessStep BY <1>25 DEF ProcessStep
  <2>3. s \in States BY DEF States
  <2>4. ToSet(sendQueue') = ToSet(sendQueue) \cup {s}
    BY <2>1, <2>3, SequenceElements DEF TypeOK, LoopTypeOK
  <2>5. \A r \in Req : Queued(r) => Queued(r)' BY <1>16, <2>2, <2>4 DEF Queued
  <2>6. \A r \in Req : promise'[r] = promise[r]
    BY <1>0, <2>1, SenderAssumption DEF TypeOK, ReqTypeOK, SenderAssumption
  <2>7. SentIsAnswerable'
    BY <1>2, <1>16, <2>1, <2>2, <2>5, <2>6, AnswerKept DEF LoopCondition
  <2> QED BY <1>1, <1>17, <2>2, <2>7
<1>26. CASE HandleOther \/ HandlerDone \/ RecvPacket
  <2>1. UNCHANGED <<msgId, batch, written, pendingState, userConnected, isReconnecting, connected, wire, got,
                    promise, registered, sendQueue, sendLoop, task>>
    BY <1>26 DEF HandleOther, HandlerDone, RecvPacket, processRest, reqVars, sendVars, connVars, netVars
  <2> QED BY <1>4, <1>10, <2>1 DEF LoopCondition
<1>27. CASE RecvBadAuthKey
  <2>1. /\ promise' = Settle(PendingStates) /\ UNCHANGED <<msgId, batch, written, registered, sendLoop,
                sendQueue, task, userConnected, isReconnecting, connected>>
    BY <1>27 DEF RecvBadAuthKey, sendVars
  <2>2. \A r \in Req : promise'[r] = "open" => promise[r] = "open" /\ r \notin PendingStates
    BY <1>19, <2>1
  <2>3. \A m \in wire \cup got, r \in Req : pendingState[m] = r => r \in PendingStates
    BY <1>0, SenderAssumption DEF SenderAssumption, Outstanding, PendingStates
  <2>4. \A r \in Req : Queued(r) => Queued(r)' BY <1>6, <2>1
  <2>5. SentIsAnswerable' BY <1>2, <2>1, <2>2, <2>3, <2>4, AnswerKept DEF LoopCondition
  <2> QED BY <1>1, <1>3, <1>4, <2>1, <2>5
<1>28. CASE Break \/ UserDisconnect \/ StartReconnect
  <2>1. ~connected' /\ UNCHANGED <<msgId, batch, written, registered, sendLoop>>
    BY <1>28 DEF Break, UserDisconnect, StartReconnect, Disconnect, DropConnection, reqVars, sendVars
  <2>2. Later' BY <1>4, <1>5, <1>28, <2>1 DEF Next, Environment, ConnectStep
  <2> QED BY <1>3, <1>9, <2>1, <2>2
<1>29. ASSUME task \in {"initial", "again", "closing", "connecting"} PROVE ~connected
  BY <1>29 DEF KeyInv
<1>30. CASE Closed
  <2>1. ~connected' /\ UNCHANGED <<msgId, batch, written, registered, sendLoop>>
    BY <1>29, <1>30 DEF Closed, reqVars, netVars
  <2>2. Later' BY <1>30 DEF Closed
  <2> QED BY <1>3, <1>9, <2>1, <2>2
<1>31. CASE FirstConnect
  <2>1. /\ UNCHANGED <<msgId, batch, written, registered, promise>> /\ task = "initial" /\ task' # "initial"
    BY <1>31 DEF FirstConnect, Connected, ConnectEnds, reqVars
  <2>2. SentIsAnswerable' BY <1>0, <1>2, <2>1 DEF SentIsAnswerable
  <2> QED BY <1>1, <1>3, <2>1, <2>2
<1>32. CASE Reconnected
  <2>1. PICK q \in {sendQueue, Append(sendQueue, Ack)} : ResendPending(q) BY <1>32 DEF Reconnected
  <2>2. /\ UNCHANGED <<msgId, batch, written, registered>> /\ task = "connecting" /\ task' # "initial"
    BY <1>32 DEF Reconnected, Connected, ConnectEnds, Quiet
  <2>3. sendLoop = "off" \/ batch = <<>> BY <1>32 DEF Reconnected, Connected, Quiet, CopyInv
  <2> DEFINE asked == {m \in Outstanding : acknowledged[pendingState[m]]}
  <2>4. asked = {} BY OutstandingType DEF NoAcks, TypeOK
  <2>5. Outstanding \ asked = Outstanding BY <2>4
  <2>6. sendQueue' = Listed(Outstanding) \o q /\ UNCHANGED promise
    BY <2>1, <2>4, <2>5 DEF ResendPending
  <2>7. q \in Seq(States \cup {Ack})
    <3>1. sendQueue \in Seq(States \cup {Ack}) /\ Append(sendQueue, Ack) \in Seq(States \cup {Ack})
      BY DEF TypeOK, LoopTypeOK
    <3> QED BY <3>1
  <2>8. Listed(Outstanding) \in Seq(States \cup {Ack}) /\ ToSet(Listed(Outstanding)) = PendingStates
    BY ListedType DEF TypeOK, PendingStates
  <2>9. ToSet(sendQueue') = PendingStates \cup ToSet(q)
    <3>1. \A s, t \in Seq(States \cup {Ack}) : ToSet(s \o t) = ToSet(s) \cup ToSet(t)
      BY SequenceElements
    <3> QED BY <2>6, <2>7, <2>8, <3>1
  <2>10. SentIsAnswerable' BY <2>2, <2>6, <2>9 DEF SavedInv, SentIsAnswerable, Queued
  <2>11. Later' BY <2>2
  <2> QED BY <1>1, <1>3, <2>2, <2>10, <2>11
<1>33. CASE ConnectFails
  <2>1. /\ ~connected' /\ UNCHANGED <<msgId, batch, written, registered, sendLoop>>
    BY <1>29, <1>33 DEF ConnectFails
  <2>2. Later' BY <1>4, <1>5, <1>33, <2>1 DEF Next, Environment
  <2> QED BY <1>3, <1>9, <2>1, <2>2
<1> QED BY <1>7, <1>11, <1>12, <1>13, <1>14, <1>15, <1>20, <1>21, <1>22, <1>23, <1>24, <1>25, <1>26,
           <1>27, <1>28, <1>30, <1>31, <1>32, <1>33
        DEF Next, SendLoopStep, RecvLoopStep, ProcessStep, ConnectStep, Environment, UserConnect

\* Without automatic reconnection only the application connects.
LEMMA ManualInvariant ==
    ASSUME ~AutoReconnect
    PROVE  Spec => [](task \in {"initial", "again", "idle", "failed"})
<1> DEFINE Manual == task \in {"initial", "again", "idle", "failed"}
<1>1. Init => Manual BY DEF Init
<1>2. ASSUME Manual, [Next]_vars PROVE Manual'
  <2>1. Reconnect \/ NoReconnect => UNCHANGED task BY DEF Reconnect, NoReconnect
  <2>2. UNCHANGED vars => UNCHANGED task BY DEF vars, connVars
  <2>3. \A r \in Req : Invoke(r) \/ Retry(r) => UNCHANGED task BY DEF Invoke, Retry, connVars
  <2>4. SendLoopStep => UNCHANGED task
    BY <2>1 DEF SendLoopStep, SendLoopWoken, SendLoopGet, PackOne, PackDone, Transmit, connVars
  <2>5. RecvLoopStep => UNCHANGED task
    BY <2>1 DEF RecvLoopStep, RecvFails, ProcessStep, HandleResult, HandleError, HandleAck,
                HandleResend, HandleRefused, HandleStateForgotten, HandleOther, processRest,
                HandlerDone, BrokenHandlerDone
  <2>6. ConnectStep => Manual'
    BY <1>2 DEF ConnectStep, StartReconnect, Closed, FirstConnect, Reconnected, Connected, ConnectEnds
  <2>7. Environment => Manual'
    BY <1>2, <2>1 DEF Environment, RecvPacket, RecvBroken, RecvBadAuthKey, Break, PingFails,
                      ConnectFails, ConnectEnds, connVars
  <2>8. UserDisconnect => UNCHANGED task BY DEF UserDisconnect
  <2>9. UserConnect => Manual' BY <1>2 DEF UserConnect
  <2> QED BY <1>2, <2>2, <2>3, <2>4, <2>5, <2>6, <2>7, <2>8, <2>9 DEF Next
<1> QED BY <1>1, <1>2, PTL DEF Spec

\* Before a connection is up, what was sent and not settled has been saved.
LEMMA SavedInvariant ==
    ASSUME ~ErrorHandler
    PROVE  Spec => []SavedInv
<1>1. CASE AutoReconnect
  <2>1. TrackInv => SavedInv BY DEF TrackInv
  <2> QED BY <1>1, <2>1, TrackInvariant, PTL
<1>2. CASE ~AutoReconnect
  <2>1. task \in {"initial", "again", "idle", "failed"} => SavedInv BY DEF SavedInv
  <2> QED BY <1>2, <2>1, ManualInvariant, PTL
<1> QED BY <1>1, <1>2

\* While the connection works and the server sends no msgs_ack, every request
\* that was sent and has no answer is queued again, or pending under an id that
\* the server has or that is on its way: there is an answer to wait for, as long
\* as the application does not call connect() again.
THEOREM SentAnswerable ==
    ASSUME ~ErrorHandler, ~ServerAcks, ~MayConnect
    PROVE  Spec => []SentIsAnswerable
<1>1. Init => HoldInv /\ AnswerInv
  <2>1. Init => AnswerInv
    <3> SUFFICES ASSUME Init PROVE AnswerInv OBVIOUS
    <3>1. \A x \in States : ~registered[x] BY DEF Init
    <3>2. ToSet(batch) = {} BY DEF Init, ToSet
    <3>3. SentIsAnswerable BY <3>1 DEF SentIsAnswerable, States
    <3> QED BY <3>1, <3>2, <3>3 DEF Init, AnswerInv
  <2> QED BY <2>1, HoldInit
<1>2. HoldInv /\ KeyInv /\ SavedInv /\ AnswerInv /\ task # "again" /\ [Next]_vars => HoldInv' /\ AnswerInv'
  <2>1. CASE UNCHANGED vars
    <3>1. AnswerInv /\ UNCHANGED vars => AnswerInv'
      BY DEF vars, reqVars, sendVars, connVars, netVars, AnswerInv, SentIsAnswerable, Queued, LoopCondition
    <3> QED BY <2>1, <3>1, HoldStep
  <2>2. HoldInv /\ KeyInv /\ SavedInv /\ AnswerInv /\ task # "again" /\ Next => AnswerInv' BY AnswerStep
  <2> QED BY <2>1, <2>2, HoldStep
<1>3. AnswerInv => SentIsAnswerable BY DEF AnswerInv
<1> QED BY <1>1, <1>2, <1>3, KeyInvariant, SavedInvariant, CalledOnce, PTL DEF Spec

=============================================================================
