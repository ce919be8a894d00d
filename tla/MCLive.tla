------------------------------ MODULE MCLive -------------------------------
(***************************************************************************)
(* The components that make their callers wait side by side, for TLC, each *)
(* with the fairness it states: a behavior is about one of them, its       *)
(* subject, as in MCParts, which also says what v1, v2, ... are for.  The  *)
(* updates of a channel, a transport connection and the sign-in keep their *)
(* own variables, which rest when the subject is another, and their bounds *)
(* are in the configuration.                                               *)
(***************************************************************************)
EXTENDS Channels, Transport, Login, Sequences, TLC

VARIABLES
    subject,                \* the component this behavior is about
    v1, v2, v3, v4, v5, v6, v7, v8, v9, v10, v11, v12, v13

slotVars == <<v1, v2, v3, v4, v5, v6, v7, v8, v9, v10, v11, v12, v13>>
liveVars == <<subject, vars, transportVars, loginVars, slotVars>>

\* The senders of a data center, with one fault.
Slot == INSTANCE Slots WITH
    Sessions <- {"api", "dl", "ul"}, Media <- {"dl", "ul"}, NumSlots <- 2, NumSenders <- 3,
    Workers <- {"w1", "w2"}, MaxFaults <- 1,
    registry <- v1, closed <- v2, slot <- v3, chain <- v4, sender <- v5, mediaKey <- v6,
    mediaBound <- v7, worker <- v8, boundKeys <- v9, badKeys <- v10, racedKeys <- v11,
    forsaken <- v12, faults <- v13

-----------------------------------------------------------------------------
\* A behavior of one component.

InConnection(A) ==
    subject = "connection" /\ A /\ UNCHANGED <<subject, vars, loginVars, slotVars>>

InSlot(A) ==
    subject = "slots" /\ A /\ UNCHANGED <<subject, vars, transportVars, loginVars>>

InSignIn(A) ==
    subject = "login" /\ A /\ UNCHANGED <<subject, vars, transportVars, slotVars>>

InChannel(A) ==
    subject = "channels" /\ A /\ UNCHANGED <<subject, transportVars, loginVars, slotVars>>

\* Who signs in, and how a connection reads, only where that is what the behavior is about.
NobodySignsIn ==
    account = [registered |-> FALSE, password |-> FALSE, away |-> FALSE, terms |-> FALSE]
        /\ flow = "number"

NoSenders ==
    /\ v1 = 0 /\ v2 = 0 /\ v3 = 0 /\ v4 = 0 /\ v5 = 0 /\ v6 = 0 /\ v7 = 0
    /\ v8 = 0 /\ v9 = 0 /\ v10 = 0 /\ v11 = 0 /\ v12 = 0 /\ v13 = 0

LiveInit ==
    /\ Init /\ TransportInit /\ LoginInit
    /\ subject \in {"connection", "slots", "login", "channels"}
    /\ subject # "login" => NobodySignsIn
    /\ subject # "connection" => reads = "exactly"
    /\ IF subject = "slots" THEN Slot!Init ELSE NoSenders

LiveNext ==
    \/ InConnection(TransportNext)
    \/ InSlot(Slot!Next)
    \/ InSignIn(LoginNext)
    \/ InChannel(Next)

\* With the fairness each component states for itself.
LiveSpec ==
    /\ LiveInit /\ [][LiveNext]_liveVars
    /\ WF_transportVars(InConnection(Internal))
    /\ WF_transportVars(InConnection(Serve))
    /\ WF_transportVars(InConnection(Deliver))
    /\ SF_slotVars(InSlot(Slot!GatedConnect))
    /\ \A x \in Slot!Senders : SF_slotVars(InSlot(Slot!SenderStep(x)))
    /\ \A w \in {"w1", "w2"} : WF_slotVars(InSlot(Slot!WorkerStep(w)))
    /\ WF_loginVars(InSignIn(Polls))
    /\ WF_vars(InChannel(GapTimeout)) /\ WF_vars(InChannel(RetryTimeout))
    /\ \A x \in Fetchers : WF_vars(InChannel(Continue(x)))

-----------------------------------------------------------------------------
\* Who waits for a sender of the data center is served or turned away, whatever happens to
\* the attempts ahead in the chain (Network.ts:104-163).
AskersSettle ==
    \A w \in {"w1", "w2"} :
       (subject = "slots" /\ Slot!Waits(w)) ~> (subject = "slots" /\ Slot!Settled(w))

=============================================================================
