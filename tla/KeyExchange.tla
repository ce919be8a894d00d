---------------------------- MODULE KeyExchange ----------------------------
(***************************************************************************)
(* doAuthentication of network/Authenticator.ts with crypto/AuthKey.ts:    *)
(* the client and the server agree on a key, permanent or temporary, by a  *)
(* Diffie-Hellman exchange in a small group.  An attempt that fails is     *)
(* repeated on the same connection (MTProtoSender.ts:436), where answers to*)
(* the last one may still be on their way; Transport.tla has the frames.   *)
(*                                                                         *)
(* A nonce is the number of its attempt.  Encryption with a key is a tuple *)
(* that only who has the key can open, a hash a tuple of what is hashed.   *)
(***************************************************************************)
EXTENDS Integers, Sequences

CONSTANTS
    Prime, Generator,       \* dh_prime and g of the server
    Exponents,              \* random numbers of both sides
    Base,                   \* of a byte
    KnownKeys, ServerKeys,  \* fingerprints: RSA keys of the client, and those the server names
    MaxAttempts,            \* bound
    MaxFaults               \* bound: errors of the connection and refusals of the server

KeyExchangeAssumption ==
    /\ {Prime, Generator, Base, MaxAttempts, MaxFaults} \cup Exponents \subseteq Nat \ {0}
    /\ Generator < Prime /\ Prime <= Base * Base

VARIABLES
    client,                 \* the attempt: what doAuthentication knows
    session,                \* on the server, by the nonce of the client
    requests, answers,      \* on their way, in order
    cause,                  \* history: why an attempt failed
    faults

vars == <<client, session, requests, answers, cause, faults>>

Attempts == 1 .. MaxAttempts
None == 0

Fault == faults < MaxFaults /\ faults' = faults + 1

\* modExp.
ModExp(a, b) ==
    LET power[n \in 0 .. b] == IF n = 0 THEN 1 ELSE (power[n - 1] * a) % Prime IN power[b]

\* A key in bytes.  getByteArray writes as many as the number needs, the server always two.
Bytes(n) == [value |-> n, length |-> IF n < Base THEN 1 ELSE 2]
Padded(n) == [value |-> n, length |-> 2]

\* AuthKey.calcNewNonceHash: of the new nonce, the number of the answer and the key.
NonceHash(newNonce, number, key) == <<newNonce, number, key>>

Numbers == [DhGenOk |-> 1, DhGenRetry |-> 2, DhGenFail |-> 3]

Idle == [step |-> "idle", attempt |-> 0, temp |-> FALSE, serverNonce |-> None, newNonce |-> None,
         key |-> Bytes(0)]

-----------------------------------------------------------------------------
\* The client.

\* doAuthentication begins, for the first time or again: ReqPqMulti.
ReqPq ==
    /\ client.step \in {"idle", "threw"} /\ client.attempt < MaxAttempts
    /\ \E temp \in BOOLEAN :
          /\ client.attempt > 0 => temp = client.temp
          /\ client' = [Idle EXCEPT !.step = "resPQ", !.attempt = client.attempt + 1, !.temp = temp]
    /\ requests' = Append(requests, [kind |-> "reqPq", nonce |-> client'.attempt])
    /\ cause' = "none"
    /\ UNCHANGED <<session, answers, faults>>

Threw(why) == client' = [client EXCEPT !.step = "threw"] /\ cause' = why

\* What sender.send() gives is the next message that arrives, whatever it answers.
Arrives(step) == client.step = step /\ answers # <<>> /\ answers' = Tail(answers)

Foreign(m, kinds) == m.kind \notin kinds \/ m.nonce # client.attempt

\* Step 1: the nonce, then a key among those the server names, and the numbers it protects.
\* Encrypted data that is no less than the modulus twenty times (RETRIES) is a fault.
OnResPQ ==
    LET m == Head(answers) IN
    /\ Arrives("resPQ")
    /\ \/ /\ Foreign(m, {"resPQ"})
          /\ Threw("stale") /\ UNCHANGED <<requests, faults>>
       \/ /\ ~Foreign(m, {"resPQ"}) /\ m.fingerprints \cap KnownKeys = {}
          /\ Threw("unknownKey") /\ UNCHANGED <<requests, faults>>
       \/ /\ ~Foreign(m, {"resPQ"}) /\ m.fingerprints \cap KnownKeys # {}
          /\ Threw("rsa") /\ Fault /\ UNCHANGED requests
       \/ /\ ~Foreign(m, {"resPQ"}) /\ m.fingerprints \cap KnownKeys # {}
          /\ client' = [client EXCEPT !.step = "dhParams", !.serverNonce = m.serverNonce,
                                      !.newNonce = 10 + client.attempt]
          /\ requests' = Append(requests,
                [kind |-> "reqDH", nonce |-> client.attempt, serverNonce |-> m.serverNonce,
                 newNonce |-> client'.newNonce, temp |-> client.temp])
          /\ UNCHANGED <<cause, faults>>
    /\ UNCHANGED session

\* Step 2: the nonces, inside and outside of what is encrypted with them.
OnDHParams ==
    LET m == Head(answers) IN
    /\ Arrives("dhParams")
    /\ \/ /\ Foreign(m, {"dhOk", "dhFail"}) \/ m.serverNonce # client.serverNonce
          /\ Threw("stale") /\ UNCHANGED requests
       \/ /\ ~Foreign(m, {"dhFail"}) /\ m.serverNonce = client.serverNonce
          /\ Threw("refused") /\ UNCHANGED requests
       \/ /\ ~Foreign(m, {"dhOk"}) /\ m.serverNonce = client.serverNonce
          /\ m.key # <<client.serverNonce, client.newNonce>>
          /\ Threw("stale") /\ UNCHANGED requests
       \/ /\ ~Foreign(m, {"dhOk"}) /\ m.serverNonce = client.serverNonce
          /\ m.key = <<client.serverNonce, client.newNonce>>
          /\ \E b \in Exponents :
                /\ client' = [client EXCEPT !.step = "dhGen", !.key = Bytes(ModExp(m.ga, b))]
                /\ requests' = Append(requests,
                      [kind |-> "setDH", nonce |-> client.attempt,
                       serverNonce |-> client.serverNonce, gb |-> ModExp(Generator, b)])
          /\ UNCHANGED cause
    /\ UNCHANGED <<session, faults>>

\* Mutant: the hash of the new nonce is not looked at.
AnyHash(m) == TRUE

HashFits(m) == m.hash = NonceHash(client.newNonce, Numbers[m.kind], client.key)

\* Step 3: only DhGenOk with the hash of our key ends the exchange; a retry is not tried.
OnDhGen ==
    LET m == Head(answers)
        own == ~Foreign(m, DOMAIN Numbers) /\ m.serverNonce = client.serverNonce IN
    /\ Arrives("dhGen")
    /\ IF own /\ HashFits(m) /\ m.kind = "DhGenOk"
       THEN client' = [client EXCEPT !.step = "done"] /\ UNCHANGED cause
       ELSE Threw(IF ~own THEN "stale" ELSE IF ~HashFits(m) THEN "hash" ELSE "refused")
    /\ UNCHANGED <<session, requests, faults>>

\* The connection fails while the client waits; what is on its way may still come.
SendFails ==
    /\ client.step \in {"resPQ", "dhParams", "dhGen"}
    /\ Threw("connection") /\ Fault
    /\ UNCHANGED <<session, requests, answers>>

-----------------------------------------------------------------------------
\* The server of Telegram.

Serve ==
    LET m == Head(requests)
        s == session[m.nonce]
        Says(a) == answers' = Append(answers, a)
        Knows(t) == session' = [session EXCEPT ![m.nonce] = t] IN
    /\ requests # <<>> /\ requests' = Tail(requests)
    /\ \/ /\ m.kind = "reqPq"
          /\ Knows([s EXCEPT !.serverNonce = 20 + m.nonce])
          /\ Says([kind |-> "resPQ", nonce |-> m.nonce, serverNonce |-> 20 + m.nonce,
                   fingerprints |-> ServerKeys])
          /\ UNCHANGED faults
       \/ /\ m.kind = "reqDH"
          /\ \E a \in Exponents :
                /\ Knows([s EXCEPT !.newNonce = m.newNonce, !.temp = m.temp, !.a = a])
                /\ Says([kind |-> "dhOk", nonce |-> m.nonce, serverNonce |-> m.serverNonce,
                         key |-> <<m.serverNonce, m.newNonce>>, ga |-> ModExp(Generator, a)])
          /\ UNCHANGED faults
       \/ /\ m.kind = "reqDH" /\ Fault
          /\ Says([kind |-> "dhFail", nonce |-> m.nonce, serverNonce |-> m.serverNonce])
          /\ UNCHANGED session
       \/ /\ m.kind = "setDH"
          /\ LET key == Padded(ModExp(m.gb, s.a)) IN
             \E kind \in DOMAIN Numbers :
                /\ Knows(IF kind = "DhGenOk" THEN [s EXCEPT !.key = key] ELSE s)
                /\ Says([kind |-> kind, nonce |-> m.nonce, serverNonce |-> m.serverNonce,
                         hash |-> NonceHash(s.newNonce, Numbers[kind], key)])
                /\ IF kind = "DhGenOk" THEN UNCHANGED faults ELSE Fault
    /\ UNCHANGED <<client, cause>>

Init ==
    /\ client = Idle
    /\ session = [n \in Attempts |-> [serverNonce |-> None, newNonce |-> None, temp |-> FALSE,
                                      a |-> 0, key |-> Padded(0)]]
    /\ requests = <<>> /\ answers = <<>> /\ cause = "none" /\ faults = 0

Next == ReqPq \/ OnResPQ \/ OnDHParams \/ OnDhGen \/ SendFails \/ Serve

Spec == Init /\ [][Next]_vars

-----------------------------------------------------------------------------
\* A key the client takes is the one the server has for the same attempt and the same use,
\* whatever answers of earlier attempts were on their way.
KeysAgree ==
    client.step = "done" =>
        LET s == session[client.attempt] IN s.key = client.key /\ s.temp = client.temp

\* An exchange fails for a cause: the connection, a refusal, an answer to an earlier attempt, or
\* a key that begins with a zero byte, which getByteArray drops (Helpers.ts:367).
FailsForCause ==
    /\ cause = "stale" => client.attempt > 1
    /\ cause = "hash" => client.key.length < 2

=============================================================================
