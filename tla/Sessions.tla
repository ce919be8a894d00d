------------------------------- MODULE Sessions -------------------------------
(***************************************************************************)
(* Which key belongs to which data center: StoreSession (sessions/), whose *)
(* values reach the disk one by one, and the client that changes them in   *)
(* connect(), _switchDC() (client/TelegramClient.ts), logOut() (auth.ts),  *)
(* and in the callbacks of its senders, with crashes between two steps.    *)
(*                                                                         *)
(* A key is a number in the order they were made; "made" has the data      *)
(* center of each.  An AuthKey object can be shared: when the session and  *)
(* the main sender hold the same one, what happens to it happens to both.  *)
(* An address is named by the data center that is reached there; the port, *)
(* which setDC writes between the two, is 443 everywhere and left out.     *)
(***************************************************************************)
EXTENDS Integers, Sequences

CONSTANTS
    Dcs, DefaultDc,
    Tasks,          \* callers of connect() and _switchDC() at one time
    MaxKeys,        \* bound: keys made
    MaxCrashes      \* bound

ASSUME SessionsAssumption ==
    /\ Dcs \subseteq Nat \ {0} /\ DefaultDc \in Dcs
    /\ MaxKeys \in Nat /\ MaxCrashes \in Nat

VARIABLES
    disk, memory,   \* the session: its data center and the address of it, authKey and dcAuthKeys
    sender,         \* the main sender
    task,           \* where each caller is
    made,
    crashes,
    torn,           \* history: a process ended between the writes of setDC, which has not run since
    mixed           \* history: two callers at once, or logOut() without a new process after it

vars == <<disk, memory, sender, task, made, crashes, torn, mixed>>

None == 0
Empty == [dc |-> None, address |-> None, authKey |-> None, dcAuthKeys |-> [d \in Dcs |-> None]]
NoSender == [exists |-> FALSE, dc |-> None, address |-> None, key |-> None, shared |-> FALSE,
             connected |-> FALSE, authenticated |-> FALSE]

Busy == \E t \in Tasks : task[t] # "idle"
Goes(t, where) == task' = [task EXCEPT ![t] = where]

\* A key exchange with the data center at an address gives the next key.
Make(address) == Len(made) < MaxKeys /\ made' = Append(made, address)
NewKey == Len(made) + 1

-----------------------------------------------------------------------------
\* The session.

\* Mutant: every key is put under the main data center.
MainOnly(dc) == TRUE

IsMain(dc) == dc = None \/ dc = memory.dc

\* setAuthKey: in memory and on the disk; without a data center, of the main one.
SetAuthKey(key, dc) ==
    IF IsMain(dc)
    THEN /\ memory' = [memory EXCEPT !.authKey = key]
         /\ disk'   = [disk EXCEPT !.authKey = key]
    ELSE /\ memory' = [memory EXCEPT !.dcAuthKeys[dc] = key]
         /\ disk'   = [disk EXCEPT !.dcAuthKeys = memory'.dcAuthKeys]

\* load: what is on the disk goes over what is in memory, the rest stays.
Over(new, old) == IF new # None THEN new ELSE old
Loaded ==
    [dc         |-> Over(disk.dc, memory.dc),
     address    |-> Over(disk.address, memory.address),
     authKey    |-> Over(disk.authKey, memory.authKey),
     dcAuthKeys |-> [d \in Dcs |-> Over(disk.dcAuthKeys[d], memory.dcAuthKeys[d])]]

\* setDC: on the disk the number comes before the address.
AtDc(session, dc) == [session EXCEPT !.dc = dc, !.address = dc]
Renumbered(session, dc) == [session EXCEPT !.dc = dc]

\* delete.
Delete == memory' = Empty /\ disk' = Empty

-----------------------------------------------------------------------------
\* connect(): _initSession loads the session, or takes the default data center if it has no
\* address; a client without a sender makes one, with the key of the session or with one of its own.
MayConnect(t) == task[t] = "reconnect" \/ (task[t] = "idle" /\ ~sender.connected)
NoAddress == Loaded.address = None

Connect(t) ==
    LET s == IF NoAddress THEN AtDc(Loaded, DefaultDc) ELSE Loaded IN
    /\ MayConnect(t)
    /\ memory' = s
    /\ disk' = IF NoAddress THEN AtDc(disk, DefaultDc) ELSE disk
    /\ torn' = (torn /\ ~NoAddress)
    /\ sender' = IF sender.exists
                 THEN [sender EXCEPT !.address = s.address, !.shared = @ /\ disk.authKey = None]
                 ELSE [NoSender EXCEPT !.exists = TRUE, !.dc = s.dc, !.address = s.address,
                                       !.key = s.authKey, !.shared = s.authKey # None]
    /\ mixed' = (mixed \/ \E u \in Tasks \ {t} : task[u] # "idle")
    /\ Goes(t, "connecting")
    /\ UNCHANGED <<made, crashes>>

\* The key exchange of the main sender, and _authKeyCallback: both hold the same object if the
\* data center of the sender is that of the session.
Exchange ==
    /\ Make(sender.address)
    /\ SetAuthKey(NewKey, sender.dc)
    /\ sender' = [sender EXCEPT !.connected = TRUE, !.key = NewKey,
                                !.shared = IsMain(sender.dc)]

\* A key the server does not know (-404) is cleared, in the object and not on the disk.
Refused ==
    /\ sender' = [sender EXCEPT !.key = None]
    /\ memory' = [memory EXCEPT !.authKey = IF sender.shared THEN None ELSE @]

\* sender.connect(), unless it is connected: a key is good only for its data center.
Authenticate(t) ==
    /\ task[t] = "connecting" /\ sender.exists /\ ~sender.connected
    /\ \/ sender.key = None /\ Exchange /\ Goes(t, "connected")
       \/ /\ sender.key # None /\ made[sender.key] = sender.address
          /\ sender' = [sender EXCEPT !.connected = TRUE, !.authenticated = TRUE]
          /\ Goes(t, "connected")
          /\ UNCHANGED <<memory, disk, made>>
       \/ /\ sender.key # None /\ made[sender.key] # sender.address
          /\ Refused
          /\ UNCHANGED <<disk, made, task>>
    /\ UNCHANGED <<crashes, torn, mixed>>

\* Somebody else connected it: connect() ends.
ConnectedAlready(t) ==
    /\ task[t] = "connecting" /\ sender.connected
    /\ Goes(t, "idle")
    /\ UNCHANGED <<memory, disk, sender, made, crashes, torn, mixed>>

\* ... after which connect() makes the key of the sender that of the session.
Connected(t) ==
    /\ task[t] = "connected" /\ sender.exists
    /\ SetAuthKey(sender.key, None)
    /\ sender' = [sender EXCEPT !.shared = TRUE]
    /\ Goes(t, "idle")
    /\ UNCHANGED <<made, crashes, torn, mixed>>

\* _switchDC() after getDC(), to where the server sends it: setDC, and the key of the sender is
\* cleared.
MaySwitch(t, dc) == task[t] = "idle" /\ sender.connected /\ dc # sender.address

Switch(t, dc) ==
    /\ MaySwitch(t, dc)
    /\ memory' = [AtDc(memory, dc) EXCEPT !.authKey = IF sender.shared THEN None ELSE @]
    /\ disk'   = AtDc(disk, dc)
    /\ torn' = FALSE
    /\ sender' = [sender EXCEPT !.key = None]
    /\ mixed' = (mixed \/ Busy)
    /\ Goes(t, "cleared")
    /\ UNCHANGED <<made, crashes>>

\* ... then the key of the session;
Cleared(t) ==
    /\ task[t] = "cleared"
    /\ SetAuthKey(None, None)
    /\ sender' = [sender EXCEPT !.shared = FALSE]
    /\ Goes(t, "purging")
    /\ UNCHANGED <<made, crashes, torn, mixed>>

\* ... then all senders end, and connect() begins without one.
Purged(t) ==
    /\ task[t] = "purging"
    /\ sender' = NoSender
    /\ Goes(t, "reconnect")
    /\ UNCHANGED <<memory, disk, made, crashes, torn, mixed>>

\* The main sender connects again by itself: it throws away a key that was made on it, since only
\* one it was given is marked authenticated.
Reconnect ==
    /\ sender.connected /\ ~Busy
    /\ ~sender.authenticated
    /\ Exchange
    /\ UNCHANGED <<task, crashes, torn, mixed>>

\* A session of Network ends its key exchange with its data center, which may have begun before
\* that of the client changed.  One of the client's own data center holds the key object of the
\* client, and one whose key is refused there replaces it.
OtherSender(dc) ==
    LET own == dc = memory.dc
        key == IF own THEN memory.authKey ELSE memory.dcAuthKeys[dc]
        refused == own /\ key # None
    IN
    /\ sender.connected
    /\ refused => made[key] # dc
    /\ own \/ key = None
    /\ Make(dc)
    /\ SetAuthKey(NewKey, dc)
    /\ sender' = [sender EXCEPT !.shared = @ /\ (refused \/ ~own),
                                !.key = IF refused /\ sender.shared THEN NewKey ELSE @]
    /\ UNCHANGED <<task, crashes, torn, mixed>>

\* Network._onSenderBreak drops the key of a data center.
OtherBreaks(dc) ==
    /\ sender.connected /\ dc # memory.dc /\ memory.dcAuthKeys[dc] # None
    /\ SetAuthKey(None, dc)
    /\ UNCHANGED <<sender, task, made, crashes, torn, mixed>>

\* logOut() disconnects and deletes the session; the sender stays with its key.
LogOut ==
    /\ sender.connected /\ ~Busy
    /\ Delete
    /\ sender' = [sender EXCEPT !.connected = FALSE, !.shared = FALSE]
    /\ mixed' = TRUE
    /\ UNCHANGED <<task, made, crashes, torn>>

\* The process ends and starts again: of a session that was not mixed up, the disk is left.
Restart ==
    /\ crashes < MaxCrashes /\ crashes' = crashes + 1
    /\ memory' = Empty
    /\ sender' = NoSender
    /\ task' = [t \in Tasks |-> "idle"]
    /\ mixed' = (mixed /\ disk # Empty)
    /\ UNCHANGED made

Crash == Restart /\ UNCHANGED <<disk, torn>>

\* The process ends inside setDC, between the number and the address.
CrashInSetDC(dc) ==
    /\ \E t \in Tasks : \/ MaySwitch(t, dc)
                        \/ MayConnect(t) /\ NoAddress /\ dc = DefaultDc
    /\ Restart
    /\ disk' = Renumbered(disk, dc)
    /\ torn' = TRUE

Init ==
    /\ disk = Empty /\ memory = Empty /\ sender = NoSender
    /\ task = [t \in Tasks |-> "idle"] /\ made = <<>> /\ crashes = 0
    /\ torn = FALSE /\ mixed = FALSE

Next ==
    \/ \E t \in Tasks : \/ Connect(t) \/ Authenticate(t) \/ Connected(t) \/ ConnectedAlready(t)
                        \/ Cleared(t) \/ Purged(t)
                        \/ \E dc \in Dcs : Switch(t, dc)
    \/ Reconnect \/ LogOut \/ Crash
    \/ \E dc \in Dcs : OtherSender(dc) \/ OtherBreaks(dc) \/ CrashInSetDC(dc)

Spec == Init /\ [][Next]_vars

-----------------------------------------------------------------------------
TypeOK ==
    /\ \A s \in {disk, memory} : /\ s.dc \in Dcs \cup {None} /\ s.address \in Dcs \cup {None}
                                 /\ s.authKey \in 0 .. Len(made)
                                 /\ s.dcAuthKeys \in [Dcs -> 0 .. Len(made)]
    /\ sender.key \in 0 .. Len(made)
    /\ sender.shared => memory.authKey = sender.key

Fits(key, dc) == key # None => made[key] = dc

\* The key of each other data center was made with it.
OthersFit ==
    ~mixed => \A d \in Dcs : Fits(disk.dcAuthKeys[d], d) /\ Fits(memory.dcAuthKeys[d], d)

\* A client at rest uses the data center, the address and the key that a new process would find
\* on the disk, whatever crashes left there, and the key was made at that address.  When the
\* process ended between the number and the address (StoreSession.ts:104, 106) the disk has the
\* number of one data center with the address of another, which nothing notices: the key is then
\* of either.  Two callers that switch at once break it, and so does connect() after logOut(): the
\* sender stays with the key and the number of the old data center.
AtRest ==
    (~mixed /\ ~Busy /\ sender.connected) =>
        /\ disk.dc = sender.dc /\ disk.address = sender.address
        /\ disk.authKey = sender.key /\ sender.key # None
        /\ disk.dc = disk.address \/ torn
        /\ Fits(sender.key, disk.address) \/ (torn /\ Fits(sender.key, disk.dc))

\* The stored key of a data center was made with it, whatever is between two writes when the
\* process ends (with the exception AtRest names), when one caller acts at a time
\* (StoreSession.ts, TelegramClient.ts:1630-1700).
KeysFitDcs == TypeOK /\ OthersFit /\ AtRest

=============================================================================
