---------------------------- MODULE SessionsProofs ----------------------------
(***************************************************************************)
(* The stored key of a data center was made with it, for any data centers, *)
(* callers, keys and crashes, as long as one caller acts at a time.        *)
(*                                                                         *)
(* What holds at rest is seldom true on the way: between setDC and the     *)
(* end of a switch the disk has the new data center with the old key, and  *)
(* a crash leaves it so.  The invariant says for each place of the one     *)
(* caller what the session, the disk and the sender have in common there.  *)
(***************************************************************************)
EXTENDS Sessions, TLAPS

StoredRecords(n) == [dc : Dcs \cup {None}, address : Dcs \cup {None}, authKey : 0 .. n,
                     dcAuthKeys : [Dcs -> 0 .. n]]

SenderRecords(n) == [exists : BOOLEAN, dc : Dcs \cup {None}, address : Dcs \cup {None}, key : 0 .. n,
               shared : BOOLEAN, connected : BOOLEAN, authenticated : BOOLEAN]

Typed ==
    /\ disk \in StoredRecords(Len(made)) /\ memory \in StoredRecords(Len(made))
    /\ sender \in SenderRecords(Len(made))
    /\ task \in [Tasks -> {"idle", "connecting", "connected", "cleared", "purging", "reconnect"}]
    /\ made \in Seq(Dcs \cup {None}) /\ torn \in BOOLEAN /\ mixed \in BOOLEAN

\* A key the session and the sender share is one key.
SharedInv == sender.shared => memory.authKey = sender.key

\* The number and the address of the disk differ only when a process ended between them, and a
\* session in memory that has an address has both from the disk.
DcInv ==
    /\ torn \/ disk.dc = disk.address
    /\ memory.address = None => memory.dc = None
    /\ memory.address # None => memory.dc = disk.dc /\ memory.address = disk.address

SameDc ==
    /\ memory.address # None
    /\ sender.dc = memory.dc /\ sender.address = memory.address

HasKey ==
    /\ sender.key # None
    /\ Fits(sender.key, memory.address) \/ (torn /\ Fits(sender.key, memory.dc))

Settled ==
    /\ SameDc /\ HasKey /\ sender.shared
    /\ memory.authKey = sender.key /\ disk.authKey = sender.key

\* The places of the one caller.
Place(where) ==
    /\ where = "connecting" => sender.exists /\ ~sender.connected /\ SameDc
    /\ where = "connected" => /\ sender.exists /\ sender.connected
                              /\ SameDc /\ HasKey
    /\ where = "reconnect" => ~sender.exists /\ ~sender.connected

AtHome == IF sender.connected THEN sender.exists /\ Settled ELSE ~sender.exists

PlaceInv ==
    ~mixed =>
       /\ \A t, u \in Tasks : task[t] # "idle" /\ task[u] # "idle" => t = u
       /\ ~Busy => AtHome
       /\ \A t \in Tasks : Place(task[t])

SessionInv == Typed /\ SharedInv /\ DcInv /\ OthersFit /\ PlaceInv

-----------------------------------------------------------------------------
(* Keys, and what setAuthKey leaves *)

LEMMA Numbers ==
    /\ DefaultDc \in Dcs /\ None \notin Dcs /\ Dcs \subseteq Nat /\ None = 0
    /\ \A n \in Nat : None \in 0 .. n /\ Empty \in StoredRecords(n) /\ NoSender \in SenderRecords(n)
BY SessionsAssumption DEF None, Empty, NoSender, StoredRecords, SenderRecords

LEMMA Count == ASSUME Typed PROVE Len(made) \in Nat
BY DEF Typed

\* A key that is made is the last; the others stay where they were.
LEMMA KeyIsMade ==
    ASSUME Typed, NEW a \in Dcs \cup {None}, Make(a)
    PROVE  /\ made' \in Seq(Dcs \cup {None}) /\ Len(made') = Len(made) + 1
           /\ NewKey \in 0 .. Len(made') /\ NewKey # None
           /\ made'[NewKey] = a
           /\ \A k \in 0 .. Len(made) : k \in 0 .. Len(made') /\ (k # None => made'[k] = made[k])
<1>1. made' = Append(made, a) /\ made \in Seq(Dcs \cup {None}) BY DEF Make, Typed
<1>2. PICK n \in Nat : n = Len(made) BY <1>1
<1>3. made' \in Seq(Dcs \cup {None}) /\ Len(made') = n + 1 BY <1>1, <1>2
<1>4. made'[n + 1] = a /\ \A k \in 1 .. n : made'[k] = made[k] BY <1>1, <1>2
<1>5. NewKey = n + 1 BY <1>2 DEF NewKey
<1>6. n + 1 \in 0 .. n + 1 /\ n + 1 # None /\ \A k \in 0 .. n : k \in 0 .. n + 1 /\ (k # None => k \in 1 .. n)
  BY Numbers
<1> QED BY <1>2, <1>3, <1>4, <1>5, <1>6

\* What is stored fits still when there are more keys.
LEMMA MoreKeys ==
    ASSUME NEW n \in Nat, NEW m \in Nat, n <= m
    PROVE  StoredRecords(n) \subseteq StoredRecords(m) /\ SenderRecords(n) \subseteq SenderRecords(m)
<1>1. \A k \in 0 .. n : k \in 0 .. m OBVIOUS
<1>2. ASSUME NEW s \in StoredRecords(n) PROVE s \in StoredRecords(m)
  <2>1. s.dcAuthKeys \in [Dcs -> 0 .. m] BY <1>1 DEF StoredRecords
  <2> QED BY <1>1, <2>1 DEF StoredRecords
<1>3. ASSUME NEW s \in SenderRecords(n) PROVE s \in SenderRecords(m) BY <1>1 DEF SenderRecords
<1> QED BY <1>2, <1>3

\* setAuthKey of the main data center, and of another.
KeySet(n, key, dc) ==
    /\ memory' \in StoredRecords(n) /\ disk' \in StoredRecords(n)
    /\ memory'.dc = memory.dc /\ disk'.dc = disk.dc
    /\ memory'.address = memory.address /\ disk'.address = disk.address
    /\ IsMain(dc) => /\ memory'.authKey = key /\ disk'.authKey = key
                     /\ memory'.dcAuthKeys = memory.dcAuthKeys
                     /\ disk'.dcAuthKeys = disk.dcAuthKeys
    /\ ~IsMain(dc) => /\ memory'.authKey = memory.authKey /\ disk'.authKey = disk.authKey
                      /\ dc \in Dcs /\ dc # memory.dc
                      /\ memory'.dcAuthKeys = [memory.dcAuthKeys EXCEPT ![dc] = key]
                      /\ disk'.dcAuthKeys = memory'.dcAuthKeys

LEMMA KeyIsSet ==
    ASSUME NEW n \in Nat, memory \in StoredRecords(n), disk \in StoredRecords(n),
           NEW key \in 0 .. n, NEW dc \in Dcs \cup {None}, SetAuthKey(key, dc)
    PROVE  KeySet(n, key, dc)
<1>1. CASE IsMain(dc)
  <2>1. memory' = [memory EXCEPT !.authKey = key] /\ disk' = [disk EXCEPT !.authKey = key]
    BY <1>1 DEF SetAuthKey
  <2> QED BY <1>1, <2>1 DEF StoredRecords, KeySet
<1>2. CASE ~IsMain(dc)
  <2>1. memory' = [memory EXCEPT !.dcAuthKeys[dc] = key]
        /\ disk' = [disk EXCEPT !.dcAuthKeys = memory'.dcAuthKeys]
    BY <1>2 DEF SetAuthKey
  <2>2. dc \in Dcs /\ dc # memory.dc BY <1>2 DEF IsMain
  <2>3. PICK keys : keys = [memory.dcAuthKeys EXCEPT ![dc] = key] OBVIOUS
  <2>4. keys \in [Dcs -> 0 .. n] BY <2>3 DEF StoredRecords
  <2>5. memory' = [memory EXCEPT !.dcAuthKeys = keys] BY <2>1, <2>3 DEF StoredRecords
  <2>6. memory' \in StoredRecords(n) /\ memory'.dc = memory.dc /\ memory'.authKey = memory.authKey
        /\ memory'.address = memory.address
        /\ memory'.dcAuthKeys = keys
    BY <2>4, <2>5 DEF StoredRecords
  <2>7. disk' = [disk EXCEPT !.dcAuthKeys = keys] BY <2>1, <2>6
  <2>8. disk' \in StoredRecords(n) /\ disk'.dc = disk.dc /\ disk'.authKey = disk.authKey
        /\ disk'.address = disk.address
        /\ disk'.dcAuthKeys = keys
    BY <2>4, <2>7 DEF StoredRecords
  <2> QED BY <1>2, <2>2, <2>3, <2>6, <2>8 DEF KeySet
<1> QED BY <1>1, <1>2

\* The keys of other data centers fit still when a new one is set, or none.
LEMMA OthersKeep ==
    ASSUME Typed, OthersFit, mixed' \in BOOLEAN, mixed => mixed',
           made' \in Seq(Dcs \cup {None}),
           \A k \in 0 .. Len(made) : k # None => made'[k] = made[k],
           NEW key, NEW dc \in Dcs \cup {None}, ~mixed' => (key # None => made'[key] = dc),
           \/ memory'.dcAuthKeys = memory.dcAuthKeys /\ disk'.dcAuthKeys = disk.dcAuthKeys
           \/ /\ disk'.dcAuthKeys = memory'.dcAuthKeys
              /\ memory'.dcAuthKeys = [memory.dcAuthKeys EXCEPT ![dc] = key]
    PROVE  OthersFit'
<1>1. SUFFICES ASSUME ~mixed', NEW d \in Dcs
               PROVE  /\ disk'.dcAuthKeys[d] # None => made'[disk'.dcAuthKeys[d]] = d
                      /\ memory'.dcAuthKeys[d] # None => made'[memory'.dcAuthKeys[d]] = d
  BY DEF OthersFit, Fits
<1>2. ~mixed /\ Fits(disk.dcAuthKeys[d], d) /\ Fits(memory.dcAuthKeys[d], d) BY <1>1 DEF OthersFit
<1>3. disk.dcAuthKeys[d] \in 0 .. Len(made) /\ memory.dcAuthKeys[d] \in 0 .. Len(made)
      /\ memory.dcAuthKeys \in [Dcs -> 0 .. Len(made)]
  BY DEF Typed, StoredRecords
<1>4. (disk.dcAuthKeys[d] # None => made'[disk.dcAuthKeys[d]] = d)
      /\ (memory.dcAuthKeys[d] # None => made'[memory.dcAuthKeys[d]] = d)
  BY <1>2, <1>3 DEF Fits
<1>5. CASE memory'.dcAuthKeys = memory.dcAuthKeys /\ disk'.dcAuthKeys = disk.dcAuthKeys
  BY <1>4, <1>5
<1>6. CASE /\ disk'.dcAuthKeys = memory'.dcAuthKeys
           /\ memory'.dcAuthKeys = [memory.dcAuthKeys EXCEPT ![dc] = key]
  <2>1. memory'.dcAuthKeys[d] = IF d = dc THEN key ELSE memory.dcAuthKeys[d] BY <1>3, <1>6
  <2> QED BY <1>1, <1>4, <1>6, <2>1
<1> QED BY <1>5, <1>6

-----------------------------------------------------------------------------
(* Where the callers are *)

Places == {"idle", "connecting", "connected", "cleared", "purging", "reconnect"}

LEMMA Alone ==
    ASSUME PlaceInv, ~mixed, NEW t \in Tasks, task[t] # "idle"
    PROVE  \A u \in Tasks \ {t} : task[u] = "idle"
BY DEF PlaceInv

\* One caller goes on while the others rest.
LEMMA OneGoes ==
    ASSUME Typed, NEW t \in Tasks, NEW where \in Places, Goes(t, where), mixed => mixed',
           ~mixed' => /\ \A u \in Tasks \ {t} : task[u] = "idle"
                      /\ where = "idle" => AtHome'
                      /\ Place(where)'
    PROVE  task' \in [Tasks -> Places] /\ PlaceInv'
<1>1. task \in [Tasks -> Places] BY DEF Typed, Places
<1>2. task' = [task EXCEPT ![t] = where] BY DEF Goes
<1>3. task'[t] = where /\ \A u \in Tasks \ {t} : task'[u] = task[u] BY <1>1, <1>2
<1>4. task' \in [Tasks -> Places] BY <1>1, <1>2
<1>5. ASSUME ~mixed'
      PROVE  /\ \A u \in Tasks : task'[u] # "idle" => u = t
             /\ ~Busy' => AtHome'
             /\ \A u \in Tasks : Place(task[u])'
  <2>1. \A u \in Tasks : task'[u] = IF u = t THEN where ELSE "idle" BY <1>3, <1>5
  <2>2. where # "idle" => Busy' BY <2>1 DEF Busy
  <2>3. \A u \in Tasks : Place(task[u])' BY <1>5, <2>1 DEF Place
  <2> QED BY <1>5, <2>1, <2>2, <2>3
<1> QED BY <1>4, <1>5 DEF PlaceInv

LEMMA SameDcs ==
    ASSUME DcInv, memory'.dc = memory.dc, memory'.address = memory.address,
           disk'.dc = disk.dc, disk'.address = disk.address, torn' = torn
    PROVE  DcInv'
BY DEF DcInv

LEMMA Assembled == ASSUME Typed', SharedInv', DcInv', OthersFit', PlaceInv' PROVE SessionInv'
BY DEF SessionInv

\* connect() loads the session and makes a sender, if there is none.
LEMMA ConnectStep ==
    ASSUME SessionInv, NEW t \in Tasks, Connect(t)
    PROVE  SessionInv'
<1>0. Typed /\ SharedInv /\ DcInv /\ OthersFit /\ PlaceInv BY DEF SessionInv
<1>1. PICK n \in Nat : n = Len(made) BY <1>0, Count
<1>2. memory \in StoredRecords(n) /\ disk \in StoredRecords(n) /\ sender \in SenderRecords(n)
  BY <1>0, <1>1 DEF Typed
<1>3. PICK s : s = IF NoAddress THEN AtDc(Loaded, DefaultDc) ELSE Loaded OBVIOUS
<1>4. /\ task[t] = "reconnect" \/ (task[t] = "idle" /\ ~sender.connected)
      /\ memory' = s /\ disk' = IF NoAddress THEN AtDc(disk, DefaultDc) ELSE disk
      /\ torn' = (torn /\ ~NoAddress)
      /\ sender' = IF sender.exists
                   THEN [sender EXCEPT !.address = s.address, !.shared = @ /\ disk.authKey = None]
                   ELSE [NoSender EXCEPT !.exists = TRUE, !.dc = s.dc, !.address = s.address,
                                         !.key = s.authKey, !.shared = s.authKey # None]
      /\ mixed' = (mixed \/ \E u \in Tasks \ {t} : task[u] # "idle")
      /\ Goes(t, "connecting")
      /\ UNCHANGED <<made, crashes>>
  BY <1>3 DEF Connect, MayConnect
<1>5. /\ s.authKey = Over(disk.authKey, memory.authKey)
      /\ s.dcAuthKeys = [d \in Dcs |-> Over(disk.dcAuthKeys[d], memory.dcAuthKeys[d])]
      /\ s.dc = IF NoAddress THEN DefaultDc ELSE Loaded.dc
      /\ s.address = IF NoAddress THEN DefaultDc ELSE Loaded.address
      /\ s = [dc |-> s.dc, address |-> s.address, authKey |-> s.authKey, dcAuthKeys |-> s.dcAuthKeys]
  BY <1>3 DEF Loaded, AtDc
<1>6. /\ s.dc \in Dcs \cup {None} /\ s.address \in Dcs /\ s.authKey \in 0 .. n
      /\ s.dcAuthKeys \in [Dcs -> 0 .. n]
  <2>1. Loaded.dc \in Dcs \cup {None} /\ Loaded.address \in Dcs \cup {None}
    BY <1>2 DEF Loaded, Over, StoredRecords
  <2>2. s.dc \in Dcs \cup {None} /\ s.address \in Dcs BY <1>5, <2>1, Numbers DEF NoAddress
  <2>3. s.authKey \in 0 .. n BY <1>2, <1>5 DEF Over, StoredRecords
  <2>4. \A d \in Dcs : Over(disk.dcAuthKeys[d], memory.dcAuthKeys[d]) \in 0 .. n
    BY <1>2 DEF Over, StoredRecords
  <2> QED BY <1>5, <2>2, <2>3, <2>4
<1>7. s \in StoredRecords(n) BY <1>5, <1>6 DEF StoredRecords
<1>8. PICK d : d = IF NoAddress THEN AtDc(disk, DefaultDc) ELSE disk OBVIOUS
<1>9. /\ d \in StoredRecords(n) /\ d.dcAuthKeys = disk.dcAuthKeys
      /\ IF NoAddress THEN d.dc = DefaultDc /\ d.address = DefaultDc
                      ELSE d.dc = disk.dc /\ d.address = disk.address
  BY <1>2, <1>8, Numbers DEF StoredRecords, AtDc
<1>10. /\ s.address # None /\ s.dc = d.dc /\ s.address = d.address
       /\ d.dc = d.address \/ (torn /\ ~NoAddress)
  <2>1. CASE NoAddress BY <1>5, <1>9, <2>1, Numbers
  <2>2. CASE ~NoAddress
    <3>1. Loaded.dc = disk.dc /\ Loaded.address = disk.address
      BY <1>0, <2>2 DEF DcInv, Loaded, Over, NoAddress
    <3> QED BY <1>0, <1>5, <1>9, <2>2, <3>1 DEF DcInv, NoAddress
  <2> QED BY <2>1, <2>2
<1>11. PICK b \in BOOLEAN : b = (sender.shared /\ disk.authKey = None) OBVIOUS
<1>12. PICK c \in BOOLEAN : c = (s.authKey # None) OBVIOUS
<1>13. sender' \in SenderRecords(n) /\ (sender'.shared => s.authKey = sender'.key)
       /\ (~sender.exists => sender'.exists /\ ~sender'.connected /\ sender'.dc = s.dc /\ sender'.address = s.address)
  <2>1. CASE sender.exists
    <3>1. PICK r : r = [sender EXCEPT !.address = s.address, !.shared = b] OBVIOUS
    <3>2. r \in SenderRecords(n) /\ r.shared = b /\ r.key = sender.key
      BY <1>2, <1>6, <3>1 DEF SenderRecords
    <3>3. sender' = r BY <1>4, <1>11, <2>1, <3>1
    <3>4. b => s.authKey = sender.key BY <1>0, <1>5, <1>11 DEF SharedInv, Over
    <3> QED BY <2>1, <3>2, <3>3, <3>4
  <2>2. CASE ~sender.exists
    <3>1. PICK r : r = [NoSender EXCEPT !.exists = TRUE, !.dc = s.dc, !.address = s.address,
                                        !.key = s.authKey, !.shared = c]
      OBVIOUS
    <3>2. r \in SenderRecords(n) /\ r.key = s.authKey /\ r.exists /\ ~r.connected /\ r.dc = s.dc
          /\ r.address = s.address
      BY <1>6, <3>1 DEF SenderRecords, NoSender
    <3>3. sender' = r BY <1>4, <1>12, <2>2, <3>1
    <3> QED BY <2>2, <3>2, <3>3
  <2> QED BY <2>1, <2>2
<1>14. mixed' \in BOOLEAN /\ (mixed => mixed') /\ torn' \in BOOLEAN BY <1>0, <1>4 DEF Typed
<1>15. ~mixed' => ~mixed /\ (\A u \in Tasks \ {t} : task[u] = "idle") /\ ~sender.exists
  <2>1. SUFFICES ASSUME ~mixed' PROVE ~mixed /\ (\A u \in Tasks \ {t} : task[u] = "idle") /\ ~sender.exists
    OBVIOUS
  <2>2. ~mixed /\ \A u \in Tasks \ {t} : task[u] = "idle" BY <1>0, <1>4, <2>1 DEF Typed
  <2>3. CASE task[t] = "reconnect" BY <1>0, <2>2, <2>3 DEF PlaceInv, Place
  <2>4. CASE task[t] = "idle" /\ ~sender.connected
    <3>1. ~Busy BY <2>2, <2>4 DEF Busy
    <3>2. AtHome BY <1>0, <2>2, <3>1 DEF PlaceInv
    <3> QED BY <2>2, <2>4, <3>2 DEF AtHome
  <2> QED BY <1>4, <2>3, <2>4
<1>16. ~mixed' => Place("connecting")'
  BY <1>4, <1>8, <1>9, <1>10, <1>13, <1>15 DEF Place, SameDc
<1>17. task' \in [Tasks -> Places] /\ PlaceInv'
  BY <1>0, <1>4, <1>14, <1>15, <1>16, OneGoes DEF Places
<1>18. Typed' BY <1>0, <1>1, <1>4, <1>7, <1>8, <1>9, <1>13, <1>14, <1>17 DEF Typed, Places
<1>19. SharedInv' BY <1>4, <1>13 DEF SharedInv
<1>20. OthersFit'
  <2>1. ASSUME ~mixed', NEW e \in Dcs PROVE Fits(disk.dcAuthKeys[e], e) /\ Fits(s.dcAuthKeys[e], e)
    BY <1>0, <1>5, <1>15, <2>1 DEF OthersFit, Over
  <2>2. memory' = s /\ disk'.dcAuthKeys = disk.dcAuthKeys /\ made' = made BY <1>4, <1>8, <1>9
  <2> QED BY <2>1, <2>2 DEF OthersFit, Fits
<1>21. DcInv' BY <1>4, <1>8, <1>10 DEF DcInv
<1> QED BY <1>17, <1>18, <1>19, <1>20, <1>21, Assembled

-----------------------------------------------------------------------------
(* Key exchanges *)

\* A key that is made for dc is set, of the data center at the address a.
LEMMA NewKeySet ==
    ASSUME Typed, OthersFit, NEW a \in Dcs \cup {None}, NEW dc \in Dcs \cup {None},
           Make(a), SetAuthKey(NewKey, dc), UNCHANGED mixed, ~mixed => IsMain(dc) \/ a = dc
    PROVE  /\ made' \in Seq(Dcs \cup {None}) /\ Len(made') \in Nat /\ Len(made) <= Len(made')
           /\ NewKey \in 0 .. Len(made') /\ NewKey # None /\ made'[NewKey] = a
           /\ \A k \in 0 .. Len(made) : k \in 0 .. Len(made') /\ (k # None => made'[k] = made[k])
           /\ memory' \in StoredRecords(Len(made')) /\ disk' \in StoredRecords(Len(made'))
           /\ memory'.dc = memory.dc /\ disk'.dc = disk.dc
           /\ memory'.address = memory.address /\ disk'.address = disk.address
           /\ IsMain(dc) => memory'.authKey = NewKey /\ disk'.authKey = NewKey
           /\ ~IsMain(dc) => memory'.authKey = memory.authKey /\ disk'.authKey = disk.authKey
           /\ OthersFit'
<1>1. /\ made' \in Seq(Dcs \cup {None}) /\ Len(made') = Len(made) + 1
      /\ NewKey \in 0 .. Len(made') /\ NewKey # None /\ made'[NewKey] = a
      /\ \A k \in 0 .. Len(made) : k \in 0 .. Len(made') /\ (k # None => made'[k] = made[k])
  BY KeyIsMade
<1>2. Len(made) \in Nat /\ Len(made') \in Nat /\ Len(made) <= Len(made') BY <1>1, Count
<1>3. memory \in StoredRecords(Len(made')) /\ disk \in StoredRecords(Len(made'))
  BY <1>2, MoreKeys DEF Typed
<1>4. PICK key \in 0 .. Len(made') : key = NewKey BY <1>1
<1>5. /\ memory' \in StoredRecords(Len(made')) /\ disk' \in StoredRecords(Len(made'))
      /\ memory'.dc = memory.dc /\ disk'.dc = disk.dc
      /\ memory'.address = memory.address /\ disk'.address = disk.address
      /\ IsMain(dc) => /\ memory'.authKey = key /\ disk'.authKey = key
                       /\ memory'.dcAuthKeys = memory.dcAuthKeys
                       /\ disk'.dcAuthKeys = disk.dcAuthKeys
      /\ ~IsMain(dc) => /\ memory'.authKey = memory.authKey /\ disk'.authKey = disk.authKey
                        /\ dc \in Dcs /\ dc # memory.dc
                        /\ memory'.dcAuthKeys = [memory.dcAuthKeys EXCEPT ![dc] = key]
                        /\ disk'.dcAuthKeys = memory'.dcAuthKeys
  <2>1. SetAuthKey(key, dc) BY <1>4
  <2>2. KeySet(Len(made'), key, dc) BY <1>2, <1>3, <2>1, KeyIsSet
  <2> QED BY <2>2 DEF KeySet
<1>6. mixed' \in BOOLEAN /\ (mixed => mixed') BY DEF Typed
<1>7. OthersFit'
  <2>1. CASE IsMain(dc)
    <3>1. memory'.dcAuthKeys = memory.dcAuthKeys /\ disk'.dcAuthKeys = disk.dcAuthKeys
      BY <1>5, <2>1
    <3>2. \A k \in 0 .. Len(made) : k # None => made'[k] = made[k] BY <1>1
    <3>3. ~mixed' => (None # None => made'[None] = dc) OBVIOUS
    <3> QED BY <1>1, <1>6, <3>1, <3>2, <3>3, OthersKeep
  <2>2. CASE ~IsMain(dc)
    <3>1. ~mixed' => (key # None => made'[key] = dc) BY <1>1, <1>4, <2>2 DEF Typed
    <3>2. \A k \in 0 .. Len(made) : k # None => made'[k] = made[k] BY <1>1
    <3> QED BY <1>1, <1>5, <1>6, <2>2, <3>1, <3>2, OthersKeep
  <2> QED BY <2>1, <2>2
<1> QED BY <1>1, <1>2, <1>4, <1>5, <1>7

\* The exchange of the main sender.
LEMMA Exchanged ==
    ASSUME SessionInv, Exchange, UNCHANGED <<torn, mixed>>,
           ~mixed => IsMain(sender.dc)
    PROVE  /\ made' \in Seq(Dcs \cup {None})
           /\ memory' \in StoredRecords(Len(made')) /\ disk' \in StoredRecords(Len(made'))
           /\ sender' \in SenderRecords(Len(made'))
           /\ memory'.dc = memory.dc /\ disk'.dc = disk.dc /\ sender'.dc = sender.dc
           /\ memory'.address = memory.address /\ disk'.address = disk.address
           /\ sender'.address = sender.address /\ sender'.exists = sender.exists
           /\ sender'.connected = TRUE /\ sender'.key # None /\ made'[sender'.key] = sender.address
           /\ IsMain(sender.dc) => memory'.authKey = sender'.key /\ disk'.authKey = sender'.key
           /\ sender'.shared <=> IsMain(sender.dc)
           /\ SharedInv' /\ DcInv' /\ OthersFit'
<1>0. Typed /\ DcInv /\ OthersFit BY DEF SessionInv
<1>1. sender \in SenderRecords(Len(made)) BY <1>0 DEF Typed
<1>2. PICK a \in Dcs \cup {None} : a = sender.address BY <1>1 DEF SenderRecords
<1>3. PICK dc \in Dcs \cup {None} : dc = sender.dc BY <1>1 DEF SenderRecords
<1>4. Make(a) /\ SetAuthKey(NewKey, dc)
      /\ sender' = [sender EXCEPT !.connected = TRUE, !.key = NewKey, !.shared = IsMain(dc)]
  BY <1>2, <1>3 DEF Exchange
<1>5. /\ made' \in Seq(Dcs \cup {None}) /\ Len(made') \in Nat /\ Len(made) <= Len(made')
      /\ NewKey \in 0 .. Len(made') /\ NewKey # None /\ made'[NewKey] = a
      /\ memory' \in StoredRecords(Len(made')) /\ disk' \in StoredRecords(Len(made'))
      /\ memory'.dc = memory.dc /\ disk'.dc = disk.dc
      /\ memory'.address = memory.address /\ disk'.address = disk.address
      /\ IsMain(dc) => memory'.authKey = NewKey /\ disk'.authKey = NewKey
      /\ OthersFit'
  BY <1>0, <1>2, <1>3, <1>4, NewKeySet
<1>6. PICK key \in 0 .. Len(made'), b \in BOOLEAN : key = NewKey /\ (b <=> IsMain(dc))
  BY <1>5 DEF IsMain
<1>7. sender \in SenderRecords(Len(made')) BY <1>1, <1>5, Count, <1>0, MoreKeys
<1>8. PICK r : r = [sender EXCEPT !.connected = TRUE, !.key = key, !.shared = b] OBVIOUS
<1>9. /\ r \in SenderRecords(Len(made')) /\ r.dc = sender.dc /\ r.address = sender.address
      /\ r.exists = sender.exists /\ r.connected = TRUE /\ r.key = key /\ r.shared = b
  BY <1>7, <1>8 DEF SenderRecords
<1>10. b = IsMain(dc)
  <2>1. IsMain(dc) \in BOOLEAN BY DEF IsMain
  <2> QED BY <1>6, <2>1
<1>11. sender' = r BY <1>4, <1>6, <1>8, <1>10
<1>12. SharedInv' BY <1>5, <1>6, <1>9, <1>11 DEF SharedInv
<1>13. DcInv' BY <1>0, <1>5, SameDcs
<1> QED BY <1>2, <1>3, <1>5, <1>6, <1>9, <1>11, <1>12, <1>13

LEMMA AuthenticateStep ==
    ASSUME SessionInv, NEW t \in Tasks, Authenticate(t)
    PROVE  SessionInv'
<1>0. Typed /\ SharedInv /\ DcInv /\ OthersFit /\ PlaceInv BY DEF SessionInv
<1>1. task[t] = "connecting" /\ sender.exists /\ ~sender.connected /\ mixed' = mixed /\ torn' = torn
      /\ task \in [Tasks -> Places] /\ mixed \in BOOLEAN /\ torn \in BOOLEAN
      /\ memory \in StoredRecords(Len(made)) /\ disk \in StoredRecords(Len(made))
      /\ sender \in SenderRecords(Len(made)) /\ made \in Seq(Dcs \cup {None}) /\ None \in 0 .. Len(made)
  BY <1>0, Count, Numbers DEF Authenticate, Typed, Places
<1>2. ~mixed => SameDc /\ \A u \in Tasks \ {t} : task[u] = "idle"
  BY <1>0, <1>1, Alone DEF PlaceInv, Place
<1>3. CASE sender.key = None /\ Exchange /\ Goes(t, "connected")
  <2>1. UNCHANGED <<torn, mixed>> BY <1>1
  <2>2. ~mixed => IsMain(sender.dc) BY <1>2 DEF SameDc, IsMain
  <2>3. /\ made' \in Seq(Dcs \cup {None})
        /\ memory' \in StoredRecords(Len(made')) /\ disk' \in StoredRecords(Len(made'))
        /\ sender' \in SenderRecords(Len(made'))
        /\ memory'.dc = memory.dc /\ disk'.dc = disk.dc /\ sender'.dc = sender.dc
        /\ memory'.address = memory.address /\ disk'.address = disk.address
        /\ sender'.address = sender.address /\ sender'.exists = sender.exists
        /\ sender'.connected = TRUE /\ sender'.key # None /\ made'[sender'.key] = sender.address
        /\ SharedInv' /\ DcInv' /\ OthersFit'
    BY <1>3, <2>1, <2>2, Exchanged
  <2>4. ~mixed' => Place("connected")'
    BY <1>1, <1>2, <2>3 DEF Place, SameDc, HasKey, Fits
  <2>5. task' \in [Tasks -> Places] /\ PlaceInv'
    BY <1>0, <1>1, <1>2, <1>3, <2>4, OneGoes DEF Places
  <2>6. Typed' BY <1>1, <2>3, <2>5 DEF Typed, Places
  <2> QED BY <2>3, <2>5, <2>6, Assembled
<1>4. CASE /\ sender.key # None /\ made[sender.key] = sender.address
           /\ sender' = [sender EXCEPT !.connected = TRUE, !.authenticated = TRUE]
           /\ Goes(t, "connected") /\ UNCHANGED <<memory, disk, made>>
  <2>1. /\ sender' \in SenderRecords(Len(made)) /\ sender'.connected = TRUE
        /\ sender'.exists = sender.exists /\ sender'.key = sender.key /\ sender'.dc = sender.dc
        /\ sender'.address = sender.address /\ sender'.shared = sender.shared
    BY <1>1, <1>4 DEF SenderRecords
  <2>2. ~mixed' => Place("connected")'
    BY <1>1, <1>2, <1>4, <2>1 DEF Place, SameDc, HasKey, Fits
  <2>3. task' \in [Tasks -> Places] /\ PlaceInv'
    BY <1>0, <1>1, <1>2, <1>4, <2>2, OneGoes DEF Places
  <2>4. Typed' BY <1>1, <1>4, <2>1, <2>3 DEF Typed, Places
  <2>5. SharedInv' BY <1>0, <1>4, <2>1 DEF SharedInv
  <2>6. OthersFit' BY <1>0, <1>1, <1>4 DEF OthersFit, Fits
  <2>7. DcInv' BY <1>0, <1>1, <1>4, SameDcs
  <2> QED BY <2>3, <2>4, <2>5, <2>6, <2>7, Assembled
<1>5. CASE Refused /\ UNCHANGED <<disk, made, task>>
  <2>1. /\ sender' \in SenderRecords(Len(made)) /\ sender'.key = None
        /\ sender'.connected = sender.connected
        /\ sender'.exists = sender.exists /\ sender'.dc = sender.dc
        /\ sender'.address = sender.address /\ sender'.shared = sender.shared
    BY <1>1, <1>5 DEF SenderRecords, Refused
  <2>2. PICK key \in 0 .. Len(made) : key = IF sender.shared THEN None ELSE memory.authKey
    BY <1>1 DEF StoredRecords
  <2>3. memory' = [memory EXCEPT !.authKey = key] BY <1>5, <2>2 DEF Refused
  <2>4. memory' \in StoredRecords(Len(made)) /\ memory'.authKey = key /\ memory'.dc = memory.dc
        /\ memory'.address = memory.address
        /\ memory'.dcAuthKeys = memory.dcAuthKeys
    BY <1>1, <2>3 DEF StoredRecords
  <2>5. ~mixed => Place("connecting")' BY <1>1, <1>2, <1>5, <2>1, <2>4 DEF Place, SameDc
  <2>6. PlaceInv'
    <3>1. ~mixed => Busy' BY <1>1, <1>5 DEF Busy
    <3>2. ~mixed => \A u \in Tasks : task[u] \in {"connecting", "idle"} /\ (task[u] # "idle" => u = t)
      BY <1>1, <1>2
    <3>3. ~mixed => \A u \in Tasks : Place(task[u])' BY <1>5, <2>5, <3>2 DEF Place
    <3> QED BY <1>1, <1>5, <3>1, <3>2, <3>3 DEF PlaceInv
  <2>7. Typed' BY <1>1, <1>5, <2>1, <2>4 DEF Typed, Places
  <2>8. SharedInv' BY <2>1, <2>2, <2>4 DEF SharedInv
  <2>9. OthersFit' BY <1>0, <1>1, <1>5, <2>4 DEF OthersFit, Fits
  <2>10. DcInv' BY <1>0, <1>1, <1>5, <2>4, SameDcs
  <2> QED BY <2>6, <2>7, <2>8, <2>9, <2>10, Assembled
<1> QED BY <1>3, <1>4, <1>5 DEF Authenticate

LEMMA ReconnectStep ==
    ASSUME SessionInv, Reconnect
    PROVE  SessionInv'
<1>0. Typed /\ SharedInv /\ DcInv /\ OthersFit /\ PlaceInv BY DEF SessionInv
<1>1. sender.connected /\ ~Busy /\ Exchange /\ UNCHANGED <<task, torn, mixed>> BY DEF Reconnect
<1>2. ~mixed => sender.exists /\ SameDc /\ IsMain(sender.dc)
  BY <1>0, <1>1 DEF PlaceInv, AtHome, Settled, SameDc, IsMain
<1>3. UNCHANGED <<torn, mixed>> BY <1>1
<1>4. /\ made' \in Seq(Dcs \cup {None})
      /\ memory' \in StoredRecords(Len(made')) /\ disk' \in StoredRecords(Len(made'))
      /\ sender' \in SenderRecords(Len(made'))
      /\ memory'.dc = memory.dc /\ disk'.dc = disk.dc /\ sender'.dc = sender.dc
      /\ memory'.address = memory.address /\ disk'.address = disk.address
      /\ sender'.address = sender.address /\ sender'.exists = sender.exists
      /\ sender'.connected = TRUE /\ sender'.key # None /\ made'[sender'.key] = sender.address
      /\ IsMain(sender.dc) => memory'.authKey = sender'.key /\ disk'.authKey = sender'.key
      /\ sender'.shared <=> IsMain(sender.dc)
      /\ SharedInv' /\ DcInv' /\ OthersFit'
  BY <1>1, <1>2, <1>3, Exchanged
<1>5. Typed' BY <1>0, <1>1, <1>4 DEF Typed
<1>6. ~mixed => SameDc' /\ memory'.authKey = sender'.key /\ disk'.authKey = sender'.key
  BY <1>2, <1>4 DEF SameDc
<1>7. ~mixed => AtHome' BY <1>2, <1>4, <1>6 DEF AtHome, Settled, SameDc, HasKey, Fits
<1>8. PlaceInv'
  <2>1. \A t \in Tasks : task[t] = "idle" BY <1>1 DEF Busy
  <2>2. \A t \in Tasks : Place(task[t])' BY <1>1, <2>1 DEF Place
  <2> QED BY <1>1, <1>7, <2>1, <2>2 DEF PlaceInv
<1> QED BY <1>4, <1>5, <1>8, Assembled

LEMMA OtherSenderStep ==
    ASSUME SessionInv, NEW dc \in Dcs, OtherSender(dc)
    PROVE  SessionInv'
<1>0. Typed /\ SharedInv /\ DcInv /\ OthersFit /\ PlaceInv BY DEF SessionInv
<1>1. PICK refused \in BOOLEAN : refused <=> (dc = memory.dc /\ memory.authKey # None) OBVIOUS
<1>2. /\ sender.connected
      /\ refused => dc = memory.dc /\ made[memory.authKey] # dc
      /\ Make(dc) /\ SetAuthKey(NewKey, dc)
      /\ sender' = [sender EXCEPT !.shared = @ /\ (refused \/ dc # memory.dc),
                                  !.key = IF refused /\ sender.shared THEN NewKey ELSE @]
      /\ UNCHANGED <<task, torn, mixed>>
  <2>1. refused = (dc = memory.dc /\ memory.authKey # None) BY <1>1
  <2> QED BY <2>1 DEF OtherSender
<1>3. IsMain(dc) <=> dc = memory.dc BY Numbers DEF IsMain
<1>4. /\ made' \in Seq(Dcs \cup {None}) /\ Len(made') \in Nat /\ Len(made) <= Len(made')
      /\ NewKey \in 0 .. Len(made') /\ NewKey # None /\ made'[NewKey] = dc
      /\ \A k \in 0 .. Len(made) : k \in 0 .. Len(made') /\ (k # None => made'[k] = made[k])
      /\ memory' \in StoredRecords(Len(made')) /\ disk' \in StoredRecords(Len(made'))
      /\ memory'.dc = memory.dc /\ disk'.dc = disk.dc
      /\ memory'.address = memory.address /\ disk'.address = disk.address
      /\ IsMain(dc) => memory'.authKey = NewKey /\ disk'.authKey = NewKey
      /\ ~IsMain(dc) => memory'.authKey = memory.authKey /\ disk'.authKey = disk.authKey
      /\ OthersFit'
  <2>1. dc \in Dcs \cup {None} OBVIOUS
  <2>2. UNCHANGED mixed BY <1>2
  <2> QED BY <1>0, <1>2, <2>1, <2>2, NewKeySet
<1>5. PICK b \in BOOLEAN : b <=> (sender.shared /\ (refused \/ dc # memory.dc)) OBVIOUS
<1>6. sender \in SenderRecords(Len(made)) BY <1>0 DEF Typed
<1>7. sender \in SenderRecords(Len(made')) BY <1>0, <1>4, <1>6, Count, MoreKeys
<1>8. PICK key \in 0 .. Len(made') : key = IF refused /\ sender.shared THEN NewKey ELSE sender.key
  <2>1. sender.key \in 0 .. Len(made') BY <1>7 DEF SenderRecords
  <2> QED BY <1>4, <2>1
<1>9. PICK r : r = [sender EXCEPT !.shared = b, !.key = key] OBVIOUS
<1>10. /\ r \in SenderRecords(Len(made')) /\ r.shared = b /\ r.key = key
       /\ r.connected = sender.connected /\ r.exists = sender.exists /\ r.dc = sender.dc
       /\ r.address = sender.address
  BY <1>7, <1>9 DEF SenderRecords
<1>11. sender' = r
  <2>1. (sender.shared /\ (refused \/ dc # memory.dc)) = b BY <1>5
  <2> QED BY <1>2, <1>8, <1>9, <2>1
<1>12. Typed' BY <1>0, <1>2, <1>4, <1>10, <1>11 DEF Typed
<1>13. SharedInv'
  <2>1. CASE refused BY <1>2, <1>3, <1>4, <1>5, <1>8, <1>10, <1>11, <2>1 DEF SharedInv
  <2>2. CASE ~refused BY <1>0, <1>3, <1>4, <1>5, <1>8, <1>10, <1>11, <2>2 DEF SharedInv
  <2> QED BY <2>1, <2>2
<1>14. DcInv' BY <1>0, <1>2, <1>4, SameDcs
<1>15. SameDc => SameDc' BY <1>4, <1>10, <1>11 DEF SameDc
\* The new key is of the number the session has, which is its address unless a write was torn.
<1>16. SameDc /\ HasKey => HasKey'
  <2>1. SUFFICES ASSUME SameDc, HasKey PROVE HasKey' OBVIOUS
  <2>2. memory.dc = memory.address \/ torn BY <1>0, <2>1 DEF DcInv, SameDc
  <2>3. CASE key = NewKey /\ refused
    <3>1. sender'.key # None /\ made'[sender'.key] = memory.dc BY <1>2, <1>4, <1>10, <1>11, <2>3
    <3> QED BY <1>2, <1>4, <2>2, <3>1 DEF HasKey, Fits
  <2>4. CASE key = sender.key
    <3>1. made'[key] = made[key] BY <1>4, <1>6, <2>1, <2>4 DEF HasKey, SenderRecords
    <3>2. sender'.key = key BY <1>10, <1>11
    <3>3. torn' = torn /\ memory'.dc = memory.dc /\ memory'.address = memory.address BY <1>2, <1>4
    <3> QED BY <2>1, <2>4, <3>1, <3>2, <3>3 DEF HasKey, Fits
  <2> QED BY <1>8, <2>3, <2>4
<1>17. PlaceInv'
  <2>1. AtHome => AtHome'
    <3>1. SUFFICES ASSUME Settled, sender.exists PROVE AtHome' BY <1>2 DEF AtHome
    <3>2. refused \/ dc # memory.dc BY <1>1, <3>1 DEF Settled, HasKey
    <3>3. sender'.shared BY <1>5, <1>10, <1>11, <3>1, <3>2 DEF Settled
    <3>4. memory'.authKey = sender'.key /\ disk'.authKey = sender'.key
      BY <1>2, <1>3, <1>4, <1>8, <1>10, <1>11, <3>1, <3>2 DEF Settled
    <3>5. SameDc' /\ HasKey' BY <1>15, <1>16, <3>1 DEF Settled
    <3> QED BY <1>2, <1>10, <1>11, <3>1, <3>3, <3>4, <3>5 DEF AtHome, Settled
  <2>2. ASSUME NEW t \in Tasks, Place(task[t]) PROVE Place(task[t])'
    <3>1. task'[t] = task[t] BY <1>2
    <3>2. task[t] # "connecting" /\ task[t] # "reconnect" BY <1>2, <2>2 DEF Place
    <3>3. CASE task[t] = "connected"
      BY <1>2, <1>10, <1>11, <1>15, <1>16, <2>2, <3>1, <3>3 DEF Place
    <3>4. CASE task[t] # "connected" BY <3>1, <3>2, <3>4 DEF Place
    <3> QED BY <3>3, <3>4
  <2>3. Busy' <=> Busy BY <1>2 DEF Busy
  <2> QED BY <1>0, <1>2, <2>1, <2>2, <2>3 DEF PlaceInv
<1> QED BY <1>4, <1>12, <1>13, <1>14, <1>17, Assembled

\* The key of another data center is dropped.
LEMMA OtherBreaksStep ==
    ASSUME SessionInv, NEW dc \in Dcs, OtherBreaks(dc)
    PROVE  SessionInv'
<1>0. Typed /\ SharedInv /\ DcInv /\ OthersFit /\ PlaceInv BY DEF SessionInv
<1>1. dc # memory.dc /\ SetAuthKey(None, dc) /\ UNCHANGED <<sender, task, made, torn, mixed>>
  BY DEF OtherBreaks
<1>2. ~IsMain(dc) BY <1>1, Numbers DEF IsMain
<1>3. PICK n \in Nat : n = Len(made) BY <1>0, Count
<1>4. memory \in StoredRecords(n) /\ disk \in StoredRecords(n) /\ None \in 0 .. n
  BY <1>0, <1>3, Numbers DEF Typed
<1>5. /\ memory' \in StoredRecords(n) /\ disk' \in StoredRecords(n)
      /\ memory'.dc = memory.dc /\ disk'.dc = disk.dc
      /\ memory'.address = memory.address /\ disk'.address = disk.address
      /\ memory'.authKey = memory.authKey /\ disk'.authKey = disk.authKey
      /\ memory'.dcAuthKeys = [memory.dcAuthKeys EXCEPT ![dc] = None]
      /\ disk'.dcAuthKeys = memory'.dcAuthKeys
  <2>1. dc \in Dcs \cup {None} OBVIOUS
  <2> QED BY <1>1, <1>2, <1>4, <2>1, KeyIsSet DEF KeySet
<1>6. Typed' BY <1>0, <1>1, <1>3, <1>5 DEF Typed
<1>7. SharedInv' BY <1>0, <1>1, <1>5 DEF SharedInv
<1>8. OthersFit'
  <2>1. made' \in Seq(Dcs \cup {None}) /\ mixed' \in BOOLEAN /\ (mixed => mixed')
        /\ \A k \in 0 .. Len(made) : k # None => made'[k] = made[k]
    BY <1>0, <1>1 DEF Typed
  <2>2. dc \in Dcs \cup {None} /\ (~mixed' => (None # None => made'[None] = dc)) OBVIOUS
  <2> QED BY <1>0, <1>5, <2>1, <2>2, OthersKeep
<1>9. /\ (SameDc' <=> SameDc) /\ (Settled' <=> Settled) /\ (AtHome' <=> AtHome) /\ (Busy' <=> Busy)
      /\ \A t \in Tasks : Place(task[t])' <=> Place(task[t])
  BY <1>1, <1>5 DEF SameDc, HasKey, Settled, AtHome, Place, Fits, Busy
<1>10. PlaceInv' BY <1>0, <1>1, <1>9 DEF PlaceInv
<1>11. DcInv' BY <1>0, <1>1, <1>5, SameDcs
<1> QED BY <1>6, <1>7, <1>8, <1>10, <1>11, Assembled

-----------------------------------------------------------------------------
(* The callers go on *)

\* connect() makes the key of the sender that of the session.
LEMMA ConnectedStep ==
    ASSUME SessionInv, NEW t \in Tasks, Connected(t)
    PROVE  SessionInv'
<1>0. Typed /\ SharedInv /\ DcInv /\ OthersFit /\ PlaceInv BY DEF SessionInv
<1>1. /\ task[t] = "connected" /\ SetAuthKey(sender.key, None)
      /\ sender' = [sender EXCEPT !.shared = TRUE]
      /\ Goes(t, "idle") /\ UNCHANGED <<made, torn, mixed>>
  BY DEF Connected
<1>2. PICK n \in Nat : n = Len(made) BY <1>0, Count
<1>3. memory \in StoredRecords(n) /\ disk \in StoredRecords(n) /\ sender \in SenderRecords(n)
      /\ sender.key \in 0 .. n
  BY <1>0, <1>2 DEF Typed, SenderRecords
<1>4. IsMain(None) BY DEF IsMain
<1>5. /\ memory' \in StoredRecords(n) /\ disk' \in StoredRecords(n)
      /\ memory'.dc = memory.dc /\ disk'.dc = disk.dc
      /\ memory'.address = memory.address /\ disk'.address = disk.address
      /\ memory'.authKey = sender.key /\ disk'.authKey = sender.key
      /\ memory'.dcAuthKeys = memory.dcAuthKeys /\ disk'.dcAuthKeys = disk.dcAuthKeys
  <2>1. None \in Dcs \cup {None} OBVIOUS
  <2> QED BY <1>1, <1>3, <1>4, <2>1, KeyIsSet DEF KeySet
<1>6. /\ sender' \in SenderRecords(n) /\ sender'.key = sender.key /\ sender'.dc = sender.dc
      /\ sender'.connected = sender.connected /\ sender'.exists = sender.exists
      /\ sender'.address = sender.address /\ sender'.shared = TRUE
  BY <1>1, <1>3 DEF SenderRecords
<1>7. SharedInv' BY <1>5, <1>6 DEF SharedInv
<1>8. OthersFit' BY <1>0, <1>1, <1>5 DEF OthersFit, Fits
<1>9. ~mixed => sender.exists /\ sender.connected /\ SameDc /\ HasKey
  BY <1>0, <1>1 DEF PlaceInv, Place
<1>10. ~mixed => AtHome'
  <2>1. ~mixed => SameDc' BY <1>5, <1>6, <1>9 DEF SameDc
  <2>2. ~mixed => HasKey' BY <1>1, <1>5, <1>6, <1>9 DEF HasKey, Fits
  <2> QED BY <1>5, <1>6, <1>9, <2>1, <2>2 DEF AtHome, Settled
<1>11. ~mixed => \A u \in Tasks \ {t} : task[u] = "idle" BY <1>0, <1>1, Alone
<1>12. task' \in [Tasks -> Places] /\ PlaceInv'
  <2>1. ~mixed' => Place("idle")' BY DEF Place
  <2>2. mixed => mixed' BY <1>1
  <2>3. ~mixed' => ~mixed BY <1>1
  <2> QED BY <1>0, <1>1, <1>10, <1>11, <2>1, <2>2, <2>3, OneGoes DEF Places
<1>13. Typed' BY <1>0, <1>1, <1>2, <1>5, <1>6, <1>12 DEF Typed, Places
<1>14. DcInv' BY <1>0, <1>1, <1>5, SameDcs
<1> QED BY <1>7, <1>8, <1>12, <1>13, <1>14, Assembled

LEMMA ConnectedAlreadyStep ==
    ASSUME SessionInv, NEW t \in Tasks, ConnectedAlready(t)
    PROVE  SessionInv'
<1>0. Typed /\ SharedInv /\ DcInv /\ OthersFit /\ PlaceInv BY DEF SessionInv
<1>1. /\ task[t] = "connecting" /\ sender.connected /\ Goes(t, "idle")
      /\ UNCHANGED <<memory, disk, sender, made, torn, mixed>>
  BY DEF ConnectedAlready
<1>2. mixed BY <1>0, <1>1 DEF PlaceInv, Place
<1>3. task' \in [Tasks -> Places] /\ PlaceInv' BY <1>0, <1>1, <1>2, OneGoes DEF Places
<1>4. Typed' BY <1>0, <1>1, <1>3 DEF Typed, Places
<1>5. SharedInv' BY <1>0, <1>1 DEF SharedInv
<1>6. OthersFit' BY <1>0, <1>1 DEF OthersFit, Fits
<1>7. DcInv' BY <1>0, <1>1, SameDcs
<1> QED BY <1>3, <1>4, <1>5, <1>6, <1>7, Assembled

\* _switchDC(): the session has the new data center while the old key is cleared.
LEMMA SwitchStep ==
    ASSUME SessionInv, NEW t \in Tasks, NEW dc \in Dcs, Switch(t, dc)
    PROVE  SessionInv'
<1>0. Typed /\ SharedInv /\ DcInv /\ OthersFit /\ PlaceInv BY DEF SessionInv
<1>1. /\ task[t] = "idle"
      /\ memory' = [AtDc(memory, dc) EXCEPT !.authKey = IF sender.shared THEN None ELSE @]
      /\ disk'   = AtDc(disk, dc) /\ torn' = FALSE
      /\ sender' = [sender EXCEPT !.key = None]
      /\ mixed' = (mixed \/ Busy)
      /\ Goes(t, "cleared") /\ UNCHANGED made
  BY DEF Switch, MaySwitch
<1>2. PICK n \in Nat : n = Len(made) BY <1>0, Count
<1>3. memory \in StoredRecords(n) /\ disk \in StoredRecords(n) /\ sender \in SenderRecords(n)
      /\ None \in 0 .. n
  BY <1>0, <1>2, Numbers DEF Typed
<1>4. PICK key \in 0 .. n : key = IF sender.shared THEN None ELSE memory.authKey
  BY <1>3 DEF StoredRecords
<1>5. PICK m : m = [memory EXCEPT !.dc = dc, !.address = dc, !.authKey = key] OBVIOUS
<1>6. /\ m \in StoredRecords(n) /\ m.authKey = key /\ m.dcAuthKeys = memory.dcAuthKeys
      /\ m.dc = dc /\ m.address = dc
  BY <1>3, <1>5 DEF StoredRecords
<1>7. memory' = m
  <2>1. AtDc(memory, dc).authKey = memory.authKey BY <1>3 DEF AtDc, StoredRecords
  <2> QED BY <1>1, <1>3, <1>4, <1>5, <2>1 DEF AtDc, StoredRecords
<1>8. /\ disk' \in StoredRecords(n) /\ disk'.dcAuthKeys = disk.dcAuthKeys
      /\ disk'.dc = dc /\ disk'.address = dc
  BY <1>1, <1>3 DEF AtDc, StoredRecords
<1>9. sender' \in SenderRecords(n) /\ sender'.key = None /\ sender'.shared = sender.shared
  BY <1>1, <1>3 DEF SenderRecords
<1>10. mixed' \in BOOLEAN /\ (mixed => mixed')
  <2>1. Busy \in BOOLEAN BY DEF Busy
  <2> QED BY <1>0, <1>1, <2>1 DEF Typed
<1>11. ~mixed' => ~mixed /\ ~Busy BY <1>1
<1>12. task' \in [Tasks -> Places] /\ PlaceInv'
  <2>1. ~mixed' => \A u \in Tasks \ {t} : task[u] = "idle" BY <1>11 DEF Busy
  <2>2. ~mixed' => Place("cleared")' BY DEF Place
  <2> QED BY <1>0, <1>1, <1>10, <2>1, <2>2, OneGoes DEF Places
<1>13. Typed' BY <1>0, <1>1, <1>2, <1>6, <1>7, <1>8, <1>9, <1>10, <1>12 DEF Typed, Places
<1>14. SharedInv' BY <1>4, <1>6, <1>7, <1>9 DEF SharedInv
<1>15. OthersFit' BY <1>0, <1>1, <1>6, <1>7, <1>8, <1>11 DEF OthersFit, Fits
<1>16. DcInv' BY <1>6, <1>7, <1>8, Numbers DEF DcInv
<1> QED BY <1>12, <1>13, <1>14, <1>15, <1>16, Assembled

LEMMA ClearedStep ==
    ASSUME SessionInv, NEW t \in Tasks, Cleared(t)
    PROVE  SessionInv'
<1>0. Typed /\ SharedInv /\ DcInv /\ OthersFit /\ PlaceInv BY DEF SessionInv
<1>1. /\ task[t] = "cleared" /\ SetAuthKey(None, None)
      /\ sender' = [sender EXCEPT !.shared = FALSE]
      /\ Goes(t, "purging") /\ UNCHANGED <<made, torn, mixed>>
  BY DEF Cleared
<1>2. PICK n \in Nat : n = Len(made) BY <1>0, Count
<1>3. memory \in StoredRecords(n) /\ disk \in StoredRecords(n) /\ sender \in SenderRecords(n)
      /\ None \in 0 .. n
  BY <1>0, <1>2, Numbers DEF Typed
<1>4. IsMain(None) BY DEF IsMain
<1>5. /\ memory' \in StoredRecords(n) /\ disk' \in StoredRecords(n)
      /\ memory'.dc = memory.dc /\ disk'.dc = disk.dc
      /\ memory'.address = memory.address /\ disk'.address = disk.address
      /\ memory'.dcAuthKeys = memory.dcAuthKeys /\ disk'.dcAuthKeys = disk.dcAuthKeys
  <2>1. None \in Dcs \cup {None} OBVIOUS
  <2> QED BY <1>1, <1>3, <1>4, <2>1, KeyIsSet DEF KeySet
<1>6. sender' \in SenderRecords(n) /\ sender'.shared = FALSE BY <1>1, <1>3 DEF SenderRecords
<1>7. SharedInv' BY <1>6 DEF SharedInv
<1>8. OthersFit' BY <1>0, <1>1, <1>5 DEF OthersFit, Fits
<1>9. task' \in [Tasks -> Places] /\ PlaceInv'
  <2>1. ~mixed => \A u \in Tasks \ {t} : task[u] = "idle" BY <1>0, <1>1, Alone
  <2>2. ~mixed' => Place("purging")' BY DEF Place
  <2>3. (mixed => mixed') /\ (~mixed' => ~mixed) BY <1>1
  <2> QED BY <1>0, <1>1, <2>1, <2>2, <2>3, OneGoes DEF Places
<1>10. Typed' BY <1>0, <1>1, <1>2, <1>5, <1>6, <1>9 DEF Typed, Places
<1>11. DcInv' BY <1>0, <1>1, <1>5, SameDcs
<1> QED BY <1>7, <1>8, <1>9, <1>10, <1>11, Assembled

LEMMA PurgedStep ==
    ASSUME SessionInv, NEW t \in Tasks, Purged(t)
    PROVE  SessionInv'
<1>0. Typed /\ SharedInv /\ DcInv /\ OthersFit /\ PlaceInv BY DEF SessionInv
<1>1. /\ task[t] = "purging" /\ sender' = NoSender
      /\ Goes(t, "reconnect") /\ UNCHANGED <<memory, disk, made, torn, mixed>>
  BY DEF Purged
<1>2. sender' \in SenderRecords(Len(made)) /\ sender'.shared = FALSE
      /\ sender'.exists = FALSE /\ sender'.connected = FALSE
  BY <1>0, <1>1, Count, Numbers DEF NoSender
<1>3. SharedInv' BY <1>2 DEF SharedInv
<1>4. OthersFit' BY <1>0, <1>1 DEF OthersFit, Fits
<1>5. task' \in [Tasks -> Places] /\ PlaceInv'
  <2>1. ~mixed => \A u \in Tasks \ {t} : task[u] = "idle" BY <1>0, <1>1, Alone
  <2>2. ~mixed' => Place("reconnect")' BY <1>2 DEF Place
  <2>3. (mixed => mixed') /\ (~mixed' => ~mixed) BY <1>1
  <2> QED BY <1>0, <1>1, <2>1, <2>2, <2>3, OneGoes DEF Places
<1>6. Typed' BY <1>0, <1>1, <1>2, <1>5 DEF Typed, Places
<1>7. DcInv' BY <1>0, <1>1, SameDcs
<1> QED BY <1>3, <1>4, <1>5, <1>6, <1>7, Assembled

-----------------------------------------------------------------------------
(* The session ends, and every step *)

LEMMA EndStep ==
    ASSUME SessionInv, LogOut \/ Crash \/ (\E dc \in Dcs : CrashInSetDC(dc)) \/ UNCHANGED vars
    PROVE  SessionInv'
<1>0. Typed /\ SharedInv /\ DcInv /\ OthersFit /\ PlaceInv BY DEF SessionInv
<1>1. PICK n \in Nat : n = Len(made) BY <1>0, Count
<1>2. Empty \in StoredRecords(n) /\ NoSender \in SenderRecords(n)
      /\ memory \in StoredRecords(n) /\ disk \in StoredRecords(n) /\ sender \in SenderRecords(n)
  BY <1>0, <1>1, Numbers DEF Typed
<1>3. (\A d \in Dcs : Empty.dcAuthKeys[d] = None) /\ Empty.dc = None /\ Empty.address = None BY DEF Empty
<1>4. CASE LogOut
  <2>1. /\ memory' = Empty /\ disk' = Empty /\ mixed' = TRUE /\ UNCHANGED <<task, made, torn>>
        /\ sender' = [sender EXCEPT !.connected = FALSE, !.shared = FALSE]
    BY <1>4 DEF LogOut, Delete
  <2>2. sender' \in SenderRecords(n) /\ sender'.shared = FALSE BY <1>2, <2>1 DEF SenderRecords
  <2>3. Typed' BY <1>0, <1>1, <1>2, <2>1, <2>2 DEF Typed
  <2>4. SharedInv' /\ OthersFit' /\ PlaceInv' BY <2>1, <2>2 DEF SharedInv, OthersFit, PlaceInv
  <2>5. DcInv' BY <1>3, <2>1 DEF DcInv
  <2> QED BY <2>3, <2>4, <2>5, Assembled
<1>5. ASSUME Restart, disk' \in StoredRecords(n), disk'.dcAuthKeys = disk.dcAuthKeys,
             torn' \in BOOLEAN, torn' \/ disk'.dc = disk'.address
      PROVE  SessionInv'
  <2>1. /\ memory' = Empty /\ sender' = NoSender /\ task' = [t \in Tasks |-> "idle"]
        /\ mixed' = (mixed /\ disk # Empty) /\ UNCHANGED made
    BY <1>5 DEF Restart
  <2>2. sender'.shared = FALSE /\ sender'.exists = FALSE /\ sender'.connected = FALSE
    BY <2>1 DEF NoSender
  <2>3. mixed' \in BOOLEAN BY <2>1
  <2>4. Typed' BY <1>0, <1>1, <1>2, <1>5, <2>1, <2>3 DEF Typed
  <2>5. SharedInv' BY <2>2 DEF SharedInv
  <2>6. ASSUME ~mixed', NEW d \in Dcs PROVE Fits(disk.dcAuthKeys[d], d)
    <3>1. CASE disk = Empty BY <1>3, <3>1 DEF Fits
    <3>2. CASE ~mixed BY <1>0, <3>2 DEF OthersFit
    <3> QED BY <2>1, <2>6, <3>1, <3>2
  <2>7. OthersFit' BY <1>3, <1>5, <2>1, <2>6 DEF OthersFit, Fits
  <2>8. PlaceInv' BY <2>1, <2>2 DEF PlaceInv, AtHome, Place
  <2>9. DcInv' BY <1>3, <1>5, <2>1 DEF DcInv
  <2> QED BY <2>4, <2>5, <2>7, <2>8, <2>9, Assembled
<1>6. CASE Crash
  <2>1. Restart /\ disk' = disk /\ torn' = torn BY <1>6 DEF Crash
  <2>2. disk' \in StoredRecords(n) /\ torn' \in BOOLEAN /\ (torn' \/ disk'.dc = disk'.address)
    BY <1>0, <1>2, <2>1 DEF Typed, DcInv
  <2> QED BY <1>5, <2>1, <2>2
<1>7. ASSUME NEW dc \in Dcs, CrashInSetDC(dc) PROVE SessionInv'
  <2>1. Restart /\ disk' = [disk EXCEPT !.dc = dc] /\ torn' = TRUE
    BY <1>7 DEF CrashInSetDC, Renumbered
  <2>2. disk' \in StoredRecords(n) /\ disk'.dcAuthKeys = disk.dcAuthKeys
    BY <1>2, <2>1 DEF StoredRecords
  <2> QED BY <1>5, <2>1, <2>2
<1>8. CASE UNCHANGED vars
  <2>1. UNCHANGED <<disk, memory, sender, task, made, torn, mixed>> BY <1>8 DEF vars
  <2>2. Typed' /\ SharedInv' /\ DcInv' BY <1>0, <2>1 DEF Typed, SharedInv, DcInv
  <2>3. OthersFit' BY <1>0, <2>1 DEF OthersFit, Fits
  <2>4. PlaceInv' BY <1>0, <2>1 DEF PlaceInv, Place, AtHome, Settled, HasKey, SameDc, Fits, Busy
  <2> QED BY <2>2, <2>3, <2>4, Assembled
<1> QED BY <1>4, <1>6, <1>7, <1>8

LEMMA SessionStart == ASSUME Init PROVE SessionInv
<1>1. made = <<>> /\ Len(made) = 0 /\ made \in Seq(Dcs \cup {None}) BY DEF Init
<1>2. Empty \in StoredRecords(0) /\ NoSender \in SenderRecords(0)
  <2>1. 0 \in Nat OBVIOUS
  <2> QED BY <2>1, Numbers
<1>3. Typed BY <1>1, <1>2 DEF Init, Typed
<1>4. \A d \in Dcs : Empty.dcAuthKeys[d] = None BY DEF Empty
<1>5. NoSender.shared = FALSE /\ NoSender.exists = FALSE /\ NoSender.connected = FALSE
  BY DEF NoSender
<1>6. SharedInv /\ OthersFit BY <1>4, <1>5 DEF Init, SharedInv, OthersFit, Fits
<1>8. DcInv BY DEF Init, DcInv, Empty
<1>7. PlaceInv BY <1>5 DEF Init, PlaceInv, AtHome, Place
<1> QED BY <1>3, <1>6, <1>7, <1>8 DEF SessionInv

LEMMA SessionStep == ASSUME SessionInv, [Next]_vars PROVE SessionInv'
<1>1. ASSUME NEW t \in Tasks, Connect(t) PROVE SessionInv' BY <1>1, ConnectStep
<1>2. ASSUME NEW t \in Tasks, Authenticate(t) PROVE SessionInv' BY <1>2, AuthenticateStep
<1>3. ASSUME NEW t \in Tasks, Connected(t) PROVE SessionInv' BY <1>3, ConnectedStep
<1>4. ASSUME NEW t \in Tasks, ConnectedAlready(t) PROVE SessionInv' BY <1>4, ConnectedAlreadyStep
<1>5. ASSUME NEW t \in Tasks, Cleared(t) PROVE SessionInv' BY <1>5, ClearedStep
<1>6. ASSUME NEW t \in Tasks, Purged(t) PROVE SessionInv' BY <1>6, PurgedStep
<1>7. ASSUME NEW t \in Tasks, NEW dc \in Dcs, Switch(t, dc) PROVE SessionInv' BY <1>7, SwitchStep
<1>8. CASE Reconnect BY <1>8, ReconnectStep
<1>9. CASE LogOut \/ Crash \/ (\E dc \in Dcs : CrashInSetDC(dc)) \/ UNCHANGED vars BY <1>9, EndStep
<1>10. ASSUME NEW dc \in Dcs, OtherSender(dc) PROVE SessionInv' BY <1>10, OtherSenderStep
<1>11. ASSUME NEW dc \in Dcs, OtherBreaks(dc) PROVE SessionInv' BY <1>11, OtherBreaksStep
<1> QED BY <1>1, <1>2, <1>3, <1>4, <1>5, <1>6, <1>7, <1>8, <1>9, <1>10, <1>11 DEF Next

\* The key the session has for a data center was made with it, and a client at rest uses the
\* address and the key that a new process would find on the disk: for any data centers, callers,
\* keys and crashes, as long as one caller acts at a time (StoreSession.ts,
\* TelegramClient.ts:1630-1700).  After a crash between the number and the address of the data
\* center (StoreSession.ts:104, 106) the two are of different ones until the next setDC.
THEOREM KeysAreStored == Spec => []KeysFitDcs
<1>1. Init => SessionInv BY SessionStart
<1>2. SessionInv /\ [Next]_vars => SessionInv' BY SessionStep
<1>3. SessionInv => KeysFitDcs
  <2>1. SUFFICES ASSUME SessionInv PROVE KeysFitDcs OBVIOUS
  <2>2. Typed /\ SharedInv /\ DcInv /\ OthersFit /\ PlaceInv BY <2>1 DEF SessionInv
  <2>3. TypeOK BY <2>2 DEF TypeOK, Typed, SharedInv, StoredRecords, SenderRecords
  <2>4. AtRest BY <2>2 DEF AtRest, PlaceInv, AtHome, Settled, HasKey, SameDc, DcInv
  <2> QED BY <2>2, <2>3, <2>4 DEF KeysFitDcs
<1> QED BY <1>1, <1>2, <1>3, PTL DEF Spec
=============================================================================
