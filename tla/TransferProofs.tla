---------------------------- MODULE TransferProofs ----------------------------
(***************************************************************************)
(* Proofs about Transfer and the MediaScheduler under it: its types, that  *)
(* the windows and the semaphore count what is under way, that who waits   *)
(* for a window has someone to wake it, and that a transfer keeps the      *)
(* promises of FileTransfer.                                               *)
(***************************************************************************)
EXTENDS Transfer, FiniteSetTheorems, SequenceTheorems, WellFoundedInduction, TLAPS

USE SchedulerAssumption, TransferAssumption

-----------------------------------------------------------------------------
(* The windows of a balance *)

Loads == [requested : 0 .. MaxWindow, window : StartWindow .. MaxWindow, timeouts : Nat]

\* The sessions of a balance: at least one, each with its load.
SessionMaps == UNION {[D -> Loads] : D \in (SUBSET Nat) \ {{}}}

\* The parameters are numbers.
LEMMA Numbers ==
    /\ TotalParts \in Nat \ {0} /\ StartWindow \in Nat \ {0} /\ MaxWindow \in Nat \ {0}
    /\ MaxSessions \in Nat /\ RemoveAfterTimeouts \in Nat /\ RequestRetries \in Nat \ {0}
    /\ Purges \in Nat /\ MaxFaults \in Nat /\ StartWindow <= MaxWindow
    /\ 0 \in Generations
BY DEF Generations

\* What a map of sessions is.
LEMMA SessionsType ==
    ASSUME NEW S
    PROVE  S \in SessionMaps <=> /\ DOMAIN S \subseteq Nat /\ DOMAIN S # {}
                                 /\ S \in [DOMAIN S -> Loads]
BY DEF SessionMaps

\* Every set of numbers has a least one.
LEMMA LeastNumber ==
    ASSUME NEW T \in SUBSET Nat, T # {}
    PROVE  \E x \in T : \A y \in T : x <= y
<1>1. PICK R : IsWellFoundedOn(R, Nat) /\ R = {ss \in Nat \X Nat : ss[1] < ss[2]}
  BY NatLessThanWellFounded DEF OpToRel
<1>2. \E x \in T : \A y \in T : <<y, x>> \notin R BY <1>1, WFMin
<1>3. \A x, y \in Nat : y < x => <<y, x>> \in R BY <1>1
<1>4. PICK x \in T : \A y \in T : <<y, x>> \notin R BY <1>2
<1>5. \A y \in T : ~(y < x) BY <1>3, <1>4, Zenon
<1>6. \A y \in T : x <= y BY <1>4, <1>5
<1> QED BY <1>4, <1>6

\* pick() finds a session when one has room.
LEMMA PickFits ==
    ASSUME NEW S \in SessionMaps, Fits(S) # {}
    PROVE  Pick(S) \in Fits(S)
<1>1. Fits(S) \subseteq Nat /\ \A i \in Fits(S) : S[i].requested \in Nat
  BY SessionsType, Numbers DEF Fits, Loads
<1>2. PICK r \in {S[i].requested : i \in Fits(S)} : \A q \in {S[i].requested : i \in Fits(S)} : r <= q
  <2>1. PICK R : R = {S[i].requested : i \in Fits(S)} OBVIOUS
  <2>2. R \in SUBSET Nat /\ R # {} BY <1>1, <2>1
  <2>3. \E r \in R : \A q \in R : r <= q BY <2>2, LeastNumber
  <2> QED BY <2>1, <2>3
<1>3. PICK i \in {k \in Fits(S) : S[k].requested = r} :
           \A k \in {k \in Fits(S) : S[k].requested = r} : i <= k
  <2>1. PICK I : I = {k \in Fits(S) : S[k].requested = r} OBVIOUS
  <2>2. I \in SUBSET Nat /\ I # {} BY <1>1, <1>2, <2>1
  <2>3. \E i \in I : \A k \in I : i <= k BY <2>2, LeastNumber
  <2> QED BY <2>1, <2>3
<1>4. /\ i \in Fits(S)
      /\ \A k \in Fits(S) : \/ S[i].requested < S[k].requested
                            \/ S[i].requested = S[k].requested /\ i <= k
  BY <1>1, <1>2, <1>3
<1> QED BY <1>4 DEF Pick

\* T is S after its session i was touched: it is charged r, or gone, and the others
\* are as they were.
Touched(S, T, i, r) ==
    /\ T \in SessionMaps /\ DOMAIN T \subseteq DOMAIN S
    /\ \A k \in DOMAIN T \ {i} : T[k] = S[k]
    /\ i \in DOMAIN T => T[i].requested = r /\ T[i].window = S[i].window

Less(n) == IF n > 0 THEN n - 1 ELSE 0

\* One touch after another.
LEMMA TouchedTwice ==
    ASSUME NEW S, NEW T, NEW U, NEW i, NEW r, Touched(S, T, i, r), Touched(T, U, i, T[i].requested)
    PROVE  Touched(S, U, i, r)
BY DEF Touched

\* remove() leaves a session.
LEMMA RemoveTouches ==
    ASSUME NEW S \in SessionMaps, IsFiniteSet(DOMAIN S), NEW i
    PROVE  Touched(S, Remove(S, i), i, S[i].requested)
<1>1. S \in [DOMAIN S -> Loads] /\ DOMAIN S \subseteq Nat /\ DOMAIN S # {} BY SessionsType
<1>2. CASE i \in DOMAIN S /\ Cardinality(DOMAIN S) > 1
  <2>1. DOMAIN Without(S, i) = DOMAIN S \ {i} BY DEF Without
  <2>2. DOMAIN S \ {i} # {}
    <3>1. Cardinality(DOMAIN S) \in Nat BY FS_CardinalityType
    <3>2. Cardinality(DOMAIN S \ {i}) = Cardinality(DOMAIN S) - 1 BY <1>2, FS_RemoveElement
    <3>3. Cardinality(DOMAIN S \ {i}) # 0 BY <1>2, <3>1, <3>2
    <3> QED BY <3>3, FS_EmptySet
  <2>3. \A k \in DOMAIN S \ {i} : Without(S, i)[k] = S[k] BY DEF Without
  <2>4. Without(S, i) \in [DOMAIN S \ {i} -> Loads] BY <1>1 DEF Without
  <2>5. Without(S, i) \in SessionMaps BY <1>1, <2>1, <2>2, <2>4, SessionsType
  <2>6. Remove(S, i) = Without(S, i) BY <1>2 DEF Remove
  <2> QED BY <2>1, <2>3, <2>5, <2>6 DEF Touched
<1>3. CASE ~(i \in DOMAIN S /\ Cardinality(DOMAIN S) > 1)
  <2>1. Remove(S, i) = S BY <1>3 DEF Remove
  <2> QED BY <2>1 DEF Touched
<1> QED BY <1>2, <1>3

\* A field of a session is set.
LEMMA LoadTouches ==
    ASSUME NEW S \in SessionMaps, NEW i \in DOMAIN S, NEW l \in Loads, l.window = S[i].window
    PROVE  Touched(S, [S EXCEPT ![i] = l], i, l.requested)
<1>1. S \in [DOMAIN S -> Loads] /\ DOMAIN S \subseteq Nat /\ DOMAIN S # {} BY SessionsType
<1>2. [S EXCEPT ![i] = l] \in [DOMAIN S -> Loads] /\ DOMAIN [S EXCEPT ![i] = l] = DOMAIN S
  BY <1>1
<1>3. [S EXCEPT ![i] = l] \in SessionMaps BY <1>1, <1>2, SessionsType
<1> QED BY <1>1, <1>2, <1>3 DEF Touched

\* _slow counts a time-out, or removes the session.
LEMMA SlowTouches ==
    ASSUME NEW S \in SessionMaps, IsFiniteSet(DOMAIN S), NEW i
    PROVE  Touched(S, Slow(S, i), i, S[i].requested)
<1>1. CASE i \notin DOMAIN S BY <1>1 DEF Slow, Touched
<1>2. CASE i \in DOMAIN S
  <2>1. PICK l : l = [S[i] EXCEPT !.timeouts = @ + 1] OBVIOUS
  <2>2. S[i] \in Loads BY <1>2, SessionsType
  <2>3. l \in Loads /\ l.requested = S[i].requested /\ l.window = S[i].window
    BY <2>1, <2>2 DEF Loads
  <2>4. PICK T : T = [S EXCEPT ![i] = l] OBVIOUS
  <2>5. T = [S EXCEPT ![i].timeouts = @ + 1] BY <2>1, <2>4
  <2>6. Touched(S, T, i, S[i].requested)
    <3>1. Touched(S, [S EXCEPT ![i] = l], i, l.requested) BY <1>2, <2>3, LoadTouches
    <3> QED BY <2>3, <2>4, <3>1
  <2>7. T \in SessionMaps /\ IsFiniteSet(DOMAIN T) BY <2>6, FS_Subset DEF Touched
  <2>8. Touched(S, Remove(T, i), i, S[i].requested) BY <2>6, <2>7, RemoveTouches, TouchedTwice
  <2>9. Slow(S, i) = IF T[i].timeouts >= RemoveAfterTimeouts THEN Remove(T, i) ELSE T
    BY <1>2, <2>5 DEF Slow
  <2> QED BY <2>6, <2>8, <2>9
<1> QED BY <1>1, <1>2

\* release() takes one off the charge.
LEMMA ReleaseTouches ==
    ASSUME NEW S \in SessionMaps, NEW i
    PROVE  Touched(S, Release(S, i), i, Less(S[i].requested))
<1>1. CASE i \notin DOMAIN S BY <1>1 DEF Release, Touched
<1>2. CASE i \in DOMAIN S
  <2>1. PICK l : l = [S[i] EXCEPT !.requested = Less(S[i].requested)] OBVIOUS
  <2>2. S[i] \in Loads BY <1>2, SessionsType
  <2>3. S[i].requested \in 0 .. MaxWindow BY <2>2 DEF Loads
  <2>4. Less(S[i].requested) \in 0 .. MaxWindow BY <2>3, Numbers DEF Less
  <2>5. l \in Loads /\ l.requested = Less(S[i].requested) /\ l.window = S[i].window
    BY <2>1, <2>2, <2>4 DEF Loads
  <2>6. Release(S, i) = [S EXCEPT ![i] = l] BY <1>2, <2>1 DEF Release, Less
  <2>7. Touched(S, [S EXCEPT ![i] = l], i, l.requested) BY <1>2, <2>5, LoadTouches
  <2> QED BY <2>5, <2>6, <2>7
<1> QED BY <1>1, <1>2

\* fail(), and what the catch block of _run does to the sessions.
LEMMA BlameTouches ==
    ASSUME NEW S \in SessionMaps, IsFiniteSet(DOMAIN S), NEW i, NEW outcome
    PROVE  Touched(S, Blame(S, i, outcome), i, Less(S[i].requested))
<1>1. PICK T : T = Release(S, i) OBVIOUS
<1>2. Touched(S, T, i, Less(S[i].requested)) BY <1>1, ReleaseTouches
<1>3. T \in SessionMaps /\ IsFiniteSet(DOMAIN T) BY <1>2, FS_Subset DEF Touched
<1>4. PICK U : U = Slow(T, i) OBVIOUS
<1>5. Touched(S, U, i, Less(S[i].requested)) BY <1>2, <1>3, <1>4, SlowTouches, TouchedTwice
<1>6. U \in SessionMaps /\ IsFiniteSet(DOMAIN U) BY <1>5, FS_Subset DEF Touched
<1>7. Touched(S, Remove(U, i), i, Less(S[i].requested))
  BY <1>5, <1>6, RemoveTouches, TouchedTwice
<1> QED BY <1>1, <1>2, <1>4, <1>5, <1>7 DEF Blame, Fail

\* succeed() forgives the time-outs.
LEMMA ForgivenTouches ==
    ASSUME NEW S \in SessionMaps, NEW i
    PROVE  Touched(S, Forgiven(S, i), i, Less(S[i].requested))
<1>1. CASE i \notin DOMAIN S BY <1>1 DEF Forgiven, Touched
<1>2. CASE i \in DOMAIN S
  <2>1. PICK T : T = Release(S, i) OBVIOUS
  <2>2. Touched(S, T, i, Less(S[i].requested)) BY <2>1, ReleaseTouches
  <2>3. S \in [DOMAIN S -> Loads] BY SessionsType
  <2>4. i \in DOMAIN T /\ T[i] \in Loads
    <3>1. i \in DOMAIN T BY <1>2, <2>1, <2>3 DEF Release
    <3> QED BY <2>2, <3>1, SessionsType DEF Touched
  <2>5. PICK l : l = [T[i] EXCEPT !.timeouts = 0] OBVIOUS
  <2>6. l \in Loads /\ l.requested = T[i].requested /\ l.window = T[i].window
    BY <2>4, <2>5 DEF Loads
  <2>7. Forgiven(S, i) = [T EXCEPT ![i] = l] BY <1>2, <2>1, <2>5 DEF Forgiven
  <2>8. Touched(T, Forgiven(S, i), i, T[i].requested)
    <3>1. T \in SessionMaps BY <2>2 DEF Touched
    <3>2. Touched(T, [T EXCEPT ![i] = l], i, l.requested) BY <2>4, <2>6, <3>1, LoadTouches
    <3> QED BY <2>6, <2>7, <3>2
  <2> QED BY <2>2, <2>8, TouchedTwice
<1> QED BY <1>1, <1>2

\* A balance, and one whose ids are those it gave out.
Balances == [sessions : SessionMaps, nextId : Nat, waiters : Seq(Parts), flood : BOOLEAN]

BalanceOK(b) == b \in Balances /\ DOMAIN b.sessions \subseteq 0 .. b.nextId - 1

\* The sessions and the next id of balance b after a call of session i was over.
After(b, T, n, i) ==
    /\ T \in SessionMaps /\ n \in Nat /\ b.nextId <= n /\ DOMAIN T \subseteq 0 .. n - 1
    /\ \A k \in DOMAIN T :
          \/ /\ k \in DOMAIN b.sessions
             /\ T[k].requested = IF k = i THEN Less(b.sessions[k].requested)
                                          ELSE b.sessions[k].requested
             /\ b.sessions[k].window <= T[k].window
          \/ k >= b.nextId /\ T[k].requested = 0

\* A balance has finitely many sessions.
LEMMA SessionsFinite ==
    ASSUME NEW b, BalanceOK(b)
    PROVE  IsFiniteSet(DOMAIN b.sessions) /\ b.sessions \in SessionMaps /\ b.nextId \in Nat
<1>1. b.nextId - 1 \in Int /\ 0 \in Int BY DEF BalanceOK, Balances
<1>2. IsFiniteSet(0 .. b.nextId - 1)
  <2>1. PICK n : n = b.nextId - 1 OBVIOUS
  <2> QED BY <1>1, <2>1, FS_Interval
<1> QED BY <1>2, FS_Subset DEF BalanceOK, Balances

\* A touched map is one a call that is over may leave.
LEMMA TouchedAfter ==
    ASSUME NEW b, BalanceOK(b), NEW i, NEW T, Touched(b.sessions, T, i, Less(b.sessions[i].requested))
    PROVE  After(b, T, b.nextId, i)
<1>1. b.nextId \in Nat /\ DOMAIN T \subseteq 0 .. b.nextId - 1
  BY DEF BalanceOK, Balances, Touched
<1>2. \A k \in DOMAIN b.sessions : b.sessions[k].window \in Int
  BY Numbers, SessionsType DEF BalanceOK, Balances, Loads
<1> QED BY <1>1, <1>2 DEF Touched, After

\* succeed() releases the window of the call, widens it, or adds an empty session.
LEMMA SucceedAfter ==
    ASSUME NEW b, BalanceOK(b), NEW i, NEW full, NEW slow, NEW gatePassed
    PROVE  LET c == Succeed(b, i, full, slow, gatePassed) IN
           /\ c \in Balances /\ c.waiters = b.waiters /\ c.flood = b.flood
           /\ After(b, c.sessions, c.nextId, i)
<1> DEFINE c == Succeed(b, i, full, slow, gatePassed)
<1> SUFFICES /\ c \in Balances /\ c.waiters = b.waiters /\ c.flood = b.flood
             /\ After(b, c.sessions, c.nextId, i)
  OBVIOUS
<1>0. b \in Balances /\ b.sessions \in SessionMaps /\ IsFiniteSet(DOMAIN b.sessions)
      /\ b.nextId \in Nat
  BY SessionsFinite DEF BalanceOK
<1>1. PICK S : S = Forgiven(b.sessions, i) OBVIOUS
<1>2. Touched(b.sessions, S, i, Less(b.sessions[i].requested)) BY <1>0, <1>1, ForgivenTouches
<1>3. S \in SessionMaps /\ IsFiniteSet(DOMAIN S) BY <1>0, <1>2, FS_Subset DEF Touched
<1>4. After(b, S, b.nextId, i) BY <1>2, TouchedAfter
<1>5. ASSUME NEW T, c = [b EXCEPT !.sessions = T], After(b, T, b.nextId, i)
      PROVE  /\ c \in Balances /\ c.waiters = b.waiters /\ c.flood = b.flood
             /\ After(b, c.sessions, c.nextId, i)
  <2>1. T \in SessionMaps BY <1>5 DEF After
  <2>2. c.sessions = T /\ c.nextId = b.nextId /\ c.waiters = b.waiters /\ c.flood = b.flood
        /\ c \in Balances
    BY <1>0, <1>5, <2>1 DEF Balances
  <2> HIDE DEF c
  <2> QED BY <1>5, <2>2
<1>6. CASE slow
  <2>1. Touched(b.sessions, Slow(S, i), i, Less(b.sessions[i].requested))
    BY <1>2, <1>3, SlowTouches, TouchedTwice
  <2>2. After(b, Slow(S, i), b.nextId, i) BY <2>1, TouchedAfter
  <2>3. c = [b EXCEPT !.sessions = Slow(S, i)] BY <1>1, <1>6 DEF Succeed
  <2> QED BY <1>5, <2>2, <2>3
<1>7. CASE ~slow /\ (i \notin DOMAIN S \/ ~full)
  <2>1. c = [b EXCEPT !.sessions = S] BY <1>1, <1>7 DEF Succeed
  <2> QED BY <1>4, <1>5, <2>1
<1>8. CASE ~slow /\ i \in DOMAIN S /\ full /\ S[i].window < MaxWindow
  <2>1. S[i] \in Loads BY <1>3, <1>8, SessionsType
  <2>2. PICK l : l = [S[i] EXCEPT !.window = @ + 1] OBVIOUS
  <2>3. S[i].window \in StartWindow .. MaxWindow BY <2>1 DEF Loads
  <2>4. S[i].window + 1 \in StartWindow .. MaxWindow BY <1>8, <2>3, Numbers
  <2>5. l \in Loads /\ l.requested = S[i].requested /\ l.window = S[i].window + 1
    BY <2>1, <2>2, <2>4 DEF Loads
  <2>6. PICK T : T = [S EXCEPT ![i] = l] OBVIOUS
  <2>7. T \in SessionMaps /\ DOMAIN T = DOMAIN S /\ T[i] = l
        /\ \A k \in DOMAIN T \ {i} : T[k] = S[k]
    <3>1. S \in [DOMAIN S -> Loads] BY <1>3, SessionsType
    <3>2. T \in [DOMAIN S -> Loads] /\ DOMAIN T = DOMAIN S BY <2>5, <2>6, <3>1
    <3>3. DOMAIN S \subseteq Nat /\ DOMAIN S # {} BY <1>3, SessionsType
    <3>4. T \in SessionMaps BY <3>2, <3>3, SessionsType
    <3> QED BY <1>8, <2>6, <3>1, <3>4
  <2>8. c = [b EXCEPT !.sessions = T] BY <1>1, <1>8, <2>2, <2>6 DEF Succeed
  <2>9. i \in DOMAIN b.sessions /\ b.sessions[i].window = S[i].window
        /\ S[i].requested = Less(b.sessions[i].requested)
    BY <1>2, <1>8 DEF Touched
  <2>10. After(b, T, b.nextId, i)
    <3>1. \A k \in DOMAIN T : k = i \/ T[k] = S[k] BY <2>7
    <3>2. b.sessions[i].window <= T[i].window BY <2>3, <2>5, <2>7, <2>9
    <3>3. T[i].requested = Less(b.sessions[i].requested) BY <2>5, <2>7, <2>9
    <3>4. \A k \in DOMAIN T : k = i \/
             (\/ /\ k \in DOMAIN b.sessions
                 /\ T[k].requested = b.sessions[k].requested
                 /\ b.sessions[k].window <= T[k].window
              \/ k >= b.nextId /\ T[k].requested = 0)
      BY <1>4, <2>7, <3>1 DEF After
    <3> QED BY <1>4, <2>7, <2>9, <3>2, <3>3, <3>4 DEF After
  <2> QED BY <1>5, <2>8, <2>10
<1>9. CASE ~slow /\ i \in DOMAIN S /\ full /\ ~(S[i].window < MaxWindow)
           /\ gatePassed /\ Cardinality(DOMAIN S) < MaxSessions
  <2>1. PICK T : T = [k \in DOMAIN S \cup {b.nextId} |-> IF k = b.nextId THEN Fresh ELSE S[k]]
    OBVIOUS
  <2>2. c = [b EXCEPT !.sessions = T, !.nextId = @ + 1] BY <1>1, <1>9, <2>1 DEF Succeed
  <2>3. Fresh \in Loads /\ Fresh.requested = 0 BY Numbers DEF Fresh, Loads
  <2>4. S \in [DOMAIN S -> Loads] /\ DOMAIN S \subseteq Nat BY <1>3, SessionsType
  <2>5. T \in [DOMAIN T -> Loads] /\ DOMAIN T = DOMAIN S \cup {b.nextId} BY <2>1, <2>3, <2>4
  <2>6. T \in SessionMaps BY <1>0, <2>4, <2>5, SessionsType
  <2>7. c \in Balances /\ c.sessions = T /\ c.nextId = b.nextId + 1 /\ c.waiters = b.waiters
        /\ c.flood = b.flood
    <3>1. PICK n : n = b.nextId + 1 OBVIOUS
    <3>2. n \in Nat BY <1>0, <3>1
    <3>3. c = [b EXCEPT !.sessions = T, !.nextId = n] BY <2>2, <3>1
    <3> HIDE DEF c
    <3> QED BY <1>0, <2>6, <3>1, <3>2, <3>3 DEF Balances
  <2>8. DOMAIN S \subseteq 0 .. b.nextId - 1 BY <1>4 DEF After
  <2>9. DOMAIN T \subseteq 0 .. (b.nextId + 1) - 1 BY <1>0, <2>5, <2>8
  <2>10. \A k \in DOMAIN S : T[k] = S[k]
    <3>1. b.nextId \notin DOMAIN S BY <1>0, <2>8
    <3> QED BY <2>1, <3>1
  <2>11. T[b.nextId] = Fresh BY <2>1
  <2>12. After(b, T, b.nextId + 1, i)
    <3>1. b.nextId + 1 \in Nat /\ b.nextId <= b.nextId + 1 /\ b.nextId >= b.nextId BY <1>0
    <3> HIDE DEF c
    <3> QED BY <1>4, <2>3, <2>5, <2>6, <2>9, <2>10, <2>11, <3>1 DEF After
  <2> HIDE DEF c
  <2> QED BY <2>7, <2>12
<1>10. CASE ~slow /\ i \in DOMAIN S /\ full /\ ~(S[i].window < MaxWindow)
            /\ ~(gatePassed /\ Cardinality(DOMAIN S) < MaxSessions)
  <2>1. c = [b EXCEPT !.sessions = S] BY <1>1, <1>10 DEF Succeed
  <2> QED BY <1>4, <1>5, <2>1
<1> HIDE DEF c
<1> QED BY <1>6, <1>7, <1>8, <1>9, <1>10

-----------------------------------------------------------------------------
(* Sequences without repetition *)

Members(q) == {q[k] : k \in DOMAIN q}
Distinct(q) == \A j, k \in DOMAIN q : q[j] = q[k] => j = k

\* Who is at the head leaves the rest.
LEMMA TailOf ==
    ASSUME NEW S, NEW q \in Seq(S), q # <<>>
    PROVE  /\ Head(q) \in Members(q) /\ Tail(q) \in Seq(S)
           /\ Distinct(q) => Distinct(Tail(q)) /\ Members(Tail(q)) = Members(q) \ {Head(q)}
<1>1. Len(q) \in Nat \ {0} /\ DOMAIN q = 1 .. Len(q) /\ Head(q) = q[1]
  BY EmptySeq, LenProperties
<1>2. Tail(q) \in Seq(S) /\ Len(Tail(q)) = Len(q) - 1
      /\ \A k \in 1 .. Len(Tail(q)) : Tail(q)[k] = q[k + 1]
  BY HeadTailProperties
<1>3. DOMAIN Tail(q) = 1 .. Len(q) - 1 BY <1>2, LenProperties
<1>4. Head(q) \in Members(q) BY <1>1 DEF Members
<1>5. ASSUME Distinct(q) PROVE Distinct(Tail(q)) /\ Members(Tail(q)) = Members(q) \ {Head(q)}
  <2>1. \A k \in DOMAIN Tail(q) : k + 1 \in DOMAIN q /\ Tail(q)[k] = q[k + 1]
    BY <1>1, <1>2, <1>3
  <2>2. Distinct(Tail(q))
    <3> SUFFICES ASSUME NEW j \in DOMAIN Tail(q), NEW k \in DOMAIN Tail(q), Tail(q)[j] = Tail(q)[k]
                 PROVE  j = k
      BY DEF Distinct
    <3>1. j + 1 = k + 1 BY <1>5, <2>1 DEF Distinct
    <3>2. j \in Nat /\ k \in Nat BY <1>1, <1>3, SMTT(30)
    <3> QED BY <3>1, <3>2
  <2>3. \A k \in DOMAIN Tail(q) : Tail(q)[k] \in Members(q) \ {Head(q)}
    <3> TAKE k \in DOMAIN Tail(q)
    <3>1. k + 1 # 1 /\ 1 \in DOMAIN q BY <1>1, <1>3
    <3> QED BY <1>1, <1>5, <2>1, <3>1 DEF Members, Distinct
  <2>4. \A j \in DOMAIN q : q[j] # Head(q) => j - 1 \in DOMAIN Tail(q) /\ Tail(q)[j - 1] = q[j]
    <3> SUFFICES ASSUME NEW j \in DOMAIN q, q[j] # Head(q)
                 PROVE  j - 1 \in DOMAIN Tail(q) /\ Tail(q)[j - 1] = q[j]
      OBVIOUS
    <3>1. j # 1 /\ j \in 1 .. Len(q) BY <1>1
    <3>2. j - 1 \in 1 .. Len(q) - 1 /\ (j - 1) + 1 = j BY <1>1, <3>1
    <3> QED BY <1>3, <2>1, <3>2
  <2> QED BY <2>2, <2>3, <2>4, ZenonT(30) DEF Members
<1> QED BY <1>2, <1>4, <1>5

\* Who comes at the end is a member then.
LEMMA AppendOf ==
    ASSUME NEW S, NEW q \in Seq(S), NEW p \in S
    PROVE  /\ Append(q, p) \in Seq(S) /\ Members(Append(q, p)) = Members(q) \cup {p}
           /\ Distinct(q) /\ p \notin Members(q) => Distinct(Append(q, p))
<1>1. Len(q) \in Nat /\ DOMAIN q = 1 .. Len(q) BY LenProperties
<1>2. Append(q, p) \in Seq(S) /\ Len(Append(q, p)) = Len(q) + 1
      /\ \A k \in 1 .. Len(q) : Append(q, p)[k] = q[k]
      /\ Append(q, p)[Len(q) + 1] = p
  BY AppendProperties
<1>3. DOMAIN Append(q, p) = DOMAIN q \cup {Len(q) + 1} /\ Len(q) + 1 \notin DOMAIN q
  BY <1>1, <1>2, LenProperties
<1>4. Members(Append(q, p)) = Members(q) \cup {p} BY <1>1, <1>2, <1>3 DEF Members
<1>5. Distinct(q) /\ p \notin Members(q) => Distinct(Append(q, p))
  BY <1>1, <1>2, <1>3 DEF Members, Distinct
<1> QED BY <1>2, <1>4, <1>5

\* And who comes at the front.
LEMMA PrependOf ==
    ASSUME NEW S, NEW q \in Seq(S), NEW p \in S
    PROVE  /\ <<p>> \o q \in Seq(S) /\ Members(<<p>> \o q) = Members(q) \cup {p}
           /\ Distinct(q) /\ p \notin Members(q) => Distinct(<<p>> \o q)
<1>1. Len(q) \in Nat /\ DOMAIN q = 1 .. Len(q) BY LenProperties
<1>2. <<p>> \in Seq(S) /\ Len(<<p>>) = 1 /\ <<p>>[1] = p OBVIOUS
<1>3. PICK r : r = <<p>> \o q OBVIOUS
<1>4. r \in Seq(S) /\ Len(r) = 1 + Len(q)
      /\ \A k \in 1 .. 1 + Len(q) : r[k] = IF k <= 1 THEN p ELSE q[k - 1]
  BY <1>2, <1>3, ConcatProperties
<1>5. DOMAIN r = 1 .. 1 + Len(q) BY <1>4, LenProperties
<1>6. r[1] = p /\ 1 \in DOMAIN r BY <1>1, <1>4, <1>5
<1>7. \A k \in DOMAIN q : k + 1 \in DOMAIN r /\ r[k + 1] = q[k] BY <1>1, <1>4, <1>5, SMTT(30)
<1>8. \A k \in DOMAIN r : k = 1 \/ (k - 1 \in DOMAIN q /\ r[k] = q[k - 1]) BY <1>1, <1>4, <1>5, SMTT(30)
<1>9. Members(r) = Members(q) \cup {p} BY <1>6, <1>7, <1>8 DEF Members
<1>10. ASSUME Distinct(q), p \notin Members(q) PROVE Distinct(r)
  <2> SUFFICES ASSUME NEW j \in DOMAIN r, NEW k \in DOMAIN r, r[j] = r[k] PROVE j = k
    BY DEF Distinct
  <2>1. j \in Nat /\ k \in Nat BY <1>1, <1>5
  <2>2. j # 1 => r[j] \in Members(q) BY <1>8 DEF Members
  <2>3. k # 1 => r[k] \in Members(q) BY <1>8 DEF Members
  <2>4. CASE j # 1 /\ k # 1
    <3>1. j - 1 = k - 1 BY <1>8, <1>10, <2>4 DEF Distinct
    <3> QED BY <2>1, <3>1
  <2> QED BY <1>6, <1>10, <2>2, <2>3, <2>4
<1> QED BY <1>3, <1>4, <1>9, <1>10

\* Nobody is a member of the empty sequence only.
LEMMA EmptyOf ==
    ASSUME NEW S, NEW q \in Seq(S)
    PROVE  (q = <<>> <=> Members(q) = {}) /\ Members(q) \subseteq S /\ Distinct(<<>>)
           /\ <<>> \in Seq(S) /\ Members(<<>>) = {}
<1>1. q # <<>> => Head(q) \in Members(q) BY TailOf
<1>2. Members(q) \subseteq S BY LenProperties, ElementOfSeq DEF Members
<1> QED BY <1>1, <1>2 DEF Members, Distinct

-----------------------------------------------------------------------------
(* The scheduler: types, and who waits *)

Calls == [phase : {"none", "ready", "flooded", "queued", "woken", "running", "answered", "got",
                   "failed"},
          gen : Generations, id : Nat, full : BOOLEAN,
          outcome : {"none", "ok", "flood", "error", "timeout", "removed", "abort"},
          attempt : 0 .. RequestRetries]

SchedulerType ==
    /\ balance \in [Generations -> Balances]
    /\ \A g \in Generations : DOMAIN balance[g].sessions \subseteq 0 .. balance[g].nextId - 1
    /\ current \in Generations /\ stage \in {"open", "closed", "gone"}
    /\ call \in [Parts -> Calls]
    /\ aborted \in BOOLEAN /\ faults \in 0 .. MaxFaults

\* What holds of a call: how it failed, that it has retries left, that the session it is
\* charged to was given out, and that none waits once the transfer is aborted.
CallOK(c) ==
    /\ c.phase = "failed" => c.outcome \in {"error", "abort"}
    /\ c.phase = "answered" => c.outcome # "none"
    /\ c.outcome = "abort" => aborted
    /\ c.phase \in {"flooded", "queued", "woken", "running", "answered"} => c.attempt < RequestRetries
    /\ c.phase \in {"running", "answered"} => c.id < balance[c.gen].nextId
    /\ aborted => c.phase \notin {"queued", "flooded"}

\* The calls that wait in a generation.
Waiting(g) == {p \in Parts : call[p].phase = "queued" /\ call[p].gen = g}

WaitersOK(g) == Distinct(balance[g].waiters) /\ Members(balance[g].waiters) = Waiting(g)

SchedulerInv ==
    /\ SchedulerType
    /\ \A p \in Parts : CallOK(call[p])
    /\ \A g \in Generations : WaitersOK(g)

\* The types of one call and one balance.
LEMMA SchedulerParts ==
    ASSUME SchedulerInv
    PROVE  /\ \A p \in Parts : call[p] \in Calls /\ CallOK(call[p])
           /\ \A g \in Generations : /\ BalanceOK(balance[g]) /\ balance[g].nextId \in Nat
                                     /\ balance[g].waiters \in Seq(Parts) /\ WaitersOK(g)
                                     /\ balance[g].sessions \in SessionMaps
           /\ NoCall \in Calls
BY Numbers DEF SchedulerInv, SchedulerType, BalanceOK, Balances, Calls, NoCall

\* A call that is left alone while ids are given out stays right.
LEMMA CallStays ==
    ASSUME SchedulerInv, aborted' = aborted,
           \A g \in Generations : balance[g].nextId <= balance'[g].nextId /\ balance'[g].nextId \in Nat
    PROVE  \A p \in Parts : call'[p] = call[p] => CallOK(call[p])'
<1> SUFFICES ASSUME NEW p \in Parts, call'[p] = call[p] PROVE CallOK(call[p])' OBVIOUS
<1>1. call[p] \in Calls /\ CallOK(call[p]) BY SchedulerParts
<1>2. call[p].gen \in Generations /\ call[p].id \in Nat BY <1>1 DEF Calls
<1>3. call[p].id < balance[call[p].gen].nextId => call[p].id < balance'[call[p].gen].nextId
  <2>1. balance[call[p].gen].nextId \in Nat BY <1>2, SchedulerParts
  <2> QED BY <1>2, <2>1
<1> QED BY <1>1, <1>2, <1>3 DEF CallOK

\* The waiters of generations whose waiting calls and waiters are left alone.
LEMMA WaitersStay ==
    ASSUME SchedulerInv, NEW g \in Generations, balance'[g].waiters = balance[g].waiters,
           \A p \in Parts : \/ call'[p] = call[p]
                            \/ /\ ~(call[p].phase = "queued" /\ call[p].gen = g)
                               /\ ~(call'[p].phase = "queued" /\ call'[p].gen = g)
    PROVE  WaitersOK(g)'
<1>1. Waiting(g)' = Waiting(g) BY DEF Waiting
<1> QED BY <1>1, SchedulerParts DEF WaitersOK

\* One balance changes in its windows only, or in its waiters.
LEMMA BalanceSet ==
    ASSUME SchedulerInv, NEW g \in Generations, NEW b, BalanceOK(b),
           balance' = [balance EXCEPT ![g] = b]
    PROVE  /\ balance' \in [Generations -> Balances]
           /\ \A h \in Generations : DOMAIN balance'[h].sessions \subseteq 0 .. balance'[h].nextId - 1
           /\ balance'[g] = b /\ \A h \in Generations \ {g} : balance'[h] = balance[h]
BY DEF SchedulerInv, SchedulerType, BalanceOK

\* One call changes.
LEMMA CallSet ==
    ASSUME SchedulerInv, NEW p \in Parts, NEW c \in Calls, call' = [call EXCEPT ![p] = c]
    PROVE  /\ call' \in [Parts -> Calls] /\ call'[p] = c
           /\ \A q \in Parts \ {p} : call'[q] = call[q]
BY DEF SchedulerInv, SchedulerType

\* getFile or savePart is over.
LEMMA SettledType ==
    ASSUME NEW phase \in {"got", "failed"}, NEW outcome \in {"ok", "error", "abort"}
    PROVE  /\ Settled(phase, outcome) \in Calls /\ Settled(phase, outcome).phase = phase
           /\ Settled(phase, outcome).outcome = outcome
<1>1. NoCall \in Calls BY Numbers DEF NoCall, Calls
<1> QED BY <1>1 DEF Settled, Calls

\* _run charges a session that has room.
LEMMA StartFits ==
    ASSUME NEW b, BalanceOK(b), Fits(b.sessions) # {}
    PROVE  LET i == Pick(b.sessions)
               S == Start(b.sessions, i) IN
           /\ i \in DOMAIN b.sessions /\ b.sessions[i].requested + 1 <= b.sessions[i].window
           /\ S \in SessionMaps /\ DOMAIN S = DOMAIN b.sessions
           /\ S[i].requested = b.sessions[i].requested + 1 /\ S[i].window = b.sessions[i].window
           /\ \A k \in DOMAIN S \ {i} : S[k] = b.sessions[k]
<1>1. PICK i : i = Pick(b.sessions) OBVIOUS
<1>2. b.sessions \in SessionMaps BY DEF BalanceOK, Balances
<1>3. i \in DOMAIN b.sessions /\ b.sessions[i].requested + 1 <= b.sessions[i].window
  BY <1>1, <1>2, PickFits DEF Fits
<1>4. b.sessions \in [DOMAIN b.sessions -> Loads] /\ DOMAIN b.sessions \subseteq Nat
      /\ DOMAIN b.sessions # {}
  BY <1>2, SessionsType
<1>5. b.sessions[i] \in Loads BY <1>3, <1>4
<1>6. PICK l : l = [b.sessions[i] EXCEPT !.requested = @ + 1] OBVIOUS
<1>7. b.sessions[i].requested + 1 \in 0 .. MaxWindow BY <1>3, <1>5, Numbers DEF Loads
<1>8. l \in Loads /\ l.requested = b.sessions[i].requested + 1 /\ l.window = b.sessions[i].window
  BY <1>5, <1>6, <1>7 DEF Loads
<1>9. PICK S : S = Start(b.sessions, i) OBVIOUS
<1>10. S = [b.sessions EXCEPT ![i] = l] BY <1>6, <1>9 DEF Start
<1>11. S \in [DOMAIN b.sessions -> Loads] /\ DOMAIN S = DOMAIN b.sessions /\ S[i] = l
       /\ \A k \in DOMAIN S \ {i} : S[k] = b.sessions[k]
  BY <1>3, <1>4, <1>8, <1>10
<1>12. S \in SessionMaps BY <1>4, <1>11, SessionsType
<1> QED BY <1>1, <1>3, <1>8, <1>9, <1>11, <1>12

\* A call that does not wait moves on, and waits not, or a balance's windows change.
LEMMA MovesOn ==
    ASSUME SchedulerInv, UNCHANGED <<current, stage, aborted>>, faults' \in 0 .. MaxFaults,
           NEW p \in Parts, call[p].phase # "queued",
           NEW c \in Calls, c.phase # "queued", CallOK(c)', call' = [call EXCEPT ![p] = c],
           NEW g \in Generations,
           \/ UNCHANGED balance
           \/ /\ balance' = [balance EXCEPT ![g] = balance'[g]] /\ BalanceOK(balance'[g])
              /\ balance[g].nextId <= balance'[g].nextId /\ balance'[g].waiters = balance[g].waiters
    PROVE  SchedulerInv'
<1>1. call' \in [Parts -> Calls] /\ call'[p] = c /\ \A q \in Parts \ {p} : call'[q] = call[q]
  BY CallSet
<1>2. /\ balance' \in [Generations -> Balances]
      /\ \A h \in Generations : DOMAIN balance'[h].sessions \subseteq 0 .. balance'[h].nextId - 1
      /\ \A h \in Generations \ {g} : balance'[h] = balance[h]
      /\ balance'[g].waiters = balance[g].waiters
      /\ balance[g].nextId <= balance'[g].nextId
  <2>1. CASE UNCHANGED balance
    <3>1. balance[g].nextId \in Nat BY SchedulerParts
    <3> QED BY <2>1, <3>1 DEF SchedulerInv, SchedulerType
  <2>2. CASE ~UNCHANGED balance
    <3>1. PICK b : b = balance'[g] OBVIOUS
    <3>2. BalanceOK(b) /\ balance' = [balance EXCEPT ![g] = b] BY <2>2, <3>1
    <3> QED BY <2>2, <3>2, BalanceSet
  <2> QED BY <2>1, <2>2
<1>3. \A h \in Generations : balance[h].nextId <= balance'[h].nextId /\ balance'[h].nextId \in Nat
  <2> TAKE h \in Generations
  <2>1. balance[h].nextId \in Nat /\ balance'[h].nextId \in Nat
    BY <1>2, SchedulerParts DEF Balances
  <2> QED BY <1>2, <2>1
<1>4. \A q \in Parts : CallOK(call[q])'
  <2> TAKE q \in Parts
  <2>1. CASE q = p BY <1>1, <2>1 DEF CallOK
  <2>2. CASE q # p BY <1>1, <1>3, <2>2, CallStays
  <2> QED BY <2>1, <2>2
<1>5. \A h \in Generations : WaitersOK(h)'
  <2> TAKE h \in Generations
  <2>1. balance'[h].waiters = balance[h].waiters BY <1>2
  <2> QED BY <1>1, <2>1, WaitersStay
<1>6. SchedulerType' BY <1>1, <1>2 DEF SchedulerInv, SchedulerType
<1> QED BY <1>4, <1>5, <1>6 DEF SchedulerInv

\* _run charges the call to a session.
LEMMA RunKeeps ==
    ASSUME SchedulerInv, NEW p \in Parts, NEW g \in Generations,
           call[p].phase \in {"ready", "flooded", "woken"}, call[p].attempt < RequestRetries,
           Fits(balance[g].sessions) # {}, Run(p, g), UNCHANGED <<current, stage, aborted, faults>>
    PROVE  SchedulerInv'
<1> DEFINE i == Pick(balance[g].sessions)
           S == Start(balance[g].sessions, i)
<1>1. /\ i \in DOMAIN balance[g].sessions /\ S \in SessionMaps /\ DOMAIN S = DOMAIN balance[g].sessions
  BY SchedulerParts, StartFits
<1>2. PICK T : T = S OBVIOUS
<1>3. PICK k : k = i OBVIOUS
<1>4. balance' = [balance EXCEPT ![g].sessions = T] BY <1>2 DEF Run
<1> HIDE DEF S
<1>5. BalanceOK(balance[g]) /\ balance[g] \in Balances /\ balance \in [Generations -> Balances]
  BY SchedulerParts DEF BalanceOK, SchedulerInv, SchedulerType
<1>6. /\ balance'[g] = [balance[g] EXCEPT !.sessions = T]
      /\ balance' = [balance EXCEPT ![g] = balance'[g]]
  BY <1>4, <1>5
<1>7. /\ balance'[g] \in Balances /\ balance'[g].sessions = T
      /\ balance'[g].nextId = balance[g].nextId /\ balance'[g].waiters = balance[g].waiters
  <2>1. T \in SessionMaps BY <1>1, <1>2
  <2> QED BY <1>5, <1>6, <2>1 DEF Balances
<1>8. BalanceOK(balance'[g]) /\ balance[g].nextId <= balance'[g].nextId /\ k \in 0 .. balance'[g].nextId - 1
  BY <1>1, <1>2, <1>3, <1>5, <1>7, SchedulerParts DEF BalanceOK
<1>9. call[p] \in Calls /\ CallOK(call[p]) BY SchedulerParts
<1>10. PICK c \in Calls : CallOK(c)' /\ c.phase # "queued" /\ call' = [call EXCEPT ![p] = c]
  <2>1. CASE stage = "gone"
    <3>1. Settled("failed", "error") \in Calls /\ Settled("failed", "error").phase = "failed"
          /\ Settled("failed", "error").outcome = "error"
      BY SettledType
    <3>2. CallOK(Settled("failed", "error"))' BY <3>1 DEF CallOK
    <3>3. call' = [call EXCEPT ![p] = Settled("failed", "error")] BY <2>1 DEF Run
    <3> QED BY <3>1, <3>2, <3>3
  <2>2. CASE stage # "gone"
    <3>1. PICK full : full = (T[k].requested >= T[k].window) OBVIOUS
    <3>2. full \in BOOLEAN BY <3>1
    <3>3. PICK c : c = [call[p] EXCEPT !.phase = "running", !.gen = g, !.id = k, !.full = full] OBVIOUS
    <3>4. k \in Nat BY <1>7, <1>8 DEF Balances
    <3>5. /\ c \in Calls /\ c.phase = "running" /\ c.gen = g /\ c.id = k
          /\ c.outcome = call[p].outcome /\ c.attempt = call[p].attempt
      BY <1>9, <3>2, <3>3, <3>4 DEF Calls
    <3>6. call' = [call EXCEPT ![p] = c] BY <1>2, <1>3, <2>2, <3>1, <3>3 DEF Run, S
    <3>7. k < balance'[g].nextId BY <1>7, <1>8, SMTT(30) DEF Balances
    <3>8. CallOK(c)' BY <1>9, <3>5, <3>7 DEF CallOK
    <3> QED BY <3>5, <3>6, <3>8
  <2> QED BY <2>1, <2>2
<1> HIDE DEF i
<1> QED BY <1>6, <1>7, <1>8, <1>10, MovesOn DEF SchedulerInv, SchedulerType

\* A call that fits in no window waits.
LEMMA QueueKeeps ==
    ASSUME SchedulerInv, NEW p \in Parts, NEW g \in Generations,
           call[p].phase \in {"ready", "flooded", "woken"}, call[p].attempt < RequestRetries,
           ~aborted, Queue(p, g), UNCHANGED <<current, stage, aborted, faults>>
    PROVE  SchedulerInv'
<1>1. PICK w : w = IF call[p].attempt > 0 THEN <<p>> \o balance[g].waiters
                                        ELSE Append(balance[g].waiters, p)
  OBVIOUS
<1>2. /\ BalanceOK(balance[g]) /\ balance[g] \in Balances /\ balance \in [Generations -> Balances]
      /\ balance[g].waiters \in Seq(Parts) /\ WaitersOK(g)
      /\ call[p] \in Calls /\ CallOK(call[p]) /\ call \in [Parts -> Calls]
  BY SchedulerParts DEF BalanceOK, SchedulerInv, SchedulerType
<1>3. p \notin Members(balance[g].waiters) BY <1>2 DEF WaitersOK, Waiting
<1>4. w \in Seq(Parts) /\ Distinct(w) /\ Members(w) = Members(balance[g].waiters) \cup {p}
  BY <1>1, <1>2, <1>3, AppendOf, PrependOf DEF WaitersOK
<1>5. balance' = [balance EXCEPT ![g] = [balance[g] EXCEPT !.waiters = w]]
  BY <1>1, <1>2 DEF Queue
<1>6. PICK b : b = [balance[g] EXCEPT !.waiters = w] OBVIOUS
<1>7. b \in Balances /\ b.waiters = w /\ b.sessions = balance[g].sessions /\ b.nextId = balance[g].nextId
  BY <1>2, <1>4, <1>6 DEF Balances
<1>8. BalanceOK(b) BY <1>2, <1>7 DEF BalanceOK
<1>9. /\ balance' \in [Generations -> Balances]
      /\ \A h \in Generations : DOMAIN balance'[h].sessions \subseteq 0 .. balance'[h].nextId - 1
      /\ balance'[g] = b /\ \A h \in Generations \ {g} : balance'[h] = balance[h]
  BY <1>5, <1>6, <1>8, BalanceSet
<1>10. PICK c : c = [call[p] EXCEPT !.phase = "queued", !.gen = g] OBVIOUS
<1>11. /\ c \in Calls /\ c.phase = "queued" /\ c.gen = g /\ c.outcome = call[p].outcome
       /\ c.attempt = call[p].attempt
  BY <1>2, <1>10 DEF Calls
<1>12. call' = [call EXCEPT ![p] = c] BY <1>2, <1>10 DEF Queue
<1>13. call' \in [Parts -> Calls] /\ call'[p] = c /\ \A q \in Parts \ {p} : call'[q] = call[q]
  BY <1>11, <1>12, CallSet
<1>14. CallOK(c)' BY <1>2, <1>11 DEF CallOK
<1>15. \A h \in Generations : balance[h].nextId <= balance'[h].nextId /\ balance'[h].nextId \in Nat
  <2> TAKE h \in Generations
  <2>1. balance'[h].nextId = balance[h].nextId /\ balance[h].nextId \in Nat
    BY <1>7, <1>9, SchedulerParts
  <2> QED BY <2>1
<1>16. \A q \in Parts : CallOK(call[q])'
  <2> TAKE q \in Parts
  <2>1. CASE q = p BY <1>13, <1>14, <2>1 DEF CallOK
  <2>2. CASE q # p BY <1>13, <1>15, <2>2, CallStays
  <2> QED BY <2>1, <2>2
<1>17. \A h \in Generations : WaitersOK(h)'
  <2> TAKE h \in Generations
  <2>1. CASE h = g
    <3>1. Waiting(g)' = Waiting(g) \cup {p} BY <1>11, <1>13 DEF Waiting
    <3> QED BY <1>2, <1>4, <1>7, <1>9, <2>1, <3>1 DEF WaitersOK
  <2>2. CASE h # g
    <3>1. balance'[h].waiters = balance[h].waiters BY <1>9, <2>2
    <3>2. \A q \in Parts : \/ call'[q] = call[q]
                           \/ /\ ~(call[q].phase = "queued" /\ call[q].gen = h)
                              /\ ~(call'[q].phase = "queued" /\ call'[q].gen = h)
      BY <1>11, <1>13, <2>2
    <3> QED BY <3>1, <3>2, WaitersStay
  <2> QED BY <2>1, <2>2
<1>18. SchedulerType' BY <1>9, <1>13 DEF SchedulerInv, SchedulerType
<1> QED BY <1>16, <1>17, <1>18 DEF SchedulerInv

-----------------------------------------------------------------------------
(* The scheduler: what is charged is what runs, and who waits has a waker *)

Uses(c)  == c.phase \in {"running", "answered"}
Wakes(c) == c.phase \in {"running", "answered", "woken"}

\* The calls charged to a session, as WindowsAccount counts them.
Users(g, i) == {p \in Parts : /\ call[p].phase \in {"running", "answered"}
                              /\ call[p].gen = g /\ call[p].id = i}

SameUse(c, d) == (Uses(c) <=> Uses(d)) /\ (Uses(c) => c.gen = d.gen /\ c.id = d.id)

\* The calls that hold or use a window are left alone.
AccountInv == SchedulerInv /\ WindowsAccount /\ WaitersHaveWaker

\* The calls are finitely many.
LEMMA UsersFinite ==
    ASSUME NEW g, NEW i
    PROVE  IsFiniteSet(Users(g, i)) /\ Cardinality(Users(g, i)) \in Nat
<1>1. PICK n : n = TotalParts - 1 OBVIOUS
<1>2. n \in Int /\ Parts = 0 .. n BY <1>1, Numbers DEF Parts
<1>3. IsFiniteSet(Parts) BY <1>2, FS_Interval
<1>4. IsFiniteSet(Users(g, i)) BY <1>3, FS_Subset DEF Users
<1> QED BY <1>4, FS_CardinalityType

\* The account in terms of Users.
LEMMA AccountOf ==
    WindowsAccount <=>
       (stage # "gone" =>
          \A g \in Generations : \A i \in DOMAIN balance[g].sessions :
             /\ balance[g].sessions[i].requested = Cardinality(Users(g, i))
             /\ balance[g].sessions[i].requested <= balance[g].sessions[i].window)
BY DEF WindowsAccount, Users

\* Windows and their users that stay are accounted for as they were.
LEMMA AccountStays ==
    ASSUME WindowsAccount, stage' # "gone" => stage # "gone",
           \A g \in Generations : balance'[g].sessions = balance[g].sessions,
           \A p \in Parts : SameUse(call[p], call'[p])
    PROVE  WindowsAccount'
<1>1. \A g \in Generations : \A i : Users(g, i)' = Users(g, i) BY DEF Users, SameUse, Uses
<1>2. SUFFICES ASSUME stage' # "gone", NEW g \in Generations, NEW i \in DOMAIN balance'[g].sessions
               PROVE  /\ balance'[g].sessions[i].requested = Cardinality(Users(g, i)')
                      /\ balance'[g].sessions[i].requested <= balance'[g].sessions[i].window
  BY DEF WindowsAccount, Users
<1>3. balance'[g].sessions = balance[g].sessions OBVIOUS
<1> QED BY <1>1, <1>2, <1>3, AccountOf

\* No waiter is added, and the calls that wake stay.
LEMMA WakersStay ==
    ASSUME WaitersHaveWaker, stage' # "gone" => stage # "gone",
           \A g \in Generations : balance'[g].waiters \in {balance[g].waiters, <<>>},
           \A p \in Parts : Wakes(call[p]) => Wakes(call'[p]) /\ call'[p].gen = call[p].gen
    PROVE  WaitersHaveWaker'
<1> SUFFICES ASSUME stage' # "gone", NEW g \in Generations, balance'[g].waiters # <<>>
             PROVE  \E p \in Parts : Wakes(call'[p]) /\ call'[p].gen = g
  BY DEF WaitersHaveWaker, Wakes
<1>1. balance'[g].waiters = balance[g].waiters OBVIOUS
<1>2. PICK p \in Parts : Wakes(call[p]) /\ call[p].gen = g
  BY <1>1 DEF WaitersHaveWaker, Wakes
<1> QED BY <1>2

\* Nobody waits once the transfer is aborted.
LEMMA AbortedQueues ==
    ASSUME SchedulerInv, aborted, NEW g \in Generations
    PROVE  balance[g].waiters = <<>>
<1>1. Waiting(g) = {} BY SchedulerParts DEF Waiting, CallOK
<1> QED BY <1>1, EmptyOf, SchedulerParts DEF WaitersOK

\* A call that neither holds a window nor wakes anybody moves on.
LEMMA IdleMoves ==
    ASSUME AccountInv, UNCHANGED <<current, stage, aborted, balance>>, faults' \in 0 .. MaxFaults,
           NEW p \in Parts, call[p].phase \in {"none", "ready"} \/ (call[p].phase = "woken" /\ aborted),
           NEW c \in Calls, c.phase \in {"ready", "flooded", "failed"}, CallOK(c)',
           call' = [call EXCEPT ![p] = c]
    PROVE  AccountInv'
<1>0. SchedulerInv BY DEF AccountInv
<1>1. SchedulerInv'
  <2>1. PICK g \in Generations : TRUE BY Numbers
  <2> QED BY <1>0, <2>1, MovesOn
<1>2. call'[p] = c /\ \A q \in Parts \ {p} : call'[q] = call[q] BY <1>0, CallSet
<1>3. \A q \in Parts : SameUse(call[q], call'[q]) BY <1>2 DEF SameUse, Uses
<1>4. WindowsAccount' BY <1>3, AccountStays DEF AccountInv
<1>5. WaitersHaveWaker'
  <2>1. CASE aborted
    <3>1. \A g \in Generations : balance'[g].waiters = <<>> BY <1>0, <2>1, AbortedQueues
    <3> QED BY <3>1 DEF WaitersHaveWaker
  <2>2. CASE ~aborted
    <3>1. \A q \in Parts : Wakes(call[q]) => Wakes(call'[q]) /\ call'[q].gen = call[q].gen
      BY <1>2, <2>2 DEF Wakes
    <3>2. \A g \in Generations : balance'[g].waiters \in {balance[g].waiters, <<>>} OBVIOUS
    <3>3. stage' # "gone" => stage # "gone" OBVIOUS
    <3> QED BY <3>1, <3>2, <3>3, WakersStay DEF AccountInv
  <2> QED BY <2>1, <2>2
<1> QED BY <1>1, <1>4, <1>5 DEF AccountInv

\* Run charges the session that the call uses then.
LEMMA RunAccounts ==
    ASSUME AccountInv, NEW p \in Parts, NEW g \in Generations,
           call[p].phase \in {"ready", "flooded"} \/ (call[p].phase = "woken" /\ call[p].gen = g),
           call[p].attempt < RequestRetries,
           Fits(balance[g].sessions) # {}, Run(p, g), UNCHANGED <<current, stage, aborted, faults>>
    PROVE  AccountInv'
<1>0. SchedulerInv /\ SchedulerInv' BY RunKeeps DEF AccountInv
<1>1. CASE stage = "gone" BY <1>0, <1>1 DEF AccountInv, WindowsAccount, WaitersHaveWaker
<1>2. CASE stage # "gone"
  <2>1. PICK i : i = Pick(balance[g].sessions) OBVIOUS
  <2>2. PICK S : S = Start(balance[g].sessions, i) OBVIOUS
  <2>3. /\ i \in DOMAIN balance[g].sessions
        /\ balance[g].sessions[i].requested + 1 <= balance[g].sessions[i].window
        /\ DOMAIN S = DOMAIN balance[g].sessions
        /\ S[i].requested = balance[g].sessions[i].requested + 1
        /\ S[i].window = balance[g].sessions[i].window
        /\ \A k \in DOMAIN S \ {i} : S[k] = balance[g].sessions[k]
    BY <1>0, <2>1, <2>2, SchedulerParts, StartFits
  <2>4. /\ balance'[g].sessions = S /\ balance'[g].waiters = balance[g].waiters
        /\ \A h \in Generations \ {g} : balance'[h] = balance[h]
    <3>1. balance \in [Generations -> Balances] BY <1>0 DEF SchedulerInv, SchedulerType
    <3>2. balance' = [balance EXCEPT ![g].sessions = S] BY <2>1, <2>2 DEF Run
    <3>3. balance[g] \in Balances BY <3>1
    <3>4. balance' = [balance EXCEPT ![g] = [balance[g] EXCEPT !.sessions = S]] BY <3>1, <3>2
    <3> QED BY <3>1, <3>3, <3>4 DEF Balances
  <2>5. /\ call'[p].phase = "running" /\ call'[p].gen = g /\ call'[p].id = i
        /\ \A q \in Parts \ {p} : call'[q] = call[q]
    <3>1. call \in [Parts -> Calls] /\ call[p] \in Calls BY <1>0 DEF SchedulerInv, SchedulerType
    <3>2. PICK full : call' = [call EXCEPT ![p] = [call[p] EXCEPT !.phase = "running", !.gen = g,
                                                                  !.id = i, !.full = full]]
      BY <1>2, <2>1, <3>1 DEF Run
    <3> QED BY <3>1, <3>2 DEF Calls
  <2>6. p \notin Users(g, i) BY DEF Users
  <2>7. Users(g, i)' = Users(g, i) \cup {p} BY <2>5, <2>6 DEF Users
  <2>8. \A h \in Generations : \A k : h # g \/ k # i => Users(h, k)' = Users(h, k)
    BY <2>5 DEF Users
  <2>9. Cardinality(Users(g, i)') = Cardinality(Users(g, i)) + 1
    BY <2>6, <2>7, UsersFinite, FS_AddElement
  <2>10. WindowsAccount'
    <3> SUFFICES ASSUME NEW h \in Generations, NEW k \in DOMAIN balance'[h].sessions
                 PROVE  /\ balance'[h].sessions[k].requested = Cardinality(Users(h, k)')
                        /\ balance'[h].sessions[k].requested <= balance'[h].sessions[k].window
      BY DEF WindowsAccount, Users
    <3>1. k \in DOMAIN balance[h].sessions BY <2>3, <2>4
    <3>2. /\ balance[h].sessions[k].requested = Cardinality(Users(h, k))
          /\ balance[h].sessions[k].requested <= balance[h].sessions[k].window
      BY <1>2, <3>1, AccountOf DEF AccountInv
    <3>3. CASE h = g /\ k = i BY <2>3, <2>4, <2>9, <3>2, <3>3
    <3>4. CASE ~(h = g /\ k = i)
      <4>1. Users(h, k)' = Users(h, k) BY <2>8, <3>4
      <4>2. balance'[h].sessions[k] = balance[h].sessions[k] BY <2>3, <2>4, <3>1, <3>4
      <4> QED BY <3>2, <4>1, <4>2
    <3> QED BY <3>3, <3>4
  <2>11. WaitersHaveWaker'
    <3>1. \A h \in Generations : balance'[h].waiters \in {balance[h].waiters, <<>>} BY <2>4
    <3>2. \A q \in Parts : Wakes(call[q]) => Wakes(call'[q]) /\ call'[q].gen = call[q].gen
      BY <2>5 DEF Wakes
    <3>3. stage' # "gone" => stage # "gone" OBVIOUS
    <3> QED BY <3>1, <3>2, <3>3, WakersStay DEF AccountInv
  <2> QED BY <1>0, <2>10, <2>11 DEF AccountInv
<1> QED BY <1>1, <1>2

\* A call that waits finds every session charged in full: somebody uses it.
LEMMA QueueAccounts ==
    ASSUME AccountInv, NEW p \in Parts, NEW g \in Generations,
           call[p].phase \in {"ready", "flooded"} \/ (call[p].phase = "woken" /\ call[p].gen = g),
           call[p].attempt < RequestRetries, ~aborted,
           Fits(balance[g].sessions) = {}, Queue(p, g), UNCHANGED <<current, stage, aborted, faults>>
    PROVE  AccountInv'
<1>0. SchedulerInv /\ SchedulerInv' BY QueueKeeps DEF AccountInv
<1>1. CASE stage = "gone" BY <1>0, <1>1 DEF AccountInv, WindowsAccount, WaitersHaveWaker
<1>2. CASE stage # "gone"
  <2>1. /\ call'[p].phase = "queued" /\ \A q \in Parts \ {p} : call'[q] = call[q]
    <3>1. call \in [Parts -> Calls] /\ call[p] \in Calls BY <1>0 DEF SchedulerInv, SchedulerType
    <3>2. call' = [call EXCEPT ![p] = [call[p] EXCEPT !.phase = "queued", !.gen = g]]
      BY <3>1 DEF Queue
    <3> QED BY <3>1, <3>2 DEF Calls
  <2>2. \A h \in Generations : /\ balance'[h].sessions = balance[h].sessions
                               /\ h # g => balance'[h].waiters = balance[h].waiters
    <3>1. balance \in [Generations -> Balances] BY <1>0 DEF SchedulerInv, SchedulerType
    <3>2. PICK w : balance' = [balance EXCEPT ![g] = [balance[g] EXCEPT !.waiters = w]]
      BY <3>1 DEF Queue
    <3> QED BY <3>1, <3>2 DEF Balances
  <2>3. \A q \in Parts : SameUse(call[q], call'[q]) BY <2>1 DEF SameUse, Uses
  <2>4. WindowsAccount'
    <3>1. \A h \in Generations : balance'[h].sessions = balance[h].sessions BY <2>2
    <3>2. stage' # "gone" => stage # "gone" OBVIOUS
    <3> QED BY <2>3, <3>1, <3>2, AccountStays DEF AccountInv
  <2>5. PICK u \in Parts : Uses(call[u]) /\ call[u].gen = g
    <3>1. PICK i \in DOMAIN balance[g].sessions : TRUE BY <1>0, SchedulerParts, SessionsType
    <3>2. balance[g].sessions[i] \in Loads BY <1>0, SchedulerParts, SessionsType
    <3>3. i \notin Fits(balance[g].sessions) OBVIOUS
    <3>4. ~(balance[g].sessions[i].requested + 1 <= balance[g].sessions[i].window)
      BY <3>1, <3>3 DEF Fits
    <3>5. Cardinality(Users(g, i)) # 0
      <4>1. balance[g].sessions[i].requested = Cardinality(Users(g, i))
        BY <1>2, <3>1, AccountOf DEF AccountInv
      <4>2. balance[g].sessions[i].window \in Nat \ {0} /\ balance[g].sessions[i].requested \in Nat
        BY <3>2, Numbers DEF Loads
      <4> QED BY <3>4, <4>1, <4>2
    <3>6. Users(g, i) # {} BY <3>5, FS_EmptySet
    <3> QED BY <3>6 DEF Users, Uses
  <2>6. WaitersHaveWaker'
    <3> SUFFICES ASSUME NEW h \in Generations, balance'[h].waiters # <<>>
                 PROVE  \E q \in Parts : Wakes(call'[q]) /\ call'[q].gen = h
      BY DEF WaitersHaveWaker, Wakes
    <3>1. CASE h = g
      <4>1. u # p BY <2>5 DEF Uses
      <4> QED BY <2>1, <2>5, <3>1, <4>1 DEF Uses, Wakes
    <3>2. CASE h # g
      <4>1. balance[h].waiters # <<>> BY <2>2, <3>2
      <4>2. PICK q \in Parts : Wakes(call[q]) /\ call[q].gen = h
        BY <1>2, <4>1 DEF AccountInv, WaitersHaveWaker, Wakes
      <4>3. q # p BY <3>2, <4>2 DEF Wakes
      <4> QED BY <2>1, <4>2, <4>3
    <3> QED BY <3>1, <3>2
  <2> QED BY <1>0, <2>4, <2>6 DEF AccountInv
<1> QED BY <1>1, <1>2

\* Run, or the waiters.
LEMMA PickAccounts ==
    ASSUME AccountInv, NEW p \in Parts, NEW g \in Generations,
           call[p].phase \in {"ready", "flooded"} \/ (call[p].phase = "woken" /\ call[p].gen = g),
           call[p].attempt < RequestRetries, aborted => Fits(balance[g].sessions) # {},
           PickOrQueue(p, g), UNCHANGED <<current, stage, aborted, faults>>
    PROVE  AccountInv'
<1>1. CASE Fits(balance[g].sessions) # {} BY <1>1, RunAccounts DEF PickOrQueue
<1>2. CASE Fits(balance[g].sessions) = {}
  <2>1. ~aborted /\ Queue(p, g) BY <1>2 DEF PickOrQueue
  <2> QED BY <1>2, <2>1, QueueAccounts
<1> QED BY <1>1, <1>2

LEMMA AttemptAccounts ==
    ASSUME AccountInv, NEW p \in Parts, Attempt(p)
    PROVE  AccountInv'
<1>1. /\ SchedulerInv /\ call[p] \in Calls /\ CallOK(call[p]) /\ call[p].phase = "ready"
      /\ UNCHANGED <<current, stage, aborted, faults>> /\ faults' \in 0 .. MaxFaults
      /\ current \in Generations /\ call[p].attempt \in 0 .. RequestRetries
  BY SchedulerParts DEF AccountInv, SchedulerInv, SchedulerType, Attempt, Calls
<1>2. CASE call[p].attempt = RequestRetries \/ aborted \/ stage # "open"
  <2>1. PICK o \in {"error", "abort"} :
           /\ call' = [call EXCEPT ![p] = Settled("failed", o)] /\ UNCHANGED balance
           /\ o = "abort" => aborted
    <3>1. PICK o : o = IF aborted /\ call[p].attempt < RequestRetries THEN "abort" ELSE "error"
      OBVIOUS
    <3>2. call' = [call EXCEPT ![p] = Settled("failed", o)] /\ UNCHANGED balance
      BY <1>2, <3>1 DEF Attempt
    <3> QED BY <3>1, <3>2
  <2>2. /\ Settled("failed", o) \in Calls /\ Settled("failed", o).phase = "failed"
        /\ Settled("failed", o).outcome = o
    BY SettledType
  <2>3. CallOK(Settled("failed", o))' BY <1>1, <2>1, <2>2 DEF CallOK
  <2> QED BY <1>1, <2>1, <2>2, <2>3, IdleMoves
<1>3. CASE ~(call[p].attempt = RequestRetries \/ aborted \/ stage # "open") /\ balance[current].flood
  <2>1. PICK c : c = [call[p] EXCEPT !.phase = "flooded", !.gen = current] OBVIOUS
  <2>2. UNCHANGED balance /\ call' = [call EXCEPT ![p] = c]
    <3>1. call \in [Parts -> Calls] BY <1>1 DEF SchedulerInv, SchedulerType
    <3> QED BY <1>3, <2>1, <3>1 DEF Attempt
  <2>3. /\ c \in Calls /\ c.phase = "flooded" /\ c.outcome = call[p].outcome
        /\ c.attempt = call[p].attempt
    BY <1>1, <2>1 DEF Calls
  <2>4. call[p].attempt < RequestRetries BY <1>1, <1>3, Numbers
  <2>5. CallOK(c)' BY <1>1, <1>3, <2>3, <2>4 DEF CallOK
  <2> QED BY <1>1, <2>2, <2>3, <2>5, IdleMoves
<1>4. CASE ~(call[p].attempt = RequestRetries \/ aborted \/ stage # "open") /\ ~balance[current].flood
  <2>1. PickOrQueue(p, current) BY <1>4 DEF Attempt
  <2>2. call[p].attempt < RequestRetries BY <1>1, <1>4, Numbers
  <2> QED BY <1>1, <1>4, <2>1, <2>2, PickAccounts
<1> QED BY <1>2, <1>3, <1>4

LEMMA FloodWaitedAccounts ==
    ASSUME AccountInv, NEW p \in Parts, FloodWaited(p)
    PROVE  AccountInv'
<1>1. /\ call[p] \in Calls /\ CallOK(call[p]) /\ call[p].phase = "flooded"
      /\ UNCHANGED <<current, stage, aborted, faults>> /\ PickOrQueue(p, call[p].gen)
  BY SchedulerParts DEF AccountInv, FloodWaited
<1>2. call[p].gen \in Generations /\ call[p].attempt < RequestRetries /\ ~aborted
  BY <1>1 DEF Calls, CallOK
<1> QED BY <1>1, <1>2, PickAccounts

LEMMA ResumeAccounts ==
    ASSUME AccountInv, NEW p \in Parts, Resume(p)
    PROVE  AccountInv'
<1>1. /\ SchedulerInv /\ call[p] \in Calls /\ CallOK(call[p]) /\ call[p].phase = "woken"
      /\ UNCHANGED <<current, stage, aborted, faults>> /\ faults' \in 0 .. MaxFaults
  BY SchedulerParts DEF AccountInv, SchedulerInv, SchedulerType, Resume
<1>2. call[p].gen \in Generations /\ call[p].attempt < RequestRetries
  BY <1>1 DEF Calls, CallOK
<1>3. CASE Fits(balance[call[p].gen].sessions) = {} /\ aborted
  <2>1. /\ Settled("failed", "abort") \in Calls /\ Settled("failed", "abort").phase = "failed"
        /\ Settled("failed", "abort").outcome = "abort"
    BY SettledType
  <2>2. CallOK(Settled("failed", "abort"))' BY <1>1, <1>3, <2>1 DEF CallOK
  <2>3. call' = [call EXCEPT ![p] = Settled("failed", "abort")] /\ UNCHANGED balance
    BY <1>3 DEF Resume
  <2> QED BY <1>1, <1>3, <2>1, <2>2, <2>3, IdleMoves
<1>4. CASE ~(Fits(balance[call[p].gen].sessions) = {} /\ aborted)
  <2>1. PickOrQueue(p, call[p].gen) BY <1>4 DEF Resume
  <2> QED BY <1>1, <1>2, <1>4, <2>1, PickAccounts
<1> QED BY <1>3, <1>4

\* The end of a flood wait is of no account.
LEMMA FloodEndsAccounts ==
    ASSUME AccountInv, NEW g \in Generations, FloodEnds(g)
    PROVE  AccountInv'
<1>0. SchedulerInv BY DEF AccountInv
<1>1. PICK b : b = [balance[g] EXCEPT !.flood = FALSE] OBVIOUS
<1>2. /\ balance[g] \in Balances /\ BalanceOK(balance[g]) /\ balance \in [Generations -> Balances]
  BY <1>0, SchedulerParts DEF BalanceOK, SchedulerInv, SchedulerType
<1>3. /\ b.sessions = balance[g].sessions /\ b.waiters = balance[g].waiters
      /\ b.nextId = balance[g].nextId /\ BalanceOK(b)
  BY <1>1, <1>2 DEF Balances, BalanceOK
<1>4. balance' = [balance EXCEPT ![g] = b] BY <1>1, <1>2 DEF FloodEnds
<1>5. /\ balance' \in [Generations -> Balances]
      /\ \A h \in Generations : DOMAIN balance'[h].sessions \subseteq 0 .. balance'[h].nextId - 1
      /\ balance'[g] = b /\ \A h \in Generations \ {g} : balance'[h] = balance[h]
  BY <1>0, <1>3, <1>4, BalanceSet
<1>6. \A h \in Generations : /\ balance'[h].sessions = balance[h].sessions
                             /\ balance'[h].waiters = balance[h].waiters
                             /\ balance'[h].nextId = balance[h].nextId
                             /\ balance[h].nextId \in Nat
  BY <1>0, <1>3, <1>5, SchedulerParts
<1>7. UNCHANGED <<current, stage, call, aborted, faults>> BY DEF FloodEnds
<1>8. \A q \in Parts : CallOK(call[q])'
  <2>1. \A h \in Generations : balance[h].nextId <= balance'[h].nextId /\ balance'[h].nextId \in Nat
    BY <1>6
  <2> QED BY <1>0, <1>7, <2>1, CallStays
<1>9. \A h \in Generations : WaitersOK(h)' BY <1>0, <1>6, <1>7, WaitersStay
<1>10. SchedulerInv' BY <1>0, <1>5, <1>7, <1>8, <1>9 DEF SchedulerInv, SchedulerType
<1>11. WindowsAccount' BY <1>6, <1>7, AccountStays DEF AccountInv, SameUse
<1>12. WaitersHaveWaker' BY <1>6, <1>7, WakersStay DEF AccountInv
<1> QED BY <1>10, <1>11, <1>12 DEF AccountInv

\* Requests of running calls settle.
LEMMA AnswersAccount ==
    ASSUME AccountInv, UNCHANGED <<balance, aborted>>, faults' \in 0 .. MaxFaults,
           current' \in Generations, stage' \in {"open", "closed", "gone"},
           stage' # "gone" => stage # "gone",
           NEW C \in [Parts -> {"keep", "ok", "flood", "error", "timeout", "removed", "abort"}],
           \A q \in Parts : /\ C[q] # "keep" => call[q].phase = "running"
                            /\ C[q] = "abort" => aborted,
           call' = [q \in Parts |-> IF C[q] = "keep" THEN call[q] ELSE Answer(call[q], C[q])]
    PROVE  AccountInv'
<1>0. SchedulerInv /\ call \in [Parts -> Calls] BY DEF AccountInv, SchedulerInv, SchedulerType
<1>1. \A q \in Parts : call[q] \in Calls /\ CallOK(call[q]) BY <1>0, SchedulerParts
<1>2. \A q \in Parts : \/ call'[q] = call[q]
                       \/ /\ call[q].phase = "running" /\ call'[q].phase = "answered"
                          /\ call'[q].outcome = C[q] /\ C[q] # "keep"
                          /\ call'[q].gen = call[q].gen /\ call'[q].id = call[q].id
                          /\ call'[q].attempt = call[q].attempt /\ call'[q] \in Calls
  <2> TAKE q \in Parts
  <2>1. call[q] \in Calls BY <1>1
  <2>2. CASE C[q] = "keep" BY <2>2
  <2>3. CASE C[q] # "keep"
    <3>1. PICK o : o = C[q] OBVIOUS
    <3>2. o \in {"ok", "flood", "error", "timeout", "removed", "abort"} BY <2>3, <3>1
    <3>3. PICK d : d = [call[q] EXCEPT !.phase = "answered", !.outcome = o] OBVIOUS
    <3>4. call'[q] = d BY <2>3, <3>1, <3>3 DEF Answer
    <3>5. /\ d \in Calls /\ d.phase = "answered" /\ d.outcome = o /\ d.gen = call[q].gen
          /\ d.id = call[q].id /\ d.attempt = call[q].attempt
      BY <2>1, <3>2, <3>3 DEF Calls
    <3> QED BY <2>3, <3>1, <3>4, <3>5
  <2> QED BY <2>2, <2>3
<1>3. call' \in [Parts -> Calls] BY <1>0, <1>2
<1>4. \A q \in Parts : CallOK(call[q])'
  <2> TAKE q \in Parts
  <2>1. CASE call'[q] = call[q] BY <1>1, <2>1 DEF CallOK
  <2>2. CASE call'[q] # call[q]
    <3>1. \A h \in Generations : balance'[h].nextId = balance[h].nextId OBVIOUS
    <3>2. C[q] # "none" OBVIOUS
    <3> QED BY <1>1, <1>2, <2>2, <3>2 DEF CallOK
  <2> QED BY <2>1, <2>2
<1>5. \A h \in Generations : WaitersOK(h)'
  <2> TAKE h \in Generations
  <2>1. \A q \in Parts : \/ call'[q] = call[q]
                         \/ /\ ~(call[q].phase = "queued" /\ call[q].gen = h)
                            /\ ~(call'[q].phase = "queued" /\ call'[q].gen = h)
    BY <1>2
  <2> QED BY <1>0, <2>1, WaitersStay
<1>6. SchedulerInv' BY <1>0, <1>3, <1>4, <1>5 DEF SchedulerInv, SchedulerType
<1>7. WindowsAccount'
  <2>1. \A q \in Parts : SameUse(call[q], call'[q]) BY <1>2 DEF SameUse, Uses
  <2>2. \A h \in Generations : balance'[h].sessions = balance[h].sessions OBVIOUS
  <2> QED BY <2>1, <2>2, AccountStays DEF AccountInv
<1>8. WaitersHaveWaker'
  <2>1. \A q \in Parts : Wakes(call[q]) => Wakes(call'[q]) /\ call'[q].gen = call[q].gen
    BY <1>2 DEF Wakes
  <2>2. \A h \in Generations : balance'[h].waiters \in {balance[h].waiters, <<>>} OBVIOUS
  <2> QED BY <2>1, <2>2, WakersStay DEF AccountInv
<1> QED BY <1>6, <1>7, <1>8 DEF AccountInv

LEMMA RequestsAccount ==
    ASSUME AccountInv, NEW p \in Parts, Reply(p) \/ ReplyBadly(p) \/ KeyBreaks(p)
    PROVE  AccountInv'
<1>1. /\ current' \in Generations /\ stage' \in {"open", "closed", "gone"}
      /\ stage' = stage /\ UNCHANGED <<balance, aborted>> /\ call[p].phase = "running"
      /\ call \in [Parts -> Calls] /\ aborted \in BOOLEAN
  BY DEF AccountInv, SchedulerInv, SchedulerType, Reply, ReplyBadly, KeyBreaks, Running
<1>2. faults' \in 0 .. MaxFaults
  BY Numbers DEF AccountInv, SchedulerInv, SchedulerType, Reply, ReplyBadly, KeyBreaks, Fault
<1> DEFINE One(o) == [q \in Parts |-> IF q = p THEN o ELSE "keep"]
<1>3. ASSUME NEW o \in {"ok", "flood", "error", "timeout", "abort"}, o = "abort" => aborted,
             call' = [call EXCEPT ![p] = Answer(@, o)]
      PROVE  AccountInv'
  <2>1. PICK C : C = One(o) OBVIOUS
  <2>2. C \in [Parts -> {"keep", "ok", "flood", "error", "timeout", "removed", "abort"}] BY <2>1
  <2>3. \A q \in Parts : /\ C[q] # "keep" => call[q].phase = "running"
                         /\ C[q] = "abort" => aborted
    BY <1>1, <1>3, <2>1
  <2>4. call' = [q \in Parts |-> IF C[q] = "keep" THEN call[q] ELSE Answer(call[q], C[q])]
    BY <1>1, <1>3, <2>1
  <2> QED BY <1>1, <1>2, <2>2, <2>3, <2>4, AnswersAccount
<1>4. CASE Reply(p)
  <2>1. CASE aborted
    <3>1. call' = [call EXCEPT ![p] = Answer(@, "abort")] BY <1>4, <2>1 DEF Reply
    <3> QED BY <1>3, <2>1, <3>1
  <2>2. CASE ~aborted
    <3>1. call' = [call EXCEPT ![p] = Answer(@, "ok")] BY <1>4, <2>2 DEF Reply
    <3> QED BY <1>3, <3>1
  <2> QED BY <2>1, <2>2
<1>5. CASE ReplyBadly(p)
  <2>1. PICK o \in {"flood", "error", "timeout"} : call' = [call EXCEPT ![p] = Answer(@, o)]
    BY <1>5 DEF ReplyBadly
  <2> QED BY <1>3, <2>1
<1>6. CASE KeyBreaks(p)
  <2>1. PICK C : C = [q \in Parts |-> IF ~Running(q) THEN "keep"
                                      ELSE IF Shifted(call[q].id) = Shifted(call[p].id)
                                      THEN "timeout" ELSE "removed"]
    OBVIOUS
  <2>2. C \in [Parts -> {"keep", "ok", "flood", "error", "timeout", "removed", "abort"}] BY <2>1
  <2>3. \A q \in Parts : /\ C[q] # "keep" => call[q].phase = "running"
                         /\ C[q] = "abort" => aborted
    BY <2>1 DEF Running
  <2>4. call' = [q \in Parts |-> IF C[q] = "keep" THEN call[q] ELSE Answer(call[q], C[q])]
    BY <1>6, <2>1 DEF KeyBreaks
  <2> QED BY <1>1, <1>2, <2>2, <2>3, <2>4, AnswersAccount
<1> QED BY <1>4, <1>5, <1>6

LEMMA ClosingsAccount ==
    ASSUME AccountInv, Purge \/ CloseNetwork
    PROVE  AccountInv'
<1>1. /\ current' \in Generations /\ stage' \in {"open", "closed", "gone"}
      /\ stage' # "gone" => stage # "gone"
      /\ UNCHANGED <<balance, aborted, faults>> /\ faults' \in 0 .. MaxFaults
  BY DEF AccountInv, SchedulerInv, SchedulerType, Purge, CloseNetwork
<1>2. PICK C : C = [q \in Parts |-> IF Running(q) THEN "removed" ELSE "keep"] OBVIOUS
<1>3. C \in [Parts -> {"keep", "ok", "flood", "error", "timeout", "removed", "abort"}] BY <1>2
<1>4. \A q \in Parts : /\ C[q] # "keep" => call[q].phase = "running"
                       /\ C[q] = "abort" => aborted
  BY <1>2 DEF Running
<1>5. call' = [q \in Parts |-> IF C[q] = "keep" THEN call[q] ELSE Answer(call[q], C[q])]
  BY <1>2 DEF Purge, CloseNetwork
<1> QED BY <1>1, <1>3, <1>4, <1>5, AnswersAccount

\* Of the empty sequence.
LEMMA NobodyWaits == Members(<<>>) = {} /\ Distinct(<<>>)
BY DEF Members, Distinct

\* close() wakes all who wait in the current generation.
LEMMA CloseAccounts ==
    ASSUME AccountInv, Close
    PROVE  AccountInv'
<1>0. SchedulerInv /\ call \in [Parts -> Calls] /\ current \in Generations
  BY DEF AccountInv, SchedulerInv, SchedulerType
<1>1. UNCHANGED <<current, aborted, faults>> /\ stage = "open" /\ stage' = "closed" BY DEF Close
<1>2. PICK b : b = [balance[current] EXCEPT !.waiters = <<>>] OBVIOUS
<1>3. /\ balance[current] \in Balances /\ BalanceOK(balance[current])
      /\ balance \in [Generations -> Balances]
  BY <1>0, SchedulerParts DEF BalanceOK, SchedulerInv, SchedulerType
<1>4. /\ b.sessions = balance[current].sessions /\ b.waiters = <<>>
      /\ b.nextId = balance[current].nextId /\ BalanceOK(b)
  BY <1>2, <1>3, EmptyOf DEF Balances, BalanceOK
<1>5. balance' = [balance EXCEPT ![current] = b] BY <1>2, <1>3 DEF Close
<1>6. /\ balance' \in [Generations -> Balances]
      /\ \A h \in Generations : DOMAIN balance'[h].sessions \subseteq 0 .. balance'[h].nextId - 1
      /\ balance'[current] = b /\ \A h \in Generations \ {current} : balance'[h] = balance[h]
  BY <1>0, <1>4, <1>5, BalanceSet
<1>7. \A h \in Generations : /\ balance'[h].sessions = balance[h].sessions
                             /\ balance'[h].waiters \in {balance[h].waiters, <<>>}
                             /\ balance'[h].nextId = balance[h].nextId
                             /\ balance[h].nextId \in Nat
  BY <1>0, <1>4, <1>6, SchedulerParts
<1>8. \A q \in Parts : \/ call'[q] = call[q] /\ ~(call[q].phase = "queued" /\ call[q].gen = current)
                       \/ /\ call[q].phase = "queued" /\ call[q].gen = current
                          /\ call'[q] \in Calls /\ call'[q].phase = "woken"
                          /\ call'[q].outcome = call[q].outcome /\ call'[q].attempt = call[q].attempt
  <2> TAKE q \in Parts
  <2>1. call[q] \in Calls BY <1>0
  <2>2. CASE ~(call[q].phase = "queued" /\ call[q].gen = current) BY <2>2 DEF Close
  <2>3. CASE call[q].phase = "queued" /\ call[q].gen = current
    <3>1. call'[q] = [call[q] EXCEPT !.phase = "woken"] BY <2>3 DEF Close
    <3> QED BY <2>1, <2>3, <3>1 DEF Calls
  <2> QED BY <2>2, <2>3
<1>9. call' \in [Parts -> Calls]
  <2>1. \A q \in Parts : call'[q] \in Calls BY <1>0, <1>8
  <2>2. PICK C : C = call' OBVIOUS
  <2>3. C = [q \in Parts |-> C[q]] BY <2>2 DEF Close
  <2> QED BY <2>1, <2>2, <2>3
<1>10. \A q \in Parts : CallOK(call[q])'
  <2> TAKE q \in Parts
  <2>1. call[q] \in Calls /\ CallOK(call[q]) BY <1>0, SchedulerParts
  <2>2. CASE call'[q] = call[q]
    <3>1. \A h \in Generations : balance[h].nextId <= balance'[h].nextId /\ balance'[h].nextId \in Nat
      BY <1>7
    <3> QED BY <1>0, <1>1, <2>2, <3>1, CallStays
  <2>3. CASE call'[q] # call[q] BY <1>1, <1>8, <2>1, <2>3 DEF CallOK
  <2> QED BY <2>2, <2>3
<1>11. \A h \in Generations : WaitersOK(h)'
  <2> TAKE h \in Generations
  <2>1. CASE h = current
    <3>1. Waiting(h)' = {} BY <1>8, <2>1 DEF Waiting
    <3>2. balance'[h].waiters = <<>> BY <1>4, <1>6, <2>1
    <3> QED BY <3>1, <3>2, NobodyWaits DEF WaitersOK
  <2>2. CASE h # current
    <3>1. balance'[h].waiters = balance[h].waiters BY <1>6, <2>2
    <3>2. \A q \in Parts : \/ call'[q] = call[q]
                           \/ /\ ~(call[q].phase = "queued" /\ call[q].gen = h)
                              /\ ~(call'[q].phase = "queued" /\ call'[q].gen = h)
      BY <1>8, <2>2
    <3> QED BY <1>0, <3>1, <3>2, WaitersStay
  <2> QED BY <2>1, <2>2
<1>12. SchedulerInv' BY <1>0, <1>1, <1>6, <1>9, <1>10, <1>11 DEF SchedulerInv, SchedulerType
<1>13. stage' # "gone" => stage # "gone" BY <1>1
<1>14. WindowsAccount'
  <2>1. \A q \in Parts : SameUse(call[q], call'[q]) BY <1>8 DEF SameUse, Uses
  <2> QED BY <1>7, <1>13, <2>1, AccountStays DEF AccountInv
<1>15. WaitersHaveWaker'
  <2>1. \A q \in Parts : Wakes(call[q]) => Wakes(call'[q]) /\ call'[q].gen = call[q].gen
    BY <1>8 DEF Wakes
  <2> QED BY <1>7, <1>13, <2>1, WakersStay DEF AccountInv
<1> QED BY <1>12, <1>14, <1>15 DEF AccountInv

\* The signal of the transfer settles who waits.
LEMMA AbortAccounts ==
    ASSUME AccountInv, Abort, UNCHANGED <<current, stage, faults>>
    PROVE  AccountInv'
<1>0. /\ SchedulerInv /\ call \in [Parts -> Calls] /\ balance \in [Generations -> Balances]
      /\ aborted' = TRUE
  BY DEF AccountInv, SchedulerInv, SchedulerType, Abort
<1>1. \A h \in Generations : /\ balance'[h] \in Balances /\ balance'[h].waiters = <<>>
                             /\ balance'[h].sessions = balance[h].sessions
                             /\ balance'[h].nextId = balance[h].nextId
  <2> TAKE h \in Generations
  <2>1. balance[h] \in Balances BY <1>0
  <2>2. PICK b : b = [balance[h] EXCEPT !.waiters = <<>>] OBVIOUS
  <2>3. balance'[h] = b BY <2>2 DEF Abort
  <2>4. <<>> \in Seq(Parts) OBVIOUS
  <2> QED BY <2>1, <2>2, <2>3, <2>4 DEF Balances
<1>2. balance' \in [Generations -> Balances]
  <2>1. PICK B : B = balance' OBVIOUS
  <2>2. B = [h \in Generations |-> B[h]] BY <2>1 DEF Abort
  <2> QED BY <1>1, <2>1, <2>2
<1>3. \A q \in Parts : \/ call'[q] = call[q] /\ call[q].phase \notin {"queued", "flooded"}
                       \/ /\ call[q].phase \in {"queued", "flooded"} /\ call'[q] \in Calls
                          /\ call'[q].phase = "failed" /\ call'[q].outcome = "abort"
  <2>1. /\ Settled("failed", "abort") \in Calls /\ Settled("failed", "abort").phase = "failed"
        /\ Settled("failed", "abort").outcome = "abort"
    BY SettledType
  <2>2. PICK d : d = Settled("failed", "abort") OBVIOUS
  <2>3. \A q \in Parts : call'[q] = IF call[q].phase \in {"queued", "flooded"} THEN d ELSE call[q]
    BY <2>2 DEF Abort
  <2> QED BY <2>1, <2>2, <2>3
<1>4. call' \in [Parts -> Calls]
  <2>1. \A q \in Parts : call'[q] \in Calls BY <1>0, <1>3
  <2>2. PICK C : C = call' OBVIOUS
  <2>3. C = [q \in Parts |-> C[q]] BY <2>2 DEF Abort
  <2> QED BY <2>1, <2>2, <2>3
<1>5. \A q \in Parts : CallOK(call[q])'
  <2> TAKE q \in Parts
  <2>1. call[q] \in Calls /\ CallOK(call[q]) /\ balance'[call[q].gen].nextId = balance[call[q].gen].nextId
    BY <1>0, <1>1, SchedulerParts DEF Calls
  <2>2. CASE call'[q] = call[q] /\ call[q].phase \notin {"queued", "flooded"}
    BY <1>0, <2>1, <2>2 DEF CallOK
  <2>3. CASE call'[q].phase = "failed" /\ call'[q].outcome = "abort" BY <1>0, <2>3 DEF CallOK
  <2> QED BY <1>3, <2>2, <2>3
<1>6. \A h \in Generations : WaitersOK(h)'
  <2> TAKE h \in Generations
  <2>1. Waiting(h)' = {} BY <1>3 DEF Waiting
  <2>2. balance'[h].waiters = <<>> BY <1>1
  <2> QED BY <2>1, <2>2, NobodyWaits DEF WaitersOK
<1>7. SchedulerInv'
  <2>1. \A h \in Generations : DOMAIN balance'[h].sessions \subseteq 0 .. balance'[h].nextId - 1
    BY <1>0, <1>1 DEF SchedulerInv, SchedulerType
  <2> QED BY <1>0, <1>2, <1>4, <1>5, <1>6, <2>1 DEF SchedulerInv, SchedulerType
<1>8. WindowsAccount'
  <2>1. \A q \in Parts : SameUse(call[q], call'[q]) BY <1>3 DEF SameUse, Uses
  <2>2. \A h \in Generations : balance'[h].sessions = balance[h].sessions BY <1>1
  <2>3. stage' # "gone" => stage # "gone" OBVIOUS
  <2> QED BY <2>1, <2>2, <2>3, AccountStays DEF AccountInv
<1>9. WaitersHaveWaker' BY <1>1 DEF WaitersHaveWaker
<1> QED BY <1>7, <1>8, <1>9 DEF AccountInv

\* The fields of a load.
LEMMA LoadNumbers ==
    ASSUME NEW l \in Loads
    PROVE  l.requested \in Nat /\ l.window \in Nat
<1>1. l.requested \in 0 .. MaxWindow /\ l.window \in StartWindow .. MaxWindow BY DEF Loads
<1> QED BY <1>1, Numbers

\* The end of _run: the window is released, and the first waiter picks again.
LEMMA EndAccounts ==
    ASSUME AccountInv, UNCHANGED <<current, stage, aborted>>, faults' \in 0 .. MaxFaults,
           NEW p \in Parts, call[p].phase = "answered", NEW g \in Generations, call[p].gen = g,
           NEW b \in Balances, balance' = [balance EXCEPT ![g] = b],
           After(balance[g], b.sessions, b.nextId, call[p].id),
           b.waiters = IF balance[g].waiters = <<>> THEN <<>> ELSE Tail(balance[g].waiters),
           NEW C \in [Parts -> Calls],
           \A q \in Parts : C[q] = call[q] \/ (call[q].phase = "running" /\ C[q] = Answer(call[q], "removed")),
           NEW c \in Calls, c.phase \in {"got", "failed", "ready"}, CallOK(c)',
           call' = [Woken(C, balance[g]) EXCEPT ![p] = c]
    PROVE  AccountInv'
<1>0. SchedulerInv BY DEF AccountInv
<1>1. \A q \in Parts : call[q] \in Calls /\ CallOK(call[q]) BY <1>0, SchedulerParts
<1>2. \A q \in Parts : \/ C[q] = call[q]
                       \/ /\ call[q].phase = "running" /\ C[q].phase = "answered"
                          /\ C[q].outcome = "removed" /\ C[q].gen = call[q].gen
                          /\ C[q].id = call[q].id /\ C[q].attempt = call[q].attempt
  <2> TAKE q \in Parts
  <2>1. call[q] \in Calls BY <1>1
  <2>2. CASE C[q] # call[q]
    <3>1. C[q] = [call[q] EXCEPT !.phase = "answered", !.outcome = "removed"]
          /\ call[q].phase = "running"
      BY <2>2 DEF Answer
    <3> QED BY <2>1, <3>1 DEF Calls
  <2> QED BY <2>2
<1>3. WaitersOK(g) /\ balance[g].waiters \in Seq(Parts) /\ BalanceOK(balance[g])
  BY <1>0, SchedulerParts
\* The first waiter.
<1> DEFINE Heads == IF balance[g].waiters = <<>> THEN {} ELSE {Head(balance[g].waiters)}
<1>4. /\ Distinct(b.waiters) /\ Members(b.waiters) = Waiting(g) \ Heads
      /\ Heads \subseteq Waiting(g)
      /\ balance[g].waiters # <<>> => Head(balance[g].waiters) \in Waiting(g)
  <2>1. CASE balance[g].waiters = <<>>
    <3>1. b.waiters = <<>> /\ Waiting(g) = {} /\ Heads = {}
      BY <1>3, <2>1, NobodyWaits DEF WaitersOK
    <3> QED BY <2>1, <3>1, NobodyWaits
  <2>2. CASE balance[g].waiters # <<>>
    <3>1. PICK w : w = balance[g].waiters OBVIOUS
    <3>2. b.waiters = Tail(w) /\ Heads = {Head(w)} BY <2>2, <3>1
    <3>3. Distinct(w) /\ Members(w) = Waiting(g) BY <1>3, <3>1 DEF WaitersOK
    <3>4. /\ Head(w) \in Members(w)
          /\ Distinct(w) => Distinct(Tail(w)) /\ Members(Tail(w)) = Members(w) \ {Head(w)}
      BY <1>3, <2>2, <3>1, TailOf
    <3> QED BY <3>1, <3>2, <3>3, <3>4
  <2> QED BY <2>1, <2>2
<1>5. \A q \in Parts \ {p} :
         \/ q \in Heads /\ call'[q].phase = "woken" /\ call'[q] \in Calls
            /\ call'[q].gen = call[q].gen /\ call'[q].outcome = call[q].outcome
            /\ call'[q].attempt = call[q].attempt /\ call[q].phase = "queued" /\ call[q].gen = g
         \/ q \notin Heads /\ call'[q] = C[q]
  <2> TAKE q \in Parts \ {p}
  <2>1. CASE balance[g].waiters = <<>>
    <3>1. call' = [C EXCEPT ![p] = c] BY <2>1 DEF Woken
    <3> QED BY <2>1, <3>1
  <2>2. CASE balance[g].waiters # <<>>
    <3>1. PICK h \in Parts : h = Head(balance[g].waiters) /\ h \in Waiting(g)
      BY <1>4, <2>2 DEF Waiting
    <3>2. call[h].phase = "queued" /\ call[h].gen = g /\ C[h] = call[h] /\ call[h] \in Calls
      BY <1>1, <1>2, <3>1 DEF Waiting
    <3>3. PICK d : d = [C[h] EXCEPT !.phase = "woken"] OBVIOUS
    <3>4. call' = [[C EXCEPT ![h] = d] EXCEPT ![p] = c] BY <2>2, <3>1, <3>3 DEF Woken
    <3>5. /\ d \in Calls /\ d.phase = "woken" /\ d.gen = call[h].gen /\ d.outcome = call[h].outcome
          /\ d.attempt = call[h].attempt
      BY <3>2, <3>3 DEF Calls
    <3>6. CASE q = h
      <4>1. call'[q] = d BY <3>4, <3>6
      <4> QED BY <2>2, <3>1, <3>2, <3>5, <3>6, <4>1
    <3>7. CASE q # h
      <4>1. call'[q] = C[q] BY <3>4, <3>7
      <4> QED BY <2>2, <3>1, <3>7, <4>1
    <3> QED BY <3>6, <3>7
  <2> QED BY <2>1, <2>2
<1>6. call' \in [Parts -> Calls] /\ call'[p] = c
  <2>1. Woken(C, balance[g]) \in [Parts -> Calls]
    <3>1. CASE balance[g].waiters = <<>> BY <3>1 DEF Woken
    <3>2. CASE balance[g].waiters # <<>>
      <4>1. PICK h : h = Head(balance[g].waiters) OBVIOUS
      <4>2. h \in Parts BY <1>4, <3>2, <4>1 DEF Waiting
      <4>3. C[h] \in Calls BY <4>2
      <4>4. PICK d : d = [C[h] EXCEPT !.phase = "woken"] OBVIOUS
      <4>5. d \in Calls BY <4>3, <4>4 DEF Calls
      <4>6. Woken(C, balance[g]) = [C EXCEPT ![h] = d] BY <3>2, <4>1, <4>4 DEF Woken
      <4> QED BY <4>5, <4>6
    <3> QED BY <3>1, <3>2
  <2> QED BY <2>1
<1> HIDE DEF Heads
<1>7. BalanceOK(b) BY DEF After, BalanceOK
<1>8. /\ balance' \in [Generations -> Balances]
      /\ \A h \in Generations : DOMAIN balance'[h].sessions \subseteq 0 .. balance'[h].nextId - 1
      /\ balance'[g] = b /\ \A h \in Generations \ {g} : balance'[h] = balance[h]
  BY <1>0, <1>7, BalanceSet
<1>9. \A h \in Generations : balance[h].nextId <= balance'[h].nextId /\ balance'[h].nextId \in Nat
  <2> TAKE h \in Generations
  <2>1. balance[h].nextId \in Nat BY <1>0, SchedulerParts
  <2> QED BY <1>8, <2>1 DEF After
<1>10. \A q \in Parts : CallOK(call[q])'
  <2> TAKE q \in Parts
  <2>1. CASE q = p BY <1>6, <2>1 DEF CallOK
  <2>2. CASE q # p /\ call'[q] = call[q] BY <1>0, <1>9, <2>2, CallStays
  <2>3. CASE q # p /\ call'[q] # call[q] /\ call'[q] = C[q]
    <3>1. /\ call[q].phase = "running" /\ call'[q].phase = "answered"
          /\ call'[q].outcome = "removed" /\ call'[q].gen = call[q].gen
          /\ call'[q].id = call[q].id /\ call'[q].attempt = call[q].attempt
      BY <1>2, <2>3
    <3>2. call[q].id < balance[call[q].gen].nextId /\ call[q].attempt < RequestRetries
      BY <1>1, <3>1 DEF CallOK
    <3>3. call[q].gen \in Generations /\ call[q].id \in Nat BY <1>1 DEF Calls
    <3>4. call[q].id < balance'[call[q].gen].nextId
      <4>1. PICK h \in Generations : h = call[q].gen BY <3>3
      <4>2. /\ balance[h].nextId \in Nat /\ balance'[h].nextId \in Nat
            /\ balance[h].nextId <= balance'[h].nextId
        BY <1>0, <1>9, SchedulerParts
      <4>3. call[q].id \in Nat /\ call[q].id < balance[h].nextId BY <3>2, <3>3, <4>1
      <4>4. call[q].id < balance'[h].nextId BY <4>2, <4>3
      <4> QED BY <4>1, <4>4
    <3> QED BY <3>1, <3>2, <3>4 DEF CallOK
  <2>4. CASE q # p /\ call'[q] # C[q]
    <3>1. call'[q].phase = "woken" /\ call'[q].outcome = call[q].outcome
          /\ call'[q].attempt = call[q].attempt /\ call[q].phase = "queued"
      BY <1>5, <2>4
    <3> QED BY <1>1, <3>1 DEF CallOK
  <2> QED BY <2>1, <2>2, <2>3, <2>4
<1>11. \A h \in Generations : WaitersOK(h)'
  <2> TAKE h \in Generations
  <2>1. CASE h = g
    <3>1. Waiting(g)' = Waiting(g) \ Heads BY <1>2, <1>4, <1>5, <1>6 DEF Waiting
    <3> QED BY <1>4, <1>8, <2>1, <3>1 DEF WaitersOK
  <2>2. CASE h # g
    <3>1. balance'[h].waiters = balance[h].waiters BY <1>8, <2>2
    <3>2. \A q \in Parts : \/ call'[q] = call[q]
                           \/ /\ ~(call[q].phase = "queued" /\ call[q].gen = h)
                              /\ ~(call'[q].phase = "queued" /\ call'[q].gen = h)
      <4> TAKE q \in Parts
      <4>1. CASE q = p BY <1>6, <4>1
      <4>2. CASE q # p BY <1>2, <1>5, <2>2, <4>2
      <4> QED BY <4>1, <4>2
    <3> QED BY <1>0, <3>1, <3>2, WaitersStay
  <2> QED BY <2>1, <2>2
<1>12. SchedulerInv' BY <1>0, <1>6, <1>8, <1>10, <1>11 DEF SchedulerInv, SchedulerType
<1>13. CASE stage = "gone" BY <1>12, <1>13 DEF AccountInv, WindowsAccount, WaitersHaveWaker
<1>14. CASE stage # "gone"
  <2>1. PICK i : i = call[p].id OBVIOUS
  <2>2. p \in Users(g, i) BY <2>1 DEF Users
  <2>3. \A q \in Parts \ {p} : SameUse(call[q], call'[q]) BY <1>2, <1>5 DEF SameUse, Uses
  <2>4. ~Uses(call'[p]) BY <1>6 DEF Uses
  <2>5. Users(g, i)' = Users(g, i) \ {p} BY <2>3, <2>4 DEF Users, SameUse, Uses
  <2>6. \A h \in Generations : \A k : h # g \/ k # i => Users(h, k)' = Users(h, k)
    BY <2>1, <2>3, <2>4 DEF Users, SameUse, Uses
  <2>7. /\ Cardinality(Users(g, i)') = Cardinality(Users(g, i)) - 1
        /\ Cardinality(Users(g, i)) \in Nat /\ Cardinality(Users(g, i)) # 0
    <3>1. Cardinality(Users(g, i)) \in Nat /\ IsFiniteSet(Users(g, i)) BY UsersFinite
    <3>2. Cardinality(Users(g, i) \ {p}) = Cardinality(Users(g, i)) - 1
      BY <2>2, <3>1, FS_RemoveElement
    <3>3. Cardinality(Users(g, i)) # 0 BY <2>2, <3>1, FS_EmptySet
    <3> QED BY <2>5, <3>1, <3>2, <3>3
  <2>8. WindowsAccount'
    <3> SUFFICES ASSUME NEW h \in Generations, NEW k \in DOMAIN balance'[h].sessions
                 PROVE  /\ balance'[h].sessions[k].requested = Cardinality(Users(h, k)')
                        /\ balance'[h].sessions[k].requested <= balance'[h].sessions[k].window
      BY DEF WindowsAccount, Users
    <3>1. CASE h # g
      <4>1. balance'[h] = balance[h] /\ Users(h, k)' = Users(h, k) BY <1>8, <2>6, <3>1
      <4> QED BY <1>14, <4>1, AccountOf DEF AccountInv
    <3>2. CASE h = g /\ k \in DOMAIN balance[g].sessions
               /\ b.sessions[k].requested = (IF k = i THEN Less(balance[g].sessions[k].requested)
                                                      ELSE balance[g].sessions[k].requested)
               /\ balance[g].sessions[k].window <= b.sessions[k].window
      <4>1. /\ balance[g].sessions[k].requested = Cardinality(Users(g, k))
            /\ balance[g].sessions[k].requested <= balance[g].sessions[k].window
        BY <1>14, <3>2, AccountOf DEF AccountInv
      <4>2. balance[g].sessions[k] \in Loads /\ b.sessions[k] \in Loads
        BY <1>0, <1>8, <3>2, SchedulerParts, SessionsType, SMTT(30) DEF Balances
      <4>3. balance[g].sessions[k].window \in Nat /\ b.sessions[k].window \in Nat
        BY <4>2, LoadNumbers
      <4>4. CASE k = i
        <5>1. b.sessions[k].requested = Cardinality(Users(g, i)) - 1
          BY <2>7, <3>2, <4>1, <4>4 DEF Less
        <5>2. Cardinality(Users(g, i)) - 1 <= b.sessions[k].window
          <6>1. Cardinality(Users(g, i)) <= balance[g].sessions[k].window BY <4>1, <4>4
          <6>2. balance[g].sessions[k].window <= b.sessions[k].window BY <3>2
          <6>3. \A n, v, w \in Nat : n <= v /\ v <= w => n - 1 <= w OBVIOUS
          <6>4. Cardinality(Users(g, i)) \in Nat BY UsersFinite
          <6> QED BY <4>3, <6>1, <6>2, <6>3, <6>4, ZenonT(30)
        <5> QED BY <1>8, <2>7, <3>2, <4>4, <5>1, <5>2
      <4>5. CASE k # i
        <5>1. Users(g, k)' = Users(g, k) BY <2>6, <4>5
        <5>2. Cardinality(Users(g, k)) \in Nat BY UsersFinite
        <5> QED BY <1>8, <3>2, <4>1, <4>3, <4>5, <5>1, <5>2, SMTT(30)
      <4> QED BY <4>4, <4>5
    <3>3. CASE h = g /\ k >= balance[g].nextId /\ b.sessions[k].requested = 0
      <4>1. k \in Nat /\ b.sessions[k] \in Loads /\ balance[g].nextId \in Nat
        BY <1>0, <1>8, <3>3, SchedulerParts, SessionsType DEF Balances
      <4>2. Users(g, k) = {}
        <5> SUFFICES ASSUME NEW q \in Users(g, k) PROVE FALSE OBVIOUS
        <5>1. q \in Parts /\ call[q].phase \in {"running", "answered"} /\ call[q].gen = g
              /\ call[q].id = k
          BY DEF Users
        <5>2. k < balance[g].nextId BY <1>1, <5>1 DEF CallOK
        <5> QED BY <3>3, <4>1, <5>2
      <4>3. k # i BY <2>2, <4>2
      <4>4. Users(g, k)' = {} BY <2>6, <4>2, <4>3
      <4>5. Cardinality({}) = 0 BY FS_EmptySet
      <4>6. b.sessions[k].window \in Nat BY <4>1, Numbers DEF Loads
      <4> QED BY <1>8, <3>3, <4>4, <4>5, <4>6
    <3> QED BY <1>8, <2>1, <3>1, <3>2, <3>3 DEF After
  <2>9. WaitersHaveWaker'
    <3> SUFFICES ASSUME NEW h \in Generations, balance'[h].waiters # <<>>
                 PROVE  \E q \in Parts : Wakes(call'[q]) /\ call'[q].gen = h
      BY DEF WaitersHaveWaker, Wakes
    <3>1. CASE h = g
      <4>1. balance[g].waiters # <<>> BY <1>8, <3>1
      <4>2. PICK q \in Heads : q \in Waiting(g) BY <1>4, <4>1 DEF Heads
      <4>3. q \in Parts \ {p} BY <4>2 DEF Waiting
      <4> QED BY <1>5, <3>1, <4>2, <4>3 DEF Wakes
    <3>2. CASE h # g
      <4>1. balance[h].waiters # <<>> BY <1>8, <3>2
      <4>2. PICK q \in Parts : Wakes(call[q]) /\ call[q].gen = h
        BY <1>14, <4>1 DEF AccountInv, WaitersHaveWaker, Wakes
      <4>3. q \in Parts \ {p} BY <3>2, <4>2
      <4>4. Wakes(call'[q]) /\ call'[q].gen = h BY <1>2, <1>5, <4>2, <4>3 DEF Wakes
      <4> QED BY <4>4
    <3> QED BY <3>1, <3>2
  <2> QED BY <1>12, <2>8, <2>9 DEF AccountInv
<1> QED BY <1>13, <1>14

LEMMA ReturnedAccounts ==
    ASSUME AccountInv, NEW p \in Parts, Returned(p)
    PROVE  AccountInv'
<1>0. /\ SchedulerInv /\ call \in [Parts -> Calls] /\ balance \in [Generations -> Balances]
      /\ call[p] \in Calls /\ CallOK(call[p]) /\ call[p].phase = "answered"
      /\ UNCHANGED <<current, stage, aborted>>
  BY SchedulerParts DEF AccountInv, SchedulerInv, SchedulerType, Returned
<1>1. PICK g \in Generations : call[p].gen = g BY <1>0 DEF Calls
<1>2. BalanceOK(balance[g]) /\ balance[g].waiters \in Seq(Parts) BY <1>0, SchedulerParts
<1>3. PICK slow \in BOOLEAN, gatePassed \in BOOLEAN :
         /\ IF slow THEN Fault ELSE UNCHANGED faults
         /\ balance' = [balance EXCEPT ![g] =
                           WakeOne(Succeed(@, call[p].id, call[p].full, slow, gatePassed))]
         /\ call' = [Woken(call, balance[g]) EXCEPT ![p] = Settled("got", "ok")]
  BY <1>1 DEF Returned
<1>4. faults' \in 0 .. MaxFaults
  BY <1>0, <1>3, Numbers DEF SchedulerInv, SchedulerType, Fault
<1>5. PICK a : a = Succeed(balance[g], call[p].id, call[p].full, slow, gatePassed) OBVIOUS
<1>6. /\ a \in Balances /\ a.waiters = balance[g].waiters
      /\ After(balance[g], a.sessions, a.nextId, call[p].id)
  BY <1>2, <1>5, SucceedAfter
<1>7. PICK b : b = WakeOne(a) OBVIOUS
<1>8. balance' = [balance EXCEPT ![g] = b] BY <1>0, <1>3, <1>5, <1>7
<1>9. /\ b \in Balances /\ b.sessions = a.sessions /\ b.nextId = a.nextId
      /\ b.waiters = IF balance[g].waiters = <<>> THEN <<>> ELSE Tail(balance[g].waiters)
  <2>1. CASE a.waiters = <<>> BY <1>6, <1>7, <2>1 DEF WakeOne
  <2>2. CASE a.waiters # <<>>
    <3>1. PICK w : w = Tail(a.waiters) OBVIOUS
    <3>2. w \in Seq(Parts) BY <1>2, <1>6, <2>2, <3>1, TailOf
    <3>3. b = [a EXCEPT !.waiters = w] BY <1>7, <2>2, <3>1 DEF WakeOne
    <3> QED BY <1>6, <2>2, <3>1, <3>2, <3>3 DEF Balances
  <2> QED BY <2>1, <2>2
<1>10. PICK c \in Calls : /\ c.phase = "got" /\ c.outcome = "ok" /\ c = Settled("got", "ok")
  BY SettledType
<1>11. CallOK(c)' BY <1>10 DEF CallOK
<1>12. call' = [Woken(call, balance[g]) EXCEPT ![p] = c] BY <1>3, <1>10
<1>13. After(balance[g], b.sessions, b.nextId, call[p].id) BY <1>6, <1>9
<1> QED BY <1>0, <1>1, <1>4, <1>8, <1>9, <1>10, <1>11, <1>12, <1>13, EndAccounts

LEMMA ThrewAccounts ==
    ASSUME AccountInv, NEW p \in Parts, Threw(p)
    PROVE  AccountInv'
<1>0. /\ SchedulerInv /\ call \in [Parts -> Calls] /\ balance \in [Generations -> Balances]
      /\ call[p] \in Calls /\ CallOK(call[p]) /\ call[p].phase = "answered"
      /\ call[p].outcome # "ok"
      /\ UNCHANGED <<current, stage, aborted, faults>> /\ faults' \in 0 .. MaxFaults
  BY SchedulerParts DEF AccountInv, SchedulerInv, SchedulerType, Threw
<1>1. PICK g \in Generations : call[p].gen = g BY <1>0 DEF Calls
<1>2. /\ BalanceOK(balance[g]) /\ balance[g] \in Balances /\ balance[g].waiters \in Seq(Parts)
      /\ balance[g].sessions \in SessionMaps /\ IsFiniteSet(DOMAIN balance[g].sessions)
  BY <1>0, SchedulerParts, SessionsFinite
<1>3. PICK i : i = call[p].id OBVIOUS
<1>4. PICK S : S = Blame(balance[g].sessions, i, call[p].outcome) OBVIOUS
<1>5. PICK C : C = IF i \in DOMAIN balance[g].sessions \ DOMAIN S THEN Killed(call, Shifted(i)) ELSE call
  OBVIOUS
<1>6. PICK flood : flood = (balance[g].flood \/ call[p].outcome = "flood") OBVIOUS
<1>7. PICK b : b = [WakeOne(balance[g]) EXCEPT !.sessions = S, !.flood = flood] OBVIOUS
<1>8. balance' = [balance EXCEPT ![g] = b]
  <2>1. PICK a : a = WakeOne(balance[g]) OBVIOUS
  <2>2. a.flood = balance[g].flood
    <3>1. CASE balance[g].waiters = <<>> BY <2>1, <3>1 DEF WakeOne
    <3>2. CASE balance[g].waiters # <<>>
      <4>1. PICK w : w = Tail(balance[g].waiters) OBVIOUS
      <4>2. a = [balance[g] EXCEPT !.waiters = w] BY <2>1, <3>2, <4>1 DEF WakeOne
      <4> QED BY <1>2, <4>2 DEF Balances
    <3> QED BY <3>1, <3>2
  <2> DEFINE R == [WakeOne(balance[call[p].gen]) EXCEPT
                     !.sessions = Blame(balance[call[p].gen].sessions, call[p].id, call[p].outcome),
                     !.flood = @ \/ call[p].outcome = "flood"]
  <2>3. balance' = [balance EXCEPT ![call[p].gen] = R] BY Zenon DEF Threw
  <2>4. R = [a EXCEPT !.sessions = S, !.flood = a.flood \/ call[p].outcome = "flood"]
    <3>1. WakeOne(balance[call[p].gen]) = a BY <1>1, <2>1
    <3>2. Blame(balance[call[p].gen].sessions, call[p].id, call[p].outcome) = S
      BY <1>1, <1>3, <1>4
    <3> QED BY <3>1, <3>2
  <2>5. (a.flood \/ call[p].outcome = "flood") = flood BY <1>6, <2>2
  <2>6. R = b BY <1>7, <2>1, <2>4, <2>5
  <2> HIDE DEF R
  <2> QED BY <1>1, <2>3, <2>6
<1>9. Touched(balance[g].sessions, S, i, Less(balance[g].sessions[i].requested))
  BY <1>2, <1>4, BlameTouches
<1>10. After(balance[g], S, balance[g].nextId, i) BY <1>2, <1>9, TouchedAfter
<1>11. /\ b \in Balances /\ b.sessions = S /\ b.nextId = balance[g].nextId
       /\ b.waiters = IF balance[g].waiters = <<>> THEN <<>> ELSE Tail(balance[g].waiters)
  <2>1. S \in SessionMaps /\ flood \in BOOLEAN BY <1>2, <1>6, <1>9 DEF Touched, Balances
  <2>2. CASE balance[g].waiters = <<>>
    <3>1. b = [balance[g] EXCEPT !.sessions = S, !.flood = flood] BY <1>7, <2>2 DEF WakeOne
    <3> QED BY <1>2, <2>1, <2>2, <3>1 DEF Balances
  <2>3. CASE balance[g].waiters # <<>>
    <3>1. PICK w : w = Tail(balance[g].waiters) OBVIOUS
    <3>2. w \in Seq(Parts) BY <1>2, <2>3, <3>1, TailOf
    <3>3. b = [balance[g] EXCEPT !.waiters = w, !.sessions = S, !.flood = flood]
      BY <1>7, <2>3, <3>1 DEF WakeOne
    <3> QED BY <1>2, <2>1, <2>3, <3>1, <3>2, <3>3 DEF Balances
  <2> QED BY <2>2, <2>3
<1>12. C \in [Parts -> Calls] /\ \A q \in Parts : C[q] = call[q]
             \/ (call[q].phase = "running" /\ C[q] = Answer(call[q], "removed"))
  <2>1. CASE C = call BY <1>0, <2>1
  <2>2. CASE C = Killed(call, Shifted(i))
    <3>1. \A q \in Parts : call[q] \in Calls BY <1>0
    <3>2. \A q \in Parts : Answer(call[q], "removed") \in Calls
      <4> TAKE q \in Parts
      <4>1. call[q] \in Calls BY <3>1
      <4>2. Answer(call[q], "removed") = [call[q] EXCEPT !.phase = "answered", !.outcome = "removed"]
        BY DEF Answer
      <4> QED BY <4>1, <4>2 DEF Calls
    <3> QED BY <2>2, <3>1, <3>2 DEF Killed
  <2> QED BY <1>5, <2>1, <2>2
<1>13. PICK c \in Calls : c.phase \in {"failed", "ready"} /\ CallOK(c)' /\ c = AfterError(call[p])
  <2>1. CASE call[p].outcome \in {"flood", "removed", "timeout"}
    <3>1. NoCall \in Calls /\ NoCall.outcome = "none" BY <1>0, SchedulerParts DEF NoCall
    <3>2. PICK n : n = call[p].attempt + 1 OBVIOUS
    <3>3. n \in 0 .. RequestRetries
      <4>1. call[p].attempt \in 0 .. RequestRetries /\ call[p].attempt < RequestRetries
        BY <1>0 DEF Calls, CallOK
      <4> QED BY <3>2, <4>1, Numbers
    <3>4. PICK c : c = [NoCall EXCEPT !.phase = "ready", !.attempt = n] OBVIOUS
    <3>5. c \in Calls /\ c.phase = "ready" /\ c.outcome = "none" BY <3>1, <3>3, <3>4 DEF Calls
    <3>6. c = AfterError(call[p]) BY <2>1, <3>2, <3>4 DEF AfterError
    <3>7. CallOK(c)' BY <3>5 DEF CallOK
    <3> QED BY <3>5, <3>6, <3>7
  <2>2. CASE call[p].outcome \notin {"flood", "removed", "timeout"}
    <3>1. call[p].outcome \in {"error", "abort"} BY <1>0, <2>2 DEF Calls, CallOK
    <3>2. PICK o \in {"error", "abort"} : o = call[p].outcome BY <3>1
    <3>3. PICK c : c = Settled("failed", o) OBVIOUS
    <3>4. c \in Calls /\ c.phase = "failed" /\ c.outcome = o BY <3>3, SettledType
    <3>5. c = AfterError(call[p]) BY <2>2, <3>2, <3>3 DEF AfterError
    <3>6. o = "abort" => aborted' BY <1>0, <3>2 DEF CallOK
    <3>7. CallOK(c)' BY <3>4, <3>6 DEF CallOK
    <3> QED BY <3>4, <3>5, <3>7
  <2> QED BY <2>1, <2>2
<1>14. call' = [Woken(C, balance[g]) EXCEPT ![p] = c]
  <2>1. PICK W : W = Woken(C, balance[g]) OBVIOUS
  <2>2. W[p] = call[p]
    <3>1. C[p] = call[p] BY <1>0, <1>12
    <3>2. CASE balance[g].waiters = <<>> BY <2>1, <3>1, <3>2 DEF Woken
    <3>3. CASE balance[g].waiters # <<>>
      <4>1. PICK h : h = Head(balance[g].waiters) OBVIOUS
      <4>2. h \in Waiting(g) BY <1>0, <1>2, <3>3, <4>1, SchedulerParts, TailOf DEF WaitersOK
      <4>3. h # p BY <1>0, <4>2 DEF Waiting
      <4>4. PICK d : d = [C[h] EXCEPT !.phase = "woken"] OBVIOUS
      <4>5. W = [C EXCEPT ![h] = d] BY <2>1, <3>3, <4>1, <4>4 DEF Woken
      <4> QED BY <1>12, <3>1, <4>3, <4>5
    <3> QED BY <3>2, <3>3
  <2>3. call' = [W EXCEPT ![p] = AfterError(@)] BY <1>1, <1>3, <1>4, <1>5, <2>1 DEF Threw
  <2>4. call' = [W EXCEPT ![p] = AfterError(W[p])] BY <2>3
  <2> QED BY <1>13, <2>1, <2>2, <2>4
<1>15. After(balance[g], b.sessions, b.nextId, call[p].id) BY <1>3, <1>10, <1>11
<1> QED BY <1>0, <1>1, <1>8, <1>11, <1>12, <1>13, <1>14, <1>15, EndAccounts

\* The continuations of a call.
LEMMA CallAccounts ==
    ASSUME AccountInv, NEW p \in Parts, CallStep(p)
    PROVE  AccountInv'
BY AttemptAccounts, FloodWaitedAccounts, ResumeAccounts, ReturnedAccounts, ThrewAccounts DEF CallStep

\* A call that was not made stays so through all the scheduler does.
LEMMA NoCallStays ==
    ASSUME AccountInv, NEW q \in Parts, call[q].phase = "none",
           \/ \E p \in Parts : CallStep(p) \/ Reply(p) \/ ReplyBadly(p) \/ KeyBreaks(p)
           \/ Purge \/ Close \/ CloseNetwork \/ Abort
           \/ \E g \in Generations : FloodEnds(g)
    PROVE  call'[q] = call[q]
<1>0. SchedulerInv /\ call \in [Parts -> Calls] BY DEF AccountInv, SchedulerInv, SchedulerType
<1>1. ASSUME NEW p \in Parts, Attempt(p) \/ FloodWaited(p) \/ Resume(p) PROVE call'[q] = call[q]
  <2>1. q # p BY <1>1 DEF Attempt, FloodWaited, Resume
  <2> QED BY <1>0, <1>1, <2>1 DEF Attempt, FloodWaited, Resume, PickOrQueue, Run, Queue
<1>2. ASSUME NEW p \in Parts, NEW C, C[q] = call[q], C \in [Parts -> Calls], NEW g \in Generations,
             NEW c, call' = [Woken(C, balance[g]) EXCEPT ![p] = c], q # p
      PROVE  call'[q] = call[q]
  <2>1. CASE balance[g].waiters = <<>> BY <1>2, <2>1 DEF Woken
  <2>2. CASE balance[g].waiters # <<>>
    <3>1. PICK h : h = Head(balance[g].waiters) OBVIOUS
    <3>2. h \in Waiting(g) BY <1>0, <2>2, <3>1, SchedulerParts, TailOf DEF WaitersOK
    <3>3. h # q BY <3>2 DEF Waiting
    <3>4. PICK d : d = [C[h] EXCEPT !.phase = "woken"] OBVIOUS
    <3>5. Woken(C, balance[g]) = [C EXCEPT ![h] = d] BY <2>2, <3>1, <3>4 DEF Woken
    <3> QED BY <1>2, <3>3, <3>5
  <2> QED BY <2>1, <2>2
<1>3. ASSUME NEW p \in Parts, Returned(p) PROVE call'[q] = call[q]
  <2>1. q # p /\ call[p].gen \in Generations BY <1>0, <1>3 DEF Returned, Calls
  <2>2. PICK g \in Generations : g = call[p].gen BY <2>1
  <2>3. PICK c : call' = [Woken(call, balance[g]) EXCEPT ![p] = c] BY <1>3, <2>2 DEF Returned
  <2> QED BY <1>0, <1>2, <2>1, <2>3
<1>4. ASSUME NEW p \in Parts, Threw(p) PROVE call'[q] = call[q]
  <2>1. q # p /\ call[p].gen \in Generations BY <1>0, <1>4 DEF Threw, Calls
  <2>2. PICK g \in Generations : g = call[p].gen BY <2>1
  <2>3. PICK C : /\ C \in {Killed(call, Shifted(call[p].id)), call}
                 /\ call' = [Woken(C, balance[g]) EXCEPT ![p] = AfterError(@)]
    BY <1>4, <2>2 DEF Threw
  <2>4. PICK c : c = AfterError(Woken(C, balance[g])[p]) OBVIOUS
  <2>5. call' = [Woken(C, balance[g]) EXCEPT ![p] = c] BY <2>3, <2>4
  <2>6. C[q] = call[q] BY <2>3 DEF Killed
  <2>7. C \in [Parts -> Calls]
    <3>1. CASE C = call BY <1>0, <3>1
    <3>2. CASE C = Killed(call, Shifted(call[p].id))
      <4>1. \A r \in Parts : Answer(call[r], "removed") \in Calls
        <5> TAKE r \in Parts
        <5>1. call[r] \in Calls BY <1>0
        <5>2. Answer(call[r], "removed") = [call[r] EXCEPT !.phase = "answered", !.outcome = "removed"]
          BY DEF Answer
        <5> QED BY <5>1, <5>2 DEF Calls
      <4> QED BY <1>0, <3>2, <4>1 DEF Killed
    <3> QED BY <2>3, <3>1, <3>2
  <2> QED BY <1>2, <2>1, <2>5, <2>6, <2>7
<1>5. ASSUME NEW p \in Parts, Reply(p) \/ ReplyBadly(p) \/ KeyBreaks(p) PROVE call'[q] = call[q]
  BY <1>0, <1>5 DEF Reply, ReplyBadly, KeyBreaks, Running
<1>6. Purge \/ Close \/ CloseNetwork \/ Abort => call'[q] = call[q]
  BY <1>0 DEF Purge, Close, CloseNetwork, Abort, Running
<1>7. (\E g \in Generations : FloodEnds(g)) => call'[q] = call[q] BY DEF FloodEnds
<1> QED BY <1>1, <1>3, <1>4, <1>5, <1>6, <1>7 DEF CallStep

\* A fault elsewhere is of no account.
LEMMA FaultAccounts ==
    ASSUME AccountInv, UNCHANGED <<balance, current, stage, call, aborted>>, faults' \in 0 .. MaxFaults
    PROVE  AccountInv'
<1>1. SchedulerInv' BY DEF AccountInv, SchedulerInv, SchedulerType, CallOK, WaitersOK, Waiting
<1>2. WindowsAccount' BY AccountStays DEF AccountInv, SameUse
<1>3. WaitersHaveWaker' BY DEF AccountInv, WaitersHaveWaker
<1> QED BY <1>1, <1>2, <1>3 DEF AccountInv

-----------------------------------------------------------------------------
(* The loop, the tasks and the writer *)

\* The types of what is the transfer's own.
TransferType ==
    /\ {cancelled, inWrite, rejected} \subseteq BOOLEAN
    /\ kind \in {"download", "upload"}
    /\ loop \in {"top", "waiting", "woken", "acquired", "join", "over"}
    /\ limit \in Limits /\ next \in 0 .. TotalParts /\ nextIdx \in 0 .. TotalParts /\ permits \in Nat
    /\ task \in [Parts -> {"none", "requesting", "checking", "writing", "ended"}]
    /\ firstError \in {"none", "error", "abort"}
    /\ stash \subseteq Parts /\ drains \in Seq(Parts) /\ through \in Seq(Parts)
    /\ result \in {"none", "good", "bad"}

\* The tasks under way.
Busy == {p \in Parts : task[p] \notin {"none", "ended"}}

\* The loop started the parts below next, and only those have a call.
StartedInv ==
    /\ \A p \in Parts : (task[p] = "none") <=> (p >= next)
    /\ \A p \in Parts : task[p] = "none" => call[p] = NoCall
    /\ loop \in {"waiting", "woken", "acquired"} => next < TotalParts

\* Who was woken finds a permit.
PermitsInv == TasksBounded /\ (loop = "woken" => permits > 0)

\* The tasks that write are those whose drains are chained.
WriterInv ==
    /\ Distinct(drains) /\ Members(drains) = {p \in Parts : task[p] = "writing"}
    /\ inWrite => drains # <<>> /\ nextIdx \in Parts \ Empty

\* The result comes when no task is under way.
ResultInv ==
    /\ (result # "none") <=> (loop = "over")
    /\ loop = "over" => \A p \in Parts : task[p] \in {"none", "ended"}

TransferInv == TransferType /\ AccountInv /\ StartedInv /\ PermitsInv /\ WriterInv /\ ResultInv

LEMMA InitTransfer == Init => TransferInv
<1> SUFFICES ASSUME Init PROVE TransferInv OBVIOUS
<1> USE DEF Init, SchedulerInit
<1>1. TransferType
  <2>1. limit \in Limits /\ permits \in Nat OBVIOUS
  <2>2. 0 \in 0 .. TotalParts BY Numbers
  <2>3. <<>> \in Seq(Parts) OBVIOUS
  <2> QED BY <2>1, <2>2, <2>3 DEF TransferType
<1>2. FreshBalance \in Balances /\ DOMAIN FreshBalance.sessions = {0} /\ FreshBalance.nextId = 1
      /\ FreshBalance.waiters = <<>> /\ FreshBalance.sessions[0] = Fresh
  <2>1. Fresh \in Loads BY Numbers DEF Fresh, Loads
  <2>2. PICK S : S = [i \in {0} |-> Fresh] OBVIOUS
  <2>3. DOMAIN S = {0} /\ S[0] = Fresh BY <2>2
  <2>4. S \in SessionMaps
    <3>1. S \in [{0} -> Loads] BY <2>1, <2>2
    <3>2. {0} \subseteq Nat /\ {0} # {} OBVIOUS
    <3> QED BY <2>3, <3>1, <3>2, SessionsType
  <2>5. FreshBalance = [sessions |-> S, nextId |-> 1, waiters |-> <<>>, flood |-> FALSE]
    BY <2>2 DEF FreshBalance
  <2>6. <<>> \in Seq(Parts) OBVIOUS
  <2> QED BY <2>2, <2>3, <2>4, <2>5, <2>6 DEF Balances
<1>3. \A g \in Generations : balance[g] = FreshBalance OBVIOUS
<1>4. NoCall \in Calls /\ NoCall.phase = "none" /\ NoCall.outcome = "none" BY Numbers DEF NoCall, Calls
<1>5. \A p \in Parts : call[p] = NoCall OBVIOUS
<1>6. AccountInv
  <2>1. SchedulerType
    <3>1. balance \in [Generations -> Balances] BY <1>2
    <3>2. \A g \in Generations : DOMAIN balance[g].sessions \subseteq 0 .. balance[g].nextId - 1
      BY <1>2, <1>3
    <3>3. call \in [Parts -> Calls] BY <1>4
    <3>4. 0 \in Generations /\ 0 \in 0 .. MaxFaults BY Numbers
    <3> QED BY <3>1, <3>2, <3>3, <3>4 DEF SchedulerType
  <2>2. \A p \in Parts : CallOK(call[p]) BY <1>4, <1>5 DEF CallOK
  <2>3. \A g \in Generations : WaitersOK(g)
    <3> TAKE g \in Generations
    <3>1. balance[g].waiters = <<>> BY <1>2, <1>3
    <3>2. Waiting(g) = {} BY <1>4, <1>5 DEF Waiting
    <3> QED BY <3>1, <3>2, NobodyWaits DEF WaitersOK
  <2>4. WindowsAccount
    <3>1. \A g \in Generations : \A i \in DOMAIN balance[g].sessions :
             /\ balance[g].sessions[i].requested = Cardinality(Users(g, i))
             /\ balance[g].sessions[i].requested <= balance[g].sessions[i].window
      <4> TAKE g \in Generations
      <4> TAKE i \in DOMAIN balance[g].sessions
      <4>1. balance[g].sessions[i].requested = 0 /\ balance[g].sessions[i].window = StartWindow
        BY <1>2, <1>3 DEF Fresh
      <4>2. Users(g, i) = {} BY <1>4, <1>5 DEF Users
      <4> QED BY <4>1, <4>2, Numbers, FS_EmptySet
    <3> QED BY <3>1, AccountOf
  <2>5. WaitersHaveWaker BY <1>2, <1>3 DEF WaitersHaveWaker
  <2> QED BY <2>1, <2>2, <2>3, <2>4, <2>5 DEF AccountInv, SchedulerInv
<1>7. StartedInv BY <1>5 DEF StartedInv, Parts
<1>8. PermitsInv
  <2>1. {p \in Parts : task[p] \notin {"none", "ended"}} = {} OBVIOUS
  <2>2. Cardinality({}) = 0 BY FS_EmptySet
  <2>3. permits = limit /\ limit \in Nat /\ loop = "top" OBVIOUS
  <2>4. 0 + permits + 0 = limit BY <2>3
  <2>5. TasksBounded BY <2>1, <2>2, <2>3, <2>4 DEF TasksBounded
  <2> QED BY <2>3, <2>5 DEF PermitsInv
<1>9. WriterInv BY NobodyWaits DEF WriterInv
<1>10. ResultInv BY DEF ResultInv
<1> QED BY <1>1, <1>6, <1>7, <1>8, <1>9, <1>10 DEF TransferInv

\* The tasks under way are finitely many.
LEMMA BusyFinite == IsFiniteSet(Busy) /\ Cardinality(Busy) \in Nat
<1>1. PICK n : n = TotalParts - 1 OBVIOUS
<1>2. n \in Int /\ Parts = 0 .. n BY <1>1, Numbers DEF Parts
<1>3. IsFiniteSet(Parts) BY <1>2, FS_Interval
<1>4. IsFiniteSet(Busy) BY <1>3, FS_Subset DEF Busy
<1> QED BY <1>4, FS_CardinalityType

\* The end of a task gives its permit back.
LEMMA EndsKeeps ==
    ASSUME TransferInv, NEW p \in Parts, task[p] \in {"requesting", "checking", "writing"}, Ends({p}),
           UNCHANGED limit
    PROVE  /\ task' \in [Parts -> {"none", "requesting", "checking", "writing", "ended"}]
           /\ task'[p] = "ended" /\ \A q \in Parts \ {p} : task'[q] = task[q]
           /\ permits' \in Nat /\ PermitsInv'
           /\ loop' \in {"top", "waiting", "woken", "acquired", "join", "over"}
           /\ loop' = loop \/ (loop = "waiting" /\ loop' = "woken")
<1>1. /\ task \in [Parts -> {"none", "requesting", "checking", "writing", "ended"}]
      /\ permits \in Nat /\ TasksBounded
      /\ loop \in {"top", "waiting", "woken", "acquired", "join", "over"}
      /\ limit \in Nat
  BY DEF TransferInv, TransferType, PermitsInv
<1>2. task' = [q \in Parts |-> IF q = p THEN "ended" ELSE task[q]] BY DEF Ends
<1>3. permits' = permits + 1
  <2>1. Cardinality({p}) = 1 BY FS_Singleton
  <2> QED BY <2>1 DEF Ends
<1>4. loop' = loop \/ (loop = "waiting" /\ loop' = "woken") BY DEF Ends
<1>5. Busy' = Busy \ {p} /\ p \in Busy BY <1>2 DEF Busy
<1>6. Cardinality(Busy') = Cardinality(Busy) - 1 /\ Cardinality(Busy) \in Nat
  BY <1>5, BusyFinite, FS_RemoveElement
<1>7. Cardinality(Busy) + permits + (IF loop = "acquired" THEN 1 ELSE 0) = limit
  BY <1>1 DEF TasksBounded, Busy
<1>8. Cardinality(Busy') + permits' + (IF loop' = "acquired" THEN 1 ELSE 0) = limit'
  <2>1. loop' = "acquired" <=> loop = "acquired" BY <1>4
  <2> QED BY <1>1, <1>3, <1>6, <1>7, <2>1
<1>9. TasksBounded' BY <1>8 DEF TasksBounded, Busy
<1> QED BY <1>1, <1>2, <1>3, <1>4, <1>9 DEF PermitsInv

\* A task that goes on holds its permit.
LEMMA GoesOnKeeps ==
    ASSUME TransferInv, UNCHANGED <<limit, loop, permits>>,
           task' \in [Parts -> {"none", "requesting", "checking", "writing", "ended"}],
           \A q \in Parts : \/ task'[q] = task[q]
                            \/ /\ task[q] \in {"requesting", "checking", "writing"}
                               /\ task'[q] \in {"requesting", "checking", "writing"}
    PROVE  PermitsInv'
<1>1. Busy' = Busy BY DEF Busy
<1>2. TasksBounded' BY <1>1 DEF TransferInv, PermitsInv, TasksBounded, Busy
<1> QED BY <1>2 DEF TransferInv, PermitsInv
TaskStates == {"none", "requesting", "checking", "writing", "ended"}

CallsMadeStay == \A q \in Parts : call[q].phase = "none" => call'[q] = call[q]

\* The end of a task leaves what was started, and there is no result yet.
LEMMA EndsInv ==
    ASSUME TransferInv, NEW p \in Parts, task[p] \in {"requesting", "checking", "writing"}, Ends({p}),
           UNCHANGED <<limit, next, result>>, CallsMadeStay
    PROVE  StartedInv' /\ PermitsInv' /\ ResultInv'
<1>1. /\ task'[p] = "ended" /\ \A q \in Parts \ {p} : task'[q] = task[q]
      /\ loop' = loop \/ (loop = "waiting" /\ loop' = "woken")
      /\ PermitsInv'
  BY EndsKeeps
<1>2. \A q \in Parts : (task'[q] = "none") <=> (task[q] = "none") BY <1>1
<1>3. StartedInv'
  <2>1. NoCall.phase = "none" BY DEF NoCall
  <2> QED BY <1>1, <1>2, <2>1 DEF TransferInv, StartedInv, CallsMadeStay
<1>4. ResultInv' BY <1>1 DEF TransferInv, ResultInv
<1> QED BY <1>1, <1>3, <1>4

\* So does a task that goes on.
LEMMA GoesOnInv ==
    ASSUME TransferInv, UNCHANGED <<limit, loop, permits, next, result>>,
           NEW p \in Parts, NEW s \in {"requesting", "checking", "writing"},
           task[p] \in {"requesting", "checking", "writing"},
           task' = [task EXCEPT ![p] = s], CallsMadeStay
    PROVE  StartedInv' /\ PermitsInv' /\ ResultInv' /\ task' \in [Parts -> TaskStates]
           /\ task'[p] = s /\ \A q \in Parts \ {p} : task'[q] = task[q]
<1>1. task \in [Parts -> TaskStates] BY DEF TransferInv, TransferType, TaskStates
<1>2. task' \in [Parts -> TaskStates] /\ task'[p] = s /\ \A q \in Parts \ {p} : task'[q] = task[q]
  BY <1>1 DEF TaskStates
<1>3. PermitsInv'
  <2>1. \A q \in Parts : \/ task'[q] = task[q]
                         \/ /\ task[q] \in {"requesting", "checking", "writing"}
                            /\ task'[q] \in {"requesting", "checking", "writing"}
    BY <1>2
  <2>2. task' \in [Parts -> {"none", "requesting", "checking", "writing", "ended"}]
    BY <1>2 DEF TaskStates
  <2> QED BY <2>1, <2>2, GoesOnKeeps
<1>4. StartedInv'
  <2>1. NoCall.phase = "none" BY DEF NoCall
  <2>2. \A q \in Parts : (task'[q] = "none") <=> (task[q] = "none") BY <1>2
  <2> QED BY <2>1, <2>2 DEF TransferInv, StartedInv, CallsMadeStay
<1>5. ResultInv' BY DEF TransferInv, ResultInv
<1> QED BY <1>2, <1>3, <1>4, <1>5

\* What the scheduler does alone.
LEMMA OutsideKeeps ==
    ASSUME TransferInv,
           \/ \E p \in Parts : Continue(p) \/ AnswerTo(p) \/ Fails(p)
           \/ Disconnect \/ Destroy
           \/ \E g \in Generations : FloodOver(g)
    PROVE  TransferInv'
<1>1. Untouched BY DEF Continue, AnswerTo, Fails, Disconnect, Destroy, FloodOver
<1>2. \/ \E p \in Parts : CallStep(p) \/ Reply(p) \/ ReplyBadly(p) \/ KeyBreaks(p)
      \/ Purge \/ Close \/ CloseNetwork
      \/ \E g \in Generations : FloodEnds(g)
  BY DEF Continue, AnswerTo, Fails, Disconnect, Destroy, FloodOver
<1>3. AccountInv BY DEF TransferInv
<1>4. AccountInv'
  BY <1>2, <1>3, CallAccounts, RequestsAccount, ClosingsAccount, CloseAccounts, FloodEndsAccounts
<1>5. \A q \in Parts : call[q].phase = "none" => call'[q] = call[q]
  BY <1>2, <1>3, NoCallStays
<1>6. StartedInv'
  <2>1. NoCall.phase = "none" BY DEF NoCall
  <2> QED BY <1>1, <1>5, <2>1 DEF TransferInv, StartedInv, Untouched, loopVars
<1>7. PermitsInv'
  BY <1>1 DEF TransferInv, PermitsInv, TasksBounded, Untouched, loopVars, userVars
<1>8. TransferType' /\ WriterInv' /\ ResultInv'
  BY <1>1 DEF TransferInv, TransferType, WriterInv, ResultInv, Untouched, loopVars, userVars, writerVars
<1> QED BY <1>4, <1>6, <1>7, <1>8 DEF TransferInv

\* The loop.
LEMMA LoopKeeps ==
    ASSUME TransferInv, Loop
    PROVE  TransferInv'
<1>0. /\ TransferType /\ AccountInv /\ StartedInv /\ PermitsInv /\ WriterInv /\ ResultInv
      /\ limit \in Nat /\ permits \in Nat /\ next \in 0 .. TotalParts
      /\ task \in [Parts -> TaskStates]
  BY DEF TransferInv, TransferType, TaskStates
<1>1. ASSUME UNCHANGED <<schedulerVars, userVars, task, firstError, writerVars, through>>, next' = next
      PROVE  AccountInv' /\ WriterInv' /\ Busy' = Busy
             /\ (\A q \in Parts : (task'[q] = "none") <=> (q >= next'))
             /\ (\A q \in Parts : task'[q] = "none" => call'[q] = NoCall)
  <2>1. AccountInv'
    <3>1. faults' \in 0 .. MaxFaults
      BY <1>0, <1>1 DEF schedulerVars, AccountInv, SchedulerInv, SchedulerType
    <3> QED BY <1>0, <1>1, <3>1, FaultAccounts DEF schedulerVars
  <2>2. WriterInv' BY <1>0, <1>1 DEF WriterInv, writerVars
  <2>3. Busy' = Busy BY <1>1 DEF Busy
  <2> QED BY <1>0, <1>1, <2>1, <2>2, <2>3 DEF StartedInv, schedulerVars
<1>2. Cardinality(Busy) + permits + (IF loop = "acquired" THEN 1 ELSE 0) = limit
      /\ Cardinality(Busy) \in Nat
  BY <1>0, BusyFinite DEF PermitsInv, TasksBounded, Busy
<1>3. CASE LoopTop
  <2>1. /\ UNCHANGED <<schedulerVars, userVars, next, task, firstError, writerVars, through, result>>
        /\ loop = "top"
    BY <1>3 DEF LoopTop
  <2>2. \/ loop' = "join" /\ permits' = permits
        \/ loop' = "acquired" /\ permits > 0 /\ permits' = permits - 1
        \/ loop' = "waiting" /\ permits' = permits
    BY <1>3 DEF LoopTop
  <2>3. permits' \in Nat BY <1>0, <2>2
  <2>4. TransferType'
    BY <1>0, <2>1, <2>2, <2>3 DEF TransferType, userVars, writerVars
  <2>5. StartedInv'
    <3>1. loop' # "join" => next' < TotalParts BY <1>0, <1>3, <2>1, Numbers DEF LoopTop
    <3> QED BY <1>1, <2>1, <3>1 DEF StartedInv
  <2>6. PermitsInv'
    <3>1. Cardinality(Busy) + permits' + (IF loop' = "acquired" THEN 1 ELSE 0) = limit
      BY <1>0, <1>2, <2>1, <2>2
    <3>2. TasksBounded' BY <1>1, <2>1, <3>1 DEF TasksBounded, Busy, userVars
    <3> QED BY <2>2, <3>2 DEF PermitsInv
  <2>7. ResultInv' BY <1>0, <2>1, <2>2 DEF ResultInv
  <2> QED BY <1>1, <2>1, <2>4, <2>5, <2>6, <2>7 DEF TransferInv
<1>4. CASE TakePermit
  <2>1. /\ UNCHANGED <<schedulerVars, userVars, next, task, firstError, writerVars, through, result>>
        /\ loop = "woken" /\ loop' = "acquired" /\ permits' = permits - 1
    BY <1>4 DEF TakePermit
  <2>2. permits > 0 BY <1>0, <2>1 DEF PermitsInv
  <2>3. permits' \in Nat BY <1>0, <2>1, <2>2
  <2>4. TransferType' BY <1>0, <2>1, <2>3 DEF TransferType, userVars, writerVars
  <2>5. StartedInv'
    <3>1. next < TotalParts
      BY <1>0, <2>1 DEF StartedInv
    <3> QED BY <1>1, <2>1, <3>1 DEF StartedInv
  <2>6. PermitsInv'
    <3>1. Cardinality(Busy) + permits' + (IF loop' = "acquired" THEN 1 ELSE 0) = limit
      BY <1>0, <1>2, <2>1
    <3>2. TasksBounded' BY <1>1, <2>1, <3>1 DEF TasksBounded, Busy, userVars
    <3> QED BY <2>1, <3>2 DEF PermitsInv
  <2>7. ResultInv' BY <1>0, <2>1 DEF ResultInv
  <2> QED BY <1>1, <2>1, <2>4, <2>5, <2>6, <2>7 DEF TransferInv
<1>5. CASE StartTask
  <2>1. /\ UNCHANGED <<balance, current, stage, aborted, faults, userVars, firstError, writerVars,
                       through, result>>
        /\ loop = "acquired" /\ next < TotalParts /\ next \in Parts
    BY <1>0, <1>5, Numbers DEF StartTask, StartedInv, Parts
  <2>2. task[next] = "none" /\ call[next] = NoCall /\ \A q \in Parts : q # next =>
           ((task[q] = "none") <=> (q >= next + 1))
    BY <1>0, <2>1, Numbers DEF StartedInv, Parts
  <2>3. CASE Stopped
    <3>1. loop' = "join" /\ permits' = permits + 1 /\ UNCHANGED <<next, task, call>>
      BY <1>5, <2>3 DEF StartTask
    <3>2. permits' \in Nat BY <1>0, <3>1
    <3>3. TransferType' BY <1>0, <2>1, <3>1, <3>2 DEF TransferType, userVars, writerVars
    <3>4. StartedInv' BY <1>1, <2>1, <3>1 DEF StartedInv, schedulerVars
    <3>5. PermitsInv'
      <4>1. Cardinality(Busy) + permits' + (IF loop' = "acquired" THEN 1 ELSE 0) = limit
        BY <1>0, <1>2, <2>1, <3>1
      <4>2. Busy' = Busy BY <3>1 DEF Busy
      <4>3. TasksBounded' BY <2>1, <4>1, <4>2 DEF TasksBounded, Busy, userVars
      <4> QED BY <3>1, <4>3 DEF PermitsInv
    <3>6. ResultInv' BY <1>0, <2>1, <3>1 DEF ResultInv
    <3> QED BY <1>1, <2>1, <3>1, <3>3, <3>4, <3>5, <3>6 DEF TransferInv, schedulerVars
  <2>4. CASE ~Stopped
    <3>1. /\ loop' = "top" /\ next' = next + 1 /\ permits' = permits
          /\ task' = [task EXCEPT ![next] = "requesting"]
          /\ call' = [call EXCEPT ![next].phase = "ready"]
      BY <1>5, <2>4 DEF StartTask
    <3>2. /\ task' \in [Parts -> TaskStates] /\ task'[next] = "requesting"
          /\ \A q \in Parts \ {next} : task'[q] = task[q]
      BY <1>0, <2>1, <3>1 DEF TaskStates
    <3>3. next' \in 0 .. TotalParts BY <1>0, <2>1, <3>1, Numbers
    <3>4. TransferType'
      BY <1>0, <2>1, <3>1, <3>2, <3>3 DEF TransferType, TaskStates, userVars, writerVars
    <3>5. SchedulerInv /\ call \in [Parts -> Calls] /\ NoCall \in Calls
      BY <1>0, SchedulerParts DEF AccountInv, SchedulerInv, SchedulerType
    <3>6. PICK c : c = [NoCall EXCEPT !.phase = "ready"] OBVIOUS
    <3>7. c \in Calls /\ c.phase = "ready" /\ c.outcome = NoCall.outcome /\ NoCall.outcome = "none"
          /\ NoCall.phase = "none"
      BY <3>5, <3>6 DEF Calls, NoCall
    <3>8. call' = [call EXCEPT ![next] = c] BY <2>2, <3>1, <3>6
    <3>9. AccountInv'
      <4>1. CallOK(c)' BY <3>7 DEF CallOK
      <4>2. faults' \in 0 .. MaxFaults BY <2>1, <3>5 DEF SchedulerInv, SchedulerType
      <4>3. call[next].phase = "none" BY <2>2, <3>7
      <4> QED BY <1>0, <2>1, <3>7, <3>8, <4>1, <4>2, <4>3, IdleMoves
    <3>10. StartedInv'
      <4>1. \A q \in Parts : (task'[q] = "none") <=> (q >= next')
        BY <1>0, <2>1, <2>2, <3>1, <3>2, SMTT(30) DEF Parts
      <4>2. \A q \in Parts : task'[q] = "none" => call'[q] = NoCall
        BY <1>0, <2>1, <3>2, <3>5, <3>8 DEF StartedInv
      <4> QED BY <3>1, <4>1, <4>2 DEF StartedInv
    <3>11. PermitsInv'
      <4>1. Busy' = Busy \cup {next} /\ next \notin Busy BY <2>1, <2>2, <3>2 DEF Busy
      <4>2. Cardinality(Busy') = Cardinality(Busy) + 1 BY <4>1, BusyFinite, FS_AddElement
      <4>3. Cardinality(Busy') + permits' + (IF loop' = "acquired" THEN 1 ELSE 0) = limit
        BY <1>0, <1>2, <2>1, <3>1, <4>2
      <4>4. TasksBounded' BY <2>1, <4>3 DEF TasksBounded, Busy, userVars
      <4> QED BY <3>1, <4>4 DEF PermitsInv
    <3>12. WriterInv'
      <4>1. {q \in Parts : task'[q] = "writing"} = {q \in Parts : task[q] = "writing"}
        BY <2>1, <2>2, <3>2
      <4> QED BY <1>0, <2>1, <4>1 DEF WriterInv, writerVars
    <3>13. ResultInv' BY <1>0, <2>1, <3>1 DEF ResultInv
    <3> QED BY <3>4, <3>9, <3>10, <3>11, <3>12, <3>13 DEF TransferInv
  <2> QED BY <2>3, <2>4
<1>6. CASE Join
  <2>1. /\ loop = "join" /\ \A p \in Parts : task[p] \in {"none", "ended"}
        /\ loop' = "over" /\ result' = Result
        /\ UNCHANGED <<schedulerVars, userVars, next, permits, task, firstError, writerVars, through>>
    BY <1>6 DEF Join
  <2>2. Result \in {"good", "bad"} BY DEF Result
  <2>3. TransferType' BY <1>0, <2>1, <2>2 DEF TransferType, userVars, writerVars
  <2>4. StartedInv' BY <1>1, <2>1 DEF StartedInv
  <2>5. PermitsInv'
    <3>1. Cardinality(Busy) + permits' + (IF loop' = "acquired" THEN 1 ELSE 0) = limit
      BY <1>0, <1>2, <2>1
    <3>2. TasksBounded' BY <1>1, <2>1, <3>1 DEF TasksBounded, Busy, userVars
    <3> QED BY <2>1, <3>2 DEF PermitsInv
  <2>6. ResultInv' BY <2>1, <2>2 DEF ResultInv
  <2> QED BY <1>1, <2>1, <2>3, <2>4, <2>5, <2>6 DEF TransferInv
<1> QED BY <1>3, <1>4, <1>5, <1>6 DEF Loop

\* Nothing of the scheduler changes, or its faults only.
LEMMA FaultStays ==
    ASSUME TransferInv, UNCHANGED <<balance, current, stage, call, aborted>>,
           Fault \/ UNCHANGED faults
    PROVE  AccountInv' /\ CallsMadeStay
<1>1. faults' \in 0 .. MaxFaults
  BY Numbers DEF TransferInv, AccountInv, SchedulerInv, SchedulerType, Fault
<1>2. AccountInv' BY <1>1, FaultAccounts DEF TransferInv
<1> QED BY <1>2 DEF CallsMadeStay

\* Abort leaves the calls that were not made.
LEMMA AbortStays ==
    ASSUME TransferInv, Abort, UNCHANGED <<current, stage, faults>>
    PROVE  AccountInv' /\ CallsMadeStay
<1>1. AccountInv' BY AbortAccounts DEF TransferInv
<1>2. CallsMadeStay BY NoCallStays DEF CallsMadeStay, TransferInv
<1> QED BY <1>1, <1>2

\* A task that ends without having written.
LEMMA EndsUnwritten ==
    ASSUME TransferInv, NEW p \in Parts, task[p] \in {"requesting", "checking"}, Ends({p}),
           UNCHANGED <<userVars, next, writerVars, result>>, AccountInv', CallsMadeStay,
           firstError' \in {"none", "error", "abort"}, through' \in Seq(Parts)
    PROVE  TransferInv'
<1>1. UNCHANGED limit /\ task[p] \in {"requesting", "checking", "writing"} BY DEF userVars
<1>2. StartedInv' /\ PermitsInv' /\ ResultInv' BY <1>1, EndsInv
<1>3. /\ task' \in [Parts -> TaskStates]
      /\ task'[p] = "ended" /\ \A q \in Parts \ {p} : task'[q] = task[q]
      /\ permits' \in Nat /\ loop' \in {"top", "waiting", "woken", "acquired", "join", "over"}
  BY <1>1, EndsKeeps DEF TaskStates
<1>4. TransferType'
  BY <1>3 DEF TransferInv, TransferType, TaskStates, userVars, writerVars
<1>5. {q \in Parts : task'[q] = "writing"} = {q \in Parts : task[q] = "writing"} BY <1>3
<1>6. WriterInv' BY <1>5 DEF TransferInv, WriterInv, writerVars
<1> QED BY <1>2, <1>4, <1>6 DEF TransferInv

\* What blames the transfer is an error or the abort.
LEMMA BlamesWhat ==
    ASSUME TransferInv, NEW error \in {"error", "abort"}, Blames(error)
    PROVE  firstError' \in {"none", "error", "abort"}
BY DEF TransferInv, TransferType, Blames

LEMMA TaskKeeps ==
    ASSUME TransferInv, NEW p \in Parts, TaskStep(p) \/ CheckFails(p)
    PROVE  TransferInv'
<1>0. /\ TransferType /\ SchedulerInv /\ WriterInv /\ CallOK(call[p]) /\ call[p] \in Calls
      /\ through \in Seq(Parts) /\ firstError \in {"none", "error", "abort"}
  BY SchedulerParts DEF TransferInv, TransferType, AccountInv
<1>1. CASE Got(p)
  <2>1. /\ UNCHANGED <<schedulerVars, userVars, next, firstError, writerVars, through, result>>
        /\ task[p] = "requesting"
    BY <1>1 DEF Got
  <2>2. AccountInv' /\ CallsMadeStay BY <2>1, FaultStays DEF schedulerVars
  <2>3. CASE firstError = "none"
    <3>1. task' = [task EXCEPT ![p] = "checking"] /\ UNCHANGED <<loop, permits>>
      BY <1>1, <2>3 DEF Got
    <3>2. /\ StartedInv' /\ PermitsInv' /\ ResultInv' /\ task' \in [Parts -> TaskStates]
          /\ task'[p] = "checking" /\ \A q \in Parts \ {p} : task'[q] = task[q]
      BY <2>1, <2>2, <3>1, GoesOnInv DEF userVars
    <3>3. TransferType'
      BY <1>0, <2>1, <3>1, <3>2 DEF TransferType, TaskStates, userVars, writerVars
    <3>4. {q \in Parts : task'[q] = "writing"} = {q \in Parts : task[q] = "writing"}
      BY <2>1, <3>2
    <3>5. WriterInv' BY <1>0, <2>1, <3>4 DEF WriterInv, writerVars
    <3> QED BY <2>2, <3>2, <3>3, <3>5 DEF TransferInv
  <2>4. CASE firstError # "none"
    <3>1. Ends({p}) BY <1>1, <2>4 DEF Got
    <3> QED BY <1>0, <2>1, <2>2, <3>1, EndsUnwritten
  <2> QED BY <2>3, <2>4
<1>2. CASE CheckFails(p)
  <2>1. /\ UNCHANGED <<balance, current, stage, call, aborted, userVars, next, writerVars, through,
                       result>>
        /\ task[p] = "checking" /\ Fault /\ Blames("error") /\ Ends({p})
    BY <1>2 DEF CheckFails
  <2>2. AccountInv' /\ CallsMadeStay BY <2>1, FaultStays
  <2>3. firstError' \in {"none", "error", "abort"} BY <2>1, BlamesWhat
  <2> QED BY <1>0, <2>1, <2>2, <2>3, EndsUnwritten
<1>3. CASE Write(p)
  <2>1. /\ task[p] = "checking" /\ stash' = stash \cup {p} /\ drains' = Append(drains, p)
        /\ task' = [task EXCEPT ![p] = "writing"]
        /\ UNCHANGED <<userVars, loopVars, firstError, nextIdx, inWrite, rejected, through, result>>
    BY <1>3 DEF Write
  <2>2. AccountInv' /\ CallsMadeStay
    <3>1. CASE cancelled
      <4>1. Abort /\ UNCHANGED <<current, stage, faults>> BY <1>3, <3>1 DEF Write
      <4> QED BY <4>1, AbortStays
    <3>2. CASE ~cancelled
      <4>1. UNCHANGED schedulerVars BY <1>3, <3>2 DEF Write
      <4> QED BY <4>1, FaultStays DEF schedulerVars
    <3> QED BY <3>1, <3>2
  <2>3. /\ StartedInv' /\ PermitsInv' /\ ResultInv' /\ task' \in [Parts -> TaskStates]
        /\ task'[p] = "writing" /\ \A q \in Parts \ {p} : task'[q] = task[q]
    BY <2>1, <2>2, GoesOnInv DEF userVars, loopVars
  <2>4. p \notin Members(drains) /\ drains \in Seq(Parts)
    BY <1>0, <2>1 DEF WriterInv, TransferType
  <2>5. /\ drains' \in Seq(Parts) /\ Members(drains') = Members(drains) \cup {p} /\ Distinct(drains')
    <3>1. PICK d : d = Append(drains, p) OBVIOUS
    <3>2. d \in Seq(Parts) /\ Members(d) = Members(drains) \cup {p} /\ Distinct(d)
      BY <1>0, <2>4, <3>1, AppendOf DEF WriterInv
    <3> QED BY <2>1, <3>1, <3>2
  <2>6. drains' # <<>> BY <2>5, EmptyOf
  <2>7. TransferType'
    BY <1>0, <2>1, <2>3, <2>5 DEF TransferType, TaskStates, userVars, loopVars
  <2>8. WriterInv'
    <3>1. {q \in Parts : task'[q] = "writing"} = {q \in Parts : task[q] = "writing"} \cup {p}
      BY <2>3
    <3> QED BY <1>0, <2>1, <2>5, <2>6, <3>1 DEF WriterInv
  <2> QED BY <2>2, <2>3, <2>7, <2>8 DEF TransferInv
<1>4. CASE GetFailed(p)
  <2>1. /\ UNCHANGED <<schedulerVars, userVars, next, writerVars, through, result>>
        /\ task[p] = "requesting" /\ call[p].phase = "failed" /\ Blames(call[p].outcome) /\ Ends({p})
    BY <1>4 DEF GetFailed
  <2>2. AccountInv' /\ CallsMadeStay BY <2>1, FaultStays DEF schedulerVars
  <2>3. firstError' \in {"none", "error", "abort"} BY <1>0, <2>1, BlamesWhat DEF CallOK
  <2> QED BY <1>0, <2>1, <2>2, <2>3, EndsUnwritten
<1>5. CASE Saved(p)
  <2>1. /\ UNCHANGED <<userVars, next, writerVars, result>>
        /\ task[p] = "requesting" /\ Ends({p}) /\ through' = Append(through, p)
    BY <1>5 DEF Saved
  <2>2. AccountInv' /\ CallsMadeStay /\ firstError' \in {"none", "error", "abort"}
    <3>1. CASE cancelled
      <4>1. Blames("error") /\ Abort /\ UNCHANGED <<current, stage, faults>> BY <1>5, <3>1 DEF Saved
      <4> QED BY <4>1, AbortStays, BlamesWhat
    <3>2. CASE ~cancelled
      <4>1. UNCHANGED <<firstError, schedulerVars>> BY <1>5, <3>2 DEF Saved
      <4> QED BY <1>0, <4>1, FaultStays DEF schedulerVars
    <3> QED BY <3>1, <3>2
  <2>3. through' \in Seq(Parts) BY <1>0, <2>1, AppendOf
  <2> QED BY <2>1, <2>2, <2>3, EndsUnwritten
<1>6. CASE SaveFailed(p)
  <2>1. /\ UNCHANGED <<userVars, next, writerVars, through, result>>
        /\ task[p] = "requesting" /\ call[p].phase = "failed" /\ Blames(call[p].outcome) /\ Ends({p})
        /\ Abort /\ UNCHANGED <<current, stage, faults>>
    BY <1>6 DEF SaveFailed
  <2>2. AccountInv' /\ CallsMadeStay BY <2>1, AbortStays
  <2>3. firstError' \in {"none", "error", "abort"} BY <1>0, <2>1, BlamesWhat DEF CallOK
  <2> QED BY <1>0, <2>1, <2>2, <2>3, EndsUnwritten
<1> QED BY <1>1, <1>2, <1>3, <1>4, <1>5, <1>6 DEF TaskStep

\* The writer, and the user.
LEMMA WriterKeeps ==
    ASSUME TransferInv, Drain \/ Written \/ WriteFails \/ Cancel
    PROVE  TransferInv'
<1>0. /\ TransferType /\ AccountInv /\ StartedInv /\ PermitsInv /\ WriterInv /\ ResultInv
      /\ drains \in Seq(Parts) /\ nextIdx \in 0 .. TotalParts /\ task \in [Parts -> TaskStates]
      /\ firstError \in {"none", "error", "abort"}
  BY DEF TransferInv, TransferType, TaskStates
\* When the loop and the tasks stay, only the writer is to be looked at.
<1>1. ASSUME UNCHANGED <<balance, current, stage, call, aborted, kind, limit, loopVars, task, result>>,
             Fault \/ UNCHANGED faults, TransferType', WriterInv'
      PROVE  TransferInv'
  <2>1. AccountInv' BY <1>1, FaultStays
  <2>2. StartedInv' BY <1>0, <1>1 DEF StartedInv, loopVars
  <2>3. PermitsInv' BY <1>0, <1>1 DEF PermitsInv, TasksBounded, loopVars
  <2>4. ResultInv' BY <1>0, <1>1 DEF ResultInv, loopVars
  <2> QED BY <1>1, <2>1, <2>2, <2>3, <2>4 DEF TransferInv
<1>2. CASE Cancel
  <2>1. /\ cancelled' = TRUE /\ Fault
        /\ UNCHANGED <<balance, current, stage, call, aborted, kind, limit, loopVars, task, firstError,
                       writerVars, through, result>>
    BY <1>2 DEF Cancel
  <2>2. TransferType' /\ WriterInv'
    BY <1>0, <2>1 DEF TransferType, WriterInv, loopVars, writerVars
  <2> QED BY <1>1, <2>1, <2>2
<1>3. CASE Written
  <2>1. /\ inWrite /\ inWrite' = FALSE /\ nextIdx' = nextIdx + 1
        /\ through' = Append(through, nextIdx)
        /\ UNCHANGED <<schedulerVars, userVars, loopVars, task, firstError, stash, drains, rejected,
                       result>>
    BY <1>3 DEF Written
  <2>2. nextIdx \in Parts BY <1>0, <2>1 DEF WriterInv
  <2>3. nextIdx + 1 \in 0 .. TotalParts BY <2>2, Numbers DEF Parts
  <2>4. through' \in Seq(Parts) BY <1>0, <2>1, <2>2, AppendOf DEF TransferType
  <2>5. TransferType' BY <1>0, <2>1, <2>3, <2>4 DEF TransferType, userVars, loopVars
  <2>6. WriterInv' BY <1>0, <2>1 DEF WriterInv
  <2> QED BY <1>1, <2>1, <2>5, <2>6 DEF schedulerVars, userVars
<1>4. CASE WriteFails
  <2>1. /\ inWrite' = FALSE /\ rejected' = TRUE /\ Fault
        /\ UNCHANGED <<balance, current, stage, call, aborted, userVars, loopVars, task, firstError,
                       nextIdx, stash, drains, through, result>>
    BY <1>4 DEF WriteFails
  <2>2. TransferType' /\ WriterInv' BY <1>0, <2>1 DEF TransferType, WriterInv, userVars, loopVars
  <2> QED BY <1>1, <2>1, <2>2 DEF userVars
<1>5. CASE Drain
  <2>1. drains # <<>> /\ ~inWrite /\ UNCHANGED <<schedulerVars, userVars, next, rejected, through, result>>
    BY <1>5 DEF Drain
  <2>2. CASE /\ nextIdx \in stash \cap Empty
             /\ stash' = stash \ {nextIdx} /\ nextIdx' = nextIdx + 1
             /\ UNCHANGED <<loop, permits, task, firstError, drains, inWrite>>
    <3>1. nextIdx \in Parts BY <1>0, <2>2 DEF TransferType
    <3>2. nextIdx + 1 \in 0 .. TotalParts BY <3>1, Numbers DEF Parts
    <3>3. TransferType' BY <1>0, <2>1, <2>2, <3>2 DEF TransferType, userVars
    <3>4. WriterInv' BY <1>0, <2>1, <2>2 DEF WriterInv
    <3> QED BY <1>1, <2>1, <2>2, <3>3, <3>4 DEF schedulerVars, userVars, loopVars
  <2>3. CASE /\ nextIdx \in stash \ Empty
             /\ stash' = stash \ {nextIdx} /\ inWrite' = TRUE
             /\ UNCHANGED <<loop, permits, task, firstError, nextIdx, drains>>
    <3>1. nextIdx \in Parts \ Empty BY <1>0, <2>3 DEF TransferType
    <3>2. TransferType' BY <1>0, <2>1, <2>3 DEF TransferType, userVars
    <3>3. WriterInv' BY <1>0, <2>1, <2>3, <3>1 DEF WriterInv
    <3> QED BY <1>1, <2>1, <2>3, <3>2, <3>3 DEF schedulerVars, userVars, loopVars
  <2>4. CASE /\ drains' = Tail(drains) /\ Ends({Head(drains)})
             /\ IF rejected THEN Blames("error") ELSE UNCHANGED firstError
             /\ UNCHANGED <<nextIdx, stash, inWrite>>
    <3>1. PICK p : p = Head(drains) OBVIOUS
    <3>2. PICK d : d = Tail(drains) OBVIOUS
    <3>3. /\ p \in Members(drains) /\ d \in Seq(Parts) /\ Distinct(d)
          /\ Members(d) = Members(drains) \ {p}
      BY <1>0, <2>1, <3>1, <3>2, TailOf DEF WriterInv
    <3>4. p \in Parts /\ task[p] = "writing" BY <1>0, <3>3 DEF WriterInv
    <3>5. AccountInv' /\ CallsMadeStay BY <2>1, FaultStays DEF schedulerVars
    <3>6. StartedInv' /\ PermitsInv' /\ ResultInv'
      BY <2>1, <2>4, <3>1, <3>4, <3>5, EndsInv DEF userVars
    <3>7. /\ task' \in [Parts -> TaskStates]
          /\ task'[p] = "ended" /\ \A q \in Parts \ {p} : task'[q] = task[q]
          /\ permits' \in Nat /\ loop' \in {"top", "waiting", "woken", "acquired", "join", "over"}
      BY <2>1, <2>4, <3>1, <3>4, EndsKeeps DEF TaskStates, userVars
    <3>8. firstError' \in {"none", "error", "abort"} BY <1>0, <2>4, BlamesWhat
    <3>9. drains' = d BY <2>4, <3>2
    <3>10. TransferType'
      BY <1>0, <2>1, <2>4, <3>3, <3>7, <3>8, <3>9 DEF TransferType, TaskStates, userVars
    <3>11. WriterInv'
      <4>1. {q \in Parts : task'[q] = "writing"} = {q \in Parts : task[q] = "writing"} \ {p}
        BY <3>7
      <4> QED BY <1>0, <2>1, <2>4, <3>3, <3>9, <4>1 DEF WriterInv
    <3> QED BY <3>5, <3>6, <3>10, <3>11 DEF TransferInv
  <2> QED BY <1>5, <2>2, <2>3, <2>4 DEF Drain
<1> QED BY <1>2, <1>3, <1>4, <1>5

LEMMA TransferStep == TransferInv /\ [Next]_vars => TransferInv'
<1> SUFFICES ASSUME TransferInv, [Next]_vars PROVE TransferInv' OBVIOUS
<1>1. CASE Next BY <1>1, LoopKeeps, WriterKeeps, TaskKeeps, OutsideKeeps DEF Next
<1>2. CASE UNCHANGED vars
  <2>1. UNCHANGED schedulerVars BY <1>2 DEF vars
  <2>2. AccountInv' BY <2>1, FaultStays DEF schedulerVars
  <2>3. TransferType' /\ StartedInv' /\ PermitsInv' /\ WriterInv' /\ ResultInv'
    BY <1>2 DEF vars, schedulerVars, userVars, loopVars, writerVars, TransferInv, TransferType,
                StartedInv, PermitsInv, TasksBounded, WriterInv, ResultInv
  <2> QED BY <2>2, <2>3 DEF TransferInv
<1> QED BY <1>1, <1>2

\* The type invariant follows.
LEMMA TransferTypes == TransferInv => TypeOK
<1> SUFFICES ASSUME TransferInv PROVE TypeOK OBVIOUS
<1>1. TransferType /\ SchedulerInv /\ SchedulerType BY DEF TransferInv, AccountInv, SchedulerInv
<1>2. \A g \in Generations :
         /\ DOMAIN balance[g].sessions \subseteq 0 .. balance[g].nextId - 1
         /\ \A i \in DOMAIN balance[g].sessions :
               balance[g].sessions[i] \in [requested : 0 .. MaxWindow,
                                           window    : StartWindow .. MaxWindow,
                                           timeouts  : Nat]
         /\ balance[g].waiters \in Seq(Parts) /\ balance[g].flood \in BOOLEAN
  <2> TAKE g \in Generations
  <2>1. balance[g] \in Balances BY <1>1 DEF SchedulerType
  <2>2. balance[g].sessions \in [DOMAIN balance[g].sessions -> Loads]
    BY <2>1, SessionsType DEF Balances
  <2> QED BY <1>1, <2>1, <2>2 DEF SchedulerType, Balances, Loads
<1>3. call \in [Parts -> [phase : {"none", "ready", "flooded", "queued", "woken", "running",
                                   "answered", "got", "failed"},
                          gen : Generations, id : Nat, full : BOOLEAN,
                          outcome : {"none", "ok", "flood", "error", "timeout", "removed", "abort"},
                          attempt : 0 .. RequestRetries]]
  BY <1>1 DEF SchedulerType, Calls
<1> QED BY <1>1, <1>2, <1>3 DEF TypeOK, TransferType, SchedulerType

LEMMA TransferInvariant == Spec => []TransferInv
BY InitTransfer, TransferStep, PTL DEF Spec

\* The windows of every balance, whatever becomes of its sessions, and the semaphore of the
\* tasks count exactly what is under way (MediaScheduler.ts, BalancePolicy.ts).
THEOREM WindowsCount == Spec => []ChargesAccount
<1>1. TransferInv => ChargesAccount
  BY TransferTypes DEF ChargesAccount, TransferInv, AccountInv, PermitsInv
<1> QED BY <1>1, TransferInvariant, PTL

\* Who waits for a window is woken by a call under way, until the network is closed.
THEOREM WakersExist == Spec => []WaitersHaveWaker
<1>1. TransferInv => WaitersHaveWaker BY DEF TransferInv, AccountInv
<1> QED BY <1>1, TransferInvariant, PTL

-----------------------------------------------------------------------------
(* A transfer keeps the promises of FileTransfer *)

Done == {p \in Parts : task[p] \in {"writing", "ended"}}

\* Why a transfer stops.
ReasonsInv ==
    /\ firstError = "abort" => aborted
    /\ Download /\ aborted => cancelled
    /\ loop \in {"join", "over"} => next = TotalParts \/ Stopped

\* The parts of a download below nextIdx are in the file, and the others that came are in the
\* stash, or with the file, unless something failed.
OrderInv ==
    Download =>
    /\ Members(through) = {p \in Parts \ Empty : p < nextIdx}
    /\ \A p \in Parts : p < nextIdx \/ (inWrite /\ p = nextIdx) => p \in Done
    /\ stash \subseteq Done
    /\ \A p \in stash : p >= nextIdx /\ (inWrite => p # nextIdx)
    /\ firstError = "none" =>
          \A p \in Done : p \in stash \/ p < nextIdx \/ (inWrite /\ p = nextIdx) \/ rejected
    /\ drains = <<>> /\ ~rejected => nextIdx \notin stash
    /\ rejected => drains # <<>> \/ firstError # "none"

\* The parts of an upload that are saved are those whose tasks ended well.
SavedInv ==
    ~Download =>
    /\ \A p \in Parts : task[p] \notin {"checking", "writing"}
    /\ Members(through) \subseteq {p \in Parts : task[p] = "ended"}
    /\ firstError = "none" => {p \in Parts : task[p] = "ended"} \subseteq Members(through)

PassInv == TransferInv /\ ReasonsInv /\ OrderInv /\ SavedInv

LEMMA InitPass == Init => PassInv
<1> SUFFICES ASSUME Init PROVE PassInv OBVIOUS
<1>1. TransferInv BY InitTransfer
<1>2. Members(through) = {} BY NobodyWaits DEF Init
<1>3. Done = {} BY DEF Init, Done
<1>4. ReasonsInv BY DEF Init, SchedulerInit, ReasonsInv
<1>5. OrderInv
  <2>1. {p \in Parts \ Empty : p < nextIdx} = {} BY DEF Init, Parts
  <2>2. \A p \in Parts : ~(p < nextIdx) BY DEF Init, Parts
  <2> QED BY <1>2, <1>3, <2>1, <2>2 DEF Init, OrderInv
<1>6. SavedInv BY <1>2 DEF Init, SavedInv
<1> QED BY <1>1, <1>4, <1>5, <1>6 DEF PassInv

\* An upload writes nothing itself.
LEMMA UploadWrites ==
    ASSUME PassInv, ~Download
    PROVE  drains = <<>> /\ ~inWrite /\ \A p \in Parts : task[p] \notin {"checking", "writing"}
<1>1. Members(drains) = {} BY DEF PassInv, SavedInv, TransferInv, WriterInv
<1>2. drains = <<>> BY <1>1, EmptyOf DEF PassInv, TransferInv, TransferType
<1> QED BY <1>2 DEF PassInv, SavedInv, TransferInv, WriterInv

\* The order stays when the writer does and, unless something failed, the parts that came.
LEMMA OrderStays ==
    ASSUME OrderInv, UNCHANGED <<kind, through, writerVars>>, Done \subseteq Done',
           firstError' = "none" => firstError = "none" /\ Done' = Done
    PROVE  OrderInv'
<1> SUFFICES ASSUME Download' PROVE OrderInv' BY DEF OrderInv
<1>1. Download BY DEF Download
<1> QED BY <1>1 DEF OrderInv, writerVars

\* So do the parts saved.
LEMMA SavedStays ==
    ASSUME SavedInv, UNCHANGED <<kind, through, firstError>>,
           ~Download => \A p \in Parts : \/ task'[p] = task[p]
                                         \/ {task[p], task'[p]} \subseteq {"none", "requesting"}
    PROVE  SavedInv'
<1> SUFFICES ASSUME ~Download' PROVE SavedInv' BY DEF SavedInv
<1>1. ~Download BY DEF Download
<1>2. \A p \in Parts : (task'[p] = "ended") <=> (task[p] = "ended") BY <1>1
<1>3. {p \in Parts : task'[p] = "ended"} = {p \in Parts : task[p] = "ended"} BY <1>2
<1>4. \A p \in Parts : task'[p] \notin {"checking", "writing"} BY <1>1 DEF SavedInv
<1> QED BY <1>1, <1>3, <1>4 DEF SavedInv

LEMMA LoopPasses ==
    ASSUME PassInv, Loop
    PROVE  ReasonsInv' /\ OrderInv' /\ SavedInv'
<1>1. UNCHANGED <<userVars, firstError, writerVars, through, aborted>>
  BY DEF Loop, LoopTop, TakePermit, StartTask, Join, schedulerVars
<1>2. \A p \in Parts : task'[p] = task[p] \/ (task[p] = "none" /\ task'[p] = "requesting")
  <2>1. CASE LoopTop \/ TakePermit \/ Join BY <2>1 DEF LoopTop, TakePermit, Join
  <2>2. CASE StartTask
    <3>1. UNCHANGED task \/ (task' = [task EXCEPT ![next] = "requesting"] /\ loop = "acquired")
      BY <2>2 DEF StartTask
    <3>2. /\ \A p \in Parts : (task[p] = "none") <=> (p >= next)
          /\ next \in 0 .. TotalParts /\ task \in [Parts -> TaskStates]
      BY DEF PassInv, TransferInv, StartedInv, TransferType, TaskStates
    <3>3. \A p \in Parts : p = next => task[p] = "none" BY <3>2 DEF Parts
    <3> QED BY <3>1, <3>2, <3>3
  <2> QED BY <2>1, <2>2 DEF Loop
<1>3. Done' = Done BY <1>2 DEF Done
<1>4. OrderInv' BY <1>1, <1>3, OrderStays DEF PassInv, userVars
<1>5. SavedInv' BY <1>1, <1>2, SavedStays DEF PassInv, userVars
<1>6. Stopped' = Stopped BY <1>1 DEF Stopped, Download, userVars
<1>7. loop' \in {"join", "over"} => next' = TotalParts \/ Stopped
  <2>1. CASE LoopTop BY <2>1 DEF LoopTop
  <2>2. CASE TakePermit BY <2>2 DEF TakePermit
  <2>3. CASE StartTask BY <2>3 DEF StartTask
  <2>4. CASE Join BY <2>4 DEF Join, PassInv, ReasonsInv
  <2> QED BY <2>1, <2>2, <2>3, <2>4 DEF Loop
<1>8. ReasonsInv' BY <1>1, <1>6, <1>7 DEF PassInv, ReasonsInv, Download, userVars
<1> QED BY <1>4, <1>5, <1>8

\* Who stops goes on stopping.
LEMMA ReasonsStay ==
    ASSUME PassInv, UNCHANGED <<kind, next>>, loop' = loop \/ loop' = "woken",
           cancelled => cancelled', aborted => aborted',
           Download /\ aborted' => aborted \/ cancelled',
           firstError' = firstError \/ (firstError' = "error" /\ firstError = "none")
             \/ (firstError' = "abort" /\ aborted')
    PROVE  ReasonsInv'
<1>1. PassInv => ReasonsInv BY DEF PassInv
<1>2. firstError' = "none" => firstError = "none" OBVIOUS
<1>3. Stopped => Stopped' BY <1>2 DEF Stopped, Download
<1> QED BY <1>1, <1>3 DEF ReasonsInv, Download

LEMMA OutsidePasses ==
    ASSUME PassInv,
           \/ \E p \in Parts : Continue(p) \/ AnswerTo(p) \/ Fails(p)
           \/ Disconnect \/ Destroy
           \/ \E g \in Generations : FloodOver(g)
    PROVE  ReasonsInv' /\ OrderInv' /\ SavedInv'
<1>1. Untouched BY DEF Continue, AnswerTo, Fails, Disconnect, Destroy, FloodOver
<1>2. UNCHANGED aborted
  BY DEF Continue, AnswerTo, Fails, Disconnect, Destroy, FloodOver, CallStep, Attempt, FloodWaited,
         Resume, Returned, Threw, Reply, ReplyBadly, KeyBreaks, Purge, Close, CloseNetwork, FloodEnds
<1>3. UNCHANGED <<kind, cancelled, loop, next, task, firstError, writerVars, through>>
  BY <1>1 DEF Untouched, userVars, loopVars
<1>4. Done' = Done BY <1>3 DEF Done
<1>5. OrderInv' BY <1>3, <1>4, OrderStays DEF PassInv
<1>6. SavedInv' BY <1>3, SavedStays DEF PassInv
<1>7. ReasonsInv' BY <1>2, <1>3, ReasonsStay
<1> QED BY <1>5, <1>6, <1>7

\* A task that ends without a part blames the transfer.
LEMMA EndsBlamed ==
    ASSUME PassInv, NEW p \in Parts, task[p] \in {"requesting", "checking"}, Ends({p}),
           UNCHANGED <<kind, through, writerVars>>, firstError' # "none"
    PROVE  OrderInv' /\ SavedInv'
<1>1. task' = [q \in Parts |-> IF q = p THEN "ended" ELSE task[q]] BY DEF Ends
<1>2. Done \subseteq Done' BY <1>1 DEF Done
<1>3. OrderInv' BY <1>2, OrderStays DEF PassInv
<1>4. SavedInv'
  <2> SUFFICES ASSUME ~Download' PROVE SavedInv' BY DEF SavedInv
  <2>1. ~Download BY DEF Download
  <2>2. {q \in Parts : task[q] = "ended"} \subseteq {q \in Parts : task'[q] = "ended"}
    BY <1>1
  <2> QED BY <1>1, <2>1, <2>2 DEF PassInv, SavedInv
<1> QED BY <1>3, <1>4

LEMMA TaskPasses ==
    ASSUME PassInv, NEW p \in Parts, TaskStep(p) \/ CheckFails(p)
    PROVE  ReasonsInv' /\ OrderInv' /\ SavedInv'
<1>0. /\ TransferInv /\ OrderInv /\ SavedInv /\ CallOK(call[p]) /\ through \in Seq(Parts)
      /\ firstError \in {"none", "error", "abort"} /\ aborted \in BOOLEAN
      /\ task \in [Parts -> TaskStates] /\ drains \in Seq(Parts)
  BY SchedulerParts DEF PassInv, TransferInv, TransferType, AccountInv, SchedulerInv, SchedulerType,
                        TaskStates
<1>1. Ends({p}) => loop' = loop \/ loop' = "woken" BY DEF Ends
<1>2. CASE Got(p)
  <2>1. /\ UNCHANGED <<schedulerVars, userVars, next, firstError, writerVars, through, result>>
        /\ task[p] = "requesting" /\ Download
    BY <1>2 DEF Got
  <2>2. CASE firstError = "none"
    <3>1. task' = [task EXCEPT ![p] = "checking"] /\ UNCHANGED <<loop, permits>>
      BY <1>2, <2>2 DEF Got
    <3>2. Done' = Done BY <1>0, <2>1, <3>1 DEF Done, TaskStates
    <3>3. OrderInv' BY <1>0, <2>1, <3>2, OrderStays DEF userVars
    <3>4. SavedInv' BY <2>1 DEF SavedInv, Download, userVars
    <3>5. ReasonsInv' BY <2>1, <3>1, ReasonsStay DEF userVars, schedulerVars
    <3> QED BY <3>3, <3>4, <3>5
  <2>3. CASE firstError # "none"
    <3>1. Ends({p}) BY <1>2, <2>3 DEF Got
    <3>2. OrderInv' /\ SavedInv' BY <2>1, <2>3, <3>1, EndsBlamed DEF userVars
    <3>3. ReasonsInv' BY <1>1, <2>1, <3>1, ReasonsStay DEF userVars, schedulerVars
    <3> QED BY <3>2, <3>3
  <2> QED BY <2>2, <2>3
<1>3. CASE CheckFails(p)
  <2>1. /\ UNCHANGED <<aborted, userVars, next, writerVars, through>>
        /\ task[p] = "checking" /\ Blames("error") /\ Ends({p})
    BY <1>3 DEF CheckFails
  <2>2. firstError' # "none" /\ (firstError' = firstError \/ (firstError' = "error" /\ firstError = "none"))
    BY <2>1 DEF Blames
  <2>3. OrderInv' /\ SavedInv' BY <2>1, <2>2, EndsBlamed DEF userVars
  <2>4. ReasonsInv' BY <1>1, <2>1, <2>2, ReasonsStay DEF userVars
  <2> QED BY <2>3, <2>4
<1>4. CASE GetFailed(p)
  <2>1. /\ UNCHANGED <<schedulerVars, userVars, next, writerVars, through, result>>
        /\ task[p] = "requesting" /\ call[p].phase = "failed" /\ Blames(call[p].outcome) /\ Ends({p})
    BY <1>4 DEF GetFailed
  <2>2. /\ firstError' # "none"
        /\ \/ firstError' = firstError \/ (firstError' = "error" /\ firstError = "none")
           \/ firstError' = "abort" /\ aborted'
    BY <1>0, <2>1 DEF Blames, CallOK, schedulerVars
  <2>3. OrderInv' /\ SavedInv' BY <2>1, <2>2, EndsBlamed DEF userVars
  <2>4. ReasonsInv' BY <1>1, <2>1, <2>2, ReasonsStay DEF userVars, schedulerVars
  <2> QED BY <2>3, <2>4
<1>5. CASE SaveFailed(p)
  <2>1. /\ UNCHANGED <<userVars, next, writerVars, through, result>> /\ ~Download /\ aborted'
        /\ task[p] = "requesting" /\ call[p].phase = "failed" /\ Blames(call[p].outcome) /\ Ends({p})
    BY <1>5 DEF SaveFailed, Abort
  <2>2. /\ firstError' # "none"
        /\ \/ firstError' = firstError \/ (firstError' = "error" /\ firstError = "none")
           \/ firstError' = "abort" /\ aborted'
    BY <1>0, <2>1 DEF Blames, CallOK
  <2>3. OrderInv' /\ SavedInv' BY <2>1, <2>2, EndsBlamed DEF userVars
  <2>4. ReasonsInv' BY <1>1, <2>1, <2>2, ReasonsStay DEF userVars
  <2> QED BY <2>3, <2>4
<1>6. CASE Saved(p)
  <2>1. /\ UNCHANGED <<userVars, next, writerVars, result>> /\ ~Download
        /\ task[p] = "requesting" /\ Ends({p}) /\ through' = Append(through, p)
        /\ (aborted => aborted')
    BY <1>0, <1>6 DEF Saved, Abort, schedulerVars
  <2>2. firstError' = firstError \/ (firstError' = "error" /\ firstError = "none")
    BY <1>6 DEF Saved, Blames
  <2>3. ReasonsInv' BY <1>1, <2>1, <2>2, ReasonsStay DEF userVars
  <2>4. OrderInv' BY <2>1 DEF OrderInv, Download, userVars
  <2>5. PICK t : t = through' OBVIOUS
  <2>6. Members(t) = Members(through) \cup {p} BY <1>0, <2>1, <2>5, AppendOf
  <2>7. task' = [q \in Parts |-> IF q = p THEN "ended" ELSE task[q]] BY <2>1 DEF Ends
  <2>8. {q \in Parts : task'[q] = "ended"} = {q \in Parts : task[q] = "ended"} \cup {p} BY <2>7
  <2>9. \A q \in Parts : task'[q] \notin {"checking", "writing"} BY <1>0, <2>1, <2>7 DEF SavedInv
  <2>10. Members(through') \subseteq {q \in Parts : task'[q] = "ended"}
         /\ (firstError' = "none" => {q \in Parts : task'[q] = "ended"} \subseteq Members(through'))
    <3>1. /\ Members(through) \subseteq {q \in Parts : task[q] = "ended"}
          /\ firstError = "none" => {q \in Parts : task[q] = "ended"} \subseteq Members(through)
      BY <1>0, <2>1 DEF SavedInv
    <3>2. firstError' = "none" => firstError = "none" BY <2>2
    <3> QED BY <2>5, <2>6, <2>8, <3>1, <3>2
  <2>11. SavedInv' BY <2>9, <2>10 DEF SavedInv
  <2> QED BY <2>3, <2>4, <2>11
<1>7. CASE Write(p)
  <2>1. /\ task[p] = "checking" /\ stash' = stash \cup {p} /\ drains' = Append(drains, p)
        /\ task' = [task EXCEPT ![p] = "writing"]
        /\ UNCHANGED <<userVars, loopVars, firstError, nextIdx, inWrite, rejected, through, result>>
    BY <1>7 DEF Write
  <2>2. Download BY <1>0, <2>1 DEF SavedInv
  <2>3. (aborted => aborted') /\ (aborted' => aborted \/ cancelled)
    BY <1>0, <1>7 DEF Write, Abort, schedulerVars
  <2>4. ReasonsInv' BY <2>1, <2>3, ReasonsStay DEF userVars, loopVars
  <2>5. SavedInv' BY <2>1, <2>2 DEF SavedInv, Download, userVars
  <2>6. Done' = Done \cup {p} /\ p \notin Done BY <1>0, <2>1 DEF Done, TaskStates
  <2>7. drains' # <<>>
    <3>1. PICK d : d = Append(drains, p) OBVIOUS
    <3>2. d # <<>> BY <1>0, <3>1, AppendOf, EmptyOf
    <3> QED BY <2>1, <3>1, <3>2
  <2>8. ~(p < nextIdx) /\ ~(inWrite /\ p = nextIdx) BY <1>0, <2>2, <2>6 DEF OrderInv
  <2>9. p >= nextIdx
    <3>1. p \in Int /\ nextIdx \in Int BY <1>0 DEF Parts, TransferInv, TransferType
    <3> QED BY <2>8, <3>1
  <2>10. OrderInv'
    BY <1>0, <2>1, <2>2, <2>6, <2>7, <2>8, <2>9 DEF OrderInv, Download, userVars
  <2> QED BY <2>4, <2>5, <2>10
<1> QED BY <1>2, <1>3, <1>4, <1>5, <1>6, <1>7 DEF TaskStep

LEMMA WriterPasses ==
    ASSUME PassInv, Drain \/ Written \/ WriteFails \/ Cancel
    PROVE  ReasonsInv' /\ OrderInv' /\ SavedInv'
<1>0. /\ TransferInv /\ OrderInv /\ SavedInv /\ WriterInv /\ through \in Seq(Parts)
      /\ drains \in Seq(Parts) /\ nextIdx \in Nat /\ stash \subseteq Parts
      /\ \A p \in Parts : p \in Nat
  BY Numbers DEF PassInv, TransferInv, TransferType, Parts
<1>1. CASE Cancel
  <2>1. cancelled' /\ UNCHANGED <<aborted, kind, loopVars, task, firstError, writerVars, through>>
    BY <1>1 DEF Cancel
  <2>2. Done' = Done BY <2>1 DEF Done
  <2>3. OrderInv' BY <1>0, <2>1, <2>2, OrderStays
  <2>4. SavedInv' BY <1>0, <2>1, SavedStays
  <2>5. ReasonsInv' BY <2>1, ReasonsStay DEF loopVars
  <2> QED BY <2>3, <2>4, <2>5
\* The rest is a download's.
<1>2. ASSUME Drain \/ Written \/ WriteFails
      PROVE  /\ Download /\ Download' /\ UNCHANGED <<aborted, kind, cancelled, next>>
             /\ loop' = loop \/ loop' = "woken"
             /\ firstError' = firstError \/ (firstError' = "error" /\ firstError = "none")
  <2>1. drains # <<>> \/ inWrite BY <1>2 DEF Drain, Written, WriteFails
  <2>2. Download BY <2>1, UploadWrites
  <2>3. UNCHANGED <<aborted, kind, cancelled, next>>
    BY <1>2 DEF Drain, Written, WriteFails, schedulerVars, userVars, loopVars
  <2>4. loop' = loop \/ loop' = "woken" BY <1>2 DEF Drain, Written, WriteFails, Ends, loopVars
  <2>5. firstError' = firstError \/ (firstError' = "error" /\ firstError = "none")
    BY <1>2 DEF Drain, Written, WriteFails, Blames
  <2> QED BY <2>2, <2>3, <2>4, <2>5 DEF Download
<1>3. Drain \/ Written \/ WriteFails => ReasonsInv' /\ SavedInv'
  BY <1>2, ReasonsStay DEF SavedInv
<1>4. CASE Written
  <2>1. /\ inWrite /\ inWrite' = FALSE /\ nextIdx' = nextIdx + 1
        /\ through' = Append(through, nextIdx)
        /\ UNCHANGED <<task, firstError, stash, drains, rejected>>
    BY <1>4 DEF Written
  <2>2. nextIdx \in Parts \ Empty /\ drains # <<>> BY <1>0, <2>1 DEF WriterInv
  <2>3. PICK t : t = through' OBVIOUS
  <2>4. Members(t) = Members(through) \cup {nextIdx} BY <1>0, <2>1, <2>2, <2>3, AppendOf
  <2>5. Download BY <1>2, <1>4
  <2>6. Done' = Done BY <2>1 DEF Done
  <2>7. \A p \in Parts : (p < nextIdx') <=> (p < nextIdx \/ p = nextIdx) BY <1>0, <2>1
  <2>8. Members(through') = {p \in Parts \ Empty : p < nextIdx'}
    BY <1>0, <2>2, <2>3, <2>4, <2>5, <2>7 DEF OrderInv
  <2>9. \A p \in stash : p >= nextIdx'
    <3>1. \A p \in stash : p >= nextIdx /\ p # nextIdx /\ p \in Nat
      BY <1>0, <2>1, <2>5 DEF OrderInv
    <3> QED BY <1>0, <2>1, <3>1
  <2>10. OrderInv'
    <3>1. \A p \in Parts : p < nextIdx' => p \in Done'
      BY <1>0, <2>1, <2>5, <2>6, <2>7 DEF OrderInv
    <3>2. firstError' = "none" => \A p \in Done' : p \in stash' \/ p < nextIdx' \/ rejected'
      <4> SUFFICES ASSUME firstError' = "none", NEW p \in Done', ~(p < nextIdx'), ~rejected'
                   PROVE  p \in stash'
        OBVIOUS
      <4>1. p \in Done /\ p \in Parts BY <2>6 DEF Done
      <4>2. ~(p < nextIdx) /\ p # nextIdx BY <2>7, <4>1
      <4> QED BY <1>0, <2>1, <2>5, <4>1, <4>2 DEF OrderInv
    <3>3. stash' \subseteq Done' BY <1>0, <2>1, <2>5, <2>6 DEF OrderInv
    <3>4. drains' # <<>> /\ ~inWrite' BY <2>1, <2>2
    <3> QED BY <2>1, <2>8, <2>9, <3>1, <3>2, <3>3, <3>4 DEF OrderInv
  <2> QED BY <1>3, <1>4, <2>10
<1>5. CASE WriteFails
  <2>1. /\ inWrite /\ inWrite' = FALSE /\ rejected' = TRUE
        /\ UNCHANGED <<task, firstError, nextIdx, stash, drains, through>>
    BY <1>5 DEF WriteFails
  <2>2. drains # <<>> BY <1>0, <2>1 DEF WriterInv
  <2>3. Done' = Done BY <2>1 DEF Done
  <2>4. OrderInv' BY <1>0, <1>2, <1>5, <2>1, <2>2, <2>3 DEF OrderInv
  <2> QED BY <1>3, <1>5, <2>4
<1>6. CASE Drain
  <2>1. drains # <<>> /\ ~inWrite /\ UNCHANGED <<rejected, through>> /\ Download
    BY <1>2, <1>6 DEF Drain
  <2>2. CASE /\ nextIdx \in stash \cap Empty
             /\ stash' = stash \ {nextIdx} /\ nextIdx' = nextIdx + 1
             /\ UNCHANGED <<loop, permits, task, firstError, drains, inWrite>>
    <3>1. Done' = Done BY <2>2 DEF Done
    <3>2. \A p \in Parts : (p < nextIdx') <=> (p < nextIdx \/ p = nextIdx) BY <1>0, <2>2
    <3>3. Members(through') = {p \in Parts \ Empty : p < nextIdx'}
      BY <1>0, <2>1, <2>2, <3>2 DEF OrderInv
    <3>4. \A p \in stash' : p >= nextIdx'
      <4>1. \A p \in stash' : p >= nextIdx /\ p # nextIdx /\ p \in Nat
        BY <1>0, <2>1, <2>2 DEF OrderInv
      <4> QED BY <1>0, <2>2, <4>1
    <3>5. nextIdx \in Done BY <1>0, <2>1, <2>2 DEF OrderInv
    <3>6. OrderInv' BY <1>0, <2>1, <2>2, <3>1, <3>2, <3>3, <3>4, <3>5 DEF OrderInv
    <3> QED BY <1>3, <1>6, <3>6
  <2>3. CASE /\ nextIdx \in stash \ Empty
             /\ stash' = stash \ {nextIdx} /\ inWrite' = TRUE
             /\ UNCHANGED <<loop, permits, task, firstError, nextIdx, drains>>
    <3>1. Done' = Done BY <2>3 DEF Done
    <3>2. nextIdx \in Done BY <1>0, <2>1, <2>3 DEF OrderInv
    <3>3. OrderInv' BY <1>0, <2>1, <2>3, <3>1, <3>2 DEF OrderInv
    <3> QED BY <1>3, <1>6, <3>3
  <2>4. CASE /\ rejected \/ nextIdx \notin stash
             /\ drains' = Tail(drains) /\ Ends({Head(drains)})
             /\ IF rejected THEN Blames("error") ELSE UNCHANGED firstError
             /\ UNCHANGED <<nextIdx, stash, inWrite>>
    <3>1. PICK p : p = Head(drains) OBVIOUS
    <3>2. p \in Members(drains) BY <1>0, <2>1, <3>1, TailOf
    <3>3. p \in Parts /\ task[p] = "writing" BY <1>0, <3>2 DEF WriterInv
    <3>4. task' = [q \in Parts |-> IF q = p THEN "ended" ELSE task[q]] BY <2>4, <3>1 DEF Ends
    <3>5. Done' = Done BY <3>3, <3>4 DEF Done
    <3>6. rejected => firstError' # "none" BY <2>4 DEF Blames
    <3>7. firstError' = "none" => firstError = "none" BY <2>4 DEF Blames
    <3>8. UNCHANGED <<rejected, through, nextIdx, stash, inWrite>> /\ Download /\ Download'
      BY <1>2, <1>6, <2>1, <2>4
    <3>9. rejected \/ nextIdx \notin stash BY <2>4
    <3>10. OrderInv'
      <4>1. Members(through') = {q \in Parts \ Empty : q < nextIdx'} BY <1>0, <3>8 DEF OrderInv
      <4>2. /\ \A q \in Parts : q < nextIdx' \/ (inWrite' /\ q = nextIdx') => q \in Done'
            /\ stash' \subseteq Done'
            /\ \A q \in stash' : q >= nextIdx' /\ (inWrite' => q # nextIdx')
        BY <1>0, <3>5, <3>8 DEF OrderInv
      <4>3. firstError' = "none" =>
               \A q \in Done' : q \in stash' \/ q < nextIdx' \/ (inWrite' /\ q = nextIdx') \/ rejected'
        BY <1>0, <3>5, <3>7, <3>8 DEF OrderInv
      <4>4. /\ drains' = <<>> /\ ~rejected' => nextIdx' \notin stash'
            /\ rejected' => drains' # <<>> \/ firstError' # "none"
        BY <3>6, <3>8, <3>9
      <4> QED BY <4>1, <4>2, <4>3, <4>4 DEF OrderInv
    <3> QED BY <1>3, <1>6, <3>10
  <2> QED BY <1>6, <2>2, <2>3, <2>4 DEF Drain
<1> QED BY <1>1, <1>4, <1>5, <1>6

LEMMA PassStep == PassInv /\ [Next]_vars => PassInv'
<1> SUFFICES ASSUME PassInv, [Next]_vars PROVE PassInv' OBVIOUS
<1>1. TransferInv' BY TransferStep DEF PassInv
<1>2. CASE Next
  <2>1. ReasonsInv' /\ OrderInv' /\ SavedInv'
    BY <1>2, LoopPasses, WriterPasses, TaskPasses, OutsidePasses DEF Next
  <2> QED BY <1>1, <2>1 DEF PassInv
<1>3. CASE UNCHANGED vars
  <2>1. UNCHANGED <<kind, cancelled, loop, next, task, firstError, writerVars, through, aborted>>
    BY <1>3 DEF vars, schedulerVars, userVars, loopVars
  <2>2. Done' = Done BY <2>1 DEF Done
  <2>3. OrderInv' BY <2>1, <2>2, OrderStays DEF PassInv
  <2>4. SavedInv' BY <2>1, SavedStays DEF PassInv
  <2>5. ReasonsInv' BY <2>1, ReasonsStay
  <2> QED BY <1>1, <2>3, <2>4, <2>5 DEF PassInv
<1> QED BY <1>2, <1>3

\* The names of the abstract specification.
LEMMA FileNames ==
    /\ File!Through = Members(through)
    /\ File!Content = (IF Download THEN Parts \ Empty ELSE Parts)
BY DEF File!Through, File!Content, Members, Download

\* A good result has all its parts, or the user cancelled the download.
LEMMA JoinFinishes ==
    ASSUME PassInv, Join
    PROVE  File!Finish
<1>0. /\ loop = "join" /\ result' = Result /\ UNCHANGED <<kind, cancelled, through>>
      /\ \A p \in Parts : task[p] \in {"none", "ended"}
      /\ TransferType /\ StartedInv /\ WriterInv /\ ResultInv /\ ReasonsInv /\ OrderInv /\ SavedInv
  BY DEF Join, userVars, PassInv, TransferInv
<1>1. result = "none" BY <1>0 DEF ResultInv
<1>2. CASE Result = "bad" BY <1>0, <1>1, <1>2 DEF File!Finish
<1>3. CASE Result = "good"
  <2>1. SUFFICES Members(through) = File!Content \/ (Download /\ cancelled)
    BY <1>0, <1>1, <1>3, FileNames DEF File!Finish, Download
  <2>2. CASE Download /\ aborted BY <1>0, <2>2 DEF ReasonsInv
  <2>3. CASE ~(Download /\ aborted)
    <3>1. firstError = "none" BY <1>0, <1>3, <2>3 DEF Result, ReasonsInv
    <3>2. next = TotalParts BY <1>0, <2>3, <3>1 DEF ReasonsInv, Stopped
    <3>3. \A p \in Parts : ~(p >= next) BY <3>2, Numbers DEF Parts
    <3>4. \A p \in Parts : task[p] = "ended" BY <1>0, <3>3 DEF StartedInv
    <3>5. CASE ~Download
      <4>1. Members(through) = Parts BY <1>0, <3>1, <3>4, <3>5 DEF SavedInv
      <4> QED BY <3>5, <4>1, FileNames
    <3>6. CASE Download
      <4>1. Members(drains) = {} BY <3>4, <1>0 DEF WriterInv
      <4>2. drains = <<>> BY <1>0, <4>1, EmptyOf DEF TransferType
      <4>3. ~inWrite BY <1>0, <4>2 DEF WriterInv
      <4>4. ~rejected BY <1>0, <3>1, <3>6, <4>2 DEF OrderInv
      <4>5. nextIdx \notin stash BY <1>0, <3>6, <4>2, <4>4 DEF OrderInv
      <4>6. \A p \in Parts : p \in stash \/ p < nextIdx
        BY <1>0, <3>1, <3>4, <3>6, <4>3, <4>4 DEF OrderInv, Done
      <4>7. nextIdx \notin Parts
        <5> SUFFICES ASSUME nextIdx \in Parts PROVE FALSE OBVIOUS
        <5>1. nextIdx < nextIdx BY <4>5, <4>6
        <5>2. nextIdx \in Int BY <1>0 DEF TransferType
        <5> QED BY <5>1, <5>2
      <4>8. \A p \in Parts : p < nextIdx
        BY <1>0, <4>7, Numbers DEF Parts, TransferType
      <4>9. Members(through) = Parts \ Empty BY <1>0, <3>6, <4>8 DEF OrderInv
      <4> QED BY <3>6, <4>9, FileNames
    <3> QED BY <3>5, <3>6
  <2> QED BY <2>2, <2>3
<1> QED BY <1>2, <1>3 DEF Result

\* The file takes the next part of a download.
LEMMA WrittenPasses ==
    ASSUME PassInv, Written
    PROVE  \E p \in File!Content : File!Pass(p)
<1>0. /\ inWrite /\ through' = Append(through, nextIdx) /\ UNCHANGED <<kind, cancelled, result>>
      /\ TransferType /\ WriterInv /\ ResultInv /\ OrderInv
  BY DEF Written, userVars, PassInv, TransferInv
<1>1. Download BY <1>0, UploadWrites
<1>2. nextIdx \in Parts \ Empty /\ drains # <<>> BY <1>0 DEF WriterInv
<1>3. result = "none"
  <2>1. Head(drains) \in Members(drains) BY <1>0, <1>2, TailOf DEF TransferType
  <2>2. \E p \in Parts : task[p] = "writing" BY <1>0, <2>1 DEF WriterInv
  <2> QED BY <1>0, <2>2 DEF ResultInv
<1>4. File!Through = {p \in Parts \ Empty : p < nextIdx} /\ File!Content = Parts \ Empty
  BY <1>0, <1>1, FileNames DEF OrderInv
<1>5. nextIdx \in Int BY <1>2 DEF Parts
<1>6. nextIdx \notin File!Through /\ \A q \in File!Content : q < nextIdx => q \in File!Through
  BY <1>4, <1>5
<1>7. File!Pass(nextIdx) BY <1>0, <1>3, <1>6 DEF File!Pass
<1> QED BY <1>2, <1>4, <1>7

\* The server saves a part of an upload.
LEMMA SavedPasses ==
    ASSUME PassInv, NEW p \in Parts, Saved(p)
    PROVE  File!Pass(p) /\ p \in File!Content
<1>0. /\ ~Download /\ task[p] = "requesting" /\ through' = Append(through, p)
      /\ UNCHANGED <<kind, cancelled, result>> /\ ResultInv /\ SavedInv
  BY DEF Saved, userVars, PassInv, TransferInv
<1>1. result = "none" BY <1>0 DEF ResultInv
<1>2. p \notin File!Through BY <1>0, FileNames DEF SavedInv
<1>3. kind # "download" BY <1>0 DEF Download
<1> QED BY <1>0, <1>1, <1>2, <1>3, FileNames DEF File!Pass

LEMMA StepPasses ==
    PassInv /\ [Next]_vars => [File!Next]_<<kind, cancelled, through, result>>
<1> SUFFICES ASSUME PassInv, [Next]_vars
             PROVE  File!Next \/ UNCHANGED <<kind, cancelled, through, result>>
  OBVIOUS
<1>1. CASE Join BY <1>1, JoinFinishes DEF File!Next
<1>2. CASE Written BY <1>2, WrittenPasses DEF File!Next
<1>3. CASE \E p \in Parts : Saved(p) BY <1>3, SavedPasses DEF File!Next
<1>4. CASE Cancel
  <2>1. File!Cancel BY <1>4 DEF Cancel, File!Cancel
  <2> QED BY <2>1 DEF File!Next
<1>5. CASE LoopTop \/ TakePermit \/ StartTask \/ Drain \/ WriteFails \/ UNCHANGED vars
  BY <1>5 DEF LoopTop, TakePermit, StartTask, Drain, WriteFails, vars, userVars
<1>6. CASE \E p \in Parts : Got(p) \/ Write(p) \/ GetFailed(p) \/ SaveFailed(p) \/ CheckFails(p)
  BY <1>6 DEF Got, Write, GetFailed, SaveFailed, CheckFails, userVars
<1>7. CASE \/ \E p \in Parts : Continue(p) \/ AnswerTo(p) \/ Fails(p)
           \/ Disconnect \/ Destroy
           \/ \E g \in Generations : FloodOver(g)
  <2>1. Untouched BY <1>7 DEF Continue, AnswerTo, Fails, Disconnect, Destroy, FloodOver
  <2> QED BY <2>1 DEF Untouched, userVars
<1> QED BY <1>1, <1>2, <1>3, <1>4, <1>5, <1>6, <1>7 DEF Next, Loop, TaskStep

\* downloadFile and uploadFile over MediaScheduler implement FileTransfer: whatever retries,
\* floods, removals, time-outs, purges and closings a transfer meets, parts come through once,
\* those of a download in order, never after the result, and a good result misses none.
THEOREM PartsComeThrough == Spec => FileSpec
<1>1. Init => File!Init BY DEF Init, File!Init
<1>2. Spec => []PassInv BY InitPass, PassStep, PTL DEF Spec
<1>3. PassInv /\ [Next]_vars => [File!Next]_<<kind, cancelled, through, result>> BY StepPasses
<1> QED BY <1>1, <1>2, <1>3, PTL DEF Spec, FileSpec, File!Spec

=============================================================================
